# A verification project for the sol MQTT broker

The repository holds *sol*, an MQTT broker in C: one thread, one `epoll` loop,
a hash table of clients, a hash table of closures and a trie of topics. This
directory models its core in TLA+, checks the models with TLC on small
instances and proves the most important results with TLAPS for every instance.

## 1. Inventory

Sources are under `src/sol/src/`.

| component | state | operations | interacts with |
|---|---|---|---|
| connections and sessions (`server.c`) | `sol.closures`, `sol.clients`, the closures, the `sol_client` blocks, `info` | `on_accept`, `on_read`, `on_write`, `connect_handler`, `disconnect_handler` | called by the event loop; re-arm descriptors; both hash tables |
| topics and routing (`server.c`, `core.c`) | `sol.topics`: a list of subscribers per topic, each with a raw pointer to a client | `subscribe_handler`, `unsubscribe_handler`, `publish_handler`, `publish_stats` | handlers of `on_read`; write straight to other clients' sockets |
| event loop (`network.c`) | `el->events`, `el->periodic_tasks`, the epoll set | `evloop_wait`, `evloop_add_callback`, `evloop_rearm_callback_*`, `evloop_add_periodic_task` | calls closures and tasks |
| hash table (`hashtable.c`) | an array of entries, `size`, `table_size` | `put` with rehash, `get`, `del`, `release` | destructors free clients and closures |
| trie and list (`trie.c`, `list.c`) | a tree of characters with sorted child lists, `size` | insert, find, delete, prefix delete, prefix map | topics |
| codec (`mqtt.c`, `pack.c`) | none | pack and unpack of each packet | `on_read`, handlers |
| framing (`recv_packet`, `send_bytes`, `recv_bytes`) | bytes in flight, the buffer of `on_read`, `cb->payload` | read a packet, write a payload | sockets |
| configuration and `main` (`config.c`, `sol.c`) | `struct config` | defaults, options, lines of the file, the listening socket | the loop's timer, the size of the buffer |
| logging | none | - | - |

What is hard here is not parallelism, since one thread does everything. It is
the order in which events arrive: a callback frees the closure it runs in;
handlers hold raw pointers to clients that another connection's handler can
free; every descriptor is `EPOLLONESHOT`, so one path that forgets to re-arm
silences a connection for good; a batch of events is served after the state it
was collected in has changed; descriptors and memory are reused. What makes each
part correct:

* connections: no event reaches a freed closure, callback and event fit, tables
  own what they point to, nothing is freed twice, counters count; a stored reply
  is sent; a peer can come back;
* routing: messages reach everyone who subscribed and nobody else;
* event loop: each event runs the callback it belongs to, nobody starves;
* hash table, trie: they are the maps their headers promise;
* codec: the buffer computed beforehand is exactly what is written, decoding
  stays in bounds and inverts encoding, each block is freed once;
* framing: the reader keeps its place in the stream however bytes arrive, a packet
  is handed over entire and as it was sent, stores stay in the buffer, payloads go out
  whole;
* dispatch: each packet runs the handler of its type;
* start-up: each setting is what the operator said last.

The list of hazards, each at its line and with the properties aimed at it, is in
`PROJECT.json`.

## 2. Modules

```
KeyValue  <-refined by-  HashTable,  Trie          (what the two headers promise)
HashTable <- HashTableProofs,   Trie <- TrieProofs
Sessions  <-extended by- Broker                    (connections, then topics)
Sessions  <- SessionsProofs <- BrokerProofs -> Broker
EventLoop <-extended by- Server -extends-> Config  (start-up, then the loop)
Server    <- ServerProofs
Codec     <-extended by- Requests                  (lengths, then whole packets)
Requests  <- RequestsProofs                        (proofs about Codec too)
Framing   <- FramingProofs                         (one connection, byte by byte)
Induction    what the proofs know of induction and recursion
MC*          the instances for TLC
```

### Sessions: connections (`server.c`, `network.c`)

`sock[f]` is the kernel's view of descriptor `f`: the peer, whether it is gone,
the closure registered with epoll, the armed event. `cb[c]` is closure `c`
(`fd`, `obj`, `payload`, `call`), `closures` the set in `sol.closures`.
`heap[a]` is a `struct sol_client`; `clients` is `sol.clients`. `nclients` and
`nconnections` are the fields of `struct sol_info`.

One action per callback outcome: `on_accept`, with `on_accept_failed` and
`on_accept_leak` for the errors `on_accept` ignores; `on_read_exit`,
`on_read_errdc` and the handlers for `on_read`, each with its own statements on the
counters; `on_write`; `evloop_hangup` for
what the loop does itself on an error. `Drop` is the network.

Undefined behaviour is nondeterminism. Reading a freed block (`Deref`) yields
what was there, what a new owner put there, or garbage; or the process dies
(`Faults`, `Crash`). `on_accept` uses an uninitialized `conn.fd` after an error:
any descriptor or none.

What peers do is a parameter: `Ids[p]` are the identifiers `p` uses and `May[p]`
the liberties it takes (a second CONNECT, requests before CONNECT, bad bytes,
fragments, broken connections, ...). `Does` and `Says` are what `recv_packet` makes of
it. A body that is not there as a whole is handed over with what `malloc` left in the
rest of the buffer (`server.c:162`), and its remainder taken for the next packet: so a
peer whose packets arrive in pieces may seem to do anything (`Misread`) and to say
anyone's identifier, or the process dies of it. In Broker likewise its SUBSCRIBE or
PUBLISH may be anybody's (`Heard`).

### Broker: topics (`server.c`, `core.c`)

Extends Sessions. `topics` maps names, as sequences of levels, to subscriber lists.
`subscribe_tuple` is one round of the handler's loop with its flags `wildcard` and
`alloced`, which outlive the round; `visits` counts how often `recursive_subscription`
reaches a topic; `subscribed` runs all rounds. `publish_handler` and `publish_stats`
read every subscriber's client through `Deref` (`Readings`) and record in `out` the
packets that arrive. `filters` and `owed` are history variables: what the peer at a
descriptor subscribed to since it was accepted, and the names it may expect messages on.
What a filter may expect (`Asks`) is its own name and, for a `#` filter whose own name
is a topic already, every topic below it: for any other `#` filter the handler
subscribes to the name alone.

### EventLoop: `evloop_wait` (`network.c`)

`ready` is the kernel's list, `events` the array (with what earlier batches left
in it), `left` the entries still to serve. `task_at` is the search for a periodic
task, whose index hides the loop's. `reading` is the blocking `read` on a timer.
Sessions takes callbacks one at a time; `OneShot` is what justifies that: within
a batch no descriptor occurs twice and no callback can touch the entry of another.
In exchange Sessions leaves the timer out, so its results hold of the loop with
`task_at` corrected; what the loop as written does is the subject of this module.

### HashTable, Trie, KeyValue

HashTable is `hashtable.c` slot by slot: probing, holes, doubling (also of a table that
a rehash is filling).
`hashtable_put` and `hashtable_rehash` call each other; `pending` is the stack of these
calls, laid end to end: the entries that are still to be put, in the order in which the
code comes to them. `put` begins a call; `hashtable_put`, `hashtable_rehash` and `skip`
are its steps, and nothing else happens until it is over.
Trie names nodes by their path and keeps each child list, with the `len` that
`list.c` counts apart from the nodes, as the code's merge sort leaves it. Both are
shown to implement KeyValue, and each operation the operation of the map with its
name. `trie_prefix_map_tuple` is in Broker.

### Codec, Requests: packets (`mqtt.c`, handlers of `server.c`)

Codec packs and unpacks one PUBLISH, a step per iteration of the length loops. Requests
extends it to every type: a packet goes from `unpack_mqtt_packet` through its handler to
the reply (`step`). `Table` is the dispatch: the table of the source is `handlers`; the
run has every handler in its place, and the theorems hold for any table that gives
`disconnect_handler` no packet with fields, the source's included. `remaining` is
`remaining_bytes` of the loop over filters and `left` what is really left; `live` are
the blocks allocated on the way and `twice` those freed twice; replies go through
Codec's length loop, so that `size` and `written` can be compared for them too. A packet
whose length field has two bytes or more is not as it was sent when it is unpacked,
since `recv_packet` stored the body over the second: `unpack_misread` gives its handler
some strings or filters, or nothing defined. `Strays` are the filters that memory may be
taken for, then and behind a SUBSCRIBE (`unpack_behind`). What the handlers do to topics
and connections is Broker's and Sessions'.

### Framing: bytes (`server.c`, `network.c`)

One connection, a step per `recv` and `send`. `stream` is what the peer sends, `arrived`
how much of it the socket has seen, `read` how much `recv` has returned; bytes arrive
and room appears between any two steps. `buf` is `on_read`'s buffer with the two bytes
behind it, `buff` the length bytes, also those past its four, `top` the highest index
stored to: `recv_length` goes on as long as bytes have the continuation bit, and from
the fifth on may also end in undefined behaviour. `pc = "deaf"` is a descriptor that
nobody arms again, `"undefined"` what C leaves open. `publish` is a message that another
connection's handler sends to this socket between its callbacks. `starts`, `cut`,
`handed`, `full` and `split` are history variables. `Dispatched` are the first bytes for
which the tables of handlers have a function. The bytes that pass the first comparison,
1 to 14, have type 0, for which both tables hold NULL: in the code it is empty and every
packet ends in `dispatch_null`. The instances let some bytes through to see what
follows; the theorems hold for any `Dispatched`. Packet contents are bytes in base
`LenBase` instead of 128. A member of `Streams` is a sequence of bytes with the places
where its sender starts a packet; `Framed` says that the bytes between them are packets.
Only Synchronised depends on it: a peer may send anything.

### Config, Server: the program (`sol.c`, `config.c`, `server.c`)

Config is start-up: one step per option and per line of the file, then the
listening socket. A key is a sequence of words, since the code accepts any prefix of
a name; a value is its number, the unit behind it and its text. Levels are compared in
the same way, over the length of the value; `Beginnings` are the texts that pass for
each. Server composes it
with EventLoop: the timer runs with the interval that start-up left, and the loop
may end.

## 3. Runs

### Passing

| run | instance | properties | states |
|---|---|---|---|
| SessionsAny | 2 peers, 2 fds, 3 closures, 2 client blocks; peers share an identifier and do anything | TypeOK, Lockstep, TableOwnsClients, CountedClosures | 462k (symmetry) |
| SessionsGood | peers keep to the protocol, one of them given to bad bytes, early requests and packets that are too large; packets arrive whole; fair | NoDangling, Isolation, RepliesSent | 26k |
| SessionsRedial | one peer whose connection breaks again and again, 3 fds; fair | Reconnects | 51k |
| BrokerChurn | a subscriber that leaves, comes back and subscribes again, a publisher that vanishes, a packet of two filters, lists of 3 | BrokerTypeOK, SubscribersServed | 152k (symmetry) |
| BrokerStay | two subscribers, `#` filters on a name that is a topic and on one that may not be yet, a name and its twin with one slash more; nobody leaves | OnlySubscribers, SubscribersServed | 208k |
| ServerBatches | 5 command lines and 3 files, then 2 connections and a timer, batches of 2; fair | TypeOK, OneShot, Settled, FamilyFits, TasksRun, Reached, StatsPublished | 13k |
| HashTableMap | 5 colliding keys, 4 slots at the start, chains of 2: a rehash within the loop of a rehash | Counted, OwnsValues, RefinesMap | 1462 (symmetry) |
| TrieMap | 7 keys of up to 3 characters | SizeCountsKeys, WellFormed, RefinesMap | 4065 |
| RequestsLife | all 16 types; PUBLISH lengths around 127/128, 16383/16384 and 65535; up to 4 filters, and as many as need a second length byte; up to 127 filters misread; fair | FillsBuffer, DecodeInBounds, RoundTrip, ReadsAll, FreedOnce, Released, ReplyFits, Answered | 14k |
| FramingCycle | 12 streams of two packets, a buffer of 6 bytes, a socket with room for 3, replies of 2; fair | TypeOK, Synchronised, Legible, InBuffer, OutWhole, Delivered | 202k |

What they show: whatever peers do, the broker's own bookkeeping (events, closures,
client table, counters) stays consistent, and it is peers that share an identifier,
whose connections break or whose packets arrive in pieces, that turn it into dangling
pointers. With peers that keep to the protocol, if their packets arrive whole, nothing
dangles and nobody is disturbed. Every stored reply is written, and a peer that redials
gets in again after at most one refused CONNECT until leaks have used up the
descriptors. Messages reach everyone who asked for them; they reach nobody else as long
as no client leaves. Both stores are the maps their headers promise. If the dispatch is
mended, a packet with one length byte that has arrived as a whole, and that fits the
buffer, is read as it was sent and the connection armed again. Not so, and each of these
is in the models and the list below: a packet that arrives in pieces, one of 128 bytes
or more (its length field is overwritten by its body), one that fills the buffer but for
the header, a length field of more than four bytes, a handler that returns `REARM_R`, a
SUBSCRIBE (read past its end). A reply is whole unless the socket is full. Settings are
what the operator said last, where the lines of the file have values.

Bounds. Two peers and two descriptors are the least with reuse, takeover and a stranger
in a freed descriptor; a third closure lets a failed accept coexist with two
connections; two client blocks let one be freed and handed out again. `MaxList` bounds
subscriber lists, which grow with every SUBSCRIBE. A `#` filter puts two entries on
`$SOL/` and one on each topic below: with three a client that subscribed and left has
its stale entry next to those of its new session, on the topic that is published. A
batch of two is smaller than the three sources of events, so that the ready list
overflows. The hash table has its 4 slots at the start and chains of 2, not 8, so that
five keys fill chains and leave holes in them; two of the keys part only at 32 slots, so
that the table of 16 which a rehash is filling has to be rehashed itself, with the loop
at an entry in the middle. Trie keys give a node three children and chains with keys
inside. Lengths of PUBLISH and numbers of filters stand on both sides of every value at
which a field grows. Behind a SUBSCRIBE up to two filters are read before the count is 0
or the outcome `"undefined"`. `SizeMax = 1023` stands for the largest `size_t`: more
than any packet here holds, so that a count that goes below zero wraps to one that no
packet has. In Framing `LenBase = 4` makes a body of four bytes need a second length
byte; a buffer of six bytes takes a full length field and a byte more, the bodies end on
both sides of its end and of the check, a length field is longer than the buffer, and
two packets are the least for one to be misread after another. Two messages of two bytes
do not fit in a `Room` of three. `Kilo = 4` keeps the sizes of Config small; the files
set a key twice, abbreviate keys, leave values out, abbreviate a level and name one that
is not looked for.

Deadlock is checked where the system never stops (TrieMap). The others may stop:
the process can die, peers may all be silent, a table is released, a packet is dealt with.

Fairness. The loop never waits while an event is pending and serves the kernel's
list in order, so every armed, ready descriptor is served: weak fairness of
`Serve(f)` for each `f`. A descriptor is ready when its peer has sent something, so this
includes that a connected peer goes on to send: `Reconnects` is about peers that send
their CONNECT. EventLoop assumes only that the loop goes on (`Loop`)
and shows that it then comes to each ready entry (`Reached`). A peer that keeps
dialling is accepted: weak fairness of `on_accept` for each peer. Timers keep
expiring while their interval is not 0. Codec, Requests and Config are sequential
code. In Framing the callbacks go on (weak fairness of `Callbacks`), the network
delivers (`Arrive`) and a peer that is there reads (`Drain`). Messages of other
connections may come between any two callbacks of this one, so `on_read` and
`on_write` need strong fairness; the loop gives it, since it serves every ready
descriptor in its turn whatever the others do (`Reached`).

### Runs that contradict a comment of the source

* **BrokerStale** (`OnlySubscribers`). "Send payload through TCP to all subscribed
  clients of the topic": a client that disconnects is freed and stays in the
  subscriber lists, so the next PUBLISH goes to the peer that has its descriptor,
  or its memory, now.
* **EventLoopBatch** (`HandedOver`). "If this wasn't a timer, call the generic
  handler stored in closure": the search for a periodic task looks at the wrong
  entry of the batch, so a timer at the head of a batch takes the place of every
  other entry; a timer elsewhere in it is called as if its descriptor were a
  closure (`evloop_wild_call`).

### Other places where the code departs from its comments

The models reproduce these; the passing properties are stated where the code does what it
says, and no run is spent on the rest.

* `server.c:138` compares the whole first byte with the packet types, which are its upper
  half, so every well-formed packet is refused as "not correct" (`in_range`). The bytes
  that do pass, 1 to 14, have type 0, and `unpack_handlers[0]` is NULL (`dispatch_null`).
* `server.c:29`: the table `handlers`, with which `server.c:196` means to "execute the
  correct handler based on the type of the operation", lacks the entry for PUBREL. From
  there on each is one place low: SUBSCRIBE, UNSUBSCRIBE, PINGREQ and DISCONNECT call
  NULL, PUBREL runs `pubcomp_handler`, PUBCOMP `subscribe_handler` and PINGRESP
  `disconnect_handler` (`handlers`, `unhandled`).
* `server.c:183` means to "read all incoming bytes till an entire packet is recieved";
  `recv_bytes` stops at EAGAIN and a body cut short is handed over (`recv_done`; what
  handlers make of it, `Does` and `Says`). Properties with `~cut`, and WellBehaved, are
  about packets that were not.
* `server.c:162` stores the body over the length bytes after the first, where only
  `unpack_mqtt_connect` looks for it; `mqtt.c:158` has "Remaining Length (1-4 bytes)"
  before it. A packet of 128 bytes or more is misread (`unpack_misread`); Legible and
  ReadsAll are about length fields of one byte.
* `server.c:150` stores length bytes as long as they have the continuation bit, past
  `buff[4]` and past the buffer (`recv_length`).
* `server.c:158` sets the error "in case the total packet len exceeds max_request_size"
  and compares the length without the header, so that a packet may be stored past the
  buffer's end (`too_large`); InBuffer is about packets that fit.
* `mqtt.c:144` takes the QoS byte of a SUBSCRIBE filter off `len` and not off
  `remaining_bytes`, which the comment says are decremented "to keep count of what's
  left": the loop reads behind the packet (`unpack_behind`). ReadsAll says that the
  filters which were sent are there, before any others.
* `info.nclients`, the "Number of clients currently connected" (`server.h:27`), keeps
  counting a connection that broke; what it counts is closures (CountedClosures).
* `config.c:210` means to ignore a line without a value ("Fallback to default.") and tests
  the start of the line instead of its rest: the setting becomes 0 or empty
  (`config_line`), and with an interval of 0 the statistics stop. Settled is about
  settings whose lines have values.
* `server.c:210` tests `REARM_W` twice, so after a QoS 0 PUBLISH, for which
  `server.h:20` promises to "re-arm closure for reading", a connection is never
  read again (`publish_qos0`).
* `server.c:449` drops the newcomer and frees the client of the connection that
  holds the identifier; `server.c:466` says "kick him out" of the latter
  (`connect_double`).
* `server.c:186` releases nothing of a connection that broke, and `network.c:371`
  closes the low half of a pointer instead of the descriptor (`on_read_exit`,
  `evloop_hangup`).
* `info.nconnections`, the "Total number of clients connected since the start"
  (`server.h:29`), is decremented wherever `nclients` is.
* `wildcard` and `alloced` of `subscribe_handler` are not reset between filters,
  and a `#` filter on a name without a topic subscribes to nothing below it, although
  `server.c:555` has "subscribe to all children topics if the topic ends with "/#""
  (`subscribe_tuple`, `Asks`).
* `$SOL/broker/uptime/sol` has no slash at its end, `subscribe_handler` gives every
  name one, so nobody can subscribe to it by name (`SysNames` in MCBroker has both
  shapes).
* `hashtable_get` compares prefixes (`STREQ`).
* `mqtt.c:396` has room for one length byte, so a SUBACK of 126 codes or more is
  written past its buffer and loses its last code (`ReplyFits`).
* `config.c:147` tries three of the five levels, so INFO and INFORMATION, which
  `conf/sol.conf:15` offers, are ignored (`log_level`). `conf/sol.conf:5` says that
  the UNIX family is used "if unix_socket is set"; a later `ip_address` undoes it
  (`FamilyFits`).

## 4. Theorems

All for every value of the constants, under the named assumptions of the modules: `Fds`
a finite set of naturals, `Closures` finite, `NULL` not an element; lengths that fit an
unsigned short; SUBSCRIBE tuples with a filter of at least one level, finitely many
statistics' topics; a table with a slot and chains of at least one; finitely many trie
keys, none of them empty; values that are not `NULL`; a `handlers` table that gives
`disconnect_handler` only packets without fields, and levels whose names do not begin
alike; fewer filters than an unsigned short counts, those found in memory included, and
packets whose length a `size_t` holds; no more periodic tasks than `el->events` has
entries. TLC evaluates them on the instances.

**SessionsProofs.** `IInv` is the conjunction of TypeOK, Lockstep, TableOwnsClients and
CountedClosures. Neither the table nor the count is inductive alone: a callback runs on
the closure its descriptor is registered with, and only Lockstep says that this closure
is live and the descriptor's own, so that freeing it removes one element of the table
and leaves no event behind. One lemma per action shows that `IInv` is kept.
TypeCorrect, EventsAndClosuresInLockstep, ClientsOwnedByTable and ClosuresCounted
follow, whatever the peers do.

For `WellBehaved` peers `WInv` adds: no connection is broken,
open means registered, a peer has one descriptor, and a client's identifier is one of
its peer's. Together these make the "double CONNECT" branch unreachable, hence
OwnersKeepTheirClients (NoDangling) and, as an action property, ConnectionsIsolated.
`WellBehaved` also says that packets arrive whole. Without it both are false: a CONNECT
with somebody else's identifier, sent or read out of an old buffer, frees that client
(`connect_double`).

**BrokerProofs.** Every step of Broker is a step of Sessions, a crash or no step on the
connections (BrokerStep), so Lockstep and NoDangling carry over to the whole
broker (BrokerLockstep, BrokerNoDangling). Then the topics:

* SubscribedFacts is what a SUBSCRIBE with any number of filters does, by induction over
  the rounds of the loop: it keeps the subscribers there are, adds the client to all that
  its filters ask for, and to nothing but what they reach (`AfterRounds`).
* BrokerTypes (BrokerTypeOK), whatever peers do. `TInv` adds to `IInv` that topics are
  finitely many.
* PublishReachesSubscribers (SubscribersServed), for `WellBehaved` peers, which may leave
  and come back. The invariant is `Served`: for each name a connected peer is owed, the
  list has an entry whose client is allocated and has that peer's descriptor. It survives
  since entries are never removed, and since a callback frees its own client only, and
  only with its descriptor (ClientsKept); then `Readings` has no choice at that entry.
  Where connections break it is false: a takeover frees a client whose descriptor stays.
* PublishReachesOnlySubscribers (OnlySubscribers). The invariant is `Covered`: each entry's
  client is allocated and its peer subscribed to a filter that covers the name. It needs
  peers that do not leave (`Staying`; BrokerStale is the counterexample without it) and
  packets in which no filter follows a `#` filter that is none itself (`HashesLast`,
  since `wildcard` is not reset). The instance of BrokerStay satisfies both.

**RequestsProofs.** First the codec. `CInv` says that byte *i* of the length field is
the *i*-th group of seven bits and that the decoder's value is the length modulo the
next weight. PackFillsBuffer, DecodeStaysInBounds and PublishRoundTrip follow for all
lengths below 65536.

Then whole packets, for filters of any number and length.

* ReadsEveryFilter (ReadsAll): while filters are read, `remaining` is the bytes of the
  filters to come plus, for a SUBSCRIBE, one for each filter read (`Reading`). So it
  never wraps before the last filter and is 0 there for UNSUBSCRIBE only. The length
  field has one byte; for longer ones the filters are whatever memory holds, and only
  their types are known (`Given`).
* FreesTwiceJustAfterCopy (FreedOnce) from `Blocks`, which follows the rounds of
  subscribe_handler; NothingLeft (Released) from `Memory`, the blocks that can be
  allocated at each stage of a packet.
* RepliesFit (ReplyFits): `Answer` relates the bytes that are left of a length in
  mqtt_encode_length to those written. RequestsCodec carries the results about the codec
  over to the composition.

**FramingProofs.** For every stream, however it arrives and is interrupted. `IInv` adds
to TypeOK what each `pc` implies for `buff`, `total` and `tlen` (`Phases`), that `top` is
bounded by the length bytes, however many come, or by the body (`Stored`), and that the
buffer holds what the stream has behind `Base`, the start of the packet, counted back from
`read` (`Held`).
TypeCorrect, BufferKept (InBuffer), PacketsLegible (Legible) and PayloadsWhole (OutWhole)
follow. ReaderSynchronised (Synchronised) assumes `Framed` and adds `Placed`: until a
packet is cut short, `Base` is where one starts. The length bytes read are then those
of `Framed`, since both end at the first one without a continuation bit, and
mqtt_decode_length gives the number that they announce (DecodeNat).

**ServerProofs.** LoopTypes and LoopOneShot (TypeOK and OneShot of EventLoop) for the
composition with start-up: the connections that are armed, ready and in the batch are
apart, and each is in its sequence once. SettingsSettled and FamilyFitsName (Settled,
FamilyFits), for any command line and file: after *m* options and *n* lines each setting
is the last word on it in those (`Applied`), and so are the log level and the family,
which several names or texts bear on (`Chosen`); `Startup` says how far start-up is. Where
a line has no value the last word is not what the comment promises, so Settled is about
the names whose lines have one.

**HashTableProofs.** For any keys, hashes, initial size and chain length.

* TableCounted (Counted) holds whether or not one key is a prefix of another. Its
  invariant `CInv` is TypeOK (the shape of table and pending) and Counted.
* The others assume `Exact`: no key is a prefix of another (`PrefixOf = {}`); where one
  is, `hashtable_hash` can store it in the other's slot, and they are false. `MInv` adds
  that each entry is within `MaxChain` of its home (`Reachable`), that entries in
  the table or pending have different keys and values (`Apart`), and that their values
  are the live ones. The set of these entries (`Held`) is what a put adds one element
  to, del takes one from, and the steps of a rehash leave as it is, however deeply
  they are nested. TableOwnsValues (OwnsValues) follows, and TableIsMap (RefinesMap):
  `find` returns the slot of the key, if there is one.
* CollidingKeysNeverFit: at most `MaxChain` entries of the table have the same hash,
  since doubling does not part them. A put of one more never returns.

**TrieProofs.** For any finite set of keys.

* The sort: FirstsRecursion and SortRecursion say that the two recursive functions
  exist, MergeFacts and MergeSorted that merging sorted lists without a common node
  gives the sorted list of their nodes, SortFacts the same of sorting.
* The tree: `Grown` says of a tree that its lists are sorted and counted, that
  a node's list names just its children, that every node but the root has its
  parent, and that data are those of keys. Then a path is found from the root
  just when it is a node (FoundIff), which `linear_search` owes to the sorting.
  InsertFacts, DeleteFacts and PrefixDeleteFacts are what the operations do to a tree:
  they keep it grown and change the data under one key, or under all with a prefix.
  What climbing up from a deleted key prunes is closed downwards (EligibleFacts): a
  node that goes has no child but the one that went before it.
* `TInv` is `Grown` with `size` as the number of keys that have data. TrieWellFormed,
  TrieCountsKeys and TrieIsMap (WellFormed, SizeCountsKeys, RefinesMap) follow.

**Induction** has the facts the others rest on where a definition is a recursive function
or a property an induction over a sequence: a set of naturals that has 0 and is closed
under successor has them all, and a first value and a step for each index define a
function. Induction is stated for sets and recursion for functions, which the provers can
instantiate, unlike the library's theorems with an operator as parameter. The recursive
functions are `Keep` (EventLoop), `SentBytes` (Requests), `subscribed` (Broker),
`merge_tnode_list` and `merge_sort_tnode` (Trie).

In the encoding that the SMT backend is given, every value has a domain `1..Len`, which a
function on `0..n` contradicts. The proofs keep such functions and `Len` apart by hidden
definitions, and were also checked with that axiom restricted to sequences.

Only model-checked: liveness (RepliesSent, Reconnects, Reached, TasksRun, Answered,
Delivered, StatsPublished), which the prover cannot do. Every other property of a passing
run is a theorem.

## 5. What is not modelled

* The code does not compile as committed (misspelt identifiers such as
  `clinet_closure`, missing includes). They are read as what they obviously mean.
* `recv_packet` compares the whole first byte with packet types, so no packet
  passes it. Sessions and Broker start where `on_read` hands a packet to a
  handler, and keep recv_packet's error returns as outcomes. Likewise Broker starts
  from the filters of a SUBSCRIBE, although the loop that reads them overruns.
  Framing has the comparison, and its packets have first bytes that pass it; the
  dispatch, which none of those survives, is its parameter `Dispatched`. Likewise
  Sessions and Broker give a packet to the handler of its type, as if `handlers` had all
  its entries; Requests has the table. Identifiers, filters and topics in Sessions and
  Broker are those of packets with one length byte, or of packets in pieces, which may be
  read as any.
* `malloc` does not fail. Sessions and Broker write a payload whole or lose it; what
  a full socket does to it is in Framing.
* Numbers of the configuration fit an `int`, lines fit the 254 characters of the
  buffer, and values fit the arrays they are copied to.
* Client identifiers are prefix-free in Sessions and Broker (`hashtable_get`
  compares prefixes). Topic and payload hold no NUL.
* The handlers for PUBACK, PUBREC, PUBREL, PUBCOMP and PINGREQ are declared and
  defined nowhere. `session.subscriptions` of a client is created and never read.
* Logging, the formatting of statistics, sizes and times, `generate_uuid`.
* Functions without a caller that runs: `list_push_back`, `list_remove_node`,
  `list_sort_insert` and the iterator, `hashtable_map2`, `trie_release`,
  `topic_del_subscriber`, `sol_topic_del`.

## 6. Plan

Done, in this order: Sessions and its proofs, Broker, EventLoop, HashTable and
Trie against KeyValue, Codec and its proofs, Framing, Requests, the lists of the
trie with their `len`, Config and its composition with the loop in Server; then the
proofs of Framing, Server, Requests, Broker, HashTable and Trie.

What is left of the code has no state of its own or no caller; what is left of the
properties is liveness.
