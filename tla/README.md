# RedVector in TLA+

A verification project for RedVector, a Redis-compatible server with vector
search written in Rust. The modules model the server's shared core (the
keyspace behind one mutex, the commands that change it, transactions, blocking
pops, publish/subscribe, the append only file), the values behind it (sorted
sets, bytes and bits), the tiered store of vector segments with its files, and the vector
indexes with the services in front of them. TLC checks small instances. TLAPS proves for all of
them the type invariants of the server and of its log; that no wake-up and no timeout is lost; the isolation of EXEC and, for the commands
that keep to it, the soundness of WATCH; what the keyspace stores and that expired keys are as good as missing; the
registrations and streams of publish/subscribe; that the append only file grows and gives back what was there; that the
tiered store implements its specification and its cache's accounts are right; that Qdrant collections survive a crash; and that
searches of the vector services and indexes tell what is there and what was stored.
`PROJECT.json` lists every component, run, mutant, theorem, finding and
hazard, and maps each definition to the lines it models.

    tlc -workers 2 -config Watch.cfg MCServer     # a run
    tlapm ServerProofs.tla                        # the proofs

## 1. The system

### Components

| component | source | state | operations |
|---|---|---|---|
| keyspace | `database/src/lib.rs` | per database: `data`, `data_expiration_ms`, `watched_keys`, `key_subscribers`, LRU clocks; `used_memory` | `get`, `get_mut`, `get_or_create`, `remove`, `clear`, `set_msexpiration`, `key_updated`, `key_watch`, `key_subscribe`, `active_expire_cycle`, `evict_keys`, `scan` |
| values | `database/src/{string,list,set,zset,hash,bloom,vector_index}.rs` | the value of a key | one method for each data operation |
| commands | `command/src/command.rs` | `Client`: `dbindex`, `multi`, `multi_commands`, `watched_keys`, the two maps of subscriptions | `command` and `execute_command`, one function for each of some 200 commands |
| publish/subscribe | `database/src/lib.rs`, `command.rs` | `subscribers`, `pattern_subscribers`, the clients' maps, a channel for each client | `subscribe` ... `publish` |
| append only file | `persistence/src/aof.rs`, `command/src/aof.rs` | the file, its offset, the database last selected in it | `write`, `select`, `truncate`, `load` |
| threads | `networking/src/lib.rs` | a reader and a writer thread for each client, listeners, the hz thread | `Client::run`, `Server::start`, `stop` |
| parser | `parser/src/lib.rs` | a buffer with `position` and `written` | `allocate`, `is_incomplete`, `next` |
| rvf2 store | `redisearch-platform-core/src/rvf2/{tiered_store,prefetch,object_store}.rs` | hot files, an LRU cache over files, an object store | `get_segment`, `pin`, `unpin`, `upload`, `prefetch` |
| rvf2 files | `rvf2/{segment,manifest,doc_index,codec,maxsim}.rs` | records in segments, the list of segments, the index of documents | `add_record`, `get_record`, `add_segment`, `find_segment`, `get` |
| vector index | `redisearch-platform-core/src/{vector_index,persistent_index,storage,quantization}.rs` | a flat or HNSW index, codes, a redb table with a cache | `add`, `add_batch`, `search`, `remove`, `train_quantizer`, `snapshot` |
| FT commands | `command/src/ft_commands.rs` | `INDEX_STORAGE`, the keys `ft:meta:<name>` | `FT.CREATE`, `FT.ADD`, `FT.SEARCH`, `FT.DEL`, `FT.DROP` |
| kernels | `simd_metrics.rs`, `gpu/` | flat and inverted-file indexes in padded buffers | distances; `add`, `train`, `search` |
| API | `src/api.rs`, `src/qdrant_api.rs` | collections over HNSW indexes; the Qdrant one keeps a file for each | REST, gRPC and Qdrant handlers |
| the rest | `config`, `logger`, `response`, `util`, `compat`, `rdbutil` | read once or none | parsing, formatting, system calls |

### How they interact

Every client has a thread. It parses a request, locks the one
`Mutex<Database>`, runs the whole handler, logs the command to the append only
file and unlocks; the reply goes through an mpsc channel to the client's writer
thread. The hz thread locks the same mutex to remove expired keys. A handler that panics
poisons the mutex, and every other thread leaves or panics at its next lock.

Three kinds of messages pass the mutex by. A blocking pop that finds nothing
leaves a sender in `key_subscribers` and two threads, a waker and a timer, that
both send to the command channel its client thread waits on; a repeated command
is executed as if it had come from the socket. PUBLISH sends to the channels of
the writer threads. MONITOR keeps senders of its own.

A task of the tiered store awaits the file system between its steps, and other tasks,
which share files and cache with it, run in between. The vector indexes, the API and the Qdrant
service each sit behind a mutex of their own; what outlives the process are the redb file
of a persistent index and the JSON file of a Qdrant collection.

`Server::start` opens its listeners, starts the hz thread and then locks the mutex to load
the append only file through the same `command` function the clients use.

### What is hard about it

* *Notification.* WATCH and blocking pops depend on every path that changes a
  key ending in `key_updated`. There are some hundred such paths and no test per path.
* *Stale state.* A key past its expiration stays in the map until something
  touches it by the right method; value and expiration are in two maps.
* *Races outside the mutex.* Waker against timer against another client's pop,
  then a retry that blocks again, with what is left of a timeout.
* *Registrations that outlive their owner.* Senders and watch entries in the
  database belong to clients that unsubscribe, leave or never come back.
* *Restart.* The file is what the clients' histories are rebuilt from: each change has
  to be in it once, in order, in its database.
* *Panics.* One handler's panic ends the service.
* *Two structures for one thing.* A sorted set is a skip list and a map, a collection
  its points and an index, a stored vector an entry of a cache and a row of a table.
  Each is changed by several steps, any of which may fail.
* *Edges of ranges.* Open and closed, negative, reversed, in bytes or bits, past either
  end, and past the end of a machine word, where a release build wraps.
* *Files that are shared.* Two fetches of a segment write one file, that a third has mapped.

### What makes each component correct

* keyspace: an expired key is a missing one for every command; an expiration
  goes with its key; nothing empty is stored.
* transactions: a watched key that was modified, by anybody and in any way, stops its EXEC; nobody
  comes in between two commands of an EXEC.
* blocking pops: no client sleeps beside an element; each is eventually served
  or overtaken; a timeout ends every wait that has one.
* publish/subscribe: registrations and the clients' own maps agree; a message
  comes only between the confirmations of its subscription; a writer thread
  ends with its client.
* append only file: it only grows; loading it gives back what was there.
* values: both structures of a sorted set say the same; a range that is removed is
  the range that is read; a write lands where the read looks.
* tiered store: a read that nobody disturbs answers a whole uploaded version; the
  cache's accounts cover what it holds.
* rvf2 files: a document that was added is found, with its own bytes.
* vector indexes and services: an answer tells the vector that was stored last, and nothing that was
  removed; a restart gives back what was answered.

## 2. The modules

| module | models | state and actions |
|---|---|---|
| `Database` | `struct Database` and its methods; strings, lists, sets and hashes of `Value` | operators over a record: `data`, `exp`, `watched`, `subs` are the maps, `sent` the key channels that hold a wake-up, `now` the clock |
| `Collections` | the handlers of `command.rs` on sets, hashes, lists changed in place and several keys at once, with the methods of `set.rs`, `hash.rs` and `list.rs` they call | EXTENDS `Database`; one operator per handler, `OnList` and `SetStore` where several share a shape |
| `Commands` | the other handlers of `command.rs` that write keys: strings, expirations, keys, pushes, pops, blocking commands | EXTENDS `Collections`; one operator per handler, composed of the methods in the order the code calls them, with its early returns; `Handler` is the dispatch |
| `Server` | client, waker, timer and hz threads around the mutex | EXTENDS `Commands`; one action per request, per step of EXEC, per message and per thread |
| `PubSub` | registrations, the clients' maps, the writer threads | one action per command, `Close` and `Cleanup` for the end of `Client::run`, `Write` and `WriterEnd` for the writer thread |
| `Aof` | logging, kill, restart, load | one action per request, `Crash`, `BeginLoad`, `LoadEntry`, `LoadJunk`, `LoadEnd` |
| `SortedSets` | `zset.rs` and the sorted set commands | EXTENDS `Database`; a sequence for the skip list beside the map, one operator per method and handler |
| `Strings` | the byte and bit operations of `string.rs`, BITOP, LREM, SORT, bloom filters | EXTENDS `SortedSets` |
| `Values` | a client that sends these commands | one action, `Request`; the handlers are those of the two modules above |
| `SegmentService` | what a store of segments promises | `Ask`, `Return`, `Finish`, and what may spoil a segment |
| `TieredStore` | `tiered_store.rs` over `LocalFsStore` | one action per step between two awaits or file system calls, `WriteFails`, `Crash`; implements `SegmentService` |
| `SegmentFiles` | segments, manifest, document index, coalescing of a prefetch | operators, and the steps of a writer: `AddDocument`, `SealSegment`, `MarkTombstone` |
| `Kernels` | SIMD kernels, MaxSim, codecs and quantisers | operators over integers, compared as `operands` grow |
| `GpuIndexes` | `gpu/`: flat index, inverted file | EXTENDS `Kernels`; `add`, training, `clear` |
| `HnswIndex` | the value of `database/src/vector_index.rs` | operators; used by the two services and `VectorIndex` |
| `ApiServer`, `Qdrant` | the REST and gRPC handlers; the Qdrant handlers and their files | one action per handler that changes something, and per step on the disk |
| `VectorIndex` | `PersistentVectorIndex` and its storage | one action per call, each with a commit that may fail |
| `Search` | FT.* | EXTENDS `VectorIndex`; the keys, `INDEX_STORAGE`, the files |
| `SortedLists` | `sort_by`, `sort_by_key`, `retain` and `filter` of the standard library | `InOrder`, `StableOrder`, `Keep`: what a sort and a filter give, used where proofs are about it |
| `MCServer`, `MCPubSub`, `MCAof`, `MCValues`, `MCRvf2`, `MCVectors` | small instances | command sets and definitions for the configurations |
| `Induction`, `CommandsProofs`, `ServerProofs`, `KeyspaceProofs`, `PubSubProofs`, `AofProofs`, `Rvf2Proofs`, `VectorProofs` | theorems | section 6 |

`Server` composes the keyspace, the commands and the threads. `PubSub` shares
the mutex with it and nothing else: its commands touch no key and key commands
touch no channel while keyspace notifications are off, as they are by default.
`Aof` has a keyspace of its own, one list for each database: what the file must
rebuild depends on which commands are logged, when, and in which database, and
not on what they are. `Values` has one client: what the commands do to a value does not depend on who sends
them, and how they interleave is `Server`'s question.

`MCRvf2` composes `SegmentFiles` and `TieredStore`: an index is written and closed, or a prefetch
made, and then its segments are served. `MCVectors` puts machines beside each other that share
nothing in the code either (kernels, GPU indexes, API, Qdrant service, persistent index, FT
commands) and runs each with the others at rest.

### Granularity

A handler is one step, since it runs under the mutex from its first line to its
last. EXEC is the exception: it keeps the mutex (`lock`), and takes one step
for each queued command, so that the steps which need no mutex (wakers, timers,
clients that close) fall in between, and so that isolation is something the
model can violate. Reading a socket takes a step in `Aof`, where it matters how
many commands come at once, and none in the other modules.

In `TieredStore` a step ends at each await and after each call to the file system.
`tokio::fs::write` is two of them: it truncates the file when it opens it, and then writes from its start, over
whatever another task wrote meanwhile (`Spliced`: behind fewer bytes stays the tail of more). `tokio::fs::read`
is two as well, and what it reads of an object that is put anew between them is spliced in the same way. A file that is
removed while a pin has it open is written and found by nobody (`WriteOrphan`). In `Qdrant` the
handler's change of memory is one step, since it holds the mutex, and each step on
the disk is one, since the process may end in between.

### What a client of the module should know

* Values are strings, lists, sets and hashes. Set members, hash fields and list
  elements are told apart and nothing more; a hash maps its fields to numbers or
  to texts that are none. The random draw of SPOP is an order on the members, an
  argument of the command. A string keeps the number its text reads as and
  whether it is stored as text, which is all INCR tells apart: `parse_utf8`
  takes no number that begins with a 0, so that a SET to 0 stays text and INCR refuses it.
* `IntMax` stands for the largest 64-bit integer; `checked_add` fails beyond it.
* `MsPerSec` scales a second: timeouts are in seconds in a request and in
  milliseconds in the waker.
* Replies are kept to what decides the next step: nil, error, or neither.
* Client identifiers are never reused (`next_id` only grows), so a client that
  left does not come back.
* A blocking command's timeout is not negative. `maxmemory` is unset, so
  nothing is evicted. The hz thread may remove any set of expired keys, which includes
  what its sampling picks.
* The senders an ended wait leaves in `key_subscribers` have no receiver; they
  are left out.
* A score is a small integer, `Inf`, `-Inf` or `NaN`; members of a sorted set are
  numbers, which stand for texts in their order. `USize` stands for the range of a machine word and
  wraps. A byte is the set of its 1 bits, `Width` of them.
* Vectors are names with a table of distances in `HnswIndex` and above it, and short
  sequences of integers in `Kernels` and `GpuIndexes`. An HNSW search finds any nodes of its graph: how well it
  searches is no question for these modules, what it tells of what it found is.
* A segment's contents are a version; `Empty` is a file that was truncated, `Torn` one that holds
  a part of a version or parts of two. A mapping shows what its file holds now.
* A half has `SignificandBits` bits and no exponent beyond `MaxExponent`, in units of its smallest number; a scale above
  that is `Infinity`, what is scaled by it `Infinity`, `NegInfinity` or `NaN`. Nothing else rounds.
  `CodeValues` is how many codes a byte has.
* `dirty` and `due` in `Server`, `told` in `PubSub`, `saved` and `plain` in `Aof`, `published`,
  `spoiled`, `alone` and `answer` in `TieredStore`, `stored` in `VectorIndex` and `unsaved` in `Qdrant` are
  history: no action reads them but to keep them, and the bound `MaxSpoiled` on one of them.

## 3. What is checked

Passing runs:

| run | configuration | properties | what it shows |
|---|---|---|---|
| `watch` | `Watch.cfg` | `WatchSound`, `ExecOnlyIfUnmodified`, `ExecIsolated` | Two clients, one key in two databases, commands that write, push to, expire, persist and flush it. A modified watched key always loses its registration, whichever database the client has selected since; such an EXEC never runs; no thread changes a key between two commands of an EXEC. |
| `keys` | `Keys.cfg` | `ExpiredIsAbsent`, `NoOrphanExpiration` | In every state and for every command of the set, the command leaves what it would leave had all expired keys been removed before; no expiration outlives its key. |
| `block` | `Block.cfg` | `NoLostWakeup`, `BlockedServed` | Three clients block on two keys and fill, move, overwrite and delete them. No client sleeps beside an element; a blocked client with something to take is served, or another client takes it. |
| `timeout` | `Timeout.cfg` | `TypeOK`, `TimeoutNotLost`, `PoisonStops` | Timers, wakers and retries race, also after a blocking pop inside EXEC or a bad database number has poisoned the mutex. A timeout is never lost; a poisoned server changes no key. |
| `collections` | `Collections.cfg` | `WatchSound`, `NoEmptyStored`, `FailureChangesNothing`, `MoveConserves`, `TrimKeepsRange` | One client watches its two keys and sends them some forty commands on sets, hashes, lists and both keys at once, each meeting values of every type. A change reaches the registrations, nothing empty stays, a command that answers an error changed nothing, what SMOVE and RPOPLPUSH move is neither lost nor doubled, LTRIM keeps its range. |
| `pubsub` | `PubSub.cfg` | `SubscribersMirrored`, `PatternsRegistered`, `MessageExpected`, `CountTellsSubscriptions`, `WriterEnds` | Registrations and the clients' maps agree; a reader gets messages only between the confirmations it reads; every number in a confirmation is that of the names the client has when its request is through, also in a drain of two names; writer threads end. |
| `aof` | `Aof.cfg` | `TypeOK`, `LoadRestores`, `LogAppendOnly`, `EveryChangeLogged` | Two clients on two databases push, select, block and run transactions, are killed, restarted, and served before the load: no change without a trace in the file. While they send plain commands one at a time, the file only grows and loading it rebuilds every database. |
| `values` | `Values.cfg` | `Mirrored`, `ReadsAgree`, `RemovalMatchesRange`, `AggregateSound`, `ChangeTold`, `WritesAddressed`, `ListsKept` | Every command of `SortedSets` and `Strings` on two keys of every type. In each state every range, rank, page, removal and aggregate is compared with what the scores say, every write with every read, and each command's change with what it reports to watchers. |
| `rvf2` | `Rvf2.cfg` | `CacheAccounts`, `DocumentsFound`, `PrefetchServes`, `IsSegmentService` | Two tasks get, pin, unpin and upload segments while files are cut off, filled by two at once or read half-written, and the process dies: the store implements `SegmentService`, and the cache accounts for what it holds. An index of up to three records over several segments finds them; a prefetch in one segment gives each request its bytes. |
| `vectors` | `Vectors.cfg` | `KernelsAgree`, `SearchesFindBest`, `FreshAnswers`, `RestartRestores`, `StorageAnswers` | All kernels compute one function, and codes decode to what they were made from, up to the limits of a half and a byte; scanning indexes find the best of what they hold; the services answer with the points they have; files restore collections after a crash at any step; storage, codes and searches agree after failed commits and reopening. |

Every property has a mutant in `PROJECT.json`: an operator beside the one it
replaces, commented "Fault:", that breaks the code the way a plausible mistake
would (a `key_updated` left out, a clamp forgotten, a lock not waited for), and
that makes TLC report exactly that property.

Deadlock is not checked: a server with no request to serve, every client
gone, or its mutex poisoned, stops in the model as it does in the code.

### Bounds, and why they are enough

* Keys and databases: one key in two databases tells a registration in the
  wrong database from one in the right one; two keys in one database are what
  RENAME, RPOPLPUSH and a pop over several keys need. Three clients in `block`
  are two that are woken by one key and one that fills it: with two the
  mistake of waking only one waiter would not show.
* `MaxQueue` 1: EXEC's step is the same for each command; one command
  leaves the lock held over a state in which the others take steps.
* `MaxNow` 1 to 3: a key is set, expires and is touched after its deadline with
  `MaxNow` 2; a timeout of one second (`MsPerSec` 2) is woken early, late
  and after its deadline with `MaxNow` 3.
* `IntMax` 0 or 1: two to four integers, enough for a sum past both ends.
* `MaxTimeout` bounds the timeouts of resumed waits. A resumed wait reads
  its remaining milliseconds as seconds and can be resumed again with more;
  the bound cuts that growth off.
* `MaxElems`, `MaxItems` 1 or 2: an empty list, one element, and one left behind.
  `collections` has 3 list elements of two texts: LINSERT finds its pivot twice,
  and an LTRIM leaves a list shorter at both ends.
* `collections` has one client, since all it asks of a registration is whether it is
  still there, and `MaxNow` 0: what happens to expired keys is the question of
  `keys`. Its LTRIMs include one that panics
  on three elements (see section 5), after which the server is poisoned and stops.
* `pubsub` has two instances (`Instances`). Two clients with a channel and a pattern take two ids: a subscription, its end
  and another one, or one each of two clients; with two events on a stream, a confirmation and a message are in flight, or both
  messages of a channel and a pattern. One client with two channels and two patterns is what the confirmations of a drain need,
  since a count is of its own maps: three ids (`MaxId`) for two names of one kind and one of the other, three events
  (`MaxPending`) for a drain of two behind one more.
* `MaxLog` 4: two SELECTs and the writes they precede, over a restart.
  `MaxBatch` bounds the pipelined commands of a read; the passing runs read one at a time,
  for the reason given in section 5.
* `values`: scores -1, 0, 1 and both infinities with two members give ties, an order that depends
  on the text, and a sum that is no number; `Width` 2 and `MaxLen` 2 give an offset inside, at the end of
  and beyond a text, in a byte and across one. `Inf` 8 and `NaN` 9 are above every sum of
  scores, `USize` 64 above every length, so that what wraps is what is negative.
* `rvf2`: two tasks are what it takes to disturb a read; `MaxBytes` 1 with versions of 1 and 2 bytes
  makes every fetch evict, and one version too large for the cache; `MaxCounted` 2 bounds
  what the cache counts, which grows for ever when one segment is fetched twice at once;
  one segment is spoiled at a time (`MaxSpoiled` 1). A segment has versions of both sizes, so that a fetch or a
  pin begun before an upload may leave its bytes before the tail of another's, without a failed write. One version is uploaded, so that
  two uploads of different lengths are left to the proof, where they are any. Three records in up to
  three segments give ranges that overlap, duplicates, and tombstones among them; three
  requests give ranges that nest, touch, and lie within the threshold or not.
* `vectors`: 18 positions go past the 16 lanes of the widest kernel, with and without a remainder.
  With 2 bits and the exponent 2, the scales 1 to 4 are exact, 5 and 7 are rounded down and up, and 14 overflows. `CodeValues` 3 and books
  of 2, 3 and 4 entries: below what a byte tells apart, at it, and beyond.
  Dimension 2 is stored with a stride of 2 and of 3. Two ids and vectors near, far and of another dimension
  give a replacement, a refusal and a tie; `Threshold` 2 and `SnapshotInterval` 2 are met within
  three additions, `CacheSize` 1 evicts at the second. One collection is enough in `ApiServer`, `Qdrant` and `Search`,
  since collections share a mutex and a directory and nothing else, as long as their
  sanitized names differ. Both storage modes of FT are initial states.

Clients are symmetric where a run says so; liveness runs use no symmetry.

### Fairness

`FairSpec` of `Server` assumes weak fairness of a waker with a message, a timer
whose sleep is over, a client thread with a message or a command to repeat, and
of EXEC's next step: each is a thread that the operating system schedules and that nothing
disables for good. Repeating a command needs the mutex, which other clients may take again and
again; weak fairness is enough since no handler keeps it over a step but
EXEC, and `block` has no transactions, so that a repeat stays enabled until it
happens. `Fairness` of `PubSub` assumes the same of writer threads and of the end of
`Client::run`. Nothing obliges a client to send a request or to disconnect, nor
the clock to move.

## 4. What the properties say

`WatchSound` is the invariant behind optimistic transactions: `dirty` holds the
slots that changed (value or expiration, as a client sees them) since their
client watched them, and none of them may still be registered. It fails
whenever a handler forgets `key_updated`, in whichever database. `ExecOnlyIfUnmodified` is what a client
relies on. A key that merely expires changes what a client sees only when a command or the
hz thread removes it; time alone is not a modification in the code.

`NoLostWakeup` is about the shared map and a thread that sleeps: there is no
state in which a client is asleep (its waker was not signalled and its command
channel is empty) while one of its keys holds something to pop. `BlockedServed` is its
liveness counterpart, over the retry as well.

`TimeoutNotLost` relates the request's timeout (`due`) to the wait that repeats
it: as long as the wait lasts, a timer runs or a message is on its way, and a
wait without timeout never acquires one. The clamp to 1 in the waker is there for it.

`ExpiredIsAbsent` compares two executions of one handler: on the database as
it is, and with everything expired removed before.

`FailureChangesNothing` compares the database before and after every command of the set that
answers an error, in every state: SMOVE, the STORE commands and the pushes work in
several steps, and a wrong type must be found before the first of them.
`MoveConserves` compares what the two keys of a move hold together before and after,
also when they are one key. `TrimKeepsRange` says which positions LTRIM keeps, where the
code cuts the list twice.

`SubscribersMirrored` and `PatternsRegistered` tie the map in the database to
the maps of the clients, over repeated SUBSCRIBEs and disconnects. `MessageExpected` is
what a reader sees of it, through a channel that lags behind. `CountTellsSubscriptions` compares the number in a
confirmation, worked out when the command ran, with what the reader knows after the last confirmation of
that command: that is the next event but for a drain, all of whose confirmations carry the number of the end.

`LoadRestores` relates the keyspace before a kill to the one after the load.

`Mirrored` is the invariant all methods of a sorted set rely on, and `ReadsAgree` says what its reads are
worth: they are worked out from the skip list by positions and bounds, and must tell what the
map says. `RemovalMatchesRange` compares two computations of the same bounds, one by counting and
one by filtering. `ChangeTold` does for these commands what `WatchSound` does for the others.

`IsSegmentService` is a refinement: `SegmentService` knows only which calls are under way, what was
uploaded, and which segments may be spoiled; a call that nobody disturbs has to answer
a whole version. `TieredStore` maps to it with `asked` read off `call`; the other variables are shared.
What it does not promise is in section 5: calls about one segment at once do disturb each other.

`DocumentsFound` follows a document through three structures that are written one after the other.
`FreshAnswers` and `StorageAnswers` are about what an answer tells: every hit is there, once, with the
distance of the vector it has now. `RestartRestores` is checked in every state and so for a crash at every step.

## 5. Where the code and its documentation disagree

Each of these runs checks one property that the repository states and TLC
finds a counterexample.

| run | property | what happens |
|---|---|---|
| `rename_watch` | `WatchSound` | RENAME removes the source without `key_updated`; a client that watches the source runs its EXEC. |
| `prefetch_segments` | `PrefetchPerDocument` | `offset_to_data` knows a fetched range by its offset and not by its segment: of two ranges that begin at one offset in two segments, one replaces the other, and documents get bytes of the wrong segment. |

The passing runs leave out the commands behind these and behind the points below, and say so in the
command sets of `MCServer`, or in the properties themselves: `watch` has no RENAME, RENAMENX, MOVE or RPOPLPUSH,
`keys` no PERSIST and no command that goes through `get_or_create` on an expired key without asking for it first.
`LoadRestores` speaks of clients that sent plain commands only (`plain`).

Others were met on the way. The modules model what the code does, and the
properties that pass are stated so that they say where they stop.

*Keyspace, commands, log*

* `get_or_create` drops the expiration of an expired key and keeps its value
  (`lib.rs:2561`): INCR of an expired counter goes on from the old number. PERSIST does the same to a key
  that is past its deadline, since `remove_msexpiration` does not ask whether it is.
* EXEC unwraps the result of a blocking pop that has to wait, and panics with the mutex locked (`command.rs:4451`).
* A queued write is logged when it is queued and again when EXEC runs it, and the load
  executes it twice.
* SELECT compares its index with `>` (`command.rs:5267`), so that the number one
  past the last database passes and the next key command panics with the mutex
  locked. `timeout` includes it, as a way to poison the mutex.
* The waker hands on what is left of a timeout in milliseconds (`command.rs:1447`), and the
  repeated command reads seconds; `networking/src/lib.rs:314` admits as much.
  `MaxTimeout` bounds what that leads to.
* SMOVE asks for its destination's type with `get`, which takes an expired key for missing,
  and adds the member through `get_or_create`, which finds it again: it panics
  with the mutex locked (`command.rs:1826`). `collections` has no expirations.
* LTRIM with a start more than one behind its stop panics in `split_off`
  (`list.rs:204`) instead of leaving nothing. `Trimmed` says where.
* SDIFFSTORE without its first key answers 0 and leaves the destination as it was
  (`command.rs:1871`), where SINTERSTORE removes it.
* HINCRBY of a field that is no number starts from 0 and overwrites it (`hash.rs:204`);
  MSET and GETSET leave the time to live of a key they overwrite (`command.rs:764`).
* A text that begins with 0 is no number to `parse_utf8` (`string.rs:20`), so
  INCR of a key that was SET to 0 fails.
* RENAME asks for the source's expiration after `remove` has dropped it
  (`command.rs:4341`), and the time to live is lost.
* RPOPLPUSH onto an expired key of another type pops, fails to push and returns
  without `key_updated` (`command.rs:1307`): an empty list stays stored. `block` has no expirations.
* PSUBSCRIBE does not look whether the client has the pattern
  (`command.rs:3101`), and the end of `Client::run` does not unsubscribe
  patterns (`networking/src/lib.rs:347`): senders stay in the database,
  deliver, and count as recipients of PUBLISH. That is why `PatternsRegistered` is
  an implication where `SubscribersMirrored` is an equality, and why `WriterEnds` speaks of
  clients without patterns.
* A pipelined command is logged with everything behind it in the buffer
  (`get_data`), and again when its turn comes; `aof` reads one command at a time (`MaxBatch` 1).
* A blocking pop is logged when it begins to wait, and makes the load panic
  (`command/src/aof.rs:67`); its repetition is logged as bytes that are not in the protocol.
* Clients served between the listeners' start and the load write over the file
  (`Early`); `plain` is false from then on, so that no property speaks of where their entries go.
* LREM with a negative count removes from the front, and carries the READONLY flag as LTRIM and SPOP do, so
  that none of them is logged.
* GETRANGE of an empty text, BITCOUNT and BITPOS whose end is the last machine word, and SORT with a
  negative LIMIT wrap; the last one then slices backwards and panics. SORT with STORE of an empty
  result removes the destination without `key_updated`; BF.RESERVE's empty filter is removed by `key_updated` at once.
* ZINCRBY takes the member out of the skip list before it finds that the sum is no number
  (`zset.rs:240`); the map keeps it, and ZRANGE and ZRANGEBYLEX then panic on an empty list. That is
  why `Mirrored` excepts members with infinite scores.
* ZADD XX of a missing key leaves a nil stored; ZADD without CH that changes a score does not
  call `key_updated`; AGGREGATE MAX drops members whose scores are all -inf, MIN those with +inf.

*rvf2*

* A segment that two tasks fetch at once is counted twice for good, which is why
  `CacheAccounts` says that the count covers what is held and not that it is equal.
* `tokio::fs::write` truncates a file once and then writes from its start. Of two fetches, pins or uploads of one segment that
  overlap and carry versions of different length, the shorter may be written last: the file is then the short version followed
  by the tail of the long one. No write failed, the entry stays cached, and a later read that nobody disturbs answers the
  mixture. `Write` says so and counts the segment as spoiled from then on.
* A read of an object while an upload puts it anew may get parts of both, which it then caches.
* A fetch truncates the cache file under whoever has mapped it; a pin during a put copies a cut-off
  object; a cut-off hot file is taken for a pinned segment from then on; an upload
  leaves hot and cached copies of the old version. `SegmentService` says which of these a caller is safe from.
* The document index finds by halves: of a document with both a tombstone and a live entry, it
  may meet the tombstone. `find_segment` is called a binary search and is a linear one, with
  the first of overlapping ranges. Offsets are cut to 32 bits.

*Vector indexes and services*

* A code of product quantisation is cut to a byte (`quantization.rs:85`, `gpu/quantization.rs:265`), and neither the
  number of clusters nor `nbits` has a limit: with more than 256 entries the code of the nearest wraps to that of another one, and
  its distance is that one's. `PqEncode` wraps, and `CodesNearest` claims the nearest for books that a byte counts. In the modules above, the code of
  a document stands for its vector, however near it decodes.
* `f16::from_f32` makes infinity of a block's scale of 65520 or more (`rvf2/codec.rs:107`). Codes other than 0 then decode to an infinite
  number and 0 to none, and MaxSim over the codes differs from MaxSim over what they decode to. `BlocksDecode` speaks of scales that a half
  holds.
* The GPU shader is not told the stride of the buffer and reads the wrong vectors unless it is the dimension;
  product quantisation ranks the farthest first under a similarity; scalar quantisation does not normalise
  under Cosine; a second training of the inverted file leaves its lists as they were; `remove` of the flat index counts and
  removes nothing.
* A replaced document stays in the graph under the id of the new one and may be found at its old
  distance; a removed one stays findable; the switch to HNSW at the threshold does not take
  the vectors along; the size counts replacements. A failed commit leaves the cache ahead of the file;
  a batch that fails in the middle leaves vectors indexed and not stored. `StoredWhenAnswered` speaks of documents whose last
  call succeeded, and of searches that scan or rank again.
* FT.CREATE after a DEL of `ft:meta:<name>` opens a redb file that is open, and its `expect`
  panics with the database locked (`ft_commands.rs:102`). FT.DROP leaves the file, which the next index of the
  name opens with its old dimension. A document's id is a 31-multiplier hash of its name, and names
  that collide are one document.
* The REST API's upsert refuses points that are there, and its score is a distance; its collections live in a
  database apart from the Redis server's, where `api.rs:1` speaks of one. A refused Qdrant upsert keeps the points
  before the first bad one, unsaved; names that sanitize alike share a file; a disk that
  fails is answered as success; `docs/QDRANT_COMPAT.md` calls the service in-memory only.

## 6. What is proved

Proofs hold for every number of databases, keys, clients and commands, any
clock and any queue; of channels and patterns; of entries in the file; of tasks, segments and versions;
of collections and points. They assume what the modules assume of their constants:

* `DatabaseAssumption`, `MsPerSecAssumption`, `ServerAssumption`: at least one database, a positive
  scale, markers (`NoExp`, `NoClient`) that are not values, commands and watch sets of the right type.
  Every `MCServer` run evaluates them.
* `PubSubAssumption`: channels are no patterns, and there are finitely many names, since the parser bounds the
  length of an argument. `pubsub` evaluates it.
* `AofAssumption`: at least one database, commands of the right type. `aof` evaluates it.
* `StoreAssumption` and `SizeAssumption`: markers that are told apart, requests about segments, sizes that are
  numbers. The `MCRvf2` runs evaluate them.
* `QdrantAssumption`: finitely many point ids, points of the right type, markers. `VectorsAssumption`: a distance between any two
  vectors is a number, points are pairs of a document and a vector. `StorageAssumption`: documents are numbers (`u64`), and so is the
  size of the cache. `vectors` evaluates them.
* `SegmentFilesAssumption`: headers have a size, records and requests are numbers of bytes, and a request asks for at least one,
  since a record has a header. The `MCRvf2` runs evaluate it.

| theorem | module | statement |
|---|---|---|
| `CollectionEnds` | `CommandsProofs` | a handler on sets, hashes, lists in place or several keys leaves the record as it was, one slot opened or assigned to and then reported as updated, or what SMOVE or MSET make of several slots |
| `HandlerType` | `CommandsProofs` | every handler maps a well-typed database to a reply and a well-typed database |
| `TypeCorrect` | `ServerProofs` | `Spec => []TypeOK` |
| `HandlerWakes` | `ServerProofs` | a handler that leaves something to pop under a key found it there with nobody waiting, or sent to every client waiting for it; a blocking command that has to wait leaves nothing to pop under its keys |
| `WakeupsKept` | `ServerProofs` | `Spec => []NoLostWakeup` |
| `TimeoutsKept` | `ServerProofs` | `Spec => []TimeoutNotLost` |
| `ExecAlone` | `ServerProofs` | `Spec => ExecIsolated` |
| `PoisonedForGood` | `ServerProofs` | `Spec => PoisonStops` |
| `NothingEmptyStored` | `KeyspaceProofs` | `Spec => []NoEmptyStored`, if `NoTransfers \/ NoExpirations` |
| `ExpirationsHaveValues` | `KeyspaceProofs` | `Spec => []NoOrphanExpiration`, under the same hypothesis |
| `FailureHarmless` | `KeyspaceProofs` | under the same hypothesis, `FailureChangesNothing` holds of every reachable state in which nothing has expired, and of all of them with `NoExpirations` |
| `TrimExact` | `KeyspaceProofs` | `Spec => []TrimKeepsRange` |
| `WatchersAreTold` | `KeyspaceProofs` | `Spec => []WatchSound`, if `AllTold` |
| `ExecGivesUp` | `KeyspaceProofs` | `Spec => ExecOnlyIfUnmodified`, under the same hypothesis |
| `ExpiredUnseen` | `KeyspaceProofs` | `Spec => []ExpiredIsAbsent`, if `AllLook` |
| `MovesConserve` | `KeyspaceProofs` | `MoveConserves` holds of every reachable state in which nothing has expired, and of all of them with `NoExpirations` |
| `ChannelsMirrored` | `PubSubProofs` | `Spec => []SubscribersMirrored` |
| `PatternsAreRegistered` | `PubSubProofs` | `Spec => []PatternsRegistered` |
| `MessagesExpected` | `PubSubProofs` | `Spec => []MessageExpected` |
| `CountsTell` | `PubSubProofs` | `Spec => []CountTellsSubscriptions` |
| `TypeCorrect` | `AofProofs` | `Spec => []TypeOK` of `Aof` |
| `ChangesLogged` | `AofProofs` | `Spec => EveryChangeLogged` |
| `Restored` | `AofProofs` | `Spec => LoadRestores` |
| `OnlyGrows` | `AofProofs` | `Spec => LogAppendOnly` |
| `Implements` | `Rvf2Proofs` | `TieredStore`'s `Spec => IsSegmentService` |
| `AccountsCover` | `Rvf2Proofs` | `Spec => []CacheAccounts` |
| `PrefetchedExactly` | `Rvf2Proofs` | `MCSpec => []PrefetchServes`; `PrefetchExact` states it of the operators, for every list of requests in one segment and every threshold |
| `EveryDocumentFound` | `Rvf2Proofs` | `MCSpec => []DocumentsFound`, if `SegmentsFit`: segments end below 2^32 |
| `FilesRestore` | `VectorProofs` | `QdrantSpec => []RestartRestores`, if `OwnFiles`: every name is its own file name |
| `AnswersFresh` | `VectorProofs` | `MCSpec => []FreshAnswers`; its two halves for the services alone: `ApiFresh`, `QdrantFresh` |
| `StorageTold` | `VectorProofs` | `MCSpec => []StorageAnswers`; its two halves: `IndexTold` of the persistent index, `FtTold` of the FT commands |

The hypotheses on commands are the points of section 5 and nothing beyond: each excludes commands for which TLC finds a
counterexample. They are about the set of commands that clients use, and the runs that check the
property meet them. `SegmentsFit` is of another kind: `add_record` cuts the offset of a record to 32 bits and looks at no limit, so
that it is for whoever builds segments to seal them before 2^32 bytes. `Rvf2.cfg` meets it.

*Induction.* The provers know no induction whose formula is a parameter. `Induction` has it in a form they can use:
a set of numbers that is not empty has a least member (`LeastNumber`), and a set of finite sets a smallest one
(`SmallestSet`); the set of counterexamples is then
an ordinary set. A recursive function or a fold unfolds to CHOOSE of a function on the parts of a sequence or set, so that
each fold of a module takes a lemma which exhibits that function and then an induction over it. That is how the queue of an
EXEC, the sum of a cache's sizes, the eviction loop and the reload of a collection are treated.

*Type correctness.* `TypeOK` is not inductive: after `Exec` the queue that
runs must not be empty for `Head` to be a command, and a waiting client must have
selected a database that exists for its keys to be slots. `TypeInv` adds those
facts. There is one lemma per method of `Database`, one per handler, and one step
per action in `TypeStep`; the arithmetic that can go wrong is in `IncrType`
(the checked sum keeps its width) and `NewTimeoutType` (the clamp keeps a timeout natural).

*Collections.* Most of these handlers have one shape: find the slot by `get_mut` or
`get_or_create`, assign to it, call `key_updated`. `OneSlot` is the set of records that
shape can leave, and one lemma per handler (`SaddEnds`, `HdelEnds`, ...) says that
the handler ends there, which takes what the code stores to be a `Value`. That a member of `OneSlot` is well typed,
and that it wakes whom it must, is then proved once for all of them. SMOVE and MSET, which change
several slots, have lemmas of their own.

*Wake-ups.* `NoLostWakeup` says nothing of a client whose key is filled while a
handler is half-way, nor of clients that are awake. Its strengthening `WakeInv`
has three parts. `Settled`: a slot with a subscriber holds nothing to pop.
`Subscribed`: a sleeping client is among the subscribers of all its slots. And
the client that runs an EXEC is not itself blocked. A handler may break `Settled` at the one slot it
writes and restores it with `key_updated`; in between it takes no subscriber
away without sending to it (`Notifies`). `Wakes` is both together; it is transitive,
so that each handler's lemma follows the code's calls one by one. The
theorem covers RENAME, RPOPLPUSH, expiration, flushing and the hz thread
alike, and it would not go through for a handler that forgets `key_updated` after it brought a value.

*Timeouts.* A timeout travels: from the request to a timer and a command, from the
command through the waker into a message, and from there into the next command. `Timely` says for each of the
places that 0, and nothing else, stands for waiting for ever; `NewTimeoutExact` is the
clamp without which a timeout that has run out would read as none.

*Mutex.* `Writers` lists who can change a key: a thread that could lock the mutex,
or the EXEC that holds it. `ExecIsolated` follows at once. `PoisonStops` needs in
addition that no EXEC is under way once the mutex is poisoned (`PoisonInv`).

*Keyspace.* The argument is about the record a handler found and the one it leaves. `Changes` and `Touches` are one
method's change of one slot; `Keeps` says that no empty value and no orphaned expiration is new, `Unset` that no
expiration is, and `Tells` that a slot which a client sees otherwise has lost its watchers; the last two parameters of `Leaves` are the
slots for which `key_updated` is still owed. Each handler's lemma follows its calls and ends with nothing owed; `Handled` is what
that comes to for each command, with the exceptions where they are due. `KindsOfStep` sorts the actions of the threads by how they
touch the keyspace, and `KeyInv` is inductive: types, `NoEmptyStored`, `NoOrphanExpiration`, that waits keep their command, and
that nothing has an expiration if no command sets one.

`NothingEmptyStored` needs `NoTransfers` (no RPOPLPUSH and no BRPOPLPUSH) or `NoExpirations`: an expired destination of another type makes
the push fail after the pop, and the emptied source is not reported. `block` and `collections` have no expirations and `keys`
no transfers. For `TrimExact`, `TrimKeeps` computes the two cuts of the list for all positions, from either end.

*Watched keys.* `WatchSound` is about history: `dirty` grows by what a step modifies, and what `Tells` says is that a modified slot
has no registration left; `WatchInv` adds that the dirty slots of a client are among those it watches, so that EXEC, which asks for
its registrations, finds one missing. `AllTold` excludes three things. RENAME, RENAMENX and MOVE do not report the
source (run `rename_watch`). SADD, SREM, HSET and HINCRBY (`Reviving`) open an expired key of another type with `get_or_create`, which
gives it back without its expiration, and answer their error without `key_updated`. RPOPLPUSH does the same to its destination. The second
and third need a key that expires, so that `NoRevivals \/ NoExpirations` is enough. `watch` meets the hypothesis by its commands,
`collections` by `NoExpirations`.

*Expired keys.* `Like` relates a record to one with some of its expired keys removed. `get`, `get_mut` and `remove`
do the same to both and leave two such records (`LikeSeen`), and a key that was looked at is the same in both (`Both`), so that what is then
stored there is the same; one lemma per handler goes along its calls and shows the replies equal as well. `AllLook` excludes
the commands that do not look: PERSIST, which asks `remove_msexpiration`, and those that go through `get_or_create` before they know whether the
key expired (INCRBY, SADD, SREM, SMOVE, HSET, HINCRBY, RPOPLPUSH, BRPOPLPUSH, and a push that creates). `keys` meets it.

*Moves.* `TwoAssigned` is what SMOVE and RPOPLPUSH have in common: with nothing expired they find both keys, leave one
value in the first and another in the second, and `key_updated` takes away only what holds nothing; when the two
keys are one, the second assignment starts from the first. It remains to compare two sets for SMOVE, and for RPOPLPUSH the
elements of a list cut at its end and put before another (`LastMoved`), with as many places before as after (`PlaceMoved`).

*Publish and subscribe.* The database holds ids, the clients' maps the same ids: `IdsApart` says that no id is given
out twice, which is why the removal of one sender leaves those of the others, and `Mirrors` is `SubscribersMirrored` sender by
sender. What a reader gets is a question about the stream it has not read yet: `Known` is what it will have learnt after so many
events, without recursion, `AllFit` that each event fits what is known when its turn comes, and `StreamInv` that
once all is read the reader knows what the client's maps hold. A command appends to the stream, the writer takes off
its head, and both keep it. `AllCounted` is the same for the numbers: each confirmation is followed by the last one of its request, with
nothing but its siblings in between, and has the number of names known there. A drain appends all its confirmations at once
(`DrainedNames`: they name the whole map, and leave the other kind), so that no message comes between them.

*Append only file.* That every change leaves an entry is proved of one command and then of the fold that EXEC is. For the
load, `Replays` says that there is a sequence of states from the empty keyspace through the entries of the file; `PlainInv`,
that it ends in the keyspace while the server runs and after a kill in the keyspace that was, and that while it loads
the keyspace is the state at the cursor, in the database the loader selected. A write prolongs the sequence, and needs that the
database last selected in the file is the one `dbindex` says, or that a SELECT goes before.

*Tiered store.* A call that was alone with its segment has to find every file whole at
every one of its steps, over whatever calls came before. `StoreInv` says so of segments that are not
spoiled. `Whole`: each file holds an uploaded version, or is empty with a task at work on it. `Kept`: what was
uploaded stays in the store. `Carried`: what a task fetched is a version. `Refilled`: the cache maps
what its file holds, or a task is about to put a new mapping; this is what makes an
entry of the cache good after its file was rewritten. `Undisturbed`: a task that is alone
finds its segment as its last step left it (`Calm`); in particular the file it truncated is still empty when it writes it, and the
object still holds what it began to read. So bytes of two versions in one file (`Mixed`) are the work of a call that was not
alone, and there are two versions uploaded: such a step is a `Clash`. Each action has a lemma that it keeps the invariant, with one step for
each conjunct it can disturb, and one that it maps to `Ask`, `Return`, `Finish`, `Clash`, `Quiet` or `Crash`;
`MoveInv`, `ReceivedInv` and `QuitInv` treat once what most actions share. For the refinement nothing is assumed of the cache's sizes
and bounds: eviction may take any head of the order (`PutKeeps`).

*Cache accounts.* `Total` is the sum that `CacheAccounts` takes, and `TotalSplit` takes one segment out of it, whichever CHOOSE takes
first. `Covered` (the count is at least the sum, and what is held is in the order) holds whatever number of rounds the eviction
loop takes; `Fitting` (the sum is within the limit, or one segment is held) after the put, since the loop stops only when
the new segment fits or nothing is left in the order, and then nothing is held.

*Prefetch.* The requests of a segment are taken in order of their offsets. The fold of `Coalesce` unfolds to `Merged` (`MergesExists`), and the
induction over it says that the ranges are apart, that none begins behind a request to come, and that each request so far is
within one of them (`JoinKeeps`): a request that joins begins no earlier than the range does, whose end is the larger of two. No
two ranges begin at one place, so that `offset_to_data` loses none while there is one segment; and whichever range covers a request, its
slice is the bytes asked for.

*Document index.* `SoundSegment` says of a segment that each record lies at its offset, which `add_record` keeps since it only appends;
`Listed`, that the manifest has the segments in order, each under its own number and with the range of its documents; `Entered`, that each entry of the index is what
some segment says of one of its records (`Points`); the manifest's total counts the entries. These are inductive (`Indexes`). A sort keeps the entries, and
`IndexGetGives` is by induction on the width of what is left to search: what is found has the document, and if it is there
something is found. Of the entries of one document the halves may meet any, which is why a tombstone beside a live entry may hide it.

*Qdrant files.* A file has a collection's points and not its index; the restart adds them one by one. `About` says of the fold over a
list which points its result has, and `RoundTrip` that the list of a file's points, in any order, gives that file again; it needs that the stored points fit
the dimension, which is proved along with it. `Filed` is that a collection's file is the collection's own; it holds but for the collection being saved,
and the handler's steps (write the temporary file, fill it, rename it) restore it while it still holds the mutex. With two names for one file
it is false (section 5), hence `OwnFiles`.

*Answers.* What the graph finds is any set of its nodes, those of removed and replaced vectors included, so that an answer is right
only if the maps are. `Sound` is about an index: its two maps mirror each other, a live internal id is that of one node, and no id
is given out twice. `Linked` is about a collection: points, the two maps between ids and numbers, and the index tell one vector of a point, and
the numbers only grow. Upsert keeps it because it removes the old number before it adds a new one, over a list by induction.
`SearchGives` and `HitsGive` then say what any found set is turned into: live, each once (two nodes with one document would have
one internal id), sorted. That sorting gives such a list is `RankedList`: a set with a total preorder can be listed in its order.
Nothing is assumed of the files here, `OwnFiles` neither: a restart builds linked collections from whatever it reads.

*Storage.* `Holds` says of a document that the file has a vector, that no entry of the cache and no code tells another, and that
the scan does not either. Of each call a lemma says for which documents that goes on (`AfterPoint` for a point) and, for the point
that was stored, that it holds of the new vector. The cache is cut to any size (`CachePutGives`); a batch indexes all its points
before it stores one, so that between the two only codes and scan are ahead (`Told`), and of two points of one document the second
counts in all four; training reads any number of vectors through the cache (`AllReadKeeps`); a commit that fails takes the document out of
`stored`. `FtInv` is the like for each entry of `INDEX_STORAGE`, where nothing fails and nothing trains: the scan has only
what the storage has. Searches by the graph alone are not covered: `StoredWhenAnswered` does not speak of them, since
removing and adding again leaves old nodes in the graph (section 5).

Only model-checked:

* liveness (`BlockedServed`, `WriterEnds`), which is out of the prover's reach;
* `Mirrored`, `ReadsAgree`, `RemovalMatchesRange`, `AggregateSound`, `ChangeTold`, `WritesAddressed`, `ListsKept` of `Values` and
  `KernelsAgree` and `SearchesFindBest` of `Kernels` and `GpuIndexes`: each compares two computations
  (by position, by bounds, by lanes, by bits) over all inputs and takes an induction for each function.

## 7. What is not modelled

* HyperLogLogs, INCRBYFLOAT, DUMP and RESTORE, SRANDMEMBER and the cursors of SSCAN and HSCAN, scripts:
  sequential operations behind the same keyspace methods.
* Eviction and `used_memory`, SCAN, the sampling of `active_expire_cycle`, the
  slow log, keyspace notifications, MONITOR.
* The parser's buffer; truncation and write errors of the append only file; time in `Aof`.
* A client that disconnects while it is blocked: its thread does not notice
  before it is resumed, so to the model it is one that is slow to read.
* The bytes of the rvf2 files (headers, checksums, which `get_record` never verifies), the S3 object
  store, deletion and listing of segments. The limit on concurrent fetches of a prefetch.
* How well HNSW and k-means find what is near, rounding, the GPU driver.
* The formats of the APIs' requests and replies.
* Configuration, logging, formatting, system calls. `ft_commands_full.rs` and `ft_multivector.rs` are
  declared by no module. Neither is `qdrant_api.rs` at this commit, but it is documented, complete
  and self-contained, and is modelled.

## 8. Plan

Done: the modules of section 2 with their runs; the theorems of section 6.

1. Proofs: `Mirrored` of the sorted sets, method by method, and the positions and bounds of `Values`.
2. `Parser`: `allocate`, `written`, `position` and the read of `Client::run`
   and of `load`. Properties: a read always has room, what is parsed is
   what was sent, in order, and the position `truncate` gets is an offset of the file. The
   abstract specification is a queue of commands, implemented by the buffer.
3. Eviction with its counter, the sampling of `active_expire_cycle`, SCAN's cursor; MONITOR in `PubSub`;
   time and the READONLY flags in `Aof`.
4. An abstract `AtomicStore` (each transaction and each command one step) that
   `Server` implements while RENAME is left out.
