# RedGo in TLA+

RedGo is a Redis server in Go: a TCP server, a RESP parser, sixteen databases
over a sharded dictionary, an append-only file, and a cluster mode in which each
node routes commands to the node that owns the key. This directory holds its
specification: TLA+ modules translated from the code, the TLC configurations
that check them on small instances, and proofs that TLAPS checks for every
value of the constants. `PROJECT.json` maps every definition to the lines of Go
it stands for.

Contents: 1 inventory; 2 modules and their correspondence with the code; 3 runs;
4 fairness; 5 proofs; 6 where the code falls short of its documentation; 7 what is not
modelled; 8 plan.

To check: `tlc -workers 2 -config LockLayer.cfg MCConcurrentDict` and likewise
for the table of section 3; `tlapm ConcurrentDictProofs.tla` and likewise for the other `...Proofs`
modules.

## 1. Inventory

| part | state | operations | talks to |
|---|---|---|---|
| `datastruct/dict/concurrent_dict.go` | a table of shards, each a map with a `sync.RWMutex`; `count` | `RWLocks`, `RWUnLocks`, `Get/Put/...WithLock`, `ForEach`, `Keys`, `DictScan`, `Clear` | called by every command |
| `database/` (`db.go`, `command.go`, `standalone_database.go`) | 16 `DB`s, the command table | `Exec` → `execNormalCommand`: arity, `prepare`, locks, `executor`, `addAof`, unlock; a panic is recovered into an error | dictionary, AOF channel |
| `database/{strings,key,list,set,hash,zset}.go` | the entities | the commands | `DB`, the data structures |
| `datastruct/set` | an integer set packed into bytes at a width of 16, 32 or 64 bits, or a hash table | `Add`, `Remove`, `Members`, upgrade of the width, conversion | set commands |
| `datastruct/hash` | a listpack (slice of pairs) or a map | `Set`, `Delete`, `Get`, conversion | hash commands |
| `datastruct/zset`, `skiplist` | a listpack, or a skip list and a map | `Add`, `Remove`, ranges, ranks, conversion | sorted-set commands |
| `aof/aof.go` | `aofChan`, `currentDB`, the file | `AddAof` (sender), `handleAof` (goroutine), `LoadAof` (start) | called by `DB`, replays into it |
| `resp/parser`, `resp/reply` | parse state; reply types | `ParseStream`, `ToBytes` | handler, client, `LoadAof` |
| `tcp/server.go`, `resp/handler`, `resp/connection` | listener, `waitDone`, `activeConn`, `closing`, per-connection `waitingReply` and mutex | accept loop, `Handle`, `Write`, `Close`, signal handling | clients, database |
| `resp/client/client.go` | `pendingReqs`, `waitingReqs`, the connection | `Send` (3 s timeout), `handWrite`, `handleRead`, `heartbeat`, reconnection, `Close` | a peer's server |
| `cluster/com.go`, `cluster_pool.go` | a pool of clients per peer | `getPeerClient`, `relayExec`, `broadcastExec`, `returnPeerClient` | client, peers |
| `cluster/router.go` | none of its own | relayed single-key commands, `RENAME`, `DEL`, `SUNION`/`SINTER`/`SDIFF` and their `STORE` forms, `FLUSHDB`, `SELECT`, `PING` | `relayExec` |
| `lib/consistent_hash`, `lib/wildcard`, `lib/sync/wait` | ring; compiled pattern; counter | `PickNode`; `IsMatch`; `WaitWithTimeOut` | router; `KEYS`; connections and requests |

Where it is hard, and what makes each part correct:

* **Locks.** A command locks several shards; `sync.RWMutex` prefers writers; `Clear`
  replaces the table with its mutexes while they are held. Correct means: no two
  clients in a shard unless both read, no circular wait, every lock granted, and
  unlocks that match locks.
* **Execution and log.** The write to the map and the send to the AOF channel are
  separate steps under the locks; the channel is bounded, so a sender blocks while
  it holds shards. Correct means: each command takes effect at one moment, the log
  has the order of the effects, a restart finds a prefix of them but for those whose write to
  the file failed, and every command is answered.
* **Append-only file.** The file says in which database a command ran only through
  the `SELECT` before it, and `currentDB` is a cache of what the file says; writes
  fail, the process dies. Correct means: each command is replayed in its own
  database, in order, and a bounded number is lost.
* **Scans** hold one shard at a time. Correct means: what is there throughout is
  found, nothing that never was there is, and the scan ends.
* **Client.** Replies have no numbers: the pairing with requests is the order of two
  queues, across timeouts, late replies and reconnections, and every payload that the parser makes counts as a reply.
* **Server.** Three parties close connections: the client, `Handle`, and the
  shutdown. Correct means: no leak, no reply cut, and the server ends.
* **Cluster.** Multi-key commands are made of relays, between which others write and
  any of which may be lost or late; a relayed `FLUSHDB` is relayed again. A pooled connection carries a session (the
  database selected) from one user to the next.

* **Collections** change their encoding as they grow, and each encoding has code of its
  own: the packed integers are moved by hand, the skip list keeps levels, tail and length.
  Correct means: no element is lost or doubled at an upgrade or a conversion, commands answer
  the same whatever the encoding, a failed command leaves no trace, and a replay of the log
  builds what is in memory.
* **Parser.** One state machine reads clients, peers and the file, where the last entry may
  be torn. Correct means: what was written whole is read as it was written, and the reader
  comes to the end of the stream and tells its user so.
* **Hash ring and patterns.** Each node builds its ring from its own configuration. Correct
  means: all agree where a key lives. A pattern is compiled and matched by a table; correct
  means the names that `KEYS` documents.

The list of hazards in `PROJECT.json` names the lines where these bite and the properties about
them. Hazards without a property: a heartbeat or a writer that sends to a queue which `Close` has
closed panics (`client.go:202`), in the model as in the code.

## 2. Modules

| module | models | extends / instantiates |
|---|---|---|
| `ConcurrentDict` | the lock layer | |
| `Replies` | the reply types | |
| `Commands` | string, key and list commands as functions on a database | `Replies` |
| `DB` | one database: execution, log, restart | `Commands`, `ConcurrentDict`, `DurableStore` |
| `DurableStore` | abstract: atomic, ordered, durable commands | `Commands` |
| `CommandLaws` | the commands against reference definitions, on the contents a run of `DB` reaches | `DB` |
| `Strings` | members, fields and values: what parsing, formatting and comparing make of them | |
| `HashSet`, `Hash`, `SkipList`, `ZSet` | the data structures with their encodings | `Strings`; `ZSet` extends `SkipList` |
| `Collections` | set, hash and sorted-set commands, their log and restarts | `HashSet`, `Hash`, `ZSet`, `Replies` |
| `CollectionLaws` | those commands against reference definitions, on every database a run of `Collections` reaches | `Collections` |
| `Parser` | `ParseStream` and `ToBytes` on a stream of bytes | |
| `Wildcard` | patterns, and a reference definition of what they match | |
| `Scan` | `ForEach` (with the pattern of `KEYS`), `Keys`, `DictScan` under concurrent writes | `Wildcard` |
| `Aof` | the file of several databases | |
| `Client` | the pipelined client | |
| `Server` | connections, handlers, shutdown | |
| `Relay` | pool, `SELECT` and command, broadcast | (`Client` as the behaviour of a connection) |
| `HashRing` | the consistent hash | |
| `Cluster` | the router's multi-key commands on sets | `HashRing` (`DB` as the atomicity of one node's command) |
| `ConcurrentDictProofs`, `AofProofs`, `ClientProofs`, `ServerProofs`, `RelayProofs` | theorems about the module of that name | the module |
| `ClusterProofs` | theorems about `Cluster` and the rings it is built on | `Cluster` |
| `ScanProofs` | theorems about `Scan` and the patterns of `Wildcard` | `Scan` |
| `DBProofs` | lemmas on what the string, key and list commands write, read and answer; theorems about `DB`, the refinement of `DurableStore` and the laws of the commands among them | `CommandLaws`, `ConcurrentDictProofs` |
| `MC...` | constants of the runs | |

**ConcurrentDict.** `pc` is where a client is in `execNormalCommand`; `plan` the
shards `toLockIndices` gives it (one per shard, write beats read); `todo` those
still to lock or unlock; `table` counts the tables `Clear` has made. A mutex is
named by table and shard, since the code evaluates `&dict.table[index].mutex`
anew for each call. Of `sync.RWMutex` (external) `owner` is the writer that has
taken the inner mutex, `readers` those inside, `rwait` the readers that wait for it. `CallLock`, `Announce`, `LockReturns`, `RLock`,
`RLockWaits`, `RLockReturns`, `Unlock`, `RUnlock` are the points at which another
goroutine can come between. `fault` is the fatal error of an unlock of an unlocked
mutex, and ends the behaviour; `torn` remembers that `Clear` replaced a table in
use.

**Commands.** An entity is absent, a string or a list. `execNormalCommand(db, line)`
gives the writes the command makes, in order, whether it replaces the table, whether
it is logged, and its reply (`Panic` for a panic that `Exec` recovers); other operators
give the keys `prepare` asks to lock and the arity check. A value is a model value with a length; an index is an
integer or `NotInt`, what `strconv` refuses.

**HashSet, Hash, SkipList, ZSet.** Each structure is a record with the fields of the Go struct,
its encoding among them. A cell of an `IntSet` is one value that `Truncated` cuts to the
cell's width; `bits` gives the widths, so that a small instance overflows them. The binary search, the moves of `insertAt` and
`removeAt` and the order in which an upgrade rewrites the cells are those of the code. A skip
list is its `Forward` pointers by node and level; the random height of a new node is an
argument, over which the commands are nondeterministic. Scores are integers; a listpack keeps them as `%f` prints
them, which `formatScore` rounds to the sixth decimal. The order of a Go map is any order: where it can be
told from the outside, operators return the set of all outcomes.

**Collections.** `mem` is the database, `file` the one that `LoadAof` would build from the log
at that moment, `unsure` the keys for which the two may differ because the command was logged
in a way that replays otherwise. `Exec` chooses one of the `Outcomes` of a command line (database,
log entries, reply) and replays the entries into `file`; `Restart` takes `file` for memory. `work` is the workload
of the behaviour: sets, set algebra, hashes or sorted sets.

**Parser.** `wire` holds the bytes written and not read, `state` is `readState`, `payloads` what was
sent on the channel, errors and nil too: the handler and `LoadAof` skip these (`Data`), the client of the cluster does not (`OnePayloadEach`). `Send` writes a message with its `ToBytes`, `Tear` a part of one, as a crash leaves
it in the file, `Close` ends the stream. `Parse` is one round of `parseIt`'s loop: `readLine`, then the branch the
state and the first byte choose; `ParsePanics` the recovered panic, after which nobody closes the channel;
`ParseEnds` the end of the stream.

**DB** cuts execution into `Receive` (arity check and `prepare`), `Refuse`, the
steps of `ConcurrentDict` (through `Lock` and `Unlock`), `Exec` (reads), `Write`,
`Flush`, `AddAof`, `Respond`. `HandleAof` takes the channel's head
into the file, which is kept as `image`, the contents that replaying it gives, and
`poisoned`, that replaying it panics. `HandleAofFails` is the failing write, of the command or of the `SELECT` before it: the command
is gone and the loop goes on with the next. Which commands' writes may fail is the constant `Failing`. `Restart` clears memory and loads `image`. `store` and `skewed` are history: what the
commands leave when they are executed as a whole in the order of their `addAof`, and the keys of those whose write has failed.

**DurableStore** is what a client may count on: between request and answer the
command takes effect once, on what all earlier commands left; effects become
durable in that order (`Persist`), but for one whose write fails (`Skip`): clients go on seeing it in `memory`, a restart will
not find it. A restart loses those that are not durable. `DB!DS` maps `memory` to `store`, `durable`
to `image`, `pending` to the channel, `request` to `cmd` and `answer` to the result of a
command that is done: a command that is logged takes effect at its `addAof`, when it
still holds its locks, so that nobody can have seen its writes before.

**Aof.** A command is its number. `Receive` is the head of `handleAof`'s loop with the
comparison of databases and the assignment to `currentDB`; `WriteSelect` and
`WriteCmd` are the two writes; `WriteFails` either of them failing with its
`continue`; `Crash` may come at any step; `LoadAof` replays the file and, as in the
code, appends `SELECT 0` without resetting `currentDB`. `skewed`, `dropped` and
`crashed` are history.

**Scan.** A scan enters a shard (`Visit`, `VisitPage`) and takes its keys one by one, in any order, as the iteration over a Go map does:
`Take` is the body of `KEYS` and of `DictScan`, with their pattern, `Fill` that of `Keys`. `rest` are the keys to come of the shard that is
locked; nobody writes to that shard meanwhile (`Locked`), to the others they do. `filled` is the variable `i` of `Keys`: once the result is full, a key is appended and `i` stays behind it, so the key
after it is written over it. `range` is the
table that `range dict.table` evaluated to, so a scan goes on with an old table after
`Clear`, where `DictScan` reads the current one at each index. `glob` is the pattern of `KEYS`: names and patterns
are sequences of bytes, `CompilePattern` turns a pattern into items byte by byte (`compile` is its loop, `compileByte` one turn
of it) and `IsMatch` fills the code's table `Row` by `Row`. `Matches`, the reference, cuts a name into pieces, one for each part of the glob, and
`Notation` writes a glob as the comment of `execKeys` does; what a part stands for is what that comment says.

**Client.** `Make` creates a request; `Enqueue` sends it to `pendingReqs`; the writer
takes it, writes (`WriteReaches`, `WriteIsLost`, `WriteFails`), dials again up to
`Retries` times, and pushes it to `waitingReqs`; a reader of each connection
reads a payload, a reply or an error, and gives it to the head of `waitingReqs`. A timed-out
request stays in the queues, as in the code. The peer (`Answer`, `Break`) is external. `AnswerMisread` is a reply of which the parser does not
make one payload; `Misread` lists what it may make: nothing, an error, two payloads, or a panic, after which the reader waits for ever
(`ReadPoison`). Breaks and misread replies are counted by `faults`.

**Server.** `Accept` starts a handler and counts it; `AcceptFails`, at any time, ends the loop; `Start` tests `closing`; `Store`
adds to `activeConn`; `Payload`, `Exec`, `WriteEnds` serve one command;
`ReadEnds`, `CloseWait`, `CloseSock`, `DeleteClient` end it; `ParserPanics` leaves the handler
`stuck` on a channel that nobody closes. The signal goroutine
closes the listener, sets `closing`, ranges over `activeConn` (what was there when the
range began is visited, what is stored meanwhile may be, as `sync.Map` promises), waits for the
reply counter with a timeout and closes each connection.

**Relay.** A frame is one run of `ClusterDatabase.Exec`, for a client or for a relayed
command; frames of relayed commands run at the node that serves them and may relay in
turn. A slot is a pooled connection: `user` the frame it is lent to, `inbox` the
requests in it, `session` the database selected at its far end. `BorrowFails` is the error of `getPeerClient`: a pool that has room for a connection has to dial it
and cannot. `Inputs` are the pairs of command and database
that clients send.

**Cluster.** Keys hold sets, and each node has its own data: `data[n][k]`. Each node picks by the ring that
`AddNodes` of `HashRing` builds from its own peers and itself: the loop over the names is `Added`, `Sorted` is `sort.Ints`. `call` is the command a coordinator is running: the key `i` that it
fetches next, or the nodes `groups` that a `DEL` has yet to try, the accumulated set, the stage of a `STORE`. `Fetch` is one relay of
`SMEMBERS` with the router's treatment of each reply type; `DelDest` and `AddDest` are
the two relays of a `STORE`; `RENAME` is relayed to the source's node when the names share a node; `DelNode` the relays of `DEL` per node. `Lost` and `Late` are the
two ways a relay fails, `Arrive` executes a late one.

## 3. Runs

Deadlock is checked except where the model can rightly come to rest: all requests
made (`AofWriter`, `Client`, `Relay`), the stream read (`Parser`), the server returned
(`ServerLife`), or a fatal unlock (`LockLayer`, `FlushFatal`).

### Runs that pass

Where a run checks a conjunction, the table names it and then its parts; the parts are
definitions of their own, each with its comment.

| run | instance | shows |
|---|---|---|
| `LockLayer` | 3 clients, 3 keys in 2 shards; the lock requests of `RENAME` and `SUNIONSTORE`, which lock the shards in opposite roles (one of them writes and reads in one shard), and of `FLUSHDB`; one `Clear`; 146 000 states | `NoCircularWait`: no set of clients each of which waits for another of it, the readers held back by a waiting writer included; `MutualExclusion`; `UnlocksMatchLocks`; `LocksAreGranted`; all of them until a table in use is replaced. `LockOrder` always |
| `Database` | 2 clients, 2 keys in different shards, `SET` of both, `RPUSH`, `LPOP`, `DEL` and `EXIST` of both keys, a channel of 1, the write of `RPUSH` failing at any time, restarts; 104 000 states | `RaceFree` (`TypeOK`, `NoMapRace`): no shard's map is written while another goroutine reads or writes it; `LogAgrees`: every key that no command is writing or about to log has in memory what the logged commands leave in the order of the log, and file and channel restore the same unless a write of a command on that key has failed; `ImplementsDurableStore`; `EveryCommandAnswered`, though senders block holding locks |
| `Commands` | 1 client, every command, indices beyond both ends, an argument that is no integer, a wrong arity, an unknown name, `FLUSHDB`, the write of `RPOP` failing at any time, restarts, lists up to 2; 795 000 states | on every contents reached: `ListLaws` (`RangeAndIndexAgree`, `LSetChangesOne`, `PopUndoesPush`) and `KeyLaws` (`DelCountsKeys`, `RenameMoves`); `Bootable`: only a `GETSET` of a list spoils the file; `ImplementsDurableStore` |
| `Collections` | 3 keys, members that parse alike (`1`, `01`), do not parse, need each width, or are long; limits of 2 elements, cells of 2, 3 and 4 bits, 2 levels; restarts; 11 000 states, on each of which the laws try every command of the workload | `EncodingsSound` (`IntSetSound`, `SkipListSound`): the encodings are well formed; `EditsExact` (`OthersKept`: what a command does not name stays as it was through upgrades and conversions; `AsAsked`: what it names is as asked for; `CountsExact`); `SetAlgebra`; `RangesAndRanks` (`RangesExact`, `RankBound`); `ErrorsChangeNothing`; `Restores`: the log rebuilds memory, encodings included |
| `Parser` | up to 3 of 14 messages of every kind, with arguments that look like protocol; 1 command torn at any byte; 269 000 states | `ParserInv` (`TypeOK`; `RoundTrip`: what is whole is read as written, in order, once; `OnePayloadEach`: a message makes one payload, if it is in none of the forms of section 6); `EndsWithAll`: the reader comes to the end and closes the channel |
| `AofWriter` | 2 databases, a channel of 2, 5 commands, 1 failed write, 2 restarts | `MisfiledOnlyWhileSkewed`: a command is under another database's `SELECT` only if it was written while `currentDB` was out of step with the file; `FileInSendingOrder`; `LossWindow`; `SentIsWritten` |
| `Scans` | 3 keys, 3 shards, all three scans, counts 0 to 2, ten globs on names of up to 3 letters, two of them for `DictScan`, one `Clear`; 665 000 states | `ScanExact` (`ScanComplete`: what is there throughout and is asked for is reported, but `Keys` may lose one key for every two that are inserted meanwhile; `ScanSound`: nothing that never was, nothing twice in a call, blanks only when keys were removed); `GlobExact`: the compiled pattern and the matcher's table accept the names the glob matches as `key.go` documents it and, but for `[^a-b]`, no others; `ScanEnds` |
| `Client` | a caller and the heartbeat, queues of 1, 5 requests, the second and fourth of which may be heartbeats, 2 connections, 1 fault (a break or a misread reply); 616 000 states | `ClientInv` (`TypeOK`; `RepliesMatchUntilFault`: no request gets another's reply until the first connection breaks or a reply is misread; `ClogsOnlyByFault`: nor does `waitingReqs` stay full until then); `CompletedOnce`; `EveryCallReturns`: unless requests without a reply have clogged `waitingReqs` |
| `ServerLife` | 2 connections, a signal and an error of `Accept` at any time, a parser that panics; 73 000 states | `ServerInv` (`TypeOK`, `ReturnsWhenIdle`, `NoLeak`); `ShutsDownUnlessLate`: once `closing` is set the server ends, unless a handler was then between its test of `closing` and its store, or waits for a parser that is gone |
| `Cluster` | 2 nodes, 3 keys, 2 members (symmetric), every initial contents, 1 write by another client, 1 lost or late relay; `SUNION`, `SINTER`, `SDIFF`, their `STORE` forms with a local and a remote destination, `RENAME`, `DEL`; 1.3 million states | `ClusterInv` (`TypeOK`; `OneHome`: a key is only ever held by the node nearest on the ring, though the nodes are configured differently and relays are late; `DelTriesEveryNode`: an error of one node does not keep `DEL` from the others); `ReadsInWindow`: a read answers at least what is in the result throughout and at most what could be in it for values the keys had meanwhile; `StoreReplaces`: a `STORE` that reports success has put the result in place of what was there, unless its `DEL` failed or another client wrote the destination |
| `Relay` | 2 nodes, a pool of 1 connection, 2 databases, 2 requests of key commands and a `FLUSHDB`, 1 break, any dial failing; 110 000 states | `RelayInv` (`TypeOK`; `OwnDBOrZero`: a relayed command runs in its own database or, after a break, in 0, never in one left selected by another user; `OnceUnlessFlush`: a request on a key is executed at most once, in spite of timeouts and breaks); `EveryRelayEnds` |

### A run that ends in a violation

It checks a statement of a document of the repository; section 6 says what TLC shows.

| run | property | statement |
|---|---|---|
| `FlushFatal` | `NoFatalUnlock` | `README.md:9`, execution is safe under concurrency |

### Why the bounds are enough

Two shards and three clients give every shape of wait: writer behind readers behind a
writer, and a cycle over two shards. Two keys in different shards give one-shard and
two-shard commands, so each race has both its victims. `GETSET`, `RENAME` and
`RENAMENX`, which write under read locks, are not among the commands of `Database` (section 6
says what they do there), and `Commands` has them with one client. The channels are of a size that
fills. Five commands in two databases with a channel of two let the writer fall behind,
switch databases twice, fail and restart between any two writes. Three scan keys, one in
the first shard and two in the last of three, let keys come and go before and behind the
scan, make one shard empty and one larger than a page, and counts 0 to 2 make a page end at
each of them; the globs have every kind of part, and `*` at either end, in the middle and twice.
The limits of the small encodings and the widths of the integer set are constants of the
code (512 or 128 elements, 16 to 64 bits); at 2 elements and 2 to 4 bits the same code
upgrades, converts, and works on both sides of the conversion within a few commands, with
elements at both ends and inside. Three messages give one before, one behind and one torn.
`k1` has the hash of a node, `k2` lies before all nodes and `k3` beyond the last, where the
ring wraps; node `n2` lists its peer twice, and an empty name. Five requests fill two queues of one and the writer's hand behind one that was lost, so that the fifth
call is blocked: the smallest number with which a break, or a misread reply, clogs the client; two heartbeats come between calls. The commands
whose writes fail are one that fills a key and one that empties it; they fail at any time, any number of times. One connection in the pool (the code has 8) is where contention and
the inheritance of a session show at once; more connections only make the wait rarer. One
failure, at every possible step, is what the properties that allow for failures speak of.
Lists of two elements have both ends, an inside and an outside for every index tried.

The broadcast of a `FLUSHDB` that nodes send to and fro has no end in sight: `MaxFrames` stops it at four executions, and
what is relayed beyond that stays in its connection until the sender times out. `Fits` in `DB` refuses pushes to a list of `MaxLen` and clears beyond `MaxClears`; no other
bound changes what the code would do with a command.

## 4. Fairness

Weak fairness on a step of a goroutine says that a goroutine that can go on is scheduled,
which the Go runtime gives. Beyond that:

* `ConcurrentDict`, `DB`: strong fairness of `Announce`, the moment a writer gets the
  inner `sync.Mutex` of an `RWMutex`; the starvation mode of `sync.Mutex` hands it to
  the longest waiter. Strong fairness of `AddAof`: senders blocked on a channel are
  queued first-in first-out.
* `Aof`: the writer runs, and the process is started again after it dies.
* `Client`: a timer fires; a blocked sender is queued (strong fairness of `Enqueue`).
  `FairSpec` says nothing of the peer; `AnsweringSpec`, under which the run is made, adds a
  peer that answers what it receives. Without it `EveryCallReturns` is false (section 6). A misread
  reply is an answer; nothing says that it must not come.
* `Server`: a read or write of a closed connection returns, and `Accept` of a closed listener. Nothing is assumed of
  clients: they need neither send nor leave.
* `Parser`: the parser goroutine runs; writers need neither write nor close.
* `Scan`: the scan is scheduled, the writers need not stop.
* `Relay`: `Send` times out after 3 s, which supposes that the client's queues do not
  fill (section 6); a borrower gets its turn (strong
  fairness of `Borrow`: go-commons-pool serves its waiters in order).

`Cluster` and `Collections` state no liveness.

## 5. Proofs

The theorems hold for every set of clients and keys, every number of shards, databases, nodes,
connections, requests and commands, every size of a queue, channel or pool, and every number of
clears, failures, breaks, misread replies and restarts, whichever writes to the file fail (`Failing` is any set of commands). Each is one of the properties a run checks, so TLC shows it on
the instance of section 3 and TLAPS for all. The inductive invariants were checked with TLC on the
same instances before they were proved.

| theorem | property | inductive invariant |
|---|---|---|
| `ConcurrentDictProofs`: `TypeCorrect`, `LocksAscend` | `TypeOK`, `LockOrder` | `TypeOK /\ Ordered` |
| `LocksExclude`, `NoFatalUnlockBeforeTear` | `MutualExclusion`, `UnlocksMatchLocks` | `LockInv` |
| `NobodyWaitsInACircle` | `NoCircularWait` | `WaitInv` |
| `AofProofs`: `TypeCorrect`, `MisfilesAreSkewed`, `FileOrdered`, `BoundedLoss` | `TypeOK`, `MisfiledOnlyWhileSkewed`, `FileInSendingOrder`, `LossWindow` | `OwnDBInv`, `OrderInv`, `LossInv` |
| `DBProofs`: `NoDataRace` | `RaceFree` | `StageInv` |
| `LogOrder` | `LogAgrees` | `LogInv` |
| `Durability` | `ImplementsDurableStore` | `RefineInv` |
| `OnlyGetSetPoisons` | `Bootable` | `BootInv` |
| `ClientProofs`: `CompletesOnce`, `ClientCorrect` | `CompletedOnce`, `ClientInv` | `OnceInd`, `ClientInd` |
| `ServerProofs`: `ServerCorrect` | `ServerInv` | `ServerInd` |
| `RelayProofs`: `RelayCorrect` | `RelayInv` | `RelayInd` |
| `DBProofs`: `KeyCommands`, `ListCommands` | `KeyLaws`, `ListLaws` | `BootInv`, `ListInv` |
| `ClusterProofs`: `ClusterSafe`, `ReadsWithinWindow`, `StoresReplace` | `ClusterInv`, `ReadsInWindow`, `StoreReplaces` | `IndInv` |
| `ScanProofs`: `ScansExact`, `GlobsExact` | `ScanExact`, `GlobExact` | `ScanInd` |

They use the assumptions on the constants that the modules name, which give types (a bound is a
number, `spread` maps keys to shards), at least one shard, database and place in a channel, and that
`NoClient`, `NoCmd`, `NoConn` are none of what they stand aside from. Beyond types: `ConnsAssumption` of `Server`
(there are finitely many connections, since `waitDone` counts their handlers), `LinesAssumption` of
`DB` (a command line that passes the arity check has its arguments divided into keys, values
and integers as the command reads them), `NodesAssumption` of `Relay` (the list of nodes has no node twice), `PeersAssumption` and
`HashAssumption` of `Cluster` (each node lists all the others, in any order and as often as it likes; no two nodes have one hash), and
`GlobsAssumption` of `Scan` (the globs are those that the comment of `execKeys` describes: a set between brackets has plain bytes, and the ends of a
range are in order).

**Lock layer.** `LockOrder` speaks only of clients that wait; between two locks nothing of it is left. `Ordered`
says of each client that is anywhere in `RWLocks` that all it has locked lies below all it has yet
to lock, that its plan has no shard twice, and that what it waits for is in the part of the plan
(write or read) it waits as. That is inductive, because each step takes the
lowest of `todo`. `MutualExclusion` and `UnlocksMatchLocks` need in addition `Locked`: until a table in use is replaced, what a client
holds by its program counter is what the mutexes of the current table record: a shard it holds for
writing has it as owner and no reader, a shard it holds for reading has it among its readers, a
writer that waits for readers to leave is the owner, and a reader that waits is known to the mutex; `LockInv == TypeOK /\ Ordered /\ Locked`.
`NoCircularWait` is about all sets of clients at once. `Traces` adds the converse of `Locked`: an owner or
a reader in a mutex is a client that holds that shard or waits for its readers. So whoever is waited for and waits itself has got
further: it waits at a higher shard or, at the same one, it is a writer that has announced itself where the other has not.
In a set whose members all wait for one another the one that has got furthest would have to wait for one further still. The set of clients may be infinite; that there is a furthest comes from the shards.

**Append-only file.** A command in
the file is under another database's `SELECT` only if it was written while `skewed`, that is after
one of the two events of section 6 (`aof.go:122`, `aof.go:140`). It needs `InStep`: while not skewed, the last `SELECT` of
the file is that of `currentDB`, or it is about to be written; `OwnDBInv == TypeOK /\ InStep /\ MisfiledOnlyWhileSkewed`.
`FileInSendingOrder` needs `Numbered`:
the numbers in the channel ascend by one, follow the one in hand, and end with `sent`;
the file's lie below. `LossWindow` needs `Accounted`: the numbers up to `Settled`
(the commands sent less those in memory) are exactly those in the file, `dropped` and `crashed`; with
`Numbered` the ones in memory are then the last `aofBufferSize + 1` at most. `LossInv == OrderInv /\ Accounted`, with
`OrderInv == TypeOK /\ Numbered /\ FileInSendingOrder`.

**Commands.** `DBProofs` begins with what its theorems need of the commands, for every database and
every command line: a command writes only keys it names, and values of the right type
(`ExecSound`); what it writes and answers depends only on the keys it names (`ExecLocal`); its
writes, made one by one or all together, leave the same contents (`StoredStep`); of the
commands that are logged only `GETSET`, of a list, panics (`PanicFacts`).

**Database.** Three theorems carry the hypothesis `Guarded`: no client sends `GETSET`, `RENAME`, `RENAMENX` or `FLUSHDB`.
These four write keys that their `prepare` locks for reading or not at all, and the properties fail with them (section 6); they hold for
all others, which is what the hypothesis says. `Durability` assumes also that the constant `NoReply` is no reply.
The steps of the lock layer are instances of those of `ConcurrentDict`, so that `LockInv` is carried over from `ConcurrentDictProofs` and not proved again.

* `StageInv` ties the phases of a command to the locks: who writes or logs has locked for writing
  the shards of all its keys, and what is left of its writes names only them. With
  `MutualExclusion` no other client is then at work on these shards.
* `LogInv` adds `SettledAgree`, the half of `LogAgrees` that is about memory and `store`, and `Serial`: a command that is half way will leave, under its keys, what it would leave
  if it were executed as a whole on `store`, after everything that is logged already, and answers the same. That survives
  the steps of others because their keys are different ones (`ExecLocal`), and it is what makes `LogAgrees` true
  again at the moment the command is logged. `FileAgree` is the other half: what file and channel restore agrees with `store` on the keys outside
  `skewed`. When a write fails the commands behind it in the channel are replayed on other contents, but they differ only under the keys of the lost
  command, and a command reads only the keys it names, each for itself. `Replay` is a recursive function over the channel; what it gives for a longer or shorter
  channel (`ReplayAppend`, `ReplayTail`) is proved by a least counterexample.
* `RefineInv` adds that what is answered is a reply. `Durability` is the refinement with the mapping of section 2: `AddAof` of a
  logged command is the step at which it takes effect, `Exec` that of one that is not logged,
  `Refuse` that of one that is refused, `HandleAof` is `Persist`, `HandleAofFails` is `Skip`, `Restart` is `LoseMemory`, all other steps stutter.
* `BootInv` (for all commands): what is in the channel or on its way there is a command that
  writes, on entities that are well typed; then only `GETSET` of a list can panic when it is replayed.
* `KeyCommands` and `ListCommands` are laws of the commands on every contents the database can have, for all commands and
  indices in any set of integers. `BootInv` gives that the contents are well typed. `PopUndoesPush` needs more: an empty list under a key would make a pop
  answer nothing where the push had made a list. `ListInv` says that no list that is stored, that a restart would find, or that a command has decided to
  write is empty: a pop that takes the last value removes the key. What the fold of `DEL` over its keys counts and removes, and what `LRANGE` selects,
  is proved by a least counterexample, as `Replay` is.

**Client.** `OnceInd`: a request is in one place only, with a caller that is about to send it, in `pendingReqs`,
in the writer's hand or in `waitingReqs`, and has no reply as long as it is in one of them. `ClientInd`
adds `Matching`: while the connection is `Intact` (the first one lasts and no reply was misread), the reply that was read, the replies on their way back and the requests at the peer are, in this
order, the requests in `waitingReqs` and then the one that was written and not yet queued. The reply may come before the writer has queued its
request, and `Close` may close the queue in between, so the second half is said of an open queue only. That the client is not clogged then (`NeverClogged`) follows: to every request in
`waitingReqs`, and to the one in the writer's hand, a reply is on its way, so the reader will take one out. `Steady` says that without a fault only
`Close` takes the first connection away.

**Server.** `ServerInd`: `waitDone` is the number of handlers that run; where a handler is says whether its connection is
open, stored and replying; the goroutine that shuts down visits only connections that were stored.

**Relay.** `RelayInd` has, for `OwnDBOrZero`, `Prepared` and `Ready`: right before a command in a connection, or at its end if the command is
about to be sent, is the `SELECT` that was sent for it, and if that has been served or lost the session has
its database, or 0 after a break. It takes `Lent` and `Lender` (a connection has one user, between `SELECT` and command too), and
survives a user that timed out, whose command is still in the connection when the next user sends `SELECT`. For `OnceUnlessFlush` it
has `RelayedOnce`: what a client's frame has relayed for a command on a key is in one connection, once, or is served by one frame of another
node, and never both; and `OneTarget`: the frame that serves it has no other node to relay it to.

**Cluster.** First the rings: `Added` keeps every node of the list at its hash, `Sorted` is a sorted permutation (that there is one comes
from a least counterexample over the length), and so the first hash that is not before a key's belongs to the same node for every order of the list: all
nodes pick one `Owner` (`PickedOwner`). `IndInv` has then, for `OneHome`, `Wire`: what a node stores is its own, and a late command that would fill
a key is on its way to the key's owner. `OneHome` alone is not inductive, since a late `SADD` or `RENAME` executes long after its call is over. For `ReadsInWindow` it has
`Gathered`: what a call has accumulated is in the window of the keys fetched so far. The window of a key is what it held throughout the call (`lo`, which shrinks)
and what it held at some time of it (`hi`, which grows); `Sound` depends on these and the call alone, so a write by another client keeps it. For
`DelTriesEveryNode` it has `Deleting`: a key named by a `DEL` has an owner that is still to be tried, or is gone, or its owner failed. For `StoreReplaces`,
`Cleared`: between the `DEL` and the `SADD` of a `STORE` the destination is empty, unless the `DEL` failed or another command wrote it.

**Scans.** `ScanInd`: what stayed lies between what was there at the start and what is in the table the scan looks at, and that table is the current one unless
nothing has stayed (`Contents`); the keys that a call has come to (`seen`) and those to come of the locked shard (`rest`) are behind the scan, apart, and with the earlier
calls they are all that stayed there and are asked for (`Passed`). `Filed` says what is in the result. `Took`, for `KEYS` and `DictScan`: the keys of `seen` that are asked for, each once. `Kept`, for
`Keys`, counts: while there is room every key of `seen` has its slot and the rest is blank; once there is none, each further pair of keys lengthens the result by one, so that of `n` keys for which no room was made at most
half are lost. That blanks need a removal takes `Sized`: while all keys have stayed, the count
of `DictScan` is below their number and it cannot go over to `Keys`, and the result of `Keys` has room for just these keys.

**Patterns.** `GlobMatch` is about one glob and one name, of any length. By a least counterexample over the rows and within a row, the entry `i, j` of the
table says whether the first `i` bytes can be cut into the first `j` parts; a `*` may take one more byte of what it took or nothing, which is what the two entries it looks at
say. The compiler is a loop with a state (`escape`, `inSet`, the set so far); each part of a glob, written by `Notation`, takes it from outside of brackets to outside of
brackets with one item more (`CompilesPart`), and what a concatenation does follows from its parts (`RunsConcat`). Item and part accept the same bytes
(`AlikePart`), if `[^a-b]` is taken for `[^ab]` (section 6): `TakenFor`, a definition of the proof, is the glob with that replacement. A glob is taken for itself unless it has such a part
(`NegatedRange`), and for one that matches more if it has, from which `GlobExact` follows for the documented meaning.

**Only model-checked**: liveness (`EveryCommandAnswered`, `LocksAreGranted`, `SentIsWritten`, `ScanEnds`, `EveryCallReturns`, `ShutsDownUnlessLate`,
`EveryRelayEnds`, `EndsWithAll`), since fairness and ENABLED are outside the prover; `ParserInv`, which is about what a
parser makes of every stream of bytes that a sequence of messages can be written as; and the six properties of `CollectionLaws`, about skip lists, packed integers
and the folds of the set commands over them.

## 6. Where the code falls short of its documentation

Shown by a run of its own:

* `FlushFatal`: `FLUSHDB` locks nothing and `Clear` replaces mutexes that are held; the holder
  then unlocks a mutex that is not locked, a fatal error of the Go runtime.

In the models, as the exception that a passing property has to make; each was found by checking the
property without the exception:

| where | what happens | exception in |
|---|---|---|
| `aof/aof.go:122` | `LoadAof` writes `SELECT 0` and keeps `currentDB`: after a restart whose file ends in database 1, the next command of database 1 is filed under 0 | `MisfiledOnlyWhileSkewed` (`skewed`) |
| `aof/aof.go:152` | a command whose write fails is skipped, after it was answered, and later ones are written: a restart has a state that never was | `LogAgrees` (`skewed`), `DurableStore` (`Skip`) |
| `aof/aof.go:140` | `currentDB` is set before the `SELECT` is written; if that fails, what follows is misfiled | `MisfiledOnlyWhileSkewed` (`skewed`) |
| `database/strings.go:21` | `GETSET` is registered with `readFirstKey` and writes under a read lock: two of them write in one order and are logged in the other, and a restart restores the wrong value | `Database` leaves it out (`LogAgrees` and `NoMapRace` fail with it) |
| `database/strings.go:70` | `GETSET` of a list is logged, panics, and panics again in `LoadAof` | `Bootable` |
| `database/key.go:82` | `RENAME` and `RENAMENX` remove their source under a read lock | `Database` leaves them out |
| `database/key.go:91` | `RENAME a a` puts and then removes `a` | `RenameMoves` |
| `database/set.go:238` | `SPOP` is logged as `SPOP`: a replay draws other members | `Restores` (`unsure`) |
| `datastruct/set/hash_set.go:34` | `01` is stored as `1` in an integer set and as `01` in a hash table, so the two are one member or two, and a set that converts may hold both | `AsAsked`, `SetAlgebra` (`Canon`), `Restores` |
| `database/set.go:427` | `SINTERSTORE` and `SDIFFSTORE` with an empty result leave the old destination, against the comments at `set.go:414` and `set.go:489` | `SetAlgebra`, which judges the destination only when something is stored |
| `database/hash.go:18` | a hash command on a key of another type panics instead of answering `WRONGTYPE` | `ErrorsChangeNothing` (`panic`) |
| `database/zset.go:58` | `ZADD` with a bad second score has added the first member and logs nothing | `ErrorsChangeNothing`, `Restores` |
| `datastruct/skiplist/skiplist.go:246` | `GetRank` counts links, not the nodes they pass: `ZRANK` answers too little when nodes are higher than 1 | `RankBound` |
| `datastruct/zset/zset.go:87` | a listpack rounds scores to six decimals, a skip list does not | `AsAsked`, `Restores` |
| `resp/parser/parser.go:233` | in an array an argument that begins with `$` is taken for a header, and an empty argument other than the last spoils the message; an empty single bulk is a failure; the line behind an empty last argument, or an empty bulk, makes a payload of its own | `RoundTrip` (`Misread`), `OnePayloadEach` (`EndsEmpty`) |
| `aof/aof.go:156` | an entry torn by a crash swallows part of what is appended behind it, and what is left over may be read as commands that nobody sent, one or more | `RoundTrip`, `EndsWithAll` (`FirstBad`) |
| `resp/parser/parser.go:46` | a panic of the parser is recovered and the channel stays open: the handler, or `LoadAof` at the start of the server, waits for ever; an entry torn behind a bulk header can cause it | `ShutsDownUnlessLate` (`stuck`), `EndsWithAll` |
| `lib/wildcard/wildcard.go:47` | `[^a-c]` keeps out `a` and `c` only, against the example at `database/key.go:127`; between brackets `*`, `?` and `\` keep their meaning, and a set that is not closed is dropped | `GlobExact`, `ScanSound` (`NegatedRange`) |
| `lib/consistent_hash/consistent_hash.go:41` | two nodes with one hash: each takes itself for the owner | `HashAssumption` |
| `concurrent_dict.go:277` | the comment on `ForEach` says that new entries are not visited; they are | `ScanSound` (`ever`) |
| `concurrent_dict.go:311` | `Keys` appends to a full result without advancing `i`, and writes the next key over the one appended: of two keys inserted meanwhile, one pushes out a key, also one that was there throughout | `ScanComplete` (`Unforeseen`) |
| `concurrent_dict.go:302` | `Keys` pads with empty strings when keys are removed after `Len` | `ScanSound` |
| `resp/client/client.go:116` | after a reconnection replies go to the requests lost with the old connection | `RepliesMatchUntilFault` |
| `resp/client/client.go:91` | every payload goes to a waiting request: a reply of which the parser makes two or none shifts all later replies, and one on which it panics leaves the reader waiting for ever | `RepliesMatchUntilFault`, `ClogsOnlyByFault` (`faults`) |
| `resp/client/client.go:77` | with a silent peer both queues fill and `Send` blocks before its timeout starts | `EveryCallReturns` (`AnsweringSpec`) |
| `resp/client/client.go:160` | requests lost with a connection, or without a reply of their own, stay in `waitingReqs`; when they fill it the writer blocks, and after it every caller, for ever (the comment on `Start`, `client.go:54`, says that the client never gets stuck) | `EveryCallReturns` (`Clogged`) |
| `resp/client/client.go:202` | a heartbeat that is due sends to the channel `Close` has closed, a panic | `EveryCallReturns` (`panicked`) |
| `tcp/server.go:63` | any error of `Accept`, a passing one too, ends the server | `Server.AcceptFails` |
| `resp/handler/handler.go:56` | a connection stored after the range of `Close` is closed by nobody, and the server does not end | `ShutsDownUnlessLate` |
| `resp/connection/connection.go:32` | a reply that begins between the wait and the close is cut; the wait is 1000 s where the comment says 10 s | `Server.CloseConn` |
| `cluster/router.go:330` | an empty set of another node is left out of `SINTER` | `ReadsInWindow` (`Counted`) |
| `cluster/router.go:438` | `SDIFF` panics when its first key is absent on another node | `ReadsInWindow` (`FirstAbsent`) |
| `cluster/router.go:285` | a `STORE` whose `DEL` fails adds to the old set and reports success | `StoreReplaces` (`failed`) |
| `cluster/router.go:125` | `flushDBFunc` broadcasts whatever `FLUSHDB` it is given, relayed ones included (`cluster/com.go:71` speaks of one relay to every node): the nodes send it to and fro until the pools are empty and the relays time out | `OnceUnlessFlush` |
| `cluster/com.go:63` | a connection dialled again after `SELECT` runs the command in database 0 | `OwnDBOrZero` |

## 7. Not modelled

* `execSetType`, which is registered for no command; `RandomKeys` and `RandomDistinctKeys`, which no command calls on a `ConcurrentDict`; `sync_dict.go`, which
  no command uses.
* Scores that are NaN or infinite, and scores halfway between two printed ones; patterns that are not
  ASCII; two nodes with one hash.
* In `Cluster`, commands on keys that are routed by their first key although they name
  several (`EXISTS` and the like): each is one relay, as a single-key command is.
* The bytes of the file are in `Parser`; `Aof` and `DB` take it as whole entries. `Collections` runs one command at a time:
  the locks around them are those of `DB` and `ConcurrentDict`.
* In the runs of `DB` the writes of one command may fail, in the proofs those of any; that a failed `SELECT` misfiles what follows is in `Aof`, since `DB` has one database, and
  what a partly written entry does to those behind it is in `Parser`. `Collections` has no failing writes.
* A misread reply in `Client` is any of the replies `Misread` names, whatever the request was; that no other reply is one is `OnePayloadEach`.
* Configuration, logging, `util`, the entry point, the echo server and database: input and output, and
  test doubles.
* `sync.RWMutex`, `sync.Map`, channels, TCP, `crc32`, `strconv` and go-commons-pool are external and modelled
  by their contracts as the code uses them.

## 8. Plan

Done, in this order: lock layer; commands, database and durable store; the file of several
databases; scans; client; server; cluster and relay; the proofs of section 5; collections and
their encodings; parser; patterns; hash ring. No component with state that the commands
depend on is left to model.

Left, proofs: `IntSetSound` and `SkipListSound` of `CollectionLaws`, with the lemmas on binary search, on the moves of `insertAt` and `removeAt` and on the
search path of the skip list; then `OthersKept`. `RoundTrip` of `Parser`, with the state of the parser within a message as the inductive invariant.
