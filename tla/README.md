# A verification development of blockchain-event-plugin

The plugin mirrors the event logs of an Ethereum-compatible node in two MySQL
tables and answers `eth_getLogs` from them. This directory models the program in
TLA+, checks the models with TLC on small instances and proves the properties
that matter most with TLAPS.

## 1. The system

| Part | Source | State | Operations | Talks to |
|---|---|---|---|---|
| start-up | `main.go`, `setting/config.go` | configuration | read it, start the RPC server, wait for ever | RPC server, logger |
| RPC server | `rpc/rpcutil/*.go` | `status`, method table | decode a request, call a handler by reflection, encode the reply; answer after 300 s without it | handlers |
| `eth_syncBlockAndLogs` | `rpc/rpcserver/http.go:74-173` | locals of each request | block loop, log loop | node, tables |
| `eth_getLogs` | `rpc/rpcserver/http.go:46-71`, `rpc/filter/*.go` | locals of each request; one `PublicFilterAPI` and one goroutine per call | resolve the bounds, walk the heights, bloom, match | tables |
| tables | `dbdrive/db_models.go:15-263` | `block_bloom`, `logs` | five queries, two inserts | MySQL |
| row ids | `dbdrive/db_models.go:266-302` | `sn`, `lastTimeStamp`, `mu` | `getSnowflakeId` | the clock |
| connection pool | `dbdrive/database.go` | pool of at most 150 connections, prepared statements | `Insert` (`Delete`, `Update` have no caller) | MySQL |
| shared errors | `types/errno.go`, `response.go` | `Data` of four global objects | overwritten by every failing request, marshalled later | handlers, codec |
| logger registry | `logger/log.go` | `outputs`, `adapters` | `SetLogger`, `DelLogger`, `writeMsg`, `Reset` | the three outputs |
| file logger | `logger/file.go` | open file, counters of lines and bytes, day | write, rotate, delete old files | file system |
| connection logger | `logger/conn.go` | connection, `illNetFlag`, `Reconnect` | write, reconnect | log service |
| console logger | `logger/console.go` | a lock | write | standard output |
| sha3, ecdsa, conv | `crypto/` | sponge buffer | hash, encode | nothing: no importer in the plugin |
| the node | not in the repository | a chain | grows, reorganises, answers | - |

There is no test in the repository.

What is hard in it: every HTTP request runs in a goroutine of its own, and the
handlers coordinate only through the tables, without a transaction and without a
unique key they could rely on. The synchronisation is a sequence of
check-then-insert steps, so every step of another request, a block of the node,
a reorganisation, a failing query or a crash may come in between; the 300-second
time-out answers the client and leaves the goroutine running. Errors are dropped
in three ways (an insert's error is printed; an error while iterating rows is
recovered from and reads as an empty result; the errors of `json.Unmarshal` and
`hex.DecodeString` are ignored). The complete list, with lines, is `hazards` in
`PROJECT.json`.

What makes each part correct:

* synchronisation: after success the range is complete in both tables up to what
  the request itself failed to store (true of blooms for ranges with two ends, of
  logs while no transaction is included twice; section 4 has the rest); nothing is
  stored for heights that do not exist; repeating it is harmless; it ends.
* query: every returned log matches and is stored; for a range that is completely
  mirrored nothing is left out; limits are enforced.
* row ids: they grow, and none is repeated, within the 25 days that the timestamp
  lasts for and while the clock is not set back; the mutex is always released.
* tables: seen by a reader, an append-only mirror: every row is of a block the
  node has or had, or is the empty row of number 0, and no row is taken back.
* RPC server: every request is answered, with its own result and under its own id,
  whatever the reply is decoded as on its way through the codec;
  the text of an error is at least of a request that failed in the same way at the
  same time; a shutdown signal stops the server.
* file logger: no line is lost before it expires, the counters are those of the
  open file, a file's length and the days of its lines are bounded by its name if
  the option `append` is set; without it one file holds everything.
* logger with its outputs: whatever becomes of the network, console and file get
  each message once if the level they are configured with admits it; the network
  output recovers.
* sponge: the output depends on the bytes written only, not on the portions.

## 2. Modules

| Module | Role |
|---|---|
| `Chain` | the blocks, forks and logs there can be: the constants all other modules share |
| `ChainNode` | the node, external to the repository: `head`, `canon` (which fork is canonical at each height), `NewBlock`, `Reorg`, and the two calls the handler makes; `had` records the blocks it ever had |
| `EventStore` | the tables as multisets of rows, the queries and the inserts of `db_models.go` |
| `SyncBlockAndLogs` | the handler, any number of requests at once, with time-outs and crashes |
| `MCSyncBlockAndLogs` | chains and ranges for TLC |
| `SyncBlockAndLogsProofs` | its theorems |
| `Mirror` | abstract: tables to which rows are added, one at a time, of a block in `had` or else the empty row; `SyncBlockAndLogs` implements it |
| `LogQuery` | one call of `eth_getLogs`, while rows are inserted |
| `MCLogQuery`, `LogQueryProofs` | criteria and logs for TLC; the theorems |
| `IdSource` | abstract: a source of numbers that are not repeated within one window of time |
| `Snowflake` | `getSnowflakeId`, step by step; it implements `IdSource` |
| `MCSnowflake`, `SnowflakeProofs` | the instance for TLC; the theorems |
| `RpcServer`, `MCRpcServer`, `RpcServerProofs` | the HTTP server, the codec, the time-out and the shared error objects; requests for TLC; the theorems |
| `Shutdown` | the two signal channels of `main.go` and `StartRPC`, and the status of the server |
| `FileLogger`, `MCFileLogger`, `FileLoggerProofs` | the file output of the logger with rotation, expiry, midnight, failures and restarts; messages and configuration for TLC; the theorems |
| `Logger`, `MCLogger`, `LoggerProofs` | the configuration of the outputs, the way of a message through them, and the network output step by step; configurations for TLC; the theorems |
| `HashObject` | abstract: a hash as its user sees it |
| `Sponge`, `MCSponge`, `SpongeProofs` | the sponge of `crypto/sha3`; it implements `HashObject`; two bytes for TLC; the theorems |
| `FiniteSums` | sums over finite sets and the induction over numbers and finite sets that the proofs use |

`SyncBlockAndLogs` EXTENDS `EventStore` and `ChainNode`, which both EXTEND `Chain`:
handler, tables and node are one state machine, because the interesting behaviour
is in the order of their steps. `LogQuery` EXTENDS `EventStore` only. The two meet in
`Mirror`: `SyncBlockAndLogs` implements it, and the `Writer` of `LogQuery`
inserts any row whatever, so that each insertion `Mirror` allows is one of
`Writer`'s up to the bounds of its instance. The ids of the rows are left out there (a row's id is
never read) and have a model of their own. `RpcServer` knows of the two handlers
only in what ways they may reply; `Logger` knows the file output only as a step
that writes a message.

### How SyncBlockAndLogs corresponds to the code

A request is in one of six control states, each just before one query, call or
insert: `checkBloom` (http.go:108), `callNode` (119), `saveBloom` (131),
`filterLogs` (147), `checkLog` (157), `saveLogs` (the loop of
db_models.go:229). An action is that operation together with the code up to the
next one: `BloomFound` includes `continue` and `i++`, `SaveBloom` includes `i++`.
`reply` is what the handler returns, `answer` what the client was told first,
which after 300 seconds is `timeout`.

Data are abstracted to what the handlers can tell apart. A block is its height
and the fork it belongs to; its hash and bloom are functions of these. A log is
its block, its transaction and its index. `ZeroRow` is the row that
`SaveBloom(0, "", "")` writes when `raw` was never filled: number 0, no bloom.
The index is compared as the code compares it: stored in hexadecimal
(`StoredIndex`), looked up as `"0x"` and decimal digits (`QueriedIndex`, the
number whose hexadecimal form is that string).

Errors: `Fault` lets a query, a call or an insert fail, at most `MaxFaults` times.
A failing query or call ends the request (`GiveUp`); a failing insert does not. An
error in the middle of iterating rows reads as an empty result (`BloomMissing`,
`LogMissing`).

Five history variables of the handlers (`head0`, `quiet`, `lostBlooms`, `lostLogs`,
`early`) and one of the node (`had`) record what the properties speak about. No
guard reads them.

Three pairs of notions are kept apart. What the client asked for (`Asked`: an open
`ToBlock` asks for everything up to the newest block) is not what the block loop
looked for (`LookedFor`: -1 is less than every height, so an open end makes it
empty). A log is stored when its own row is there, block, fork and all
(`LogStored`); it is named when some row has its transaction and its index, which
is all that the lookup means to ask for (`LogNamed`), and a row of a block that is
gone will do. And `had` has the very blocks, not only the heights, that were
canonical at some time below the head; `ZeroRow` is none of them.

Not modelled here: the ids (see `Snowflake`), the wrap of `i` at 2^63, the schema
of the tables beyond what the inserts say (it is not in the repository), the
contents of `types.SystemError.Data` (see `RpcServer`).

### How LogQuery corresponds to the code

A call of `eth_getLogs` writes nothing but the shared error object, so that calls
do not influence each other and one call stands for all. Its control states are
the places just before a query: `begin` and `end` (the two heights
`HandleGetLogs` reads, api.go:86 and 93), `range` (filters.go:169), `bloom` (201),
`hash` (153), `logs` (235). An action is that query and the code up to the next
one. `from` and `to` are `begin` and `end`, then `FromBlock` and `ToBlock`, which
`Logs` overwrites.

`Writer` is what the synchronisations may do between two queries: insert any row,
of any fork and height, in any order. That is more than they really do, so that
what holds here holds with them. `blooms0` and `logs0` are the tables when the call
started; only the properties read them.

What the code does with blooms is modelled as it is: the stored text begins with
`0x`, decoding stops there, and the bloom is empty for every block. A criterion
that names an address or a topic therefore finds nothing, and only calls with
wildcards reach the `logs` state. `FilterLogs` is nevertheless modelled in full,
and `SplitTopics` gives a log without topics the one empty topic that splitting the
empty text gives. The zero hash takes the path for ranges without bounds and
panics (`Panic`); the block of an unknown hash is the zero value, with number 0.

Errors: a failing query fails the call (`QueryFails`); an error met while iterating
rows is dropped, and reads as height 0, no bloom, the zero block, or fewer logs.

Not modelled here: the goroutine each call leaves behind (`timeoutLoop` serves an
empty map for ever), the false positives of real blooms (`FilterLogs` decides
about every row again), and the data of a log beyond its address and topics.

### How Snowflake corresponds to the code

`Lock` enters `getSnowflakeId`; `StampSame`, `Sleep`, `Wake` and `StampNew` are
the branches of `getSnowflakeIdProcess` up to `sn++`; `Return` is the rest and
the deferred unlock. `now` is the clock in microseconds; `Tick` advances it
between any two steps, past multiples of `TSMod` too, and `SetBack` sets it back
to any earlier time. `Restart` ends the process and zeroes its variables, which
takes a microsecond at least. The id is `(ts % TSMod) * IdShift + sn`: `|` adds
because the shifted timestamp has zeroes where `sn` has its bits, and `machineID`
is always zero.

`made` is a history variable: the ids returned so far, each with the time it was
made of and the `era` of that time, the number of times the clock had been set
back. The `Window` of an id is its era and the quotient of its time by `TSMod`: within one
the timestamp did not start again from zero. `IdsIncrease` speaks of ids of the same
window, and what implements `IdSource` are the ids with their windows. Neither has a
hypothesis about the clock, and neither is true of the ids across windows.

### How RpcServer and Shutdown correspond to the code

A request goes from `serve` (`ServeHTTP` up to the call by reflection) to `handler`,
and if that fails to `setData` and `marshal`. Every early return of `ServeHTTP` is
an action (`NotAllowed`, `Unread`, `Undecoded`, `MethodMissing`, `ArgsMissing`).
`SuitableMethod` and `HandlersOf` are `suitableMethods` and `parseFromRPCMethod`: a name
is the code of its first character and the rest, because subtracting 32 from that
code is all that is done to it. The prefix before the underscore is not looked at,
and `eth_GetLogs` finds nothing. What the handlers do is in the other modules;
here `Outcomes` says in which ways each may reply, and it may take for ever.

`types.InvalidParams` and `types.SystemError` are shared by all requests and written
without a lock. A Go string is two words, so `SetWord` and `MarshalWord` write and
read one word at a time, in either order: that is the data race as it is. Whose
text a word is of is all that is kept of the text.

A reply goes through the codec of json_codec.go:49-68: it is marshalled
(`Marshalled`), the bytes are decoded as a response with the error ignored (`Decode`), what
has an error or a result after that gives a response of its own and anything else
becomes the result (`NewResponse`), and the id is the request's in the end
(`SetReqIdent`). A list, a text and an object decode differently: only an object has
the fields of a response, and the id "000000" of `types.Responses` is no number. A handler
that succeeds waits for this in the state `encode`, one that fails in `marshal`.

Any handler may panic, `ServeHTTP` before it may as well, because all of them log and the
logger may panic (`Logger`). The panic is recovered from, and the recovering function logs
again: the client gets an empty body, or its connection is closed (`Panic`).

The `status` that makes `ServeHTTP` refuse requests is never set (`exit_signal` shows
it), so that branch is in `Shutdown` only. `Shutdown` has the two channels of signals
by their makers, `main` and `StartRPC`, and the two sets package `signal` and the
runtime keep about them: who asked to be notified, and who receives.

Not modelled: the client half of the codec (no caller), the headers, and of the JSON
everything but what `Decode` tells apart (list, text, object, error, result).

### How FileLogger corresponds to the code

`LogWrite` has three sections under the `RWMutex`, and each is one action: `Check`
(file.go:93), `Rechecked` or `Rotate` (the second test with `createFreshFile`, under
the write lock) and `Write`. A rotation may meet a taken number (`NoNumber`), a file
that is gone (`Gone`), a rename that fails (`NotRenamed`), and a `newFile` whose open,
stat or count of lines fails (`Restarted`): after each of them the code goes on in
its own way, and so does the model, the counters and `fileWriter` included.
`newFile` reads its counters from the file it has opened; `Restart` ends the
process and does the same with the file that is there.

All of the rotation is behind `if f.Append` (file.go:92), and the option is false when
a configuration leaves it out. `appendOption` is a variable that starts with either value and
never changes. `Begin` takes a message to `check` with the option and straight to `write`
without it. The limits (`LinesBounded`, `NoLineIsNewer`) are about files with `append=true`;
with `append=false` nothing is rotated or deleted (`KeptWithoutAppend`), and the other
properties are about both.

A file is its set of lines and the day it was last written. A line is a message,
with its number, the day it was logged at and its size. Old files have a date and
a number up to `MaxNum` (999 in the code). The code compares days of the month, so
that `Day` is the day modulo `Month`. `deleteOldLog` runs in a goroutine of its own;
one walk is atomic, and looks at the active file too. `Tick` is midnight; it
assumes that a walk is over by the next one and that no goroutine needs a month
for one message.

Not modelled: a line that is written in part, `chmod` failing, hours within a day
(a file that was last written exactly `MaxDays` days ago may or may not expire).

### How Logger corresponds to the code

`SetLogger` takes the three adapters in the order of `SetLogger` of log.go, each
replaced or appended in `outputs` (`SetAdapter`), with the level that Init computes from
the configured name (`LevelOf`): an unknown name leaves the zero of the struct,
EMER. `outputs` begins with the console that `NewLogger` sets (log.go:119), and a
configuration without a console leaves it there. Messages follow once it is done, as in `main.go`. A message goes through
`outputs` in their order. Console and file are one step (`WriteText`; the file's
details are in `FileLogger`).

Everything in `connLogger` that other goroutines can see is an action of its own:
the two tests of `needToConnectOnMsg`, closing, unsetting and dialling in `connect`,
clearing and setting `illNetFlag`, the deferred close, `println`. `println` itself
is atomic (its lock). Two reads that end `needToConnectOnMsg` are one action. A nil
`innerWriter` panics (`CloseNil`, `DeferNil`, `PrintlnNil`) and takes the request with
it. The network is external: `PeerLost` makes open connections dead, which swallow
what is written until the kernel notices (`Noticed`). Dialling succeeds when one
address answers.

`LocalOutputsServed` takes what should be written from logger/README.md, not from the code
(`Wanted`), and speaks of the configurations for which the code does what that says
(`Documented`): a level that is in `LevelMap`, or an absent file. The other two, an absent
console and an unknown level, are among the configurations of the run, but what the code
does with them is not what that README says, and is excepted (section 4). `SecondTryDelivers` does not count messages that are written to
a dead connection the kernel has not noticed: they are lost without an error.

Not modelled: `DelLogger`, `Reset` and `Close` (no caller), the formatting of the text,
a write that blocks for ever because it has no deadline.

### How Sponge corresponds to the code

`d` is `state` of sha3.go with `a`, `storage`, the slice `buf` as offset and length,
and whether it squeezes. One round of the loops of `Write` (`FastPath`, `SlowPath`) and
`Read` (`Squeeze`) is one action; `Sum` keeps the object in `saved` while it reads from the
clone. The permutation is symbolic: a state is the sequence of the blocks that were
absorbed, with an empty one for each permutation while squeezing, and a byte of the
output names the state it is copied from. Two outputs are then equal exactly when
they were computed from the same input at the same position, which is what
`HashObject` promises, against a reference that pads the whole input at once
(`Blocks`, `Stream`). `input`, the bytes written since the last `Reset`, is a history variable:
no guard reads it, and it is what `input` of `HashObject` is mapped to.

A clone taken after the first `Read` is exact only if `Rate = MaxRate`; for other rates
`sha3.go:65` computes its offset from the end of `storage`. `HashObject` leaves the result
of such a `Sum` open (`ExactClone`), and `SumPanics` is the case where the offset is
negative. The comment of `Clone` promises more (section 4).

Not modelled: the permutation (`keccakf.go`), the sizes of the variants, `Size` and
`BlockSize`.

## 3. Runs

| Run | Question | Bounds |
|---|---|---|
| `sync_race` | two requests on overlapping ranges, one fault, a crash, a growing chain, indices 0, 10 and 16: coverage, completeness, no phantom heights, logs with blooms, quiet repetition | 3 heights, 3 logs, 2 requests (symmetric), 1 fault |
| `sync_reorg` | under a reorganisation at any step and with open, negative and rejected bounds: every log of a successful answer has a row with its transaction and index; logs with blooms; refinement of `Mirror`; every started handler ends | 2 heights, 2 forks, 3 logs, 2 requests, 1 reorganisation |
| `sync_open` (violated) | a synchronisation up to the newest block covers its range | 3 heights, 3 logs |
| `sync_alias` (violated) | the logs of a successful answer have rows with their transaction and index, also above nine | 2 heights, 2 forks, 2 logs |
| `query` | replies are sound; a wildcard reply is complete or empty, and complete for a mirrored range; only the two limits refuse; the call ends | 2 heights, 2 logs of at most 2 copies, 14 criteria, 1 fault |
| `query_bloom` (violated) | a call that names an address finds the log | 1 criterion, no fault |
| `snowflake` | ids grow between two wraps or set-backs; refinement of `IdSource` in each window; the mutex is released; restarts at any time | 3 goroutines, 6 calls, clock from 2 to 6, sequence numbers to 2, timestamps modulo 3, the clock set back once |
| `rpc` | whose text an error bears; an answer is the request's own after decoding and encoding; every request is answered | 2 requests, 6 kinds of call each |
| `filelog` | with `append` and without: counters of the open file; lines of a file bounded; no line lost before its time, nor ever without `append`; dates of files and lines | 2 goroutines, 4 messages of 2 sizes, 2 lines, 1 number per day, 3 days in months of 2, 1 fault, restarts at any time |
| `logger` | console and file served exactly once; the network output misses at most one undisturbed message in a row | 2 goroutines (symmetric), 4 messages, 4 configurations, the connections dropped once |
| `sponge` | refinement of `HashObject`; calls return | rate 2 in a storage of 3, 2 bytes, 4 bytes in and 4 out, 1 reset |
| `exit_signal` (violated) | a signal stops the server | 2 signals |

Why the bounds are enough. The races of the synchronisation are between two
requests at one height or one log; the third height gives them a place to be at
different heights, and a range that ends above the node's height. One fault is
enough to lose any one insert or any one query; a crash may stop both requests.
Two requests in sequence are a retry, two at once a race. Indices 10 and 16 are the
smallest pair the lookup confuses. One reorganisation suffices to make every
stored row stale, and in `sync_reorg` one of the logs is included again. The criteria of `query`
have every kind of bound (given, absent, negative, zero), a
range at and one above the block limit, ranges that end above the height, both
kinds of hash and an address and topics; two heights make the loop turn twice and
leave a hole in either place, two copies of two logs pass the limit of three logs,
and an insertion may come between any two queries. For the ids, three calls within one
microsecond exhaust the sequence numbers (`SnMax = 1`, so 1 and 2 are handed out); the
clock passes the end of a window twice (at 3 and at 6) and is set back to any
time before, in particular to one of the same window of which ids were already made, and
the four microseconds between leave room for sleeping, waking and restarts.

Two requests are enough for a text of two halves and for one that is of another
request; the requests include each way `ServeHTTP` can end, and replies of each shape that the codec
decodes differently. In `filelog` two lines and
two writers exceed the limit, a second rotation of a day finds no number, three
days see a file expire and the same day of the month come back, and the one fault is any
of the five operations. Two goroutines leave every combination of the unlocked
fields of `connLogger` behind that two can; the third and fourth message then show
the recovery. In `sponge` a rate of 2 and four bytes give blocks that are full,
partly filled and empty at the end, a padding of one byte and of two, and reads
across a permutation; storage is longer than the rate, as in most variants.

`CHECK_DEADLOCK FALSE`: all runs end, when every request has been served, or the
calls, messages or signals are used up.

Fairness. `HandlerFairness` is weak fairness of each request's own steps: a
goroutine is never stopped (not even by the time-out), and database and network
calls return or fail. Requests need not arrive, blocks need not be produced,
faults and crashes need not happen. For `eth_getLogs`, weak fairness of the call's own
queries, for the same reason; nothing needs to be inserted. For the ids, weak fairness of each goroutine
and of the clock: the holder of the mutex is scheduled and time passes. Nothing
is assumed about who gets the mutex, and nothing is claimed about it. For the RPC
server, weak fairness of `ServeHTTP`'s own steps and of the 300-second timer, and
none of the handlers: their queries have no deadline, and `Answered` needs none. For
`Shutdown`, that `main` and the goroutine of `StartRPC` keep running. For the sponge,
that a call that was made goes on. `filelog` and `logger` check safety only: writing to
a file or a connection may block for ever.

## 4. What the violated runs show

* `sync_open`: "latest" is decoded to -1, which ends the loop of http.go:106 before its
  first turn, while `FilterLogs` takes it for the newest block. Logs are stored without blooms,
  and http.go:170 answers success; `eth_getLogs` cannot see these logs.
* `sync_alias`: db_models.go:139 looks the index up in decimal and SaveLogs stores it
  in hexadecimal. Above nine, a log is mistaken for another log of its transaction;
  after a reorganisation not even a row with its transaction and index need be there.
* `query_bloom`: filters.go:211 ignores the error of `hex.DecodeString`, which every
  stored bloom causes; no call that names an address or a topic finds a log.
* `exit_signal`: http.go:31 says that the server listens for the exit signal. It waits
  on a channel of its own that nothing is ever sent to, and main.go:23 asks for the
  signals on another one that nobody reads, so that they do nothing at all.

What else the models show of the code, without a run of its own:

* db_models.go:139 asks for no block. After a reorganisation that includes a transaction
  again, the row of the block that is gone is taken for the log of the new block, which is
  never stored: this is why `SuccessStoresLogs` has the hypothesis `IncludedOnce`, and why
  `sync_reorg` checks `OkMeansLogsNamed` and not `OkMeansLogsStored`.
* http.go:131: for a height that does not exist the node answers null, which is no error,
  and a row of no block is stored, with number 0 and an empty bloom. `Mirror` names this
  `ZeroRow` as the one row that is of no block.
* filters.go:157: `GetBlockNumAndBloomByBlockHash` answers the zero value for a hash it does
  not find, whose address is never nil, so that the call is not refused ("unknown bloom", as
  line 158 has it) but answered with the logs of block 0. `ReplySound` allows for it.
* db_models.go:297: 41 bits of a timestamp in microseconds (280; the comment at 269 says
  milliseconds) last for 25 days. Then it starts again from zero, and ids are
  handed out a second time. `Window` is there because of it.
* log.go:119: `NewLogger` sets the console, and a configuration without one leaves it there,
  so that it writes; logger/README.md:43 says that it does not.
* conn.go:36: the example of logger/README.md:74 has the level "Warn", which `LevelMap`
  does not have. The output's level stays 0, EMER, and errors are not sent.
* sha3.go:65 computes the offset of a clone's buffer from the end of `storage`, not from the
  rate. After a first `Read`, and unless the rate is `MaxRate`, a clone (and with it `Sum`)
  continues at another byte than its original, or panics; sha3.go:183 promises a copy.
* http.go:166: every log that is not recognised stores the whole answer once more.
* db_models.go:24: no code updates a row, so that after a reorganisation the logs of
  both forks are served as valid; `removed` stays as the node gave it.
* filters.go:207 answers a range of which one height is not mirrored (yet) with an empty
  list and no error. `CompleteOrEmpty`, which holds, is the other side of it: a wildcard
  reply that is not empty leaves nothing out.
* db_models.go:284: the limit of `sn` is tested before the increment, so that one more
  number is handed out than its comment says. The ids stay distinct.

That `OkMeansLogsStored` holds in `sync_race`, where the lookup confuses indices, is not obvious:
a log is only mistaken for one with a greater index, so that within one answer the
last log of a transaction that can be confused is never recognised itself, and
the whole answer is saved. It takes a row that is not in the answer, one a reorganisation
left behind, to break it. `SuccessStoresLogs` is this argument.

## 5. Proofs

`SyncBlockAndLogsProofs`, for any set of requests, ranges, logs, heights, forks
and any number of faults:

* `TypeCorrect`.
* `SuccessCoversRange`, under the hypothesis `ClosedRanges` that no client leaves `ToBlock` open
  (`sync_open` shows that the conclusion fails without it). `OkCoversRange` speaks of requests
  that have succeeded; the inductive `CoverInv` says for every request past its start that all
  heights below `i` (all it looked for once the block loop is over) are stored or were
  lost by the request, and that the block in `raw` is one the node had. It needs
  that rows are never deleted (lemmas `InsertKeeps`, `Growth`, `StoredStays`). `ClosedInv`
  makes what was asked for the same as what was looked for.
* `HeightIsReal`: `HeightInv` adds that `raw` never holds a block above `head`.
* `StoredLogsHaveBlooms`: `FetchedAt` says of each log in `ethlogs`, `todo` or
  `saving` that its height is stored, lost or early; it rests on `CoverInv` at the
  moment of `FilterLogs`.
* `SuccessNamesLogs`, under any reorganisation and the hypothesis `Faithful`: the lookup compares
  the index that was stored, which is true of indices below ten (`sync_alias` shows that the
  conclusion fails above). `NamedInv`: a log of the answer has a row with its transaction and
  index, is lost, still to be compared or still to be saved.
* `SuccessStoresLogs`, for indices of any length and the hypothesis `IncludedOnce`: no transaction is
  in two blocks, and an index identifies its log within one (section 4 has what happens
  without it). `KeptInv` adds what the comparing loop relies on when it
  mistakes a log for another: a log of the same transaction with two digits is still to be compared
  (`Vouched`), and will not be recognised. It rests on the order of the answer, on
  `WholeBlocks` (a node answers all logs of a block or none) and on `ReadAsHexGrows`: a number of
  two digits or more is read as a greater one. That is proved of the recursive
  function `DecimalReadAsHex` from the least number for which it fails, `LeastNumber`: first that
  the function exists (`ReadsExists`, `ReadsAgree`), then its equation (`ReadAsHexUnfolds`).
* `ResyncWritesNothing`: `QuietInv` keeps the logs of a quiet answer stored and
  recognisable, so that no comparison fails.
* `TablesAreMirror`: the handlers implement `Mirror`. `ReadInv` says that what a request
  has read and not yet stored (`raw`, `ethlogs`, `saving`) is of blocks in `had`, or the empty row
  in `raw`, and that the blocks of the chain up to the head are in `had`; `ChainMoves` that the
  node keeps to the latter and never forgets. `MirrorStep` then maps each of the actions to
  an insertion, a growth of `had` or a stutter.

`LogQueryProofs`, for any criteria, limits, logs and forks, any number of faults and
any insertions during the call:

* `QueryTypeCorrect`. `TypeOK` alone is not inductive: `height` is a number only
  because a call for a range has its bounds by the time `Logs` reads them. `Kinds` and
  `BoundsKnown` say so; the zero hash is the one way to the nil bound.
* `QueryReplySound`. The inductive `QueryInv` adds `Grows` (the rows of the start
  are still there), `Asked` (every height between `from` and `to` is in scope, the
  height whose logs are about to be read has a bloom) and `Collected` (what was
  found so far is sound and lies below `height`, so that no row is counted
  twice). That only inserted rows can change the tables carries scope, blooms and
  matches over a step (`Stable`, `SoundStable`). `PassesMatches` shows that the empty
  topic of a log without topics meets no topic a client can name.
* `QueryCompleteOrEmpty`, `QueryMirroredAnswered` and `QueryOnlyLimitsRefuse`, from `AnswerInv`:
  in a wildcard call without a fault the logs of every height already behind it that were there at
  the start have been found (`CompleteSoFar`); bounds that were given, with a bloom at every
  height between them, are not cut off (`BoundsKept`); rows only become more (`LogsGrow`),
  so that a refusal for too many logs stands for as many matching rows in the tables.

`RpcServerProofs`, for any requests, calls and registered methods, with nothing assumed but
that `NoRequest` is no request:

* `RpcTypeCorrect`, by `Stage`: where a request is says whether it holds an error object and
  whether it may have been answered.
* `TextsAreConcurrent`. `TextAt` says of both words of the object a failing request has
  written, and of those of its copy it has read, that they are a peer's (`Peer`): of a
  request that failed with the same object and was not done when this one arrived.
  Who overwrites a word is not done, hence a peer too (`WordStays`), and a peer stays one.
* `RepliesAreOwn`: `OwnAt` for each request. Two lemmas carry it through the codec, `ErrorStaysError`
  (what was marshalled from an error object decodes as that error, and comes out as it) and
  `ResultStaysResult` (a list or a text decodes as nothing, and comes out as the result);
  `RespondIsOwn` and `RefuseIsOwn` are the two ways to a response, and `Stage` says that who responds
  holds either an object or a reply.

`SnowflakeProofs`, for any goroutines and calls, and any limit and shift with
`SnMax + 1 < IdShift`:

* `IdsAlwaysIncrease`, with nothing assumed of the clock. The inductive invariant `IInv` says who
  holds the mutex (`Owner`), that no time an id of this era was made of is ahead of the clock
  (`NotAhead`), that `sn` counts the ids of the running microsecond (`Counted`), that
  a sleeper wakes in a new one (`Rested`), and that the time a goroutine has read leaves
  room for one more id (`Room`). `LaterIsGreater` and `NextInTime` are the arithmetic.
* `SnowflakeIsIdSource`, from the same invariant and with as little assumed: in the window of a new
  id all earlier ones are smaller (`IdsIncrease`), so that it differs from them, and in any other
  window the pair of window and id is new. Every other step is a stutter of `IdSource`.

`FiniteSums` has the general facts about sums that the proofs about `LogQuery` and `FileLogger` need. The
library's induction theorems take an operator as a parameter, which the provers cannot
instantiate; the form about sets that they rest on (a non-empty set of numbers has a least
element, `LeastNumber`) can be cited, and `SubsetInduction` states the induction over finite sets
for a set of them. `SumRemove`, `SumAdd` and `SumMonotone` then say that the fold by
which the models add up a set can be split at any of its elements.

`FileLoggerProofs`, for any goroutines, messages, limits, numbers and failures. The goroutines
are finitely many, and a month has two days at least:

* `FileTypeCorrect`.
* `FileCountersAgree`. `CountInv` adds that an open file is there (`OpenExists`) and that a message
  being logged has a number no line of the file and no other goroutine's message has (`Numbered`),
  so that a write adds exactly one line to those the counter counts.
* `FileLinesBounded` (of files with `append=true`). `LinesInv`: the counter is never smaller than the file's lines
  (`CountedAtLeast`), and those lines together with the goroutines that have passed the test and not
  yet written are within the bound (`RoomForWaiting`). The property as such is not
  inductive: who is about to write was counted when it tested.
* `FileWrittenIsKept`. `KeptInv` orders the days of lines, files and clock (`Stamps`): a file is
  at least as young as its lines. While a rotation walks the archive the active file is of
  today unless a rename failed (`WalkedFile`), so a walk reaches an open file only when
  the files of today are removed as well (`Unlinked`).
* `FileNoLineIsNewer` (of files with `append=true`). `DateInv` adds `OnTime`: who is let through to an open file has a message of
  the file's day or an older one. The days are compared modulo the month (`SameDay`), because
  the code compares days of the month; that no goroutine takes a month for one message
  (`Stamps`, from a guard of the model's clock) is needed there.
* `FileKeptWithoutAppend`. `PlainInv`: without `append` no goroutine ever comes to the checks, the file
  is there and open, and nobody walks the archive.

`LoggerProofs`, for any goroutines, messages and configurations whose names of outputs are
those of the adapters:

* `LoggerTypeCorrect`. `TypeInv` adds what is configured at each step (`Configured`) and at which
  output a goroutine can be where (`InTurn`).
* `LoggerLocalOutputsServed`. `ServedInv`: the outputs are distinct (`Distinct`), and how often one has a message
  is determined by its place in their order and the goroutine's (`Counts`).
* `LoggerSecondTryDelivers`. `TryInv`: while messages come one at a time (`Alone`) over a network that
  answers, `Undisturbed` follows how far the one goroutine has got: the message is through, or it is the
  first one missed and the next one connects (`WillConnect`).

`SpongeProofs`, for any bytes, rate and storage and for inputs, outputs and portions of any
length: `SpongeTypeCorrect` and `SpongeIsHash`, the refinement of `HashObject`. `SpongeInv` says of an object that
absorbs (`Absorbing`) that its blocks are the first ones of the input and that buffer and
the rest of the running `Write` are what follows; of one that squeezes (`SqueezingAt`) that its
state is the padded input's after a number of permutations, with the buffer copied out of it; and
that `out` is the output from where the call began. `BlocksFacts` and `PaddingIsLast` show that what
`padAndPermute` makes of the buffer is the last block of the reference, `Place` and `StreamIs` that a
byte's block and place in it are quotient and remainder. A clone that is not exact
squeezes the same state from another place (`CloneIs`), so that only the place is left open by `ExactClone`.

Only model-checked: `HandlerEnds`, `QueryEnds`, `MutexReleased`, `Answered` and `CallsReturn`
(liveness under fairness is out of the prover's reach). Every other property of a passing run is a
theorem; `OkCoversRange`, `OkMeansLogsStored` and `OkMeansLogsNamed` under the hypotheses above,
which the instances of the runs meet.

## 6. Plan

Done: the modules of section 2 and, but for liveness, the theorems about what their runs
check. What is left are the two parts that the liveness properties rest on and that are
safety: a bound that decreases with each step of a handler, and with each round of `Write`
and `Read`.

## 7. Not modelled

* The goroutine that each call of `eth_getLogs` leaves behind: it serves an empty map for
  ever and has no effect on any reply.
* The bloom arithmetic of filters.go:83-142: its result is never read.
* The connection pool: which statements a connection keeps, and when they are
  closed, is decided by `database/sql` and the driver, which are not in the repository.
  `Insert` is a step of `EventStore` that succeeds or fails. `Update` and `Delete` have no caller.
* Reading the configuration (I/O); `DelLogger`, `Reset` and `Close` of the logger (no caller);
  the client half of the codec (no caller).
* The permutation of `crypto/sha3`, the addresses and the conversions of `crypto/`: bit
  and string manipulation without state, which nothing in the plugin imports, and
  for the permutation 1600 bits that are out of TLC's reach.
* A second process that draws ids of its own, which do repeat those of the first; the wrap of
  the block loop at 2^63.
