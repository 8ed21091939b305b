# pydio-booster in TLA+

pydio-booster is a set of middlewares for the Caddy web server that take the
heavy requests of a Pydio installation (uploads, downloads, the websocket for
instant messages) off the PHP backend. This directory models the parts whose
correctness depends on goroutines meeting in the right order, checks the models
with TLC and proves their safety properties with TLAPS, and that they come to rest only
at their ends and after finitely many steps. It also checks the two decoders of the
repository, of paths and of queries, whose state machines have to stay in step with
their scanners.

Paths below are relative to the root of the repository; `x.go:n` is a line of it.

## 1. The system

A request passes through a chain of handlers. `pydiomiddleware` comes before and
after the upload, download and websocket handlers; its rules ask the backend for
*values* (node, auth, token, options, user) that later handlers need. A rule does
not wait for its value: it puts a pipe, a `ContextValue`, into the request's
context and gives a job to the workers. Whoever needs the value reads the pipe, at
most thirty seconds. The uploads use workers too, one job per megabyte.

| Component | State | Operations | Meets |
|---|---|---|---|
| Worker pool (`worker/`) | channel of free workers' channels, job queue | `Run`, `Add`, `Stop` | every middleware |
| Context values (`http/context.go`) | pipe, buffer, offset, `closed` | `FromContext`, `Read`, `Write`, `Close` | job on one side, request on the other |
| Rule middleware (`server/middleware/pydiomiddleware/`) | rules, shared by all requests | `ServeHTTP`, `handle`, three kinds of jobs | pool, context values, backend |
| Upload (`server/middleware/pydioupload/`) | the files of a request, their `WaitGroup` | `ServeHTTP`, `handle`, `Job.Do` | pool, files |
| Files (`io/file.go`, `io/localio`, `io/s3io`) | reader's pipe, writer, lock | `Open`, `Read`, `WriteAt`, `Close` | jobs, S3 |
| Download (`server/middleware/pydiodownload/`) | the file being read, the result of `handle` | `ServeHTTP`, `errHandle`, `handle` | files, context values |
| Remote files (`io/remoteio`) | the pipe of a request's body, a byte count | `Write`, `WriteBody` | backend |
| Websocket (`websocket/`, `server/middleware/pydiows/`) | registered repository, two pipes | register, unregister, filter, pumps | browser, NSQ |
| NSQ (`com/`) | the embedded nsqd, `WaitGroup` of consumers | `NewCom`, `Close`, consumers, producer | websocket, commands |
| HTTP client and tokens (`http/`) | cookies, token | `Do`, `GetQueryArgs` | backend |
| Path and query encoding (`encoding/`) | scanner state and stack, token state, caches of fields and encoders | `Unmarshal`, `Token`, `Decode`, `Marshal` | node jobs, requests |
| Tasks, scheduler, admin, conf, log, cmd | | | |

What is hard, and what has to hold:

* **Pool.** Jobs, dispatch goroutines and workers meet on three kinds of channels.
  A job must run on one worker, a worker must do one job at a time, no worker may
  get lost, and registering must not block.
* **Context values.** A read that has timed out leaves a goroutine in `Read`, next to
  the following reads, on fields without a lock. Reads must give the whole value,
  and the job must get its worker back.
* **Rules.** Values wait for workers and workers wait for values to be read. A read
  should not need its timeout; a request must send its own headers.
* **Uploads.** Jobs run in any order while the handler goes on, may be cancelled and
  must close each file after its last job.
* **S3.** Chunks come in any order, S3 reads one stream. Turns are taken with a
  mutex and a condition while holding a worker.
* **Downloads and remote files.** A goroutine copies the file into a pipe, and
  another one out of it; either may stop early, and nobody closes the pipe. A
  response or a request that is called a success should be whole, and the
  goroutines should end.
* **Encodings.** A scanner and a decoder take the same characters and must agree
  where an element ends; slices of the elements are decoded again. The caches of
  encoders are filled by several goroutines at once, for types that contain
  themselves.
* **Websocket.** The filter, the client's registrations and the end of the session
  run in five goroutines around two pipes and an unbuffered channel.
* **NSQ.** `NewCom` and `Close` hand over by two channels and a flag; consumers count
  themselves while others wait for the count.

`PROJECT.json` lists these hazards with their lines and properties.

## 2. Modules

| Module | Models | Built on |
|---|---|---|
| `JobService` | abstract: an accepted job starts at most once, one job per slot | |
| `WorkerPool` | `worker/dispatcher.go`, `worker/worker.go` | implements `JobService` |
| `WorkerPoolProofs` | theorems about `WorkerPool` | |
| `SequentialObject` | abstract: the store gets the bytes handed over, in their order; the object appears once and is all of them | |
| `S3Writer` | `io/s3io/s3io.go` for writing, `File.Close`, the upload's copy loop | `JobService`, implements `SequentialObject` |
| `S3WriterProofs` | theorems about `S3Writer` | |
| `ContextValueProofs`, `PipelineProofs`, `UploadProofs`, `WebsocketSessionProofs`, `ComProofs`, `TransferProofs` | theorems about the module each is named after | |
| `ContextValue` | `http/context.go` and the jobs that write a value | |
| `Pipeline` | the rule middleware and the reads of the next handler | `JobService` |
| `Upload` | the upload middleware with local files | `JobService` |
| `WebsocketSession` | `websocket/websocket.go`, `pydiows/handler.go` | |
| `Com` | `com/com.go`, `com/consumer.go` | |
| `FileReader` | the readers of `localio` and `s3io` and their pipe | |
| `Download` | the download middleware | `FileReader` |
| `RemoteWrite` | `io/remoteio/remoteio.go` | `FileReader` |
| `Transfer` | a download or a write to the backend, and their environment | `Download`, `RemoteWrite` |
| `PathScanner` | `encoding/path/scanner.go` | |
| `PathDecoder` | `encoding/path/decode.go`, `UnmarshalPath` of `io/node.go`, `dir.go`, `repo.go` | `PathScanner` |
| `QueryScanner` | `encoding/query/scanner.go` | `PathScanner` |
| `QueryDecoder` | `encoding/query/decode.go` | `QueryScanner` |
| `TokenStream` | the `Decoder` of `encoding/path/stream.go` | `PathScanner` |
| `TypeFields` | `typeFields` of `encoding/*/encode.go` | |
| `KeyFold` | `encoding/query/fold.go`, the field of a key in `decode.go` | |
| `Decoding` | texts that grow, decoded by each of the above, and their references | the six above |
| `Encoders` | the cache of encoders of `encoding/path/encode.go` | |

`MC<module>` gives the constants values for TLC. The composition goes through the
abstract specification: `S3Writer`, `Upload` and `Pipeline` take the steps of
`JobService` (`Pool!Accept`, `Pool!Start`, `Pool!Finish`) where the code calls
`Dispatcher.Add` and where a worker calls `Do`, and `WorkerPool` is shown to
implement `JobService`, by TLC and by proof. In the same way `Pipeline` treats a
value as a whole and `ContextValue` has its details.

Each definition of a module is mapped to the lines it stands for in
`PROJECT.json`. Conventions: an action is a step of one goroutine between two
points where another one can interfere; a rendezvous on an unbuffered channel is
one action of both parties; a variable that only records the past is marked
(history) and no action reads it. An operator right before another one of a
similar name, announced as "the mutant", is a plausible wrong version of that
code; no specification uses it.

### State and actions, by module

* **WorkerPool.** `pool` is the channel `WorkerPool`, whose elements are names of
  workers for their `JobChannel`. `job[j]` follows a job: `adding` (the send on
  `JobQueue`), `dispatching` (its goroutine waits for a channel), `sending` (it has
  `target[j]` and sends), `running`, `done`. `worker[w]` follows the loop of
  `Worker.Start`. `Stop` leaves a goroutine in `quit`; `Quit` is the second case of
  the worker's select, and leaves the channel where it is.
* **S3Writer.** `pc[c]` is the `WriteAt` of chunk c; `l` its mutex; `waiting` the
  condition. The `Unlock` of line 291 and the `Broadcast` of line 292 are two
  steps. `uploader` walks through `writeHandler` or `appendHandler`, and `Fail` is
  an error of any call to S3. The handler is `copying` until it closes the file
  (at the end of the part or earlier) and then waits for the `WaitGroup` and for
  the lock.
* **ContextValue.** `Read` is cut where its fields are read or written: the test of
  `closed`, the pieces of `ReadAll`, the assignment of `buf`, `copy`, `c.off += n`
  (`Count`), `c.off = 0` (`Rewind`). `Close` is its two statements. `Timeout` may come at
  any moment of a call. A slice past the end of `buf` is a panic in a goroutine without a
  recover (`Crashed`): nothing moves any more.
* **Pipeline.** `rule`, `pc` and `todo` follow `ServeHTTP`, `handle` and
  `NewRequestJob` of a request: `todo` holds the names it has still to read.
  `Provider` is the lookup in the context. `val[j]` is the value of a job: `failed`
  is one that is never closed, `empty` one that is closed with nothing in it. A read
  that follows a timed out one of the same value (`late`) stays in `ReadAll` as the first
  does, and ends, with nothing, when the value is closed (`Missed`); `Do` is what a job
  does once a worker has started it. `RefuseAtOnce` is the upload handler on a request
  that is cancelled already: it reads nothing. `spare` is the place behind
  `rule.Headers` in its array, and `raced` has the jobs whose array another request
  appended to while they waited (history).
* **Upload.** `f` follows the goroutine of `handle`, `serve` the one of `ServeHTTP`;
  `content` is what each place of the file holds that the request has chunks for;
  `Nothing` is what was there before, in a file that was there before. `Cancel` and
  `Cut` may come at any time.
* **WebsocketSession.** `handler` is `pumpStdin` and the rest of `handle`; `incoming`,
  `consumer`, `stdout` are the other goroutines. A write to a pipe is in progress
  while its writer is in `writing`.
* **Com.** `owner` makes calls of `NewCom` and `Close` in any order, `exit` is the
  goroutine of `NewCom`, `con` and `waiter` the two goroutines of a consumer.
* **FileReader, Download, RemoteWrite.** `copier` is the goroutine of `readHandler`: it
  is `writing` while its chunk is in the pipe, which `ReadChunk` takes out. `readEnd`
  and `writeEnd` are the two ends of the pipe, closed by that goroutine only. In
  `Download` `serve` is `ServeHTTP` and `errHandle`, `handler` the goroutine of
  `handle`; what its write does when `ServeHTTP` has returned is left open. In `RemoteWrite` `main` is `Write`, `body` the goroutine of `WriteBody`,
  `closer` the one that receives the number and closes the pipe; what the transport
  reads of the body is part of the steps that write it (`TransportReads`). `Transfer`
  starts in one of the two uses, with one of the kinds of file system.
* **PathScanner, QueryScanner.** A scanner is a record of its state function, its stack
  and the code of its last step; each state function is an operator. The stack of the
  scanner of paths is never read, so its height stands for it. Popping an empty stack
  is harmless there and a panic in the scanner of queries (`crashed`).
* **PathDecoder, QueryDecoder.** A decoder is a fold over the characters: `Feed` is one
  character, `Finish` the end of the text. `phase` is where the loop of `path` or
  `query` stands. The tags of `Repo`, `Dir` and `Node` (`path:",1:last-1"`) are lists of
  sums of operands; `Eval` evaluates them as `eval` does, from the right.
* **TokenStream.** `Token` and `Decode` are functions from a decoder and its text to
  the decoder after the call. The buffer is left out.
* **TypeFields.** `Levels` is the breadth-first search, level by level, with its counts;
  `Dominant` is `dominantField`.
* **KeyFold.** Names and keys are sequences of code points; where the code compares bytes
  they are taken apart (`Bytes`). `FoldFunc` chooses among the four functions.
* **Decoding.** The text grows by one character a step, so that every text up to the
  bound is met; `stream` takes calls of `Token` and `Decode` in any order; `graph` is
  one of the graphs of struct types; a `key` grows like a text.
* **Encoders.** `frames[g]` are the calls of `newTypeEncoder` that goroutine g is in,
  innermost last, `todo[g]` what is left of the value to encode. `missed` lies between
  the read lock and the lock of `typeEncoder`, `ready` is `wg.Done`.

## 3. Runs

The type invariants also say how the variables of one party relate (for example
that a job is `sending` exactly when it has a target, or that the `WaitGroup` of
`Com` is the number of started consumers).

| Run | Bounds | States | Shows |
|---|---|---|---|
| `WorkerPool` | 4 jobs, 1 may hang, 2 workers, either may be stopped | 26304 | `ChannelHasOneOwner`, `RegisterNeverBlocks`, `ImplementsService`, `JobsComplete` |
| `S3Writer` | chunks of 2, 2, 2 and 0 bytes, 3 workers | 32412 | `InOrder`, `NoLostWakeup`, `ObjectIsWhole`, `ImplementsSequential`, `CloseReturns` |
| `ContextValue` | 2 pieces, 3 reads | 314958 | `SerialReadsAreWhole`, `ProducerReleased`, `ReaderEnds` |
| `Pipeline` | 2 requests of 2 and 3 rules, one in common, 1 worker | 284087 | `ForwardsOneOfItsHeaders`, `ReadsEnd`, `WorkersComeBack` |
| `Upload` | parts of 2 and 1 chunks, 2 workers | 10109 | `JobsHaveOpenFile`, `PassedOnWhenDone`, `StoredWhole`, `UploadEnds` |
| `WebsocketSession` | 2 lines, 3 messages, 3 repositories | 135915 | `OnlyItsMessages`, `AtMostTwoLate`, `SessionEnds` |
| `Com` | 2 consumers, 5 calls | 3069 | `OneNsqd`, `CloseWaitsForConsumers`, `CallsReturn` |
| `Transfer` | file of 2 chunks | 1183 | `ResultIsTrue`, `TransferEnds` |
| `Decoding` | texts up to weight 8 (paths, queries), 5 (streams) or 3 (keys), 6912 graphs | 264326 | `NodeIsThePath`, `QueryIsItsParams`, `TokensNested`, `FieldsAsGo` |
| `Encoders` | 2 goroutines, 5 types | 4853 | `EncodesReturn` |
| `PipelineHeader` | 2 requests of 1 rule | | `ForwardsItsHeader` fails |
| `ComConsumerListens` | 2 consumers | | `StartedConsumerListens` fails |

Why the bounds are enough to meet the interesting cases:

* `WorkerPool`: four jobs on two workers have jobs wait for a channel, for a busy
  worker and behind a hung one; two workers that can be stopped show the job that
  `Stop` strands and the pool without a worker. The proof has no bounds.
* `S3Writer`: three workers let two chunks wait on the condition while a third one
  writes, so that a `Signal` would wake the wrong one, and let the later chunks
  hold every worker. The empty last chunk is the one that the copy loop adds after
  a file of full megabytes.
* `ContextValue`: two pieces are a short and a full read; three reads are a timed
  out one, one next to its goroutine and one after both.
* `Pipeline`: one worker and two requests are enough for each job to wait for a
  worker that waits for a read of the other request. The rule they share has an array
  with room, so that either may write behind its headers while the other waits; two
  headers of one request match, one of the other.
* `Upload`: two parts write to the same path; the first has a chunk that the second
  does not overwrite.
* `WebsocketSession`: two lines are a registration and a change of it; three
  messages are one more than may be late.
* `Transfer`: with two chunks every party can fail, leave or answer before the first
  chunk, between the chunks and after the last one.
* `Decoding`: six characters for paths (a letter that may stand in an escape and one
  that may not be there are the same to the scanner but after a backslash), where the
  rarer ones count twice; eight is an action, a repository, a directory and a name
  with their slashes, or two parameters of a query, one of them after an `&` too
  many. Streams of five are two
  levels of nesting and a separator. The graphs have a struct embedded twice at one
  level, one that embeds an embedding one, and a cycle, with fields of one name
  wherever they matter, tagged or not. Keys have letters of both cases, the four ways to
  write K and S beyond them, two signs that differ in the bit of the case, and letters of
  two bytes next to names of two letters; the names need each of the four functions.
* `Encoders`: a type that contains itself through a pointer, another one that is met
  only through an interface, and a type that fails, asked for by two goroutines that
  start at different types of the cycle.
* `Com`: five calls are two full rounds of `NewCom` and `Close` and one more.

### What the violated runs show

* **PipelineHeader.** `headers = append(rule.Headers, ...)` writes behind a slice that
  all requests share; `NewRequestJob` reads it after it has waited for values. With
  three static headers, whose array has room for four, a request can send the
  header of another one. Also, each match replaces the one before it.
* **ComConsumerListens.** `Start` launches the goroutine that waits on `consumerWg`
  before it counts the consumer, so that the first consumer may be stopped at once.

### Exceptions that the passing properties name

These are things the code does that a reader of the properties should know.

* `Close` of a context value sets `closed` (`http/context.go:124`) before it closes the
  pipe. A read that starts in between, or while the goroutine of a timed out read is
  about to fill `buf`, finds it empty and ends without an error, against the comment
  of line 94 (`overlapped` in `SerialReadsAreWhole`).
* Readers of a context value that overlap, one of which has timed out, can end the
  server: one has counted up `off` (`http/context.go:112`) and not yet set it back (116),
  or both have counted, and `c.buf[c.off:]` of another (111) begins past the end of
  `buf`. The panic is in the goroutine of `FromContext`, which has no recover
  (`CrashedByOverlap` in `ProducerReleased` and `ReaderEnds`).
* While nsqd runs, a second `NewCom` waits on `exitChan` and never comes to its test that
  answers "NSQ already running" (`com/com.go:58`; `~up` in `CallsReturn`).
* Closing `reqw`, "to end the process" (`pydiows/handler.go:181`), ends the goroutine
  that scans lines, not the session: `handle` waits for `pumpStdout`, which waits for a
  message, and closes `respw` only when it has returned (`SessionEnds` starts at a
  message).
* A worker that is stopped leaves its channel in the pool, and the job that gets it
  is lost (`Stranded` in `JobsComplete`). Nothing in the repository calls
  `Worker.Stop` so far.
* Chunks of S3 uploads wait for their turn on workers: later chunks that hold all the
  workers stop every upload (`NoWorkerForTheNext` in `CloseReturns`); after a failed
  call to S3 the later chunks wait for ever (`StuckBehindFailure`).
* A failed backend request leaves its value open: reads of it wait for their timeout
  and their goroutines stay (`ReaderEnds`, `BlockedRead`).
* A value that nobody reads keeps its worker for ever (`Unread`), and so the reads of
  other requests may have nothing but their timeout (`BlockedRead`). So do the values of
  an upload that is cancelled before `errHandle` (`pydioupload/handler.go:89`) starts
  its goroutine: `RefuseAtOnce`.
* An upload whose body breaks off, or one of whose writes fails, is passed on as a
  success; `StoredWhole` excludes both. A file is opened without truncation
  (`pydioupload/handler.go:210`): one that was longer keeps its end behind the new body,
  which `StoredWhole` does not look at. An unknown file system type ends the process
  (`UploadEnds`).
* A line of more than 64 kilobytes stops `pumpStdin` (`SessionEnds`), a consumer
  created later than a second after the client has gone blocks on `ExitChan`, and
  the consumer of a session is never stopped, which `Com!Close` waits for
  (`CallsReturn`).
* Transfers (`Ended` in `TransferEnds`, `ResultIsTrue`). The `Close` of a file opened for
  reading closes nothing, so the goroutine of a pipe whose reader stops early stays.
  A source that fails ends the file as if it were complete: a download is a success
  with a part of the file. An unknown file system type leaves a nil file and ends the
  process. When the context ends, `ServeHTTP` returns and the copy goes on: net/http has
  taken the writer of the response back, so that the write fails, goes elsewhere or
  panics in a goroutine without a recover (`late`). In `remoteio` an error in `WriteBody` leaves the body of the request open,
  and an answer before the file begins makes `CreateFormFile` return a nil writer: a
  panic.
* Paths (`NodeIsThePath`). A request path of an action and one more element, without a
  slash at its end, panics: `Dir` is the slice `[1:0]` of one element
  (`encoding/path/decode.go:364`), inside a job of a worker. Escapes are kept as they
  are, and a space at the start of the text or behind a slash becomes an element of its
  own, two end the decoding; both are outside `Plain`. Where a slice of elements is
  joined and scanned again, such a space may get lost: of `/a/r/ d/n` the directory is
  joined to ` /d` and comes out as `d`. `SpaceBegins` excludes the paths with an element
  that begins with a space from the clause on the second scan.
* Queries (`QueryIsItsParams`, `IsParam`). A key that no field has is left without
  skipping its value. A key of a field without `=`, or an `=` in a value, brings the
  decoder out of step (`errPhase`, which `decode.go:119` says should not happen). After
  an empty value the rest of the query is read as its value. A value that begins with
  `n` is refused by a pointer. A text that begins with `&` and has two `=` in one
  parameter pops an empty stack, a panic.
* Streams. `Decode` never comes to the end of a value: the scanner of paths answers
  `scanEnd` only after its last element has been popped, by an end of the text that
  `readValue` tells it as a space. Each `Decode` fails and its error sticks, and
  `Token` returns delimiters only. `TokensNested` holds all the same.
* Fields (`TwiceEmbedded` in `FieldsAsGo`). A struct embedded by one that is itself
  embedded twice at one level is queued once: a field of it that Go calls ambiguous is
  decoded into.

### Fairness

Weak fairness of the steps of goroutines: the Go scheduler runs every goroutine that
can run. Of steps that wait for something external only what the code relies on: a
call to S3 or to the backend returns, with success or an error; the body of a
request is sent or breaks off; a job outside `Stuck` returns; a backend answers a
request whose body is complete. Not fair: clients,
publishers, callers of `Add`, `Stop`, `NewCom` and `Close`, failures, and all
timeouts: a property that holds does not owe it to one. In `JobService` a job gets a
slot by weak fairness too; the number of jobs is bounded and slots become free for
good, so that no stronger fairness is needed.

## 4. Proofs

Every safety invariant that the runs check is proved for all values of the constants,
but those of the decoders, and so are both refinements. The proofs have one shape: an
inductive invariant `IInv` with `Init => IInv` (`InitIInv`), `IInv /\ [Next]_vars => IInv'`
(`NextIInv`, from a lemma for each action or each group of conjuncts) and
`Spec => []IInv` (`Invariance`), from which the theorems follow. TLC has checked each
`IInv` on the bounds of its module's run. A theorem is of `Spec`, without fairness.
In every module `TypeCorrect` proves the type invariant `TypeOK`, whose counts and
relations between variables need the rest of `IInv`. Two more theorems for each module
say what is left of its liveness properties without fairness (see "Rest and progress").

| Module | For any | From the assumption |
|---|---|---|
| `WorkerPoolProofs` | jobs, finitely many workers | `PoolAssumption`: the workers are a finite set, the null values are apart |
| `S3WriterProofs` | chunks of any lengths, workers | `ChunksAssumption`: the chunks follow each other in the file |
| `ContextValueProofs` | pieces of the value, reads | `ContextAssumption`: a value has a piece |
| `PipelineProofs` | requests, rules, next handlers, workers | `PipelineAssumption`: the types of the rules, the null values are apart |
| `UploadProofs` | parts, chunks of them, workers | `UploadAssumption`: a part has a chunk (the copy loop adds an empty one), the null values are apart |
| `WebsocketSessionProofs` | repositories, messages, lines | `SessionAssumption`: the types of messages, the null values are apart |
| `ComProofs` | finitely many consumers, calls | `ComAssumption`: just that |
| `TransferProofs` | chunks of the file | `FileAssumption`: their number is one |

Four theorems assume more, in their statements: `CloseHangsOnlySo` and
`RestsOnlyAtTheEnd` that there is a worker (with none nothing is ever written;
`pydioupload/setup.go:57` starts 900), `PoolGetsNearer` and `RequestsGetNearer` that
the jobs or the requests are finitely many.

`ChunksAssumption` says of a chunk and the next one what the handler computes (`offset += n`).
That any two chunks follow each other is the lemma `ChunksInOrder`, an induction. Since
no installed prover can use an induction rule with an operator parameter, it takes the
least chunk that breaks the order, which exists as the order of `Nat` is well-founded
(`LeastNatural`, from `WFMin` of the library, whose parameters are sets).

### The arguments

**WorkerPool.** `ChannelOwnership` and `OneWorkerPerJob` need each other: that a worker has
at most one job needs that two dispatch goroutines never have its channel, which needs
that the channel is not in the pool while its worker works. `PoolNeverFull`: a channel
occurs once in the pool and the one that registers is not there, so that the pool is
shorter than the number of workers; that step is the lemma `PoolHasRoom`, on
cardinalities. `WorkerPoolImplementsService`: `Dispatch` accepts, `HandOff` starts,
`Finish` finishes, the others stutter (`StepSimulation`).

**S3Writer.** Two layers. The first is what the writer needs:

* `StreamInOrder` needs that the byte read is number `Len(sink)` of the file. The stream is
  as long as `totalBytes + n` (`StreamIsCounted`), and the chunk being written starts
  at `totalBytes`: not before, since it tested `totalBytes >= offset` and holds the
  mutex since (`WriterHoldsMutex`), and not after, since as long as the pipe is whole
  `totalBytes` never passes a chunk that has bytes and is still to be written
  (`NoTurnSkipped`, proved by ordering the two chunks). This is why the `>=` in
  `WriteAt` is enough.
* `NoWakeupLost` needs that a job a worker starts is not already at its `Broadcast`
  (`NotStarted`).

The second, `CloseInv`, adds the handler. `ObjectHasAllChunks` needs that the stream ends
only when every added job is done: the `WaitGroup` counts those that are not
(`Counted`), the chunks were added in order (`AddedInOrder`), and `totalBytes` is
neither behind a chunk that was written nor past the last one added
(`TotalInBounds`), so that at the end it is just there. `S3WriterImplementsSequential`:
`AddChunk` is `Give` (of an empty chunk a stutter), `ReadByte` is `Receive`, the end of the
upload or `Complete` is `Publish`, the others stutter. Bytes are mapped by their place
in the file: that the byte which arrives is the next one is `StreamInOrder`, that the
stream ends with the last byte that was handed over is `StreamIsWhole`, and the object
appears once (`ObjectAtTheEnd`).

**ContextValue.** `SerialReadsHaveTheValue` has an invariant under the condition that no two
goroutines have been in `Read` together (`overlapped \/ Serial`). The one in `Read` has
the fields for itself (`Alone`), and where it stands says what it has: the first
`next - 1` pieces while it reads the pipe, and the first `off` of `buf` while it
copies. Nobody in `Read` means `off = 0`, which is what the rewind in `Read` is for, and
`closed` with nobody reading means that `buf` is the value. While `Close` is
between the flag and the pipe, the reader that took the pieces is still in `Read`, so
that a read which finds `closed` too early is not alone.

**Upload.** `NoWriteAfterClose` rests on the count: `wg[p]` is the number of chunks of p that
the Dispatcher has (`Counted`), so that the `Wait` before `Close` returns when there is
none, and no chunk of p is added after it since the handler works on one part after
the other (`PartsInOrder`). `NextRunsWhenDone` adds how `ServeHTTP` and `handle` stand to
each other (`Stages`). `FileHasNoHole` needs that no chunk is left out as long as the
body is whole (`AddedSoFar`) and that a job that is done has written or failed
(`WrittenIsThere`). `FileIsFinal` is an action property: no step changes the file once the
request has been passed on.

**WebsocketSession.** `ClientGetsItsMessages`: the verdict of the filter is a fact about the
message and the repositories seen so far (`Allowed`), which stays true whatever the
client registers next; the invariant carries it along the handler function, the pipe
and `pumpStdout` (`AcceptedAreAllowed`). `FewAreLate` counts the messages that are late
together with those on their way that will be (`LateOrOnTheWay`).

**Com.** `OneNsqdAtATime` follows from where the goroutine of `NewCom` stands (`NsqdKnown`).
`CloseWaits` follows from the count of started consumers, and from the fact that those
that `Close` waits for have been started and start only once (`OwedHaveStarted`).
`AlreadyRunningIsNeverAnswered` is an action property: no step of `NewCom` past its wait is
taken while `running`, so that the answer of `com/com.go:58` is dead code.

**Transfer.** `ResultsAreTrue` counts: a chunk that was read is at the receiver, in the hands
of the goroutine between, or in the pipe (`DownloadCounts`, `RemoteCounts`). Both
sides are done only when the pipe is closed, which it is by the copier alone and after
its last chunk (`Ends`).

**Pipeline.** `ForwardsUnlessRaced` is about shared rules: as long as no other request has
appended to the array of a rule since the request did (`raced`), what the request would
forward is one of its own matches, or nothing if there is none (`HeaderKept`); the job reads it when its `http.Request` is made, and what it
has read is not touched again (`SentIsItsHeader`). That the match stays its own
needs no assumption on the rules or the number of matches; the run `PipelineHeader`
shows what happens in the race.

**The users of the workers.** `S3Writer`, `Upload` and `Pipeline` take steps of `JobService`
where the code calls `Dispatcher.Add`. `Pool!Accept` asks that the job is new, which
`Add` does not test: `UsesTheService` proves, for each of the three, that it is new
whenever the handler is about to add it (`AddsNewJob`, for `Upload` from `NotAddedYet`), so
that the guard holds nothing back, and that the status and the slots change by steps of
`JobService` only. Together with `WorkerPoolImplementsService` this is why the three may
be checked without the channels of the pool.

### Rest and progress

Liveness under fairness is out of the prover's reach, but most of what can go wrong
with it is not. For each of the eight modules two theorems split it:

* Rest. `SomeoneCanMove` says that a step of the program is possible, without what nobody
  may wait for: a timeout, a failure, a client. Where it is false, the system has ended or
  waits for one of the reasons that the liveness property names, and for no other. A
  deadlock that the property does not name would be a counterexample.
* Progress. `StepsLeft` is a natural number, and every step lowers it, those of timeouts,
  failures and clients included; so that no livelock, retry or race goes round for ever.
  What has no bound is left out by name: in `Com` new calls, in `WebsocketSession`
  new lines and messages.

Together they give the liveness property for all values of the constants, but for the
assumption that one of the possible steps is taken, which is weaker than the fairness
of `FairSpec`. That assumption, and that `SomeoneCanMove` is indeed `ENABLED` of the fair
steps, is what TLC adds: on the bounds of each run it has found the two equivalent.

| Module | Rest | Progress | What needs an argument |
|---|---|---|---|
| `WorkerPool` | `JobsWaitOnlySo` | `PoolGetsNearer` | a worker that waits is in the pool, so that a job which waits has none left |
| `S3Writer` | `CloseHangsOnlySo` | `WriterGetsNearer` | of the chunks that wait for their turn the first one's turn has come, unless it has no worker or a failed call left it behind |
| `ContextValue` | `ReadersWaitOnlySo` | `ReadersGetNearer` | overlapping readers move `off` back and forth |
| `Pipeline` | `ReadsWaitOnlySo` | `RequestsGetNearer` | a value comes from an earlier rule (`ProviderHasBegun`), so that reads do not wait in a circle |
| `Upload` | `RestsOnlyAtTheEnd` | `UploadGetsNearer` | the last deferred `Close` waits for jobs, these for workers, and workers for nothing |
| `WebsocketSession` | `SessionRestsOnlySo` | `SessionGetsNearer` | who has closed the websocket and the pipe when a goroutine ends (`ClosedBehind`) |
| `Com` | `CallsWaitOnlySo` | `ComGetsNearer` | the owner and the goroutine of `NewCom` agree on whether nsqd is up (`UpIsKnown`) |
| `Transfer` | `TransferRestsAtTheEnd` | `TransferGetsNearer` | why a reader stops before the end, and what stays behind (`Leftovers`) |

A number of steps that many goroutines have left is the sum over a set, which would be a
recursive definition. `StepsLeft` counts the pairs of a thing and a stage it still
has before it instead: a cardinality, of which the library has the theorems. When no
rank grows and one falls, the number falls (`StepsFall`, `StagesFall`); each
proof module is complete in itself, and repeats the two lemmas.
`ReadersGetNearer` needs three levels: a reader that goes round once more has moved `off`
towards a bound that no race can pass (`OffInBounds`: past the end of the value by no
more than the readers), and one that sets `off` back ends.

### Model-checked only

* That a step which stays possible is taken, and so the liveness properties as they
  stand (`JobsComplete` and the others): temporal formulas with fairness and `ENABLED`
  are out of the prover's reach. Their part that is not is proved, see above.
* `EncodesReturn`, for the same reason; the cache of encoders has no other property.
* What the decoders compute. The directory of a path, the levels of embedded structs
  and the ways through a graph are recursive operators (`DirOf`, `Levels`, `Ways`), in whose
  reach no proof is checked, and the invariants of `Decoding` compare a fold with
  such a reference for every text.

## 5. What is not modelled

Of the components that are modelled in part:

* Encodings: reflection (`indirect`, arrays, maps and interfaces as targets), numbers,
  quoting and escapes; the text that the
  encoders write; `indent`; the buffer of the streams and the errors of their readers
  and writers. `query/encode.go` and `query/stream.go` are copies of those of
  `encoding/path`, with the scanner of queries in place of that of paths: the fields of
  a type, which need no scanner, are modelled once for both, the others for paths only.
* Files: the parts that S3 keeps after a failed append (`s3io.go:230`), a leak in the
  store and not in this program.
* Worker pool: the memory of pending jobs (`dispatcher.go:66`), a quantity without a
  limit that could be violated.
* Download: the internal redirect and the headers of the answer, which hold no state.
* Websocket: pings, which only make the client leave; what `ServeHTTP` answers after
  the session, when `handle` has returned nil and line 89 of `pydiows/handler.go` reads
  `res.Err` of it.
* NSQ: the producer and the search for a free port.

Not modelled at all:

* HTTP client and tokens: redirects, cookies and the cryptography of tokens. `Pipeline`
  and `RemoteWrite` take a request as an answer or an error.
* Tasks and scheduler, administration, configuration and setup, commands, log:
  straight-line code around XML, JSON and flags; the commands are the environment of
  the other models.

## 6. Plan

Done in this order: worker pool and S3 writer with their abstractions and proofs,
context values, uploads, NSQ, websocket, rules, downloads and remote files, the
decoders, the fields of types, the keys and the cache of encoders. Left:

1. `HttpClient`: redirects and cookies, composed with `Pipeline`.
2. `Upload` over `S3Writer` instead of local files.
3. Theorems: action properties of `S3Writer` and `ContextValue`, such as that what an
   earlier read has returned is not changed by a later one; the rest and progress of the
   cache of encoders.
