# Verification of the codis backend-connection core

This directory holds TLA+ models of the proxy's backend-connection core
(`src/`), TLC configurations that check them on small instances, and
TLAPS proofs of their main invariants for every value of the constants.

## 1. The system

The core has these parts. Source paths are relative to the repository root.

| Part | Source | What it does |
|---|---|---|
| BackendConn worker | `src/unnamed/part_002` lines 22-391 | One connection to one redis. The router calls `PushBack` to put a request into `bc.input` (capacity 1024). The writer goroutine (`run` / `loopWriter`) dials, encodes each request and flushes it, then sends it to the round's reader goroutine (`loopReader`) through `tasks` (capacity `BackendMaxPipeline`). The reader pairs each task with the next decoded reply. A failed round reconnects at once, or after the backoff of `delayBeforeRetry` once more than 10 rounds in a row have failed. `bc.state` (0, Connected, DataStale) is changed by the writer, by a reader CAS on `-MASTERDOWN`/`-LOADING`, and by the INFO callback of `KeepAlive`. That callback runs on the single `keepAliveCallback` goroutine (channel capacity 128). |
| sharedBackendConn and pool | `part_002` lines 393-553 | Reference-counted fan-out `conns[db][i]` per address: `Retain`, `Release`, selection `BackendConn(db, seed, must)`, and `KeepAlive`. |
| RESP decoder | `src/pkg/proxy/redis/decoder.go` | Streaming parser of RESP frames and inline commands, plus `Btoi64`. |
| bufio2 Reader / Writer | `src/unnamed/part_000` | A linear buffer with `rpos`/`wpos` cursors, fill compaction, `ReadSlice`/`BufferFull`, and a sticky error. |
| unsafe2 slices | `src/unnamed/part_001`, `src/pkg/utils/unsafe2/cgo_slice.go` | Off-heap buffers, capped by an atomic byte counter and reclaimed by a finalizer. |
| sync2.Future | `src/pkg/utils/sync2/future.go` | A WaitGroup-guarded result map. |
| FlushEncoder | not in `src/` | The batching encoder used by `loopWriter`. |

How the parts interact:

- The pool creates the workers and routes requests to the ones that report `IsConnected()`.
- A worker's writer and reader share one socket. They communicate only through `tasks`, so requests are completed in the order they were written.
- Every request must be completed exactly once, by `setResponse` (`Group.Done`, `Batch.Done`). This happens:
  - on the reader for a reply or a read error;
  - on the writer for a broken request or a write error;
  - in either deferred drain with `backend conn reset`;
  - in the backoff loop.

## 2. Modules

### BackendConn.tla: the worker (part_002 lines 22-391)

**State.**

- Writer:
  - `input` and `inputClosed` (`bc.input`), `closed` (`bc.closed`), `state` (`bc.state`).
  - `fails` (`bc.retry.fails`, saturated at `RetryLimit + 1`).
  - `wpc` (the writer's position in `run`/`loopWriter`), `wreq` (the request it holds).
  - `wbuf` (requests encoded but not flushed), `round`.
- Per round `k`: `tasks[k]`, `tclosed[k]`, `rpc[k]` (its reader's position), `sock[k]`.
- Backend: `sent[k]` (flushed requests not yet answered) and `replies[k]` (replies in transit).
- Per request: `res` (`r.Resp`/`r.Err`), `src` (whose reply was stored), `ndone` (the number of `setResponse` calls), `kind`.
- Callers:
  - `cpc`: the caller of `Close`, which closes the channel and then sets `bc.closed` in two steps.
  - `kpc`/`kprobe`: the caller of `KeepAlive` between pushing its INFO and sending the callback.
- Callback goroutine: `cbq`, `cbpc`, `cbm`.

**Actions.** Each one is a whole handler step, between two points where the goroutine can block:

- Router and callers: `PushBack`, `CloseInput`/`SetClosed` (`Close`), `KeepAlive`, `KeepAliveSendCallback` (line 105).
- Callback goroutine: `CallbackRecv`/`CallbackRun` (lines 105-158).
- Writer:
  - `RunExit`, `DialOK`/`DialFail` (newBackendReader, AUTH and SELECT reduced to success or failure), `WriterRecv` (the range over `bc.input`, including the broken-request `continue`).
  - `WriterFlush` (encode and `Flush(len(bc.input) == 0)`), `WriterPush` (`tasks <- r`).
  - `WriterDefers` (the three defers of `loopWriter`, then `delayBeforeRetry`'s counter).
  - `WriterRangeEnd`, `BackoffTimeout`, `BackoffReset`, `BackoffInputClosed`.
- Reader: `ReaderRecv` (decode, CAS, `setResponse`), `ReaderFail`, `ReaderEnd`, `ReaderDrain`/`ReaderDrainEnd` (the defer's drain).
- Environment: `ServerReply` (redis answers in order), `SocketBreak`, `HealthFlip` (redis starts or stops loading).

**What is abstracted.**

- Requests are model values.
- Bytes and the RESP encoding are left out.
- The INFO reply is reduced to "up" or "down".
- The FlushEncoder's `MaxInterval` timer is a free choice (`due`).
- The FlushEncoder is not in `src/`. Its flush rule (`FlushWrites`) is modelled from the spec: forced, or more than `MaxBuffered = cap(tasks)/2` buffered, or the interval elapsed.

**Bounds.**

- `MaxRounds` caps successful dials. Once it is reached, a dial always fails, so the writer keeps cycling through failure and backoff as it would against a dead backend.
- `MaxFaults` caps injected faults: dial failures, socket breaks and read timeouts.
- `MaxFlips` caps health changes.
- Every request and probe is pushed at most once.

**Fairness** (`FairSpec`).

- Weak fairness is assumed for:
  - the writer's, each reader's and the callback goroutine's steps, excluding faults;
  - the backend answering what it received;
  - the callers of `Close` and `KeepAlive` finishing their call.
- The Go scheduler runs every runnable goroutine, which justifies these.
- Faults, pushes and keepalive ticks are never forced.

`MCBackendConn.tla` supplies model values for the requests (`r1`, `r2`) and the probes (`p1`, `p2`).

### SharedBackendConnPool.tla: the pool (part_002 lines 393-553)

**State.**

- `pool`: the map `p.pool`.
- `nobj`: the number of objects created so far. Objects are numbered `1..MaxObjs`.
- Per object: `addrOf` (`s.addr`), `refcnt` (`s.refcnt`), `closedW` (every owned BackendConn has been closed), `conn[o][db][i]` (`IsConnected()` of `conns[db][i]`).
- Per holder (a router slot): `held`, the reference it holds, and `stale`, a pointer it kept after releasing it.
- `panicked` (a `log.Panicf` has fired) and `misused` (a holder released a pointer it no longer held).

The pool is not synchronised. Spec §2 says its callers serialise every call, so each call is one atomic step.

**Actions.**

- `PoolRetain` (`p.Retain`, which either retains the entry's object or creates one with `NewSharedBackendConn`).
- `ShareRetain` (`s.Retain` on a held pointer).
- `Release`, and `StaleRelease` (the misuse the panic is meant to catch).
- `WorkerUp` / `WorkerDown`: a worker's round starting or ending, as seen through `IsConnected()`.

**Selection.** `BackendConn(o, d, seed, must)` translates the selection loop:

- the `single[]` path when `Parallel = 1`;
- otherwise, the scan with `i = (i + 1) % N` written as a recursive function over the iteration number.

The router passes a 16-bit seed, so the `uint` wrap-around of `i + 1` never happens and is not modelled.

**Not modelled.**

- `KeepAlive` only calls `BackendConn.KeepAlive` on each worker; that call is an action of `BackendConn`.
- `Get` only reads the map.

### RespDecoder.tla: the RESP decoder (decoder.go, bufio2 Reader in part_000)

The decoder is modelled at two levels.

**Pure operators.** Each parse function is an operator from a byte sequence `s` and a position `p` to a record `[err, val, pos]`. A byte is a one-character string, with `"CR"`, `"LF"` and `"SP"` for the control bytes.

- `Btoi64` translates the fast path: the `len(b) != 0 && len(b) < 10` test is `FastPath`, the sign switch, and the digit loop with `int64` wrap-around (`Wrap`). Otherwise it falls back to `ParseInt`, the reference for `strconv.ParseInt`.
- `ReadByte`, `PeekByte`, `ReadSlice`, `ReadBytes` and `ReadFull` are the bufio2 Reader calls the decoder makes.
  - `ReadSlice` fails with `BufferFull` when no `'\n'` lies within the next `BufSize` bytes.
  - `ReadBytes` reads on past a full buffer.
  - Both fail with `EOF` when the stream ends first.
- `DecodeTextBytes`, `DecodeInt`, `DecodeBulkBytes`, `DecodeArray`/`DecodeElems`, `DecodeResp`, `DecodeSingleLineMultiBulk` (with the `l, r` space scan as `Fields`) and `DecodeMultiBulkFrom` follow the code's checks in the code's order. Each returns at the first error, as the code does. Each is written as its first read applied to an operator for the rest of the function (`TextLine`, `IntLine`, `BulkLen`/`BulkPayload`, `ArrayLen`, `RespOfType`, `RequestOfType`/`RequestLen`). The read's result becomes that operator's parameter, as it is the Go function's local. This also keeps TLC's profiler from expanding the recursive parse once per use of a LET name.

**The state machine.** The variables are:

- `role`: backend, calling `Decode`, or session, calling `DecodeMultiBulk`;
- `frames`: the frames sent;
- `stream`: their concatenated bytes;
- `rpos`: the reader's position;
- `err`: `d.Err`;
- `out`: the outcomes returned so far.

`Decode` and `DecodeMultiBulk` are the two entry points. A call on a failed decoder returns `ErrFailedDecoder` (`FailedCall`). Otherwise the parse's error becomes the sticky `d.Err` (`Parsed`). Every frame carries the outcome the RESP grammar of the specification (§4.4, §6) gives it. `MCRespDecoder` builds the good frames with an encoder written from that grammar, and lists malformed ones beside the error they must produce. The decoder is recursive, so this module is for TLC only.

### OffheapAlloc.tla, OffheapAccounting.tla and OffheapSpec.tla: the off-heap slices (cgo_slice.go, part_001)

**State.**

- `counter` is `allocOffheapBytes`.
- Every created slice has its size, `force`, `mem` and `fin`:
  - `mem` is `held` while `s.ptr` is cgo memory, `freed` between `cgo_free` and `s.ptr = nil`, and `nil` after;
  - `fin` records whether its finalizer is set.
- It also has an `owner` (`NoThread` once unreachable) and `frees`, the number of `cgo_free` calls on it.
- Every goroutine has a pc, its request and the slice it owns.
- `fpc` is the runtime's finalizer goroutine.

**Actions.** Each atomic counter operation and each cgo call is one step:

- `MakeSlice`/`MakeOffheapSlice` do the `Add` and the cap check (`Reserve`, `WithinCap`).
- `MallocOK` and `MallocFail` are the two outcomes of `cgo_malloc`; `MallocOK` includes `SetFinalizer`.
- `Undo` is the `Sub` after a refusal or a failed malloc.
- `FreeSlice` covers the guard and `cgo_free`; `FreeSliceSub` covers the `Sub`, `s.ptr = nil` and `SetFinalizer(s, nil)`.
- `Drop`: the owner lets go of its slice. The callers of `MakeSlice` are not under `src/`, so this step is modelled from spec §4.3.
- `PtrSet(s)`, reclaim's `s.ptr == nil` guard, is true while `mem` is `held` or `freed`: `s.ptr` is still set after `cgo_free`, until `s.ptr = nil`.
- `Finalize`/`FinalizeSub` are the same reclaim run by the finalizer goroutine.

**Refinement.** `OffheapSpec` is the allocator's promise. It is a map of held slices. `Alloc` grants a forced request always, and an unforced one only if the capped slices then hold at most `MaxOffheap`. `Free` gives a slice back. `OffheapAlloc` maps to it through `held <- [s \in Held |-> ...]`: a slice is held from the step of `cgo_malloc` to the step of `cgo_free`.

**Accounting.** `OffheapAccounting.tla` extends `OffheapAlloc` with everything stated as a sum of slice sizes:

- `HeldBytes`;
- `OffheapBytesExact`;
- the refinement `ImplementsOffheapSpec`;
- `RefusedOnlyAtCap`.

The sums come from `ByteSums.tla`, which has no recursion. An object `x` of size `f[x]` contributes the pairs `<<x, 1>>` to `<<x, f[x]>>`, and `SumBytes(S, f)` is the number of such pairs over `S`. This is the sum of `f` over `S`, in a form the prover handles with the cardinality theorems of `FiniteSetTheorems`. `MCOffheapAlloc` extends `OffheapAccounting`. Its `ASSUME SumBytesIsSum` has TLC check `SumBytes` against `FiniteSetsExt`'s `MapThenSumSet` for every set of three slices with sizes up to two, on every run of the module.

### Future.tla: sync2.Future (future.go)

**State.**

- `mu`: the mutex holder.
- `wg`: the WaitGroup counter.
- `vmap`: the map `f.vmap` points to, where 0 is nil; maps are numbered by creation, `nmaps`.
- `contents`: the keys stored in each map.
- A pc per worker goroutine (`wpc`) and for the caller (`cpc`).

**Actions.**

- The caller does `Add` for some of the workers (possibly none), starts each one (`Go`, the caller's `go` statement, which is outside `src/`), and then runs `Wait`.
  - `Wait` is split into `WaitGroupWait`, `WaitLock`, `WaitInit`, `WaitMake` (lazyInit's make) and `WaitRead`.
- Each worker's `Done` is split into `DoneLock`, `DoneInit`, `DoneMake`, `DoneStore`, `DoneSignal` (`f.wait.Done()`) and `DoneUnlock`, the deferred unlock.
- `lazyInit` is a step of its own: its test and its make are separate steps, so an unlocked test could race.

## 3. Runs

The BackendConn runs all use `InputCap = 2`, `RetryLimit = 1`, `CallbackCap = 1`, `MaxRounds = 2` and `MaxFlips = 1`:

- Two rounds are enough for an old round's reader to overlap a new round's writer.
- `RetryLimit = 1` makes the second consecutive failure go through the backoff loop.
- With `InputCap = 2` and `MaxPipeline = 2` the capacity guards are reached.

Deadlock checking is off: once Close has been handled and every goroutine has exited, the worker really stops.

| Run | cfg | Expect | What it shows |
|---|---|---|---|
| safety | `MCBackendConn.cfg` | pass | `TypeOK`, `CompletedAtMostOnce`, `ReplyMatchesRequest` and `HealthOnlyInRound` hold. The instance has two requests (one broken), two probes, `MaxPipeline = 2` and two faults; about 3.7 M states. |
| liveness | `MCBackendConnLive.cfg` | pass | Under `FairSpec`, with no broken request, one probe, `MaxPipeline = 4` and one fault: every pushed request is completed unless `run` returned with it still in `bc.input` (`CompletedUnlessLeftInInput`), and after `Close` every goroutine exits (`CloseTerminates`). |
| close_leak | `MCBackendConnLeak.cfg` | violation | `EveryRequestCompleted` (spec §8, "no leaks on close") fails. A request pushed after the writer's deferred drain is never completed when Close follows. |
| stale_health | `MCBackendConnStaleHealth.cfg` | violation | `ConnectedOnlyWithLiveReader` (spec §4.5) fails. The reader has died, but `IsConnected()` is still true. |
| callback_full | `MCBackendConnCallbackFull.cfg` | violation | `KeepAliveNeverBlocks` (spec §9) fails. `KeepAlive` blocks on the full callback channel. |
| unflushed | `MCBackendConnUnflushed.cfg` | violation | `NothingBufferedWhenIdle` (spec §4.5) fails. The broken-request `continue` leaves an earlier request unflushed while the writer waits. |

The pool run (`MCSharedBackendConnPool.cfg`, pass) uses two addresses, two holders and three objects. Three objects let an address be closed and created again. There is one database of three conns, and seeds run over `0 .. 5`, so the scan wraps round and every start index is tried. TLC explores about 1.1 M states. The run checks:

- `TypeOK`;
- `NoPanicWithoutMisuse`: Retain and Release panic only after a double release;
- `HeldWorkersOpen`: without misuse, no held object is closed;
- `MapPointsToLive`: every map entry is live and belongs to its address;
- `SelectionFollowsSpec`: `BackendConn(db, seed, must)` equals the spec's policy for every connected pattern, seed and `must`. The reference `SelectRef` picks the connected conn at the least cyclic distance from `seed + 1`.

Deadlock checking is off because a panic stops the pool for good.

The pool_single run (`MCSharedBackendConnPoolSingle.cfg`, pass; about 19,000 states) is the same instance with `Parallel = 1` and seeds `0 .. 1`. The pool then keeps `s.single`, and `BackendConn` takes the `single[]` branch, which the three-conn run never reaches. It checks `SelectionFollowsSpec` there: the one conn is returned exactly when it is connected or `must` is set.

Every property of a passing run has a mutant in `PROJECT.json`, and TLC finds each mutant's property violated:

| Property | Mutation |
|---|---|
| `TypeOK` | unchecked pipeline capacity |
| `CompletedAtMostOnce` | no `return` after a failed flush |
| `ReplyMatchesRequest` | broken request encoded |
| `HealthOnlyInRound` | `Set` instead of CAS in the callback |
| `CompletedUnlessLeftInInput` | unforced flush |
| `CloseTerminates` | no `close(tasks)` |
| pool `TypeOK` | Release's `refcnt <= 0` check dropped |
| `NoPanicWithoutMisuse` | that check off by one |
| `HeldWorkersOpen` | last-reference test off by one |
| `MapPointsToLive` | no `delete` |
| `SelectionFollowsSpec` | scan starting at `seed` |
| `SelectionFollowsSpec` (pool_single) | `single[]` conn returned without `IsConnected()` |
| decoder `TypeOK` | inline fields appended as raw bytes |
| `RepliesDecodeAsEncoded` | CRLF check by length only |
| `RequestsDecodeAsSent` | request count check `n < 0` |
| `Btoi64MatchesParseInt` | fast path without the length limit |
| offheap `TypeOK` | reclaim without the `s.ptr == nil` guard |
| `NoDoubleFree` | reclaim without `s.ptr = nil` |
| `OffheapBytesExact` | failed `cgo_malloc` keeps its reservation |
| `ImplementsOffheapSpec` | cap checked on the counter before the `Add` |
| `UnreachableReclaimed` | no `SetFinalizer` |
| future `TypeOK` | `f.wait.Add(1)` forgotten |
| `WaitSeesEveryDone` | mutex ignored |
| `WaitReturns` | `f.wait.Done()` forgotten |

### The decoder, off-heap and Future runs

**decoder** (`MCRespDecoder.cfg`, pass; 2270 states).

Integers are scaled to 8 bits, with a fast path below 3 bytes. `99 < 2^7` as nine digits `< 2^63`, so the fast path never overflows, as in the code. Bulks have up to 3 bytes, arrays up to 2 frames, and the read buffer holds 5 bytes. Every length check therefore has a case on each side of it.

Each initial state is a stream of two frames, good or malformed. The good ones include the non-canonical `$001` and `$+1`. Four calls are made on each stream. The run checks:

- `RepliesDecodeAsEncoded` and `RequestsDecodeAsSent`: each call returns the next frame's grammar outcome up to the first bad frame, then `EOF` or `ErrFailedDecoder`;
- `Btoi64MatchesParseInt`: it holds on every text of up to 4 bytes over `{-, +, 0, 1, 9, x}`, and on every window of up to 4 bytes of the stream being decoded.

Deadlock checking is off: the caller stops after its four calls.

**offheap** (`MCOffheapAlloc.cfg`, pass; about 42 k states).

- The instance has two goroutines, sizes 1 and 2, a cap of 2, and three slices.
- Under `FairSpec` it checks `OffheapBytesExact`, `NoDoubleFree`, the refinement `ImplementsOffheapSpec`, and the liveness property `UnreachableReclaimed`.
- The fairness is weak fairness of:
  - a goroutine's pending `Sub` (it runs straight-line code);
  - the runtime's finalizer of an unreachable slice, which Go's collector runs eventually (spec §4.3).
- Deadlock checking is off: after three slices the goroutines may keep theirs.

**offheap_spurious** (`MCOffheapAllocSpurious.cfg`, violation).

- `RefusedOnlyAtCap` (spec §4.3: the fallback happens "when the cap is reached") fails.
- The property allows every refusal that the committed bytes explain. These are the held slices, the slices whose reclaim still owes its `Sub`, and the reservations (forced or not) that passed the check and wait for `cgo_malloc`. Only a refused or failed reservation, whose bytes are in the counter until its `Sub`, can make a refusal spurious.
- In the trace, `t1`'s unforced `MakeSlice(1)` passes the check and its `cgo_malloc` fails. Before `t1`'s `Sub`, `t2`'s `MakeSlice(2)` is refused with the counter at 3, although nothing is committed and 2 bytes fit the cap of 2.

**future** (`MCFuture.cfg`, pass; 519 states).

- Three workers, so two can race for the mutex while a third is being started. The caller may call `Wait` after any number of `Add`s, none included; with none, `Wait`'s own lazyInit makes the map.
- It checks `WaitSeesEveryDone` (the returned map holds exactly the added workers' keys) and, under weak fairness of every goroutine, `WaitReturns`. The Go scheduler runs every runnable goroutine.
- Deadlock checking is off: the system ends when Wait has returned.


## 4. Proofs

### BackendConnProofs.tla

`ConstantsAssumption` is the only assumption.

- `TypeCorrect: Spec => []TypeOK`.
  - `TypeOK` is not inductive on its own. The strengthening `TypeInv` adds `HandTypeOK`:
    - the writer is inside a round (`round \in Rounds`) whenever it is in the loop;
    - the request it holds while flushing or pushing is a real request;
    - the probe whose callback `KeepAlive` is sending is a probe.
  - Lemmas: `InitTypeInv`, and `NextTypeInv` (one step per action).
  - These rest on `SetResponseType`, `DrainInputType`, `AfterFailureType` and `TailRound`, and on `SequenceTheorems`.
- `HealthInvariant: Spec => []HealthOnlyInRound`.
  - Given `TypeOK`, the invariant is inductive.
  - Two kinds of step write a non-zero state:
    - a writer step that enters a round (the Connected of `DialOK`);
    - a CompareAndSwap whose expected value is already non-zero (the reader's and the callback's).
  - Every writer step that leaves a round passes through `WriterDefers`, which writes 0.

### BackendConnPipeline.tla

It extends `BackendConnProofs` and proves the two properties of the worker run that span every goroutine of the pipeline. TLC checked both inductive invariants, `OwnInv` and `MatchInv`, as invariants of a spec with the constants of `MCBackendConn.cfg` (4.3 M distinct states) before they were proved.

- `CompletedOnce: Spec => []CompletedAtMostOnce`. setResponse, and with it `Batch.Done`, runs at most once per request.
  - `CompletedAtMostOnce` alone is not inductive: a request could sit in two places and be completed from both. The proof uses the ownership invariant `OwnInv == TypeInv /\ Disjoint /\ Waiting`.
  - `Disjoint`: a pushed, uncompleted request is in exactly one place. The places are `bc.input`, the writer's hand (`InHand`: the request held between receive and push) and the tasks channel of one round. Each channel holds a request at most once.
  - `Waiting`: whatever is in a place is pushed and not completed, and no request is completed twice.
  - There is one lemma per way a request moves between places: `OwnNew`, `OwnInputToHand`, `OwnHandToTasks`, `OwnInputDone`, `OwnDrain`, `OwnHandDone`, `OwnTaskDone` and `OwnComplete`. These rest on `AppendChannel` and `TailChannel`, which say what `Append` and `Tail` do to a channel's `Range` and injectivity.
- `RepliesMatch: Spec => []ReplyMatchesRequest`. A request answered by the backend gets its own reply.
  - The inductive invariant is `MatchInv == TypeInv /\ Ordered /\ Fresh /\ ReplyMatchesRequest`.
  - `Ordered` (`OrderedAt(k)` for every round `k`, while the reader of `k` reads) relates four sequences of round `k`: the requests answered by the replies in transit, then those on the wire (`Stream(k)`), then those in the encoder buffer (`wbuf`). While the writer is in the round, these are exactly `tasks[k]` followed by the request the writer is about to push (`Pending`). Once the writer has left the round, `Stream(k)` is a prefix of `tasks[k]`.
  - So when `loopReader` pops the oldest reply and the oldest task, the two are about the same request. `ReplyMatchesRequest` follows.
  - `Fresh` says that rounds not yet started are empty and that the buffer is empty outside a round. `DialOK` needs it to start a round with `Ordered` true.
  - The step lemmas follow the writer: `BufferRound` (a request buffered), the inline associativity steps of a flush that writes, `PushRound`, `LeaveRound`, `StartRound`. For the reader and the backend they are `StreamParts`, `PopPrefix`, `PopHead` and `ServeRound`.
  - `NextOrdered`, `NextFresh` and `NextReplyMatch` each take one conjunct through every action, and `NextMatch` combines them.

### SharedBackendConnPoolProofs.tla

`PoolAssumption` is the only assumption.

- `PoolTypeCorrect: Spec => []TypeOK`.
- `PoolEntriesLive: Spec => []MapPointsToLive`.

Both follow from one inductive invariant `IInv`, which holds even when holders double-release:

- `EntriesLive`: an entry is an object of its address with a positive count.
- `ClosedStayClosed`: a closed object has count 0, so Retain and Release on it panic rather than revive it.
- `FreshAboveNobj`: the object the next creation uses is unreferenced and open.

The lemmas `SharedRetainIInv` and `SharedReleaseIInv` cover `s.Retain` and `s.Release` whichever caller makes them. A Release that reaches zero deletes the entry of `addrOf[o]`, the only address whose entry can point to `o`.

Two more theorems hold only while no holder misuses a pointer:

- `PoolNoPanicWithoutMisuse: Spec => []NoPanicWithoutMisuse`.
- `PoolHeldWorkersOpen: Spec => []HeldWorkersOpen`.

Both rest on the stronger invariant `CInv == IInv /\ HeldCreated /\ Counted /\ NoPanicWithoutMisuse`. TLC checked `CInv` as an invariant of the pool run before it was proved.

- `HeldCreated`: a holder holds only objects already created (`1 .. nobj`). So the fresh object `nobj + 1` has no holder when the pool's Retain creates it with count 1.
- `Counted`: while `misused` is false, `refcnt[o]` is the number of holders `h` with `held[h] = o`.

Given `Counted`, a holder's reference keeps its object's count at least 1 (`HeldPositive`). So:

- its Release never takes the count below zero and never reaches the `log.Panicf`;
- its object is never closed, since `ClosedStayClosed` says a closed object has count 0.

The lemmas `CountAdd` and `CountRemove` (via `FS_AddElement` and `FS_RemoveElement`) say that handing out or giving back one reference moves the holder count of one object by one. There is one step lemma per action that changes `held`: `RetainStep`, `PoolRetainStep`, `ShareRetainStep` and `ReleaseStep`.

A stale release sets `misused`, and from then on `Counted` no longer constrains anything. That is why both theorems are stated under `~misused`: after a double release the counts no longer match the holders, and a later Release can reach the `log.Panicf`.

### OffheapAllocProofs.tla

This module holds the step of the no-double-free argument. The theorem `OffheapNoDoubleFree` is in `OffheapAccountingProofs`, because it needs the ownership invariant proved there.

- `IInv == ShapeOK /\ FreedOnce`:
  - `ShapeOK`: every slice is a record of `SliceRec` and every request carries a size.
  - `FreedOnce`: a slice has `frees` 0 or 1, and 0 while its `mem` is `held`.
- `NextIInv: IInv /\ Reentry /\ [Next]_vars => IInv'`.
  - `Reentry` says that reclaim never meets a slice between its `cgo_free` and its `s.ptr = nil`. The owner's `FreeSlice` never finds its slice there, and neither does the finalizer of an unreachable slice while the finalizer goroutine is idle.
  - The `s.ptr == nil` guard cannot tell such a slice from a held one, since `s.ptr` is still set. So `FreedOnce` is inductive only together with `Reentry`.

Lemmas:

- `SetFrees`, `SetMem` and `SetFin` keep a record in `SliceRec` when one field changes.
- `FreeRec` covers the guarded `cgo_free`.
- `SliceUpdate` covers a one-slice update.

### OffheapAccountingProofs.tla

These theorems hold for every set of goroutines, set of sizes, cap and bound, under `OffheapAssumption` alone:

- `OffheapTypeCorrect: Spec => []TypeOK`. This includes `counter \in Nat`: `allocOffheapBytes` never goes negative.
- `OffheapCounterExact: Spec => []OffheapBytesExact`. `OffheapBytes()` is exact whenever no goroutine is between an `Add` and its `Sub`.
- `OffheapRefinesSpec: Spec => ImplementsOffheapSpec`. The allocator implements `OffheapSpec`.
- `OffheapCapHolds: Spec => []Abs!CapRespected`. The held `MakeSlice` slices never hold more than `MaxOffheapBytes()` between them.
- `OffheapNoDoubleFree: Spec => []NoDoubleFree`. `cgo_free` runs at most once on a slice, whichever of `FreeSlice` and the finalizer reaches `reclaim`, and however often.

All five rest on one inductive invariant, `AInv == Shape /\ IInv /\ Owners /\ Bound /\ Acct /\ Cap`. Before it was proved, TLC checked it as an invariant of `Spec` on two instances:

- the offheap configuration: 41,845 states;
- three goroutines, `MaxSlices = 4` and `MaxOffheap = 3`: 6.0 M states.

Its conjuncts:

- `Shape`: `TypeOK`, with `counter` any integer.
- `IInv`: from `OffheapAllocProofs`.
- `Owners`:
  - a goroutine owns a created slice exactly while it is past `cgo_malloc`, and no two own the same one;
  - a reservation in flight has a size;
  - every slice that `cgo_free` has released but whose `Sub` has not run is owed exactly one `Sub`, by its owner in `FreeSlice` or by the finalizer;
  - the slice a goroutine owns names it as owner (it is reachable), and the slice the finalizer goroutine is reclaiming has no owner.
- `Bound`: the created slices and the reservations in flight fit in `MaxSlices`. This is what `Room` keeps, and it makes `nslices + 1` a slice identity.
- `Acct`: `counter` is the bytes of the live slices (held, or freed with the `Sub` still to come) plus those of the reservations in flight.
- `Cap`: the held unforced slices, plus the unforced reservations that passed the check and wait for `cgo_malloc`, hold at most `MaxOffheap`.

Why each part is needed:

- `OffheapBytesExact` alone is not inductive. Between the `Add` and the `cgo_malloc`, and between `cgo_free` and the `Sub`, the counter differs from the held bytes. `Acct` says by how much, and `Owners` says that each difference is taken back exactly once.
- `NoDoubleFree` needs `Owners`. `AInvReentry` derives `Reentry` from it. A freed slice owes its `Sub` either to its owner, which is then in `FreeSliceSub` and not in `FreeSlice`, or to the finalizer, whose slice has no owner. `FreeSliceHeld` and `FinalizeHeld` follow: past the guard, the slice is held. TLC's mutant without `s.ptr = nil` shows what this rules out.
- The refinement needs `Cap`. The code checks the counter at the `Add`, and `Cap` carries that check to the later `cgo_malloc`, which is the step `OffheapSpec`'s `Alloc` is mapped to. When the step comes, `CappedBytes(held)` plus the request is at most the sum `Cap` bounds.

Proof structure:

- There is one step lemma per action: `ReserveStep` (for `MakeSlice` and `MakeOffheapSlice`), `MallocOKStep`, `MallocFailStep`, `UndoStep`, `FreeSliceStep`, `FreeSliceSubStep`, `DropStep`, `FinalizeStep` and `FinalizeSubStep`. `NextAInv` combines them.
- Two lemmas carry the byte arithmetic shared by several actions: `SameBytes` when no bytes move, and `ReclaimBytes` for the `Sub` of `reclaim`.
- They rest on lemmas about `SumBytes`: `ByteSetEmpty`, `ByteSetExt`, `ByteSetMono`, `OneObject`, `ByteSetAdd` and `ByteSetRemove`.

The refinement is proved step by step, with the mapping `HeldMap`:

- `Init` maps to the empty map.
- `MallocOK` is `Alloc(nslices + 1, n, force)`; `MallocOKAlloc` proves the guard from `Cap`, through `CappedBytesHeld`.
- `FreeSlice` and `Finalize`, when `s.ptr` is set, are `Free(s)` (`HeldFree`).
- Every other step leaves `HeldMap` unchanged (`HeldFrame`).
- `RefineStep` collects these cases, and the theorem combines them by `PTL`.

### FutureProofs.tla

The only assumption is `FutureAssumption`: the workers are finite, and the caller and `NoG` are not workers.

- `FutureTypeCorrect: Spec => []TypeOK`.
- `WaitSeesEveryDoneHolds: Spec => []WaitSeesEveryDone`.

Both follow from the inductive invariant `IInv == TypeOK /\ Counted /\ Exclusive /\ OneMap /\ Stored`:

- `Counted`: `wg` is the number of added workers that have not yet passed `f.wait.Done()`. The proof uses `FS_AddElement` and `FS_RemoveElement`.
- `Exclusive`: whoever is inside a critical section holds the mutex.
- `OneMap`: a lazyInit that found `f.vmap` nil still finds it nil when it makes the map, so only one map is ever made.
- `Stored`: a worker past its store has its key in that map, and only added workers' keys are stored, and `Wait` is past `f.wait.Wait()` only once every added worker has signalled.

`WaitSeesEveryDone` is not inductive alone. Without `OneMap` and `Exclusive`, a second make could replace the map that holds the earlier keys. There is one lemma per worker action and one for the caller. The theorems combine them by `PTL`.

### Only model-checked

- `SelectionFollowsSpec` (the pool run). It compares the code's scan of the BackendConn array, a recursive function over the iteration count, with the least-distance choice `SelectRef`. Relating the two needs induction over the iteration count. The library's induction theorems take an operator parameter, and the installed provers cannot instantiate one.
- The liveness properties. TLAPS does not handle liveness under fairness (or `ENABLED`).
- The decoder properties. The decoder is recursive, and induction over data is beyond the prover; TLC checks them over every listed frame.
- `RefusedOnlyAtCap` is the property of the violation run, which TLC refutes. It is not a theorem.
- `UnreachableReclaimed` (liveness).
- `SumBytesIsSum`: that `SumBytes` agrees with `MapThenSumSet`. The proofs use `SumBytes` directly. Relating the two for every set would need induction with an operator parameter, so TLC checks the agreement on small sets.

## 5. Not modelled, and the plan

- **bufio2.** The Writer, and the Reader's `fill` compaction and cursors. The Reader's calls are modelled over the whole stream. The Writer is driven only by the encoder, which is not under `src/`.
- **unsafe2.** `goSlice` and the `Slice2`/`Slice3` views change no shared state.
- **Future reuse.** `Wait` returns the live map, not a copy. No caller under `src/` calls `Done` after `Wait`, so the model makes one `Done` per `Add` and the reuse is not a hazard of this code.
- **Outside the core.** Router, config and logging are not modelled.

Planned:

- an abstract specification of the BackendConn worker ("each pushed request is completed once, in push order per round"), with `BackendConn` shown to refine it;
