# TLA+ models of the lightchain storage core and RPC bridge

This directory holds the TLA+ specifications of the code under `src/`, the
TLC configurations that check them, and `PROJECT.json`, which ties every
definition to the source lines it models. This file is the inventory, the
plan and the account of what the checks show.

## 1. Inventory

### 1.1 Components

| Component | Source | State it keeps | Operations |
|---|---|---|---|
| Atomic primitives | `baselib/lib/Lsc/containers/btree/df_atomic.h` | one memory word of 8/16/32/64 bits (or a pointer), a register per caller | `df_atomic_inc`, `df_atomic_dec`, `df_atomic_add`, `df_atomic_exchange` (a `cmpxchg` retry loop), `df_atomic_compare_exchange`, the two `_pointer` wrappers |
| Recycling index allocator | `baselib/lib/Lsc/alloc/Lsc_cpsalloc.h` | `_deque` (backing store of raw slots), `_free` (recycled handles) | constructors, destructor, `allocate`, `deallocate`, `construct`, `destroy(p)`, `create`, `destroy()`, `swap`, `getp`, `max_size`, `operator==` |
| Pool allocator | `baselib/lib/Lsc/pool/Lsc_poolalloc.h` | `_p_pool` (the bound `mempool`, or none for the heap) | constructors (default, bound, copy, rebind), `allocate`, `deallocate`, `construct`, `destroy`, `max_size`, `operator==` |
| RPC bridge | `topchain/src/bitcoin-cliapi.cpp` | `HTTPReply` (status, error, body), the retry counter, `nRet`, `result`, `errCode`, `errMsg`, `strPrint`, `commonResponse`; the process-global argument table `gArgs` and base parameters | `http_request_done`, `http_error_cb`, `CallRPC`, `AppInitRPC`, `CommandRPC`, `runCommand`, `createsubchain`, `gensubchainblock`, `commitsubchain`, `genbridgeownerinfo` |
| Server session event | `baselib/lc/lc_aserver/NsheadSvrEvent.h` | `_fserver`, `_ftag` | `set_tag`, `if_post`, the declared callbacks |
| Hash table engine | not under `src/`; exercised by `baselib/lib/Lsc/unittest/Lsc_test_hashmap_string.h` and `Lsc_test_rwhashset.h` | buckets, size, capacity | `create`, `destroy`, `clear`, `set`, `get`, `erase`, `assign`, iteration |
| Binary archive | not under `src/`; exercised by `test_hashmap_serialization` | the byte stream | `write`, `read` |
| Key hash functor | `hash_key`, `hash_func` in the two unit tests | none (pure) | `operator()` |
| Hash table unit tests | `baselib/lib/Lsc/unittest/Lsc_test_hashmap_string.h`, `Lsc_test_rwhashset.h` | the tables under test, the file `hashtest.data`, a `std::vector` or `std::map` kept beside the table | `test_hashmap`, `test_hashmap_iterator`, `test_hashmap_serialization`, `test_hashmap_assign`, `test_hashmap_clear`, `test_rwhashset`, `test_create` |
| Configuration accessor test | `baselib/basecore/configure/test/test_get_value.cpp` | none | prints the result of each typed accessor |

### 1.2 How the components interact

* A hash table (`phashmap`) is parameterised by an allocator. With
  `Lsc_cpsalloc` its nodes live in `_deque` and are named by handles; the
  table calls `allocate`/`construct` on insert and `destroy(p)`/`deallocate`
  on erase, `destroy()` when it is destroyed, and `swap` when two tables are
  swapped. The allocator trusts the table completely: no handle is checked.
* `Lsc_cpsalloc<_Alloc>` wraps another allocator type (`pool_allocator` or
  `Lsc_alloc`) only for its typedefs; the storage itself comes from the two
  `Lsc::deque`s.
* `pool_allocator` forwards to an externally owned `mempool` or to `malloc`.
  Copies and rebound copies share the pool.
* The atomic primitives are called by concurrent threads on one shared word.
  Nothing else in `src/` is concurrent: both allocators declare or imply
  `thread_safe = false`.
* The archive reads and writes a table through its iteration and `assign`.
* The unit tests are the only callers of the table and the archive in the
  repository. Each test draws random strings, applies them to a table and to
  a reference collection of the standard library, and asserts that the two
  agree; `test_hashmap_serialization` passes the table through a file.
* The RPC bridge is independent of the storage core. `createsubchain` and
  its siblings call `runCommand`, which calls `AppInitRPC` and `CommandRPC`,
  which calls `CallRPC` in a retry loop; `CallRPC` runs the libevent loop,
  whose callbacks `http_error_cb` and `http_request_done` fill `HTTPReply`.
  `AppInitRPC` writes the request's data directory and the settings of its
  configuration file into the global `gArgs` and selects the global base
  parameters; `CallRPC` reads both to choose the port. Both outlive the
  call.

### 1.3 What is hard

* **Atomics.** `df_atomic_exchange` is not one instruction: it reads `*pv`
  without a lock and then retries `lock cmpxchg` until it succeeds. Its
  correctness (it returns exactly the value it replaced, no concurrent
  increment is lost) depends on `cmpxchg` reloading the register on failure.
  It is lock-free but not wait-free. All operations wrap at the word width.
* **Recycling allocator.** The handle type is `unsigned int` while the store
  is sized by `size_t`; recycling order is FIFO although the design text
  calls the free list a stack; `destroy()` and the copy constructor
  invalidate or do not carry over handles; correctness over long sequences
  of allocate/deallocate/swap/destroy is a relation between three pieces of
  state (`_deque`, `_free`, the caller's handles).
* **Pool allocator.** `__n * sizeof(_Tp)` is computed in `size_t` without a
  check against `max_size()`; a block must go back to the source it came
  from although it may be freed through a different allocator object; the
  pool can be exhausted.
* **RPC bridge.** The retry loop (`do … while (maxTryTime-- > 0)`), the
  result of a call whose every attempt failed to connect, state written
  before an exception and read after it (`result`), and out-parameters read
  before the call that fills them. The configuration of a call is kept in
  global tables that every call adds to and none clears.
* **Hash table and archive.** Distinct result codes over long call
  sequences, repeated `create`/`destroy`, `assign` over old contents,
  reading an archive into a table of another capacity.
* **Unit tests.** `randstr()` can return the same string twice, so the
  number of insertions, the result code of each `set` and the reference
  collection depend on the draw; the assertions must hold for every draw.
* **Hash functor.** `(key << 8) + __key[i]` in `size_t` with a signed
  `char`: bytes beyond the width of the word are shifted out, bytes of 0x80
  and more are added sign-extended.

### 1.4 Properties that make each component correct

| Component | Properties |
|---|---|
| Atomic primitives | every operation takes effect atomically at one point between its call and return and returns what the contract says (refinement of an atomic word); the word is the sum of all completed updates modulo 2^w; an exchange returns the value it replaced; every started exchange returns |
| Recycling allocator | slots are partitioned between the caller and the free list; a handle given out is valid and not in use; the store is as long as the peak demand; the caller receives again first the handle it gave back first; the allocator implements an abstract pool of handles |
| Pool allocator | a block is returned to the source that issued it; the bytes a pool has out equal the outstanding blocks; a block holds what was asked for |
| RPC bridge | a call returns; the return value tells how the call ended; the number of attempts is bounded by the retry limit; a zero return means a reply was received; the error of the reply reaches the response; a call is sent to the port, and from the data directory, its own request names |
| Hash table | the four result codes of `set`; erase then re-insert is an insert; no duplicate key; size equals the number of entries; repeated create/destroy leaves no slot behind |
| Archive | `read(write(T))` gives `T` whatever the target held before |
| Unit tests | no assertion fails and every test returns, for every draw of random strings; the reference collection of a test holds what the table holds |
| Hash functor | the hash is a function of the last `sizeof(size_t)` chars; keys that fit in a word do not collide |

## 2. Plan

Modules in the order they are written. The two allocators and the atomic
primitives come first: they are the part of the storage core whose source is
in the repository, and the table and the archive stand on them. The RPC
bridge follows because it is the largest piece of control flow under `src/`.

| # | Module(s) | Content | State |
|---|---|---|---|
| 1 | `CpsAlloc`, `HandlePool` | the recycling allocator and the abstract pool of handles it implements | written, checked |
| 2 | `PoolAlloc` | allocator objects over pools and the heap, blocks, the size computation | written, checked |
| 3 | `Atomic`, `AtomicWord` | the primitives at instruction level and the atomic word they implement; liveness of the exchange loop | written, checked |
| 4 | `RpcClient` | entry points, `runCommand`, `AppInitRPC` and the global arguments, the `CommandRPC` retry loop, `CallRPC` and its callbacks | written, checked |
| 5 | `HashMap`, `HashMapTest` | the table the design text promises, and the seven test functions of `Lsc_test_hashmap_string.h` and `Lsc_test_rwhashset.h` as programs that drive it | written, checked |
| 6 | `BinArchive` | the stream layout, `write`, and `read` as `create` + `assign`; driven by the three reads of `test_hashmap_serialization` | written, checked |
| 7 | `HashKey` | `hash_key` and `hash_func`, one loop turn per step, with the widths of `char` and `size_t` as constants | written, checked |

Not pursued, for the reasons of section 4: a chained table over `CpsAlloc`
handles (the engine's source is not in the repository), the session event
`NsheadSvrEvent`, and a reference count built on the atomic primitives (the
header names the use, the repository holds no such code).

Compositions: `CpsAlloc` with `HandlePool` and `Atomic` with `AtomicWord`
are refinements (the abstract specification is instantiated with a
refinement mapping and checked as a property). `BinArchive` extends
`HashMap`; `HashMapTest` instantiates `BinArchive` and calls its operations.

Each `MC*` module extends its specification and defines the constant sets;
each `.cfg` asks one question.

## 3. Modules

### 3.1 `CpsAlloc` and `HandlePool`

`CpsAlloc` models several `Lsc_cpsalloc` objects, because `swap` and the copy
constructors relate two of them.

| Model | Code |
|---|---|
| `_deque[a]`, a sequence over `Values ∪ {Raw}` | `Lsc::deque<data_t> _deque`; `Raw` is a slot without a constructed value |
| `_free[a]`, a sequence of handles | `Lsc::deque<pointer> _free` |
| `alive` | the objects between constructor and destructor |
| `ret` | the value `allocate` returned last |
| `held[a]` | not in the code: the handles the caller was given and has not given back |
| `peak[a]` | not in the code: the most handles the caller ever held at once in the store |
| `returned[a]` | not in the code: the handles the caller gave back and has not received since, in the order it gave them back |
| `allocate = Reject ∨ Recycle ∨ Grow` | the three returns of `allocate` |
| `deallocate`, `construct`, `destroy_value`, `destroy`, `swap`, `Construct`, `CopyConstruct`, `Destruct` | the member functions of the same names (`destroy_value` is `destroy(pointer)`) |
| `ToPointer` | the conversion of `_deque.size()` to `unsigned int` |
| `getp` | `_deque[__p-1]` (sequences of the model start at 1) |

The allocator checks nothing, so the guards of `deallocate`, `construct`,
`destroy_value` and `destroy` are the caller's obligations (it passes handles
it owns, destroys a value before it frees the slot). The faulty variants show
what happens when they, or the code, do otherwise.

`HandlePool` is what a caller may assume: per pool a function from the
handles in use to their contents, with `Acquire`, `Release`, `Put`, `Drop`,
`Reset`, `Exchange`, `Create`, `Delete`. The refinement mapping takes
`pool[a]` to `_deque[a]` restricted to `held[a]`; `_free` and the length of
the store are invisible.

### 3.2 `PoolAlloc`

| Model | Code |
|---|---|
| `_p_pool`, a function from the constructed objects to `Pools ∪ {NULL}` | the member `_p_pool` |
| `ElemSize[a]` | `sizeof(_Tp)` of the instantiation object `a` belongs to |
| `ledger[s]` | the blocks source `s` (a pool or the heap) has out and their sizes; `Corrupt` after a free of something it never issued |
| `blocks` | the caller's blocks: the allocator value they came from, the element count asked for, the elements constructed |
| `thrown` | whether the last `allocate` threw `BadAllocException` |
| `Bytes(n, esize)` | `__n * sizeof(_Tp)` in `size_t` (modulo `2^SizeBits`) |
| `Equal` | `operator==` |

`Malloc`, `Free`, `HasRoom`, `InUse`, `IssuedSize` model `mempool` and the C
heap, which are not in the repository, from their interface. The guard of
`deallocate` (`MayFree`) is the allocator protocol of the standard library:
the block is given back through an allocator of the same element type that
compares equal to the one it came from.

### 3.3 `Atomic` and `AtomicWord`

| Model | Code |
|---|---|
| `word` | `*pv` |
| `WordBits` | the width of the overload (8, 16, 32, 64) |
| `ret[t]` | the operation thread `t` completed last, its arguments and `__res` |
| `pc[t]`, `eax[t]`, `nv[t]` | inside `df_atomic_exchange`: the loop, the accumulator, the operand register |
| `left[t]` | the operations `t` still performs (bound `MaxOps`) |
| `df_atomic_inc`, `_dec`, `_add`, `_compare_exchange` | one step each: the `lock xadd` / `lock cmpxchg`; the arithmetic on the result register is thread-local |
| `ExchangeLoad` | the load of `*pv` for the input operand of the asm |
| `ExchangeCas` | one `lock cmpxchg; jne 1b`: success stores `nv` and returns the accumulator, failure reloads the accumulator |

`AtomicWord` has only `word` and `ret` and one step per operation. The
refinement mapping is the identity on these two; `ExchangeLoad` and a failed
`cmpxchg` are stuttering steps, the successful `cmpxchg` is the `Exchange`.

### 3.4 `RpcClient`

One thread; the nondeterminism is the outside world (what the set-up finds,
what the server answers to each attempt, an interruption of the sleep).

| `pc` | Code |
|---|---|
| `idle` | outside the entry points; `ret`, `res`, `errCode`, `result` are what the caller sees |
| `runCommand` | in `runCommand` before `SetupNetworking` |
| `CallRPC` | at the head of the `do` loop |
| `dispatch`, `failed` | in `event_base_dispatch`, before / after `http_error_cb` |
| `classify` | after the event loop, at `if (response.status == 0)` |
| `sleep` | in `MilliSleep(1000)` inside the `catch` |

`strPrint` is `res.retDebugInfo` (passed by reference). `result` is null or
the set of string-valued keys of the result object; an error is null, a
code, or not an object. `attempts` and `outcome` are history variables.
The codes are C `int`s: `abs` keeps `INT_MIN`, whose negation does not fit.
An entry point does not reset `retResult` and `retDebugInfo`, so neither
does `Enter`: the response of one call is the response object of the next.

| Model | Code |
|---|---|
| `info` | `req.info` of the entry point: `rpc_conf_file` and `datadir` |
| `gArgs` | the global `ArgsManager gArgs`: a function from the arguments that have a value to the value |
| `baseParams` | the chain of the global base parameters, `"none"` until `SelectBaseParams` ran |
| `port` | the local `port` of `CallRPC` |
| `WithDataDir`, `Merged`, `SelectedChain` | `gArgs` after `SoftSetArg("-datadir", …)`, after `ReadConfigFile`, and the chain `SelectBaseParams` is called with |
| `StopsBeforeFile`, `StopsAfterFile`, `AppInitRPC_Continues` | the returns of `AppInitRPC`: no data directory or a file that cannot be parsed; no valid chain or `-rpcssl`; `CONTINUE_EXECUTION` |
| `Port(args, chain)` | `-rpcport` if it has a value, else `BaseParams().RPCPort()` |
| `uniform` | not in the code: every call so far carried the same `req.info` |

`ArgsManager`, `GetDataDir`, `ChainNameFromCommandLine` and
`SelectBaseParams` are not in the repository. They are modelled from their
interface: `SoftSetArg` and `ReadConfigFile` store a value only for an
argument that has none (`args @@ new`), `ChainNameFromCommandLine` throws
when `-regtest` and `-testnet` are both set. Whether the data directory
exists and whether the file can be parsed is decided by the file system at
the moment of the call, so `StopsBeforeFile` is always possible; a file that
cannot be parsed is taken to have stored nothing. Configuration files do
not set `-datadir`.

### 3.5 `HashKey`

| Model | Code |
|---|---|
| `__key`, `i`, `key` | the argument, the loop index and the accumulator of `operator()` |
| `Call(s)` | the call with the string `s`: `size_t key = 0`, `i = 0` |
| `hash_key` (`hash_func` is the same) | one turn of the loop |
| `Accumulate(k, c)` | `(key << 8) + __key[i]`: shift by `CharBits`, add the signed char, wrap at `WordBits` |
| `Return` | `return key` |
| `prev` | not in the code: argument and result of the call before, so that two calls can be compared |

### 3.6 `HashMap` and `BinArchive`

The table and the archive classes are not in the repository. The two modules
are written from the design text (`spec.md`, sections 4.3 and 4.4) and hold
what a caller may rely on, nothing of buckets or chains.

| Model | Design text |
|---|---|
| `created[t]`, `capacity[t]`, `dict[t]` | the state (Uninitialized or Created), the bucket count fixed by `create`, the entries |
| `ret`, `out` | the result code of the last call; the value `get` stores through its pointer argument |
| `create`, `destroy`, `Destruct`, `clear`, `set`, `get`, `erase`, `assign`, `assign_through_iterator` | the operations; `SetOutcome` gives the code of `set` (`InvalidState`, `HASH_OVERWRITE`, `HASH_EXIST`, `HASH_INSERT_SEC`, `Full`), `AssignOutcomes` what an `assign` of more keys than buckets may leave |
| `stream` | the archive file: capacity, size, then the (key, value) pairs |
| `write(t)` | the pairs in any order, since the iteration order is the table's own |
| `read(t)` | `create(stored capacity)` then `assign(stored entries)`; a stream that is not well-formed gives `DeserializationError` and a cleared table |

### 3.7 `HashMapTest`

A test function is a program: a sequence of statements, each of which is a
loop (a statement outside a loop runs once). `pc` is the statement the test
is at, `i` the index of its loop, `todo` what an iteration over a table or a
map has not visited yet.

| Model | Code |
|---|---|
| `test_hashmap_`, `test_hashmap_iterator_`, …, `Programs` | the test methods of the suite for the first table type (`THMp1`) and of `Lsc_test_rwhashset`: which statements a test function consists of, in order. The methods for `THMp2` to `THMp5` run the same functions on table types the model does not tell apart |
| `RunTest`, `Return` | a test method calls its test function; the function returns, its locals and tables are destructed, the file stays |
| one action per statement (`create100`, `insert`, `erase`, `it_mutate`, `ser2_read`, `cl3_assign`, …) | the statement: its call of the table or the archive and its `__XASSERT` |
| `Passes(cond)` | `__XASSERT(cond)`: the test goes on, or `pc` becomes `failed` (`return false`) |
| `LoopExit` | the loop condition is false: control moves to the next statement |
| `vec`, `vmap`, `vsize` | the `std::vector` of `test_hashmap`, the `std::map` of the other tests, `size_t vsize` of the iterator test |
| `randstr` | `randstr()`: any string of the set `Keys` |
| `Count`, `Times`, `Buckets` | the loop counts and capacities of the source, and the constants that scale them down |

The five table types of the suite (`hashmap` and `phashmap` over three
allocators) are one table here: they differ in the engine, which is not
modelled. A loop over the `std::map` visits its keys in one fixed order; a
loop over the table visits them in any order.

## 4. What is not modelled

* `test_get_value.cpp` only prints the outcome of accessors of the
  `comcfg::Configure` classes, which are not under `src/`.
* `HelpMessageCli`, `http_errorstring`: text only.
* The typedefs and `rebind` of the allocators, and `Lsc_cpsalloc::max_size()`:
  they hold no state, and `allocate` of that class never reads `max_size()`
  (it refuses every request for more than one element).
* The contents of strings, HTTP headers, credentials, JSON formatting.
  `errMsg` travels with `errCode` and is not a variable of its own.
* `-rpcconnect`, `-rpcuser`, `-rpcpassword`, the cookie file and
  `-rpcclienttimeout`: they decide which of the modelled outcomes of
  `CallRPC` happens, not what the code does with it.
* Two threads inside the entry points at once: the callers are not in the
  repository. The model has one calling thread.
* The effect of the missing `"memory"` clobber of the asm statements on the
  code around a primitive (no caller is in the repository).
* The engine of the hash tables (buckets, hashing, chains, the calls it
  makes to its allocator) and the byte encoding of the archive: their source
  is not in the repository and the design text leaves them to the
  implementation. `HashMap` and `BinArchive` are the contract only. That
  repeated `create` and `destroy` leak no slot of the allocator is therefore
  not checked.
* `NsheadSvrEvent.h`: it defines a constructor, `set_tag` and `if_post`, a
  setter and two guards. `set_server`, the server whose `is_running()` is
  read, the reactor that calls `if_post` and the callbacks are declared
  only. Whether `if_post` can run while `set_tag` or the stop of the server
  runs is decided by code that is not in the repository, and the design
  text excludes the session classes; a model would consist of assumptions.
* A reference count on the atomic primitives: the header names the use, no
  code of the repository implements it.
* `push_back` of `Lsc::deque` failing inside `Lsc_cpsalloc::allocate`, and
  the lifetime of a `mempool`: both are decided by classes that are not in
  the repository.

## 5. Runs

| Run | Module / cfg | Expect | Properties | Distinct states |
|---|---|---|---|---|
| `cpsalloc_safety` | `MCCpsAlloc` / `MCCpsAlloc.cfg` | pass | `TypeOK`, `SlotsPartitioned`, `StoreMatchesPeakDemand`, `ImplementsHandlePool`, `ReceivesOldestReturned` | 11 058 |
| `cpsalloc_wrap` | `MCCpsAlloc` / `MCCpsAllocWrap.cfg` | violation | `HandlesStayValid` | – |
| `poolalloc_safety` | `MCPoolAlloc` / `MCPoolAlloc.cfg` | pass | `TypeOK`, `BlocksReturnToTheirSource`, `RequestsUpToMaxSizeFit` | 111 204 |
| `poolalloc_wrap` | `MCPoolAlloc` / `MCPoolAllocWrap.cfg` | violation | `WritesStayInBlock` | – |
| `atomic` | `MCAtomic` / `MCAtomic.cfg` | pass | `TypeOK`, `ImplementsAtomicWord`, `ExchangeReturns` | 168 836 |
| `rpc_outcome` | `MCRpcClient` / `MCRpcClient.cfg` | pass | `TypeOK`, `ReturnTellsOutcome`, `GivesUpAfterOneMoreTry`, `UniformCallsFollowTheirRequest`, `Terminates` | 375 761 |
| `rpc_error_sign` | `MCRpcClient` / `MCRpcClientErrZero.cfg` | violation | `ErrorReturnsPositive` | – |
| `rpc_zero_return` | `MCRpcClient` / `MCRpcClientZero.cfg` | violation | `ZeroReturnMeansReply` | – |
| `rpc_errcode` | `MCRpcClient` / `MCRpcClientErrCode.cfg` | violation | `ErrorCodeReachesResponse` | – |
| `rpc_config` | `MCRpcClient` / `MCRpcClientConfig.cfg` | violation | `CallFollowsItsRequest` | – |
| `hashkey` | `HashKey` / `MCHashKey.cfg` | pass | `TypeOK`, `HashOfSuffix`, `ShortKeysDoNotCollide` | 33 830 |
| `hashmap_tests` | `MCHashMapTest` / `MCHashMapTest.cfg` | pass | `TypeOK`, `TestsPass`, `ReferenceMatchesTable` | 9 128 |

Run any of them with `tlc -workers 2 -config <cfg> <module>`.

### 5.1 What the passing runs show

* **`cpsalloc_safety`.** For two allocators and every sequence of the ten
  operations (stores of up to 3 slots): the slots are at all times
  partitioned between the caller and `_free`, with no handle listed twice;
  the store is exactly as long as the peak demand, so recycling always comes
  before growth; and the allocator behaves as the abstract pool. The free
  list is a queue (`ReceivesOldestReturned`, stated over the caller's own
  record of what it gave back): `deallocate` appends, `allocate`
  takes the handle that has been free longest, so a slot is reused as late
  as possible. The design text calls the free list a stack; the code and
  the text disagree (`Lsc_cpsalloc.h:85`).
* **`poolalloc_safety`.** For three allocator objects (two of one element
  type, one rebound to another), one pool and the heap: whatever object a
  block is freed through, within the protocol, the free reaches the source
  that issued the block with the size that was issued; an exhausted pool
  throws and leaves nothing behind; a request of at most `max_size()`
  elements gets all its bytes, so `max_size()` is exactly the limit that
  `allocate` fails to enforce (`poolalloc_wrap`).
* **`atomic`.** Every interleaving of two threads performing three
  operations each is an execution of the atomic word: each operation takes
  effect at one instant and returns what the contract says, at the
  wrap-around included. An exchange that was started returns.
* **`rpc_outcome`.** Every call returns, and the return value fits the way
  the call ended, with one exception that is the subject of
  `rpc_zero_return`: set-up failures, exceptions and an interrupted sleep
  give `EXIT_FAILURE`; an error object gives the magnitude of its code; a
  result gives 0 and is copied to the response by the two entry points that
  copy it (`commitsubchain` and `genbridgeownerinfo` drop the result).
  A call that meets only connection failures and warm-up replies gives
  up after exactly `max(3, maxTryTime) + 1` attempts, and no call makes
  more (`GivesUpAfterOneMoreTry`): the `do … while (maxTryTime-- > 0)`
  tests after the attempt and decrements after the test, so the entry
  points, which pass `10 /*maxTryTimes*/`, try 11 times.
  A process whose calls all carry the same `req.info` is sent to the port
  and uses the data directory that `req.info` names: the code is correct
  for the client it was taken from, which makes one call per process, and
  `rpc_config` shows what happens otherwise.
* **`hashkey`.** Over all keys of up to three chars, with a word of two
  chars: two keys with the same last `sizeof(size_t)` chars have the same
  hash, whatever precedes them, so long keys with a common ending share a
  bucket; and two different keys that fit in the word (and do not begin with
  a NUL) have different hashes, although chars of 0x80 and more are added as
  negative numbers and borrow from the chars before them.
* **`hashmap_tests`.** Against a table and an archive that keep the design
  text, every assertion of the seven tests holds for every draw of `randstr()`. The
  run shows what the tests rest on: `test_hashmap` must remember a string
  only when `set` returned `HASH_INSERT_SEC`, or its erase loop fails on a
  string drawn twice; the `std::map` must be written with `vec[key] = val`
  where the table is written with overwrite; `read` must create the stored
  capacity, because `test_hashmap_serialization` reads the entries of a
  large table into one created with 100 buckets and into one never created.
  `ReferenceMatchesTable` states the loop invariant of the tests and, at the
  statements after `ar.read`, is the round trip of the archive.

### 5.2 What the violations show

* **`cpsalloc_wrap`** (`Lsc_cpsalloc.h:90`). With a handle type of
  `HandleBits = 2` bits and a store of 4 slots the fourth `allocate` returns
  0: `_deque.size()` does not fit the handle type. In the code the width is
  32 and the store is sized by `size_t`.
* **`poolalloc_wrap`** (`Lsc_poolalloc.h:96`). With `size_t` of 3 bits and
  elements of 3 bytes, `allocate(3)` asks the source for `9 mod 8 = 1` byte
  and succeeds; constructing the first element writes past the block.
  `allocate` never consults `max_size()`.
* **`rpc_error_sign`** (`bitcoin-cliapi.cpp:256`). An error reply is
  reported as `nRet = abs(code)` with the code the server sent. With the
  codes 0 and `INT_MIN` among those a server may send, a reply that is an
  error returns 0, the value of success, or a negative value (`abs(INT_MIN)`
  is undefined; the negation wraps).
* **`rpc_zero_return`** (`bitcoin-cliapi.cpp:282`). If every attempt ends
  in `CConnectionFailed` the loop ends with `nRet` still 0: the entry point
  reports success although the server was never reached.
* **`rpc_errcode`** (`bitcoin-cliapi.cpp:363`). `retErrCode` is set from
  `errCode` before `runCommand` fills `errCode`: it is always 0.
* **`rpc_config`** (`bitcoin-cliapi.cpp:200`, `:209`). `gArgs` is global,
  `SoftSetArg` and `ReadConfigFile` never replace a value, and nothing
  clears the table between calls. Trace: a call with `node.conf` reads
  `-rpcport=18555` into `gArgs` and ends in `CommandRPC` before anything is
  sent; the next call, with `test.conf`, which names no port, is sent to
  18555 and not to the port of the test chain. In the same way a `datadir`
  stays behind, also from a call that failed in `AppInitRPC`, and is the
  data directory of later calls that name another or none; and `-testnet`
  from one file with `-regtest` from another makes every later call fail.

### 5.3 Faulty variants

Every property of a passing run is paired in `PROJECT.json` with a faulty
variant of a definition of the model (defined next to it and named
`<definition>_<Fault>`); with the variant in place of the definition TLC
finds the property violated. They document which part of the code a property
depends on, e.g. `ExchangeCas_NoReload` (a failing `cmpxchg` that leaves the
accumulator alone) breaks `ExchangeReturns`, `Equal_Always` (allocators that
always compare equal) breaks `BlocksReturnToTheirSource`, `Remembered_Any`
(a test that remembers every string it set) breaks `TestsPass`.

### 5.4 Bounds

| Constant | Value | Why it is enough |
|---|---|---|
| `CpsAlloc!MaxSlots` | 3 (4 in `cpsalloc_wrap`) | three slots give a free list of two or more entries, so queue and stack order differ, and recycling interleaves with growth; `allocate` refuses beyond it |
| `CpsAlloc!HandleBits` | 3 (2 in `cpsalloc_wrap`) | stands for 32; in the passing run the store cannot reach `2^HandleBits`, in `cpsalloc_wrap` it can |
| `CpsAlloc!Allocs` | 2 (1 in the violation runs) | `swap` and copy need two objects |
| `PoolAlloc!SizeBits` | 3 | stands for 64; with element sizes 3 and 4 and `MaxN = 3` the product both fits and wraps |
| `PoolAlloc!MaxN` | 3 | see above |
| `PoolAlloc!BlockIds` | 2 | two blocks outstanding at once: one per source, or two in one |
| `PoolAlloc!Capacity` | 6 bytes per source | a pool holds one block of 6 bytes or two smaller ones, so exhaustion happens |
| `Atomic!WordBits` | 2 | a word of 4 values wraps within `MaxOps` steps |
| `Atomic!Operands` | {1, 3} | 1 and -1 modulo 4: both directions of `add`, two distinct values to exchange and compare |
| `Atomic!MaxOps` | 3 | the other thread can change the word between the load and the `cmpxchg`, and again before the retry |
| `Atomic!Threads` | 2 | one thread in the exchange loop, one interfering |
| `RpcClient!MaxTryTimes` | 4 | stands for the 10 of the entry points; above the floor of 3, so `max` takes it |
| `RpcClient!ErrCodes` | {-28, -5}; {-28, 0, `INT_MIN`} in `rpc_error_sign` | `RPC_IN_WARMUP` and one other code; the two codes at which `abs` is not positive |
| `RpcClient!Statuses` | {200, 401, 403, 500} | one of each class `CallRPC` distinguishes |
| `RpcClient!ConfFile` | `test.conf` (`-testnet`) and `old.conf` (`-regtest`, `-rpcssl`) in `rpc_outcome`; `node.conf` (`-rpcport`) and `test.conf` in `rpc_config` | the first pair reaches every return of `AppInitRPC`, the invalid combination of chains included; the second pair names two different ports. Three files at once exceed a million states |
| `RpcClient!DataDirs` | {"", "data"} | a request without a data directory and one with |
| `RpcClient!RPCPort`, `atoi` | 8332, 18332, 18443; "18555" ↦ 18555 | the default ports of the three chains, and the one port a file names |
| `HashKey!CharBits`, `WordBits` | 2, 4 | stand for 8 and 64: a word of two chars, chars from -2 to 1, so that shifting out and sign extension both happen |
| `HashKey!MaxLen` | 3 | one char more than the word holds |
| `HashMapTest!Keys` | 2 strings | a draw can repeat a string or not; the vector of `test_hashmap` has up to two entries, so `vec[i]` and `vec[n - i - 1]` differ |
| `HashMapTest!Times` | 2 for a loop of up to 100 turns, 3 for a longer one | a fill loop draws a string again after it has drawn both |
| `HashMapTest!Buckets` | 0 for 0, 1 for a capacity of up to 100, 3 for a larger one | as in the source, the tables that are filled have more buckets than there are strings, and the table created with 100 buckets has fewer buckets than the archive has entries |
| `HashMap!MaxBuckets` | 6 | above every capacity the tests ask for (`vmap.size() * 2` is at most 4) |
| `RpcClient!MaxCounted` | `max(3, MaxTryTimes) + 2` | the history counter `attempts` saturates one past the most tries the loop makes |

`MCPoolAlloc.cfg` declares the two allocators of equal element type
symmetric; nothing else distinguishes them.

### 5.5 Fairness and deadlock

* `Atomic`: weak fairness of every thread's steps. A thread inside the
  exchange loop is running machine code; the scheduler and the bus lock
  give it its next instruction. Nothing stronger is assumed: the loop is
  lock-free, not wait-free, and `ExchangeReturns` holds because each thread
  performs a bounded number of operations (`MaxOps`), so interference ends.
  When all threads are done the system stops; `CHECK_DEADLOCK FALSE`.
* `RpcClient`: weak fairness of the steps of a call that is under way
  (`Run`), not of the caller making calls. `event_base_dispatch` returns
  because the connection has a timeout (`-rpcclienttimeout`, set at
  `bitcoin-cliapi.cpp:119`, non-zero by default); `MilliSleep` returns.
  With `-rpcclienttimeout=0` the timeout is off, a server that never
  answers holds the call for ever, and `Terminates` is not claimed.
* `HashMapTest`: safety only. The loops of the tests are counted loops and
  iterations of a sequential program over a table whose iterator is not in
  the repository; that they end is not a property of the model. Deadlock
  is checked: after a test returns another can start.
* `HashKey`: safety only; a call can always be made.
* `CpsAlloc`, `PoolAlloc`: safety only, no fairness. Deadlock is checked:
  some constructor or operation is always possible.
