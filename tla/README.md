# TLA+ models of the BusTub buffer pool

These modules model the buffer pool under `src/src/`:

- the LRU-K replacer (`buffer/lru_k_replacer.cpp`);
- the buffer pool manager and its frame headers (`buffer/buffer_pool_manager.cpp`);
- the read and write page guards (`storage/page/page_guard.cpp`);
- the two HyperLogLog estimators of the primer (`primer/hyperloglog.cpp`, `primer/hyperloglog_presto.cpp`). The specification puts them out of its scope; they are modelled as pure algorithms, on their own.

They are checked with TLC. `PROJECT.json` lists the components, runs, mutants, the map from each definition to its source lines, the findings, and the hazards.

## 1. The system and its parts

| Part | State it keeps | Operations | Concurrency |
|---|---|---|---|
| LRU-K replacer | `node_store_` (per frame: history of at most K timestamps, `is_evictable_`), `cold_frames_`, `hot_frames_`, `current_timestamp_`, `curr_size_` | `Evict`, `RecordAccess`, `SetEvictable`, `Remove`, `Size` | every method holds `latch_` for its whole body |
| Frame header | `data_`, `pin_count_` (atomic), `is_dirty_`, `rwlatch_` | `Reset`, `Pin`, `Unpin`, `GetDataMut` | the frame's data is protected by `rwlatch_` |
| Buffer pool manager | `page_table_`, `free_frames_`, `frames_`, `next_page_id_` | constructor, `NewPage`, `DeletePage`, `CheckedReadPage`/`CheckedWritePage` (hit, free frame, evict, out of memory), `FlushPage`/`FlushPageUnsafe`, `FlushAllPages`/`FlushAllPagesUnsafe`, `GetPinCount`, `FindPage` | everything runs under `bpm_latch_`, except the `FlushAllPages` loops |
| Page guards | `page_id_`, `frame_`, `is_valid_` | constructor (takes `rwlatch_`, then `RecordAccess`), `GetDataMut`, `Flush`, `Drop` (releases `rwlatch_`, then unpins under `bpm_latch_`), move constructor and move assignment | see the interactions below |
| Disk scheduler and disk manager | page slots on disk | read, write, `DeallocatePage` | the BPM blocks on `future.get()` |
| HyperLogLog | `bucket_` (one rank per bucket), `n_bits_`, `valid_`, `cardinality_` | constructor, `AddElem`, `ComputeCardinality` | `ComputeCardinality` takes `mtx_`; `AddElem` takes nothing |
| HyperLogLogPresto | `dense_bucket_` (4-bit parts), `overflow_bucket_` (map of the high parts), `n_leading_bits_`, `valid_`, `cardinality_` | constructor, `AddElem`, `ComputeCardinality` | as above |

### How the parts interact

A fetch, under `bpm_latch_`, does the following:

1. It finds or makes the page's frame. This may evict a victim chosen by the replacer and write it back if it is dirty.
2. It pins the frame and calls `SetEvictable(false)`.
3. It releases `bpm_latch_` and constructs a guard. The guard blocks on `rwlatch_`, then calls `RecordAccess`.

Drop releases `rwlatch_` first. It then takes `bpm_latch_`, unpins, and makes the frame evictable if the pin count reaches 0.

`FlushPage` holds `bpm_latch_` but not `rwlatch_` across its disk write.

`NewPage` maps a fresh page id to a frame. It neither pins the frame nor tells the replacer about it, because those calls are commented out at lines 173-176.

`DeletePage` frees an unpinned frame without calling `replacer_->Remove`.

### Hard behaviours

- The windows between the fetch and the guard's latch, and between Drop's unlatch and its unpin.
- Writers storing through the `GetDataMut` pointer while a flush clears `is_dirty_`.
- The replacer's two lists staying in step with the histories.
- `curr_size_` being maintained incrementally.
- Out-of-memory paths.
- Frames that are tracked by the replacer while they sit on the free list.

### Properties that make the system correct

- A frame is free xor mapped.
- A pinned page stays in its frame.
- The pin count equals the number of guards holding the frame, and each rwlatch is held by exactly the live guards on it.
- The replacer's evictable flag agrees with the pin count.
- A deleted page reads as zeros.
- The pool behaves as an abstract page store.
- No write is lost.
- Evict picks the LRU-K victim.
- `Size()` is the number of evictable frames.
- Out of memory is reported only when every frame is pinned.
- Every guard that is waiting becomes valid.

## 2. Modules

### `LRUKReplacer.tla`

Each method is one action, because each holds `latch_`.

- **State:** `nodeStore` plus the per-frame functions `history` and `isEvictable`, and `coldFrames`/`hotFrames` as sequences.
- **`Evict`:**
  - `ColdVictim` is the first evictable frame in the cold list (`SelectInSeq`).
  - `HotVictim` is a `FoldLeft` over the hot list that keeps `<<mx, max_fid>>` with a strict `>`, starting from `<<0, -1>>`.
- **`RecordAccess`** appends, moves the frame to the hot list when the history size equals K, then pops.
- **`SetEvictable`** moves `curr_size_` only when the flag changes.
- **`ReplacerRemove`** is `Remove`, renamed because SequencesExt owns `Remove`. Its precondition is the `BUSTUB_ENSURE` check.

The actions take parameters so that the BPM can conjoin them into its own steps.

### `LRUKSpec.tla`

The abstract replacer, taken from the doc comments. It has:

- last-K histories and evictable flags;
- no lists and no size counter;
- a `Victim` defined directly: the evictable frame with infinite backward k-distance and the oldest first access if there is one, otherwise the one with the largest k-distance.

### `MCLRUKReplacer.tla`

Drives the replacer with every call on every frame. It instantiates `LRUKSpec` with the identity mapping, restricted to the variables the spec shares, and checks `Abs!Spec` as a property, which is the refinement check.

### `BufferPoolManager.tla`

The BPM with its frames and guards, clients running as threads, and the replacer composed in as `R == INSTANCE LRUKReplacer`.

- **State:**
  - the BPM variables, named after the code's fields;
  - `readers`/`writer` per frame, for `rwlatch_`;
  - per thread: `pc` (`"idle"`, inside FlushPage's write, in FlushAllPages' loop, or in the write of a FlushPage that loop called), `flushFrame`, and the loop's `allLeft` and `allTable`;
  - per guard object (`Guards` is a pool of model values): `gOwner`, `gPhase`, `gPage`, `gFrame`, `gMode`, `gMut` (whether `GetDataMut` handed out a pointer) and `gMoveFrom` (the guard `operator=` moves in once its Drop is done);
  - `bpmLatch`, the holder of `bpm_latch_` across FlushPage's blocking write;
  - `opsLeft`, the bound on BPM calls and guard moves.
- **One step per critical section.** A BPM method that runs entirely under `bpm_latch_` is one step, disk I/O included, because it blocks under the latch.
- **Steps split where the code lets other threads in:**
  - guard construction: `LatchShared`/`LatchExclusive`, then `RecordGuardAccess`;
  - Drop: `DropRelease`, then `DropUnpin`;
  - move assignment: `MoveAssign` (the target's Drop releases its latch), then `DropUnpin`, which unpins the target and moves the source's fields in (`MoveFields`); the thread is blocked in between;
  - FlushPage: `FlushPageWrite`, then `FlushPageDone`.
- **Guard phases.** `"free"` is an unused or moved-from (invalid) guard; `"latch"` waits for `rwlatch_`; `"record"` holds it and has `RecordAccess` pending; `"held"` is valid; `"unpin"` has released `rwlatch_` and waits for `bpm_latch_`.
- **Fetch cases.** `CheckedReadPage`/`CheckedWritePage` are the disjunction of their four cases, `FetchResident`, `FetchFree`, `FetchEvict`, `FetchOutOfMemory`, each with the guard mode as a parameter because the two functions share their code.
- **FlushPage and FlushPageUnsafe.** Both are `FlushPageClean` or `FlushPageWrite` (then `FlushPageDone`): the two functions have the same body, `bpm_latch_` included.
- **FlushAllPages and FlushAllPagesUnsafe.** `FlushAllStart` reads `page_table_` without `bpm_latch_` and records the keys to visit (`allLeft`) and the table it began on (`allTable`). Each iteration is a FlushPage (`FlushAllVisitClean`, or `FlushAllVisitWrite` then `FlushPageDone`), and `FlushAllEnd` is the iterator reaching `end()`. Once another thread has changed the table (`Raced`), the race is undefined behaviour: the iterator may yield any key or stop at once.
- **NewPage and DeletePage.** `NewPage` is `NewPageFree`/`NewPageEvict`/`NewPageInvalid`, all sharing `NewPageInto`. `DeletePage` is `DeletePageAbsent` (returns true without `DeallocatePage`), `DeletePagePinned` and `DeletePageFree`.
- **Data abstraction:**
  - page bytes are one value: `Zero` or a member of `Values`;
  - `latest` is a history variable holding the last value stored into each page, and `deleted` the pages deleted and not written since;
  - `DeallocatePage` zeroes the disk slot. It is modelled from the spec because the disk scheduler is not under `src/`.
- **Clients:**
  - they fetch page ids that `NewPage` has handed out, or any id when `FetchAhead` is TRUE; they delete pages that are not in memory only when `DeleteAbsent` is TRUE;
  - a thread holds several guards and fetches only ids above those of the guards it holds, the lock order a client needs to avoid deadlocking on `rwlatch_` (`std::shared_mutex` is not reentrant);
  - after a guard `Flush` a writer calls `GetDataMut` again before storing, unless `PointerOutlivesFlush` is TRUE.
- **Refinement.** `Abstract == INSTANCE PageStore WITH ...` maps the pool to the abstract page store: a page's value is its image (its frame if resident, else its disk slot), its exclusive holder is the owner of a latched write guard on it, its shared holders the owners of latched read guards. `ImplementsPageStore` is `Abstract!Spec`.

### `PageStore.tla`

What the pool promises, from the doc comments of `CheckedReadPage`, `CheckedWritePage`, `Drop`, `DeletePage` and `NewPage`, with frames, eviction, pins and the disk abstracted away. A page is a value; clients hold pages shared or exclusively; only the exclusive holder writes; `Delete` of an unheld page makes it read as zeros; `NewPage` hands out the next id.

### `HyperLogLog.tla` and `HyperLogLogPresto.tla`

Each estimator is a state machine. The constructor is `Init`, with the argument taken from `NBits`; a negative one gives `valid_ = false`, and every later call returns early. `AddElem(h)` takes the hash `h` of the added key; `CalculateHash` is not looked inside, so every hash of the word is tried.

- **The width.** The 64-bit hash word is scaled to `W` bits, and every width-dependent expression uses `W`: the scan bounds, `hash >> (64 - n)` and `1ULL << bucket_[i]`. So the edge where a shift count equals the width is kept. A shift by the full width is undefined in C++. It is modelled as x86-64 and AArch64 execute it: the count is taken modulo the width.
- **The loops.** The bit loops are RECURSIVE operators, one step per iteration:
  - `ScanDown` and `TopBits` for `PositionOfLeftmostOne` and `GetBucketValue`;
  - `TrailingZeros` for the Presto rank.
- **The Presto register.** In the Presto variant, `DenseBits` and `OverflowBits` stand for `DENSE_BUCKET_SIZE` and `OVERFLOW_BUCKET_SIZE`, and also for the literal `4` and `0x0F` of `AddElem`. The run uses 2 and 1, so ranks of 4 and more reach the overflow map. In the code, ranks of 16 and more do.
- **Out-of-range access.** A read of `dense_bucket_` past its end yields any register value. A write past its end does not reach the registers.
- **The estimate.** `ComputeCardinality` computes the double sum exactly, as an integer scaled by a power of two. `CONSTANT` is `AlphaNum / AlphaDen`, and the result is truncated, as the conversion to `cardinality_` does.
- **The reference.** The variable `rank` is history: the buckets a textbook HyperLogLog would hold after the same hashes. The rank definitions used are `RefBucket` (the top bits) and `RefRank` (the leftmost-one position, or the number of trailing zeros). Both are written without the code's loops.

`MCHyperLogLog.tla` runs the two estimators side by side, and their calls interleave. In each initial state, one estimator is built with an argument from `MCNBits = {-1, 1, 2}` (a .cfg cannot write -1). The other is built with a negative argument and only returns early. This way the two classes' states add up rather than multiply.

`MCHyperLogLog.tla` defines the properties the run checks, over the instances `H` and `P`.

### `MCBufferPoolManager.tla`

Adds the thread, guard and value symmetry. Symmetry is not used in the liveness run or in the runs whose traces are read as findings.

## 3. Runs

All BPM runs use 2 threads, 3 guard objects, 2 frames, 3 page ids, K=2 and 2 values.

| Run | Config | Checks | Expect |
|---|---|---|---|
| replacer | `MCLRUKReplacer.cfg` (3 frames, K=2, up to 7 accesses) | `ReplacerTypeOK`, `VictimMatchesDefinition`, `SizeMatchesEvictable`, `ImplementsLRUKSpec` | pass |
| bpm_safety | `BPMSafety.cfg` (both threads also call FlushPage; 6 calls) | `TypeOK`, `FrameAccounting`, `PinsMatchGuards`, `GuardedPageResident`, `LatchesMatchGuards`, `EvictableIffUnpinned` | pass |
| bpm_no_lost_update | `BPMNoLostUpdate.cfg` (no FlushPage callers, 7 calls) | `NoLostUpdate`, `ModifiedImpliesDirty` | pass |
| bpm_liveness | `BPMLiveness.cfg` (4 calls, no symmetry) | `GuardEventuallyValid` | pass |
| bpm_refinement | `BPMRefinement.cfg` (no FlushPage callers, no deletes of non-resident pages, 6 calls) | `ImplementsPageStore` | pass |
| bpm_flushpage_race | `BPMFlushPageRace.cfg` (t1 calls FlushPage, 7 calls) | `NoLostUpdate` | violation |
| bpm_spurious_oom | `BPMSpuriousOOM.cfg` (4 calls) | `OutOfMemoryOnlyWhenAllPinned` | violation |
| bpm_fetch_ahead | `BPMFetchAhead.cfg` (`FetchAhead`, 4 calls) | `FrameAccounting` | violation |
| bpm_delete_absent | `BPMDeleteAbsent.cfg` (7 calls) | `DeletedPageReadsZero` | violation |
| bpm_flushall_race | `BPMFlushAllRace.cfg` (t1 calls the flushes, 4 calls) | `TableStableDuringFlushAll` | violation |
| bpm_stale_pointer | `BPMStalePointer.cfg` (`PointerOutlivesFlush`, 4 calls) | `ModifiedImpliesDirty` | violation |
| hll_safety | `HLLSafety.cfg` (`MCHyperLogLog`: W=6, arguments -1, 1 and 2, 2 dense and 1 overflow bit) | `HLLTypeOK`, `PrestoTypeOK`, `BucketsMatchReference`, `RegistersMatchReference`, `HLLEstimateMonotone` | pass |

### What the runs show

- **replacer.** The list-based `Evict` always agrees with the definitional LRU-K victim. The replacer implements `LRUKSpec`.
- **bpm_safety.** The fetch/guard/drop windows never let a pinned page leave its frame. Pin counts stay exact and every `rwlatch_` is held by exactly the live guards on its frame, across move construction and move assignment. The replacer's evictable flag follows the pin count of every mapped frame it tracks. The free list and the page table partition the frames, so `FindPage(...).value()` in the eviction path cannot throw.
- **bpm_no_lost_update.** Evictions, guard flushes and deletions never lose a write when no one calls `FlushPage`, and a resident frame that differs from its disk slot is always dirty.
- **bpm_liveness.** A guard blocked in its constructor always gets its latch, with threads holding several guards.
- **bpm_refinement.** Seen through page images and latched guards, the pool is the abstract page store: no eviction, write-back, read-in, NewPage or guard move changes what a page reads as, and readers and writers exclude each other page by page.
- **bpm_flushpage_race (finding).** The trace has three phases:
  1. Setup: NewPage ×2, DeletePage, NewPage.
  2. Thread t2 fetches for write and calls GetDataMut. Thread t1 then runs FlushPage: it writes the frame and clears `is_dirty_`. Thread t2 stores and drops its guard.
  3. A fetch evicts the frame clean, and the store is lost.

  The doc comment of `FlushPage` asks for a lock on the page.
- **bpm_spurious_oom (finding).** After two `NewPage` calls on a two-frame pool, a third returns `INVALID_PAGE_ID` with no frame pinned, because `NewPage` never hands its frame to the replacer. The specification reports OutOfMemory only when every frame is pinned.
- **bpm_fetch_ahead (finding).** A fetch of page 0 before any `NewPage` maps it to frame 0. `NewPage` then returns 0, takes frame 1 and overwrites `page_table_[0]` (line 164), so frame 0 is neither free nor mapped. The specification's first invariant says every frame is one or the other.
- **bpm_delete_absent (finding).** Page 0 is written, dropped, and evicted to disk by a `NewPage`. `DeletePage(0)` finds it absent and returns true without `DeallocatePage` (lines 204-205), so page 0 still reads its old contents. The doc comment says DeletePage removes the page on disk too.
- **bpm_flushall_race (finding).** t1 enters `FlushAllPages`, whose range-for over `page_table_` holds no `bpm_latch_` between entries. t2's `NewPage` then inserts into the map being iterated (line 647; `FlushAllPagesUnsafe` at line 629 is the same). The specification has the BPM mutex guard every access to the page table. An insert can rehash and invalidate the iterator, and an erase can free the node it points to.
- **bpm_stale_pointer (finding).** A writer calls `GetDataMut`, flushes its guard (`is_dirty_` cleared, line 343), and stores through the pointer it already holds: the frame is modified and clean. Invariant 6 of the specification says modified data implies a dirty flag, but dirty-on-borrow cannot track a pointer that outlives a flush.

- **hll_safety.** Take every sequence of added hashes. Every register of either estimator holds the reference rank of the hashes it selects. For HyperLogLog, this checks the scan bounds, the bit order of the bucket index and the max. For Presto, it also checks how a rank is split into its dense and overflow parts, and that the comparison uses the register put back together. HyperLogLog's estimate never falls between two `ComputeCardinality` calls, which checks the shift `1ULL << bucket_[i]` (line 104). For Presto the same statement follows from its registers matching the reference, so it is not checked separately.
- **Argument 0 (no run).** The constructors accept `n_bits = 0` and `n_leading_bits = 0`, and both estimators then shift by the full word width. Changing `MCNBits` to `{0}` makes both properties fail; these are the two shift-width hazards in `PROJECT.json`, which no run catches:
  - `HLLEstimateMonotone` fails in HyperLogLog. A hash whose bits are all zero but possibly the last gets a rank equal to the width. Then `1ULL << 64` (line 104) wraps to 1, the bucket's term is 1.0 instead of 2^-64, and a later estimate is 0.
  - `RegistersMatchReference` fails in Presto. `hash >> 64` (line 38) wraps to the hash itself. That index is past the one-entry `dense_bucket_`, so the element never reaches register 0, and memory past the vector is read and written.

  The project keeps its run slots for the buffer pool, so these two violations are not runs.

### Why the bounds are enough

- Two frames and three pages force eviction by the third page.
- Two threads are enough for every two-party window: fetch against evict, writer against flush, reader against writer. Three guard objects let one thread hold two guards (for a move assignment) while the other holds one.
- Six or seven calls reach eviction of a dirty page written by another thread, and a move assignment between two guards of one thread.
- For the estimators, a 6-bit word with 2 or 4 buckets gives every rank from 0 to the word width minus n, and every hash is tried in every state. In the Presto run, 2 dense bits put ranks 4 and 5 in the overflow map. `n = 0` is where the width edge lies, and it breaks the properties (see above).
- For the replacer, three frames with K=2 and seven accesses reach frames in both lists, re-accessed hot frames, and evictions and removals from either list.

### Fairness

- Weak fairness is assumed only for steps a guard or thread takes on its own once started:
  - acquiring an rwlatch that stays free;
  - `RecordAccess` in the constructor;
  - both halves of Drop (guards are scoped, so every guard is dropped);
  - the completion of a FlushPage write.
  - the next iteration of a `FlushAllPages` loop, and its end. A range-for over a map nobody changes is finite. A raced iterator is assumed to end too; it could also loop or crash, and the model leaves those outcomes out. The assumption matters because a thread inside the loop cannot drop the guards it holds.
- Starting a new call or a move is never forced. Moves spend calls, so a client cannot pass a guard back and forth forever.

## 4. Plan

1. Done: the replacer and its refinement; BPM safety with guard objects and moves; lost updates; liveness; the refinement of `PageStore`; `FlushAllPages`' unlatched loop; the six divergences; both HyperLogLog estimators against a reference, with the two shift-width findings.
2. Next:
   - `EagerReadLimit` below the page bound, for the `<= 16` read in `NewPage`.

## 5. Not modelled

- **Concurrent `AddElem` calls.** `ComputeCardinality` takes `mtx_` but `AddElem` does not. Nothing says the estimators are shared between threads, so `AddElem` runs atomically in the models.
- **`CalculateHash` and the header constants.** The hash function is abstracted to any hash. The header with `BITSET_CAPACITY`, `CONSTANT` and the bucket sizes is not in this repository; they are constants of the models.
- **`n_bits` of 31 and more.** `1 << n_bits` overflows an `int`, and Presto's `uint16_t bucket_num` truncates above 16 bits. Both are far beyond a model's bucket count.
- **The log manager.** Never called.
- **`GetPinCount`, `Size`, `IsDirty`, `GetData`, `GetPageId`.** Read-only.
- **`WritePage`/`ReadPage`.** They wrap the checked fetches and abort the process on `std::nullopt`.
- **`AcquireRWLock`.** Never called.
- **A crash inside a raced `FlushAllPages` iteration.** The model lets a raced iterator yield any key or stop; a process crash ends every behaviour and leaves nothing the model checks.
- **A race undone before the iterator looks.** `Raced` compares the table with the one the iteration began on, so a change that is reverted before the next iteration (insert, then erase) is not treated as a race. This only removes behaviours.
- **Byte-level page contents.** Abstracted to one value per page.
- **Disk failures.** The code ignores the future's result.
- **Starvation of writers by an unbounded stream of readers.** The model bounds the number of calls.
