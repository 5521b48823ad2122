# A TLA+ model of buffer_ring

buffer_ring is a Rust crate: a fixed ring of aligned memory buffers that many
threads fill without a lock, and that are written to a file through io_uring
when they are full. This directory holds a TLA+ model of it, TLC
configurations that check the model on small instances, and TLAPS proofs of all
its safety properties for every size.

Paths such as `ring.rs` mean `src/src/ring.rs`; examples are under
`src/examples/`.

## 1. Inventory

| Part | State | Operations | Used by |
|---|---|---|---|
| **State word** (`lib.rs`, `state.rs`) | one `AtomicUsize`: offset (bits 63..32), writers (31..8), flush-in-progress (1), sealed (0) | `state_offset`, `state_writers`, `state_sealed`, `state_flush_in_progress`, whole-word add, sub, or, and | FlushBuffer, put |
| **FlushBuffer** (`flush_buffer.rs`) | the word, `local_address` (file position), `sqe` (stored submission entry), the block of memory, `pos` | `reserve_space`, `write`, `increment/decrement_writers`, `set/clear_flush_in_progress`, `seal`, `is_sealed`, `un_sealed`, `increment_offset`, `reset_offset`, `set_address` | ring, clients |
| **BufferRing** (`ring.rs`) | `current_buffer`, `next_index`, `next_address_range`, the buffers, the options, a completion channel | `put`, `rotate_after_seal`, `flush`, `reset_buffer`, `check_cque`, `flush_current`, `f_sync`, `incrment_address` | clients |
| **QuikIO / BackingStore** (`quik_io.rs`) | an io_uring behind a mutex, the file | `submit_buffer`, `cqe`, `sync_data`, `wait_for_all`, `retry_sqe`, `read` | ring, clients |
| **io_uring, kernel** (external) | submission queue, started writes, completion queue, the file | take, complete, fail | QuikIO |
| **Logger** (`examples/log.rs`) | per thread: the message it is logging | `log_message`; `main` joins, calls `flush_current`, polls, reads back | |
| **RingWriter** (`examples/model.rs`) | slots with a state, a file position and a length; `head`, `cursor`, `pending`, an io_uring per writer; `file_offset` shared by the writers | `append`, `flush`, `finish` | |
| **O_DIRECT example** (`examples/o_direct.rs`) | none of its own | one write, one read through QuikIO | |

How they interact. A client loads `current_buffer`, calls `reserve_space`, and
hands the result to `put`. On `Ok(offset)` put copies the payload, gives the
reservation back with `decrement_writers`, and if it was the last writer of a
sealed buffer, tries to become its flusher. On `InsufficientSpace` put seals
the buffer, claims a file position, rotates `current_buffer`, and tries to
become the flusher if nobody is writing. Whoever sees the flush bit go from 0
to 1 owns the flush: it submits the buffer to io_uring, or resets it when there
is no store or automatic flushing is off. From there the flush is owned by the
request, then by its completion, then by the thread whose `check_cque` takes
the completion; that thread retries a failed write or reports the range on the
channel and resets the buffer.

What is hard here:

* no lock protects a buffer; the decision to reserve, to unseal, to flush is
  made on a word that was loaded earlier;
* the seal, the file position and the rotation are separate stores, and the
  last writer can act between any two of them;
* a buffer lives many times: a thread delayed in one life acts in the next;
* completions come in any order, writes fail and are retried, the submission
  queue fills up, and errors of rotation and submission are dropped;
* fields share one integer, so a carry or a borrow moves between them;
* all callers of QuikIO share one completion queue, and `sync_data`, `read` and
  `wait_for_all` take from it what belongs to others; two of them block with
  the mutex held;
* the writers of `model.rs` take file positions from one counter, and each
  blocks for a number of completions it has counted itself.

What makes each part correct:

* **word**: each update changes its own field only, and comparing two words is
  comparing their fields;
* **FlushBuffer**: granted regions are disjoint and inside the block; nothing is
  written twice; a count of zero means that everything reserved was copied;
  a buffer is reopened only when idle;
* **BufferRing**: one flush per buffer at a time; no reservation during a
  flush; acknowledged data stays in memory or reaches the file; two writes
  never overlap in the file; a reported range can be read back; calls return;
* **QuikIO**: a call gets its own completion; a sync covers what it says; a
  blocked caller is woken;
* **shutdown**: after `flush_current` and the last poll the reported ranges hold
  every message;
* **RingWriter**: ranges lie apart and leave no gap; memory in flight is not
  written; `finish` returns, and its ranges hold the stream in order.

The hazards, each with its line, are listed in `PROJECT.json`.

## 2. Modules

| Module | Models |
|---|---|
| `StateWord` | the word as a record of fields, with carries and borrows between the writers and the offset field |
| `FlushBuffer` | one buffer and a set of threads that call any of its operations |
| `PackedFlushBuffer` | the same buffer with the word as one integer, shown to implement `FlushBuffer` |
| `BufferRing` | the ring, `put`, rotation, flush, reset, `check_cque`, the submission path of QuikIO, io_uring, and the logging client |
| `RingShutdown` | `BufferRing` with the end of `examples/log.rs`: join, `flush_current`, polls |
| `QuikIO` | threads that call `submit_buffer`, `check_cque`, `retry_sqe`, `sync_data`, `wait_for_all`, `f_sync` and `read` on one io_uring, in both write modes |
| `RangeLog` | abstract: ranges of a file are claimed without gaps, finished in any order, and reported when finished; with its theorem |
| `RingWriter` | the writers of `examples/model.rs`, shown to implement `RangeLog` |
| `MCFlushBuffer`, `MCBufferRing`, `MCRingShutdown`, `MCQuikIO` | option sets, arguments and symmetry sets for TLC |
| `FlushBufferProofs`, `PackedFlushBufferProofs`, `BufferRingProofs`, `QuikIOProofs`, `RingWriterProofs` | the theorems about the module of that name, section 5 |
| `BufferRingSoloProofs`, `RingShutdownProofs` | the theorems about a ring with one producer, and about its shutdown |

`StateWord` is extended by `FlushBuffer` and `BufferRing`. `PackedFlushBuffer`
instantiates `FlushBuffer` with `word <- Decode(word)`. `RingShutdown` extends
`BufferRing`. `RingWriter` instantiates `RangeLog`: a range is claimed while its
slot is in flight and ever after it is reported, and finished once its
completion is in the queue. In every module an
operator introduced by "Mutation:" is a deliberately wrong version of the
definition after it. It is not part of any specification; it serves to confirm
that a property notices the mistake.

### Steps

One step is one access to shared memory: an atomic operation on a state word,
`local_address`, `current_buffer`, `next_index` or `next_address_range`; one
payload copy; or one critical section of the io_uring mutex. `reserve_space`
and `un_sealed` are therefore two steps, `put` up to about twenty. A thread's
position is `pc[t]`, its locals are `loc[t]`.

| `pc` in `BufferRing` | Code |
|---|---|
| `load`, `reserve`, `cas` | `current_buffer`, the load and the compare_exchange of `reserve_space` |
| `copy`, `dec`, `claim` | put's `Ok` branch (`ring.rs` 270-294) |
| `seal`, `size`, `slot`, `store` | put's `InsufficientSpace` branch up to the address (228-238) |
| `rotate`, `rsize`, `scan`, `avail`, `swap`, `raddr`, `rcas` | `rotate_after_seal` and `__reserve_buf_addr` (372-403, 512-517) |
| `drain`, `claim` | the sealer's look for writers and its attempt to flush (245-263) |
| `flush`, `len`, `at`, `push` | `flush`, `FlushableBuffer`, `BackingStore::submit` |
| `reset`, `reset2` | the two stores of `reset_buffer` (432-433) |
| `poll`, `reap`, `retry`, `sendAt`, `sendLen` | `check_cque` (439-476) |

The ring's options are the variable `opt`, chosen at the start from `Options`
and never changed: `io_instance` (`HasStore`), `auto_flush`, `auto_rotate`, and
`cq_tx` (`HasReceiver`: somebody called `completion_receiver`). One run so covers
several configurations. `PollOnSealed` is a choice of the client: FALSE is
`log_message` of `examples/log.rs`, which retries at once when `reserve_space`
finds a sealed buffer; TRUE is a client that calls `check_cque` first. A client
may also poll between two messages.

`RingShutdown` adds `closed` and one action, `FlushCurrent`: after the join only
the kernel runs beside `main`, and it shares nothing with `flush_current` but the
io_uring, so the whole function is one step. Afterwards no message is started,
and polling goes on.

A step of `QuikIO` is one critical section of the mutex. `sync_data` and `read`
sleep in the kernel inside theirs; the labels `sync` and `read` are that sleep,
and `Unlocked` keeps everybody else out. The reset at the end of `f_sync` is a step
of its own that takes no lock: other threads run between it and the unlock.

| `pc` in `QuikIO` | Code |
|---|---|
| `poll`, `handle` | the loop of `check_cque`, one completion a step (`ring.rs` 444-475) |
| `sync` | `sync_data` in `submit_and_wait(1)` (`quik_io.rs` 379) |
| `drain`, `check` | the two critical sections of `wait_for_all` (387-392, 394-397) |
| `fsync` | `f_sync` between `wait_for_all` and `sync_data` (`ring.rs` 353-354) |
| `freset` | `f_sync` between the return of `sync_data`, which dropped the guard, and `reset_buffer` (`ring.rs` 354-355) |
| `read`, `copy` | `read` in `submit_and_wait(1)`, and after it dropped the guard (499, 506-519) |
| `dead` | `f_sync` has panicked on the error of `sync_data` (`ring.rs` 354) |

A `RingWriter` is used through `&mut self`; its step is what it does between two
accesses to `file_offset` or to its io_uring.

| `pc` in `RingWriter` | Code (`model.rs`) |
|---|---|
| `seal` | before `submit_slot` (228) |
| `advance` | the look at the next slot (234) |
| `drain` | `finish` after its seal (211) |
| `wait` | in `submit_and_wait` (212, 235), up to `reap_all` |
| `done`, `failed` | `finish` returned; an io_uring error ended the thread |

### Abstractions

* A payload is the pair (thread, message number) and a size; byte `j` of it is
  `<<message, j>>` in `mem` and on `disk`. Contents do not matter.
* `OffsetSpan`, `WriterSpan`, `FlagSpan` stand for 2^32, 2^24, 2^8; `Block` and
  `Page` for 1 MiB and 4 KiB.
* Atomics are sequentially consistent. The orderings of the code
  (Acquire/Release on most operations) are not weakened in the model.
* One payload copy is one step. Two copies that overlap are a violation of
  `ExclusiveRegions` and not a torn write.
* `next_index` is kept modulo the ring length. `usize` is 64 bits and the code
  only uses it modulo the length.
* Queues of io_uring are sets: the kernel takes and completes requests in any
  order, and `check_cque` handles the completions it took in any order. A
  request has a number, so that equal requests stay apart.
* A started write takes its data from the buffer's memory when it completes.
  That is the latest moment the kernel may read it, so a reuse of the memory
  during a write is visible.
* A failed write has no effect on the file. A short write is not modelled;
  `check_cque` treats any non-negative result as complete.
* The configured `buffer_size` equals `ONE_MEGABYTE_BLOCK`, which is the limit
  `reserve_space` checks.
* `Sizes` holds no payload larger than a block: `reserve_space` asserts this
  (`flush_buffer.rs` 79) and panics before it touches the word.
* `increment_offset` and `reset_offset` run with no other call under way. The
  first is documented for one thread only, the second for tests only; that it has
  the buffer to itself is the model's restriction.
* In `QuikIO` each buffer has one page of the file and its contents are the
  number of the call that filled it, so newer contents are larger. The word of
  the buffer is reduced to "busy". `flush` and `f_sync` set the flush bit without
  looking at it, so a busy buffer may be submitted once more, with the contents it
  has. The queues are sequences there, because
  `IO_DRAIN` and `IO_LINK` depend on the order of submission. Requests of a
  drained `fsync` wait on both sides; a link holds only between entries of one
  submission.
* `user_data` of `RingWriter`, slot index and length packed in 64 bits, is a pair:
  a length is at most 2^20 and never reaches the index.
* A read that completes after its call has returned writes to freed memory; the
  model lets it hit the window of the thread's next read or nothing. A slot of
  a failed `RingWriter` may hold its bytes or garbage when the kernel reads it.

## 3. Runs

`quik_io` and `ring_pair` take about two minutes each, the others less than one.

| Run | Instance | Question and answer |
|---|---|---|
| `flush_buffer` | 3 threads, block of 3 bytes, payloads of 1 and 2 | Any operations in any order. Regions are exclusive and inside the block, no byte is written twice, writers = 0 means all is copied, `un_sealed` reopens only an idle buffer. |
| `packed_word` | 3 threads, a writers field of one bit | The integer implements the fields, including the carry and borrow when more writers register than the field can count. The unused bits stay zero. |
| `ring_solo` | 1 producer and the shutdown, 2 buffers, 6 messages, every combination of store, rotation and receiver, a failed write, 2 failed submissions, queue of depth 1 | Data that was copied and acknowledged is kept, writes in flight are disjoint, every message gets through unless a submission failed, reported ranges are in the file, and after the shutdown they hold every copied message. |
| `ring_pair` | 2 producers, 2 buffers, 3 messages each, with and without a store, a failed write | A sealed buffer without writers always has a thread on its way to flush it, there is one flush per buffer at a time, and no reservation during it, in all interleavings of put, rotation and `check_cque`, the retry of the failed write included. |
| `quik_io` | 2 threads, 2 buffers, 3 calls, 2 faults, a queue of depth 1 with tail-localized writes and one of depth 2 with serialized ones | A `sync_data` or `read` that starts when nothing else is outstanding gets its own completion whatever the other thread calls meanwhile: the sync is durable, the read has the file's bytes. An `f_sync` that calls `sync_data` with nothing but its own write outstanding resets the buffer with that write over, as long as no request has failed. A thread asleep with the mutex is always woken. |
| `ring_writer` | 2 writers, 3 slots of 2 bytes, payloads of 1 and 2, 4 bytes in all, 1 fault, queue of depth 1 | Ranges tile the file; a slot in flight is untouched; `pending` is the number of slots in flight; `finish` returns and its ranges hold the writer's stream in order; the writers implement `RangeLog`. |
| `doc_acked`, `doc_exclusive`, `doc_disjoint`, `doc_retry`, `doc_sync`, `doc_reset` | see section 4 | Statements of the documentation that the code does not keep. |

Why the bounds are enough to be interesting. Two bytes per block with payloads
of one and two bytes make a block fill exactly, overflow, and be sealed with
room left. Two buffers are exhausted by one slow write. Three messages per
thread fill a buffer, seal it and go on in the next; six let a single producer
use each buffer more than once. A submission queue of depth 1 together with
two failed `io_uring_enter` calls leaves a request queued and then fills the
queue. A writers field of one bit overflows with two threads. Threads are
interchangeable and are declared symmetric where no liveness is checked. In
`quik_io` three calls are enough for a pending write, a second call that could
take its completion and a third that goes wrong; a queue of depth 1 is filled by
one failed enter, where no two entries can be linked and the write modes are the same,
and one of depth 2 by two; a page of two bytes and a read of four bytes from offset 1 make
the read start inside the first page, cover the second and end beyond the file. In `ring_writer` three slots are the least for which
`finish` waits for two writes at once, and four bytes, one to a slot, wrap around
the ring. Its queue of depth 1 is there to reach the branch of `submit_slot` for a
full queue; the example itself, with 4 slots and 256 entries, never does.

Deadlock is checked in every ring and buffer run: an idle client may always poll,
and `FlushBuffer` always allows a flag operation. `quik_io` and `ring_writer`
end when the calls of the bound are used up, so deadlock checking is off there;
`BlockedIsServed` and `CallsReturn` say what a deadlock would break.

Fairness (`ShutdownFairSpec` in `ring_solo`, `FairSpec` in `doc_retry` and in
`ring_writer`):

* weak fairness of `Step(t)` for each thread or writer: a thread inside a call is
  scheduled again. Starting a message, a poll, an append or a finish is not part
  of `Step`, so nothing forces a client to make a call;
* weak fairness of `KernelComplete`: the kernel completes what it has started.
  Failures are not fair and are bounded by `MaxIoFaults` or `MaxFaults`.

A request left in the submission queue by a failed `io_uring_enter` has no
fairness: only a later call submits it. `MessageReturns` therefore claims nothing
after such a failure.

## 4. Where code and documentation disagree

Each is a run that TLC ends with a violation. Its trace is a short schedule of
the model's steps.

* `doc_acked` (`ring.rs` 256). The put that seals and flushes a buffer returns
  `Ok(SuccessfullWriteFlush)`. Its own payload was never copied, because it is
  the one that did not fit. `lib.rs` 243 documents the value as "The payload was
  written and the buffer was dispatched for flushing", and `log_message` counts
  the message as logged.
* `doc_exclusive` (`ring.rs` 245). A sealer that is delayed between sealing and
  looking for writers can find the buffer in its next life, sealed or not,
  without writers. It claims the flush and resets the buffer while another
  thread has reserved in it; the next reservation gets the same bytes. `lib.rs`
  87-90 rests the `unsafe impl Sync` on "no two threads are ever granted the
  same region". The single buffer keeps this (`flush_buffer`, proved); the ring
  does not.
* `doc_disjoint` (`ring.rs` 228-238). The sealed bit is visible before
  `local_address` is stored. A last writer that decrements in between flushes
  to the old address. Two buffers then overlap if the sealer reads `size()` only
  after that flush was completed and the buffer reset, and so claims no bytes, as in
  the trace, or if a reset has put the old address back to 0. `ring.rs` 23-25 says
  that no two buffers ever map to the same region of the file.
* `doc_retry` (`ring.rs` 241). When no buffer is free, rotation fails, put drops
  the error and the sealed buffer stays current. A client that only retries,
  as `log_message` does on a sealed buffer, loops for ever, since only
  `check_cque` reopens a buffer. `ring.rs` 213-214 says "the ring has already
  rotated and the caller should retry on the new buffer".
* `doc_sync` (`quik_io.rs` 379). `submit_and_wait(1)` wakes up on any completion.
  With a write in flight `sync_data` returns when that write completes, and its
  fsync may not have run. `quik_io.rs` 358-360 says that all writes in flight are
  durable before it returns.
* `doc_reset` (`ring.rs` 355). `f_sync` resets its buffer after `sync_data` has
  dropped the mutex, and without looking at any completion. If its write failed,
  a `check_cque` of another thread that takes the failed completion pushes the
  stored entry again, and the reset comes with the write in the kernel. `ring.rs`
  345 says that `f_sync` "Blocks and waits untill all previously flush data has been
  persisten", and 419 that a reset "before I/O completion" risks data loss. The run is about
  an `f_sync` that found nothing else outstanding; with an earlier write in flight
  `sync_data` may return on that one's completion (`doc_sync`), and the buffer is
  reset during its own write with no second thread and no failure. Nor is the
  buffer still `f_sync`'s: a `check_cque` that handles a successful completion
  resets it first, and it may be filled and submitted anew before `f_sync` resets
  it once more. `QuietResetSafe` is what is left: without failed requests the
  write of this very call is over.

`AckedSurvives` and `DisjointRanges` are consequently checked as invariants for
a single producer, and proved for it. There they are not trivial: completions,
retries and reuse of buffers still interleave with the kernel.

Further disagreements seen in the model's behaviours, without a run of their own:

* With a store and `auto_flush` off, put resets the sealed buffer (`ring.rs` 254,
  290), so its data is gone before the user can flush it as `ring.rs` 61-62 asks.
  `AckedSurvives` fails on such a ring as soon as a buffer is full, with one producer
  and no fault, which is why it is checked and proved for automatic flushing only.
* `wait_for_all` ("Wait until all in-flight writes are completed",
  `quik_io.rs` 383) looks at the two queues only and returns while the kernel is
  still working. It also drops completions of other buffers, which `check_cque`
  then never resets, and it spins as long as an entry that a failed
  `io_uring_enter` left behind stays in the submission queue.
* `examples/o_direct.rs` 33-38 and the test at `quik_io.rs` 602-651 rely on it or
  on `sync_data`: if the write is still in flight, `read` takes the write's
  completion for its own, returns zeros, and the assertion can fail.
* `f_sync` (`ring.rs` 345) inherits both, and ignores a failed write that
  `wait_for_all` has found: it resets the buffer although its data is not in the
  file. A later failed completion makes `check_cque` push the stored entry of the
  buffer's next write once more, so two writes of one buffer are outstanding. `FlushOwnership` is proved of a ring whose
  clients use put and `check_cque`, not of one that also uses `f_sync`.
* `IO_LINK` (`quik_io.rs` 39-40, 205-207) orders entries of one submission.
  `submit` enters the kernel after each push, so two writes are linked only when
  an earlier enter failed.
* `flush_current` writes a current buffer again that is already in flight, after
  an exhausted rotation. Its first completion is then reported under the second
  address, which holds nothing yet: `ReportsSettled` is therefore claimed before
  the shutdown and after it, not in between. Called beside running writers it
  would flush unfinished copies, and since its slot is not padded, the padded
  write would run into the next range.
* `reap_all` of `RingWriter` reports a range whose write failed like any other.

## 5. Proofs

The proofs are checked by TLAPS with its SMT, Zenon and LS4 backends. None of the
theorems assumes a bound on the behaviour: the bounds of the models (`MaxCalls`,
`MaxBytes`, numbers of faults and messages) are arbitrary natural numbers there.

**`FlushBufferProofs`**: for every finite set of threads smaller than the range
of the writers field, every block size below the range of the offset field and
every set of payload sizes up to a block (`FlushBufferAssumption`,
`SpanAssumption`). The crate has 2^24 writers and a 2^20 block in a 2^32
field.

| Theorem | Statement |
|---|---|
| `TypeCorrect` | `Spec => []TypeOK` |
| `RegionsExclusive` | `Spec => []ExclusiveRegions` |
| `NoByteWrittenTwice` | `Spec => []WrittenOnce` |
| `DrainedIsComplete` | `Spec => []DrainedMeansCopied` |
| `UnsealOnlyIdle` | `Spec => ReopenedOnlyWhenIdle` |

None of these is inductive. The writers field alone does not say who is
copying, nor the offset which bytes are filled. The inductive invariant `IInv`
adds: the count is the number of holders (`CountIsHolders`; without it a
decrement could reach zero with a thread inside); what `reserve_space` and
`un_sealed` checked is still true of the word they kept (`SeenWasOpen`,
`SeenWasIdle`; so a successful compare_exchange transfers it to the current
word, however often the word changed in between); regions end below the offset
and lie apart (`RegionsBelowOffset`, `RegionsApart`); and a byte was copied
exactly if it is below the offset and in no unfinished region
(`CopiedExactly`).

**`PackedFlushBufferProofs`**: for all widths of the three parts of the word, the
lowest a multiple of 4, every set of threads, every block below the range of the
offset and payloads up to a block (`PackedAssumption`). The number of threads is
not bounded by the writers field.

| Theorem | Statement |
|---|---|
| `TypeCorrect` | `Spec => []TypeOK` |
| `ReservedCorrect` | `Spec => []ReservedBitsZero` |
| `Implements` | `Spec => ImplementsFlushBuffer` |

Every word with the unused bits zero is `Pack(o, w, f)` of exactly one offset,
writer count and pair of flags (`Unpack`, `PackFields`). The lemmas `AddOne`,
`SubOne`, `AddMany` and `FlagOps` compute what the code's arithmetic makes of
such a word: the sum carries from the writers into the offset and out of the
word, the difference borrows the other way, and a flag moves no other bit. The
`Decode...` lemmas turn each into the operation of `StateWord` on the fields, and
`DecodeInjective` makes a compare_exchange on the integer one on the fields. The
invariant `PInv` (the word and every loaded copy have the unused bits zero) is
needed for that: without it two different words could have equal fields. The
theorems of `FlushBufferProofs` are about the specification that the integer is
shown to implement.

**`BufferRingProofs`**: for every set of threads, ring length, block, page,
payload sizes, queue depth and number of faults, and all settings of the
options (`BufferRingAssumption`). No bound relates threads to the writers
field: the theorems hold although resets can make the count wrong.

| Theorem | Statement |
|---|---|
| `TypeCorrect` | `Spec => []TypeOK` |
| `FlushOwned` | `Spec => []FlushOwnership` |
| `GrantsExcludeFlush` | `Spec => NoGrantDuringFlush` |
| `SealNotForgotten` | `Spec => []SealedHasClaimant` |

`TypeCorrect` needs that the scan of the ring has tries left and that the word
`reserve_space` kept had room (`TInv`). `FlushOwned` needs `OInv`, which says
of each pair of the places a flush can be in (a thread at an owner label, a
request queued or started, a completion queued or taken) that they exclude each
other for one buffer, that request numbers are used once, and that the flush
bit is set as long as any of them exists (`Marked`). The bit is what makes it
inductive: a new owner needs to see it clear, and only the owner's reset
clears it. `GrantsExcludeFlush` follows: the compare_exchange compares with a
word whose flush bit was clear. `SealNotForgotten` needs no more than `TInv`: a
buffer comes to be sealed, without writers and unclaimed only by the seal or by the
last decrement, which make their thread a claimant, and a claimant gives up only
when it has just seen a writer or set the flush bit. It is about buffers whose count
is zero; a count that a reset under a writer has made wrong (`doc_exclusive`) need
never come back to zero, and then nobody flushes the buffer.

**`BufferRingSoloProofs`**: one producer p, `OneProducer(p)`: `Threads = {p}` and a
writers field that can count it. With two producers `DisjointRanges` is false
(`doc_disjoint`), and so is `AckedSurvives`: TLC violates it on the instance of that
run, by the delayed sealer of `doc_exclusive`, whose flush takes a buffer that is
being filled. `AlwaysFlushed` says that no ring in `Options` has automatic flushing
off, for which `AckedSurvives` is false (section 4); on is the default. Everything else is as in `BufferRingProofs`: any ring length,
block, page, sizes, queue depth, number of messages and of faults. `ring_solo`
satisfies all hypotheses.

| Theorem | Hypotheses | Statement |
|---|---|---|
| `SoloDisjoint` | one producer | `Spec => []DisjointRanges` |
| `SoloAcked` | and `AlwaysFlushed` | `Spec => []AckedSurvives` |
| `SoloReadable` | and `AlwaysFlushed` | `Spec => []ReportsReadable` |

The invariant has three layers over `TInv` and `OInv`.

* `WInv`, the words and the producer: a flushing buffer is sealed, an open one
  that holds data is the current one, and whatever else a word says (sealed
  without flushing, a counted writer) is explained by where the producer is. So
  the word it compares with in the compare_exchange is the word that is there.
* `LInv`, the parts of the file: a sealed buffer is *live* from the moment its
  size is claimed from `next_address_range` until its reset. The parts of live
  buffers lie apart and below the counter, and every request and every stored
  entry is for its buffer's own part. `DisjointRanges` follows. The unpadded
  advance of the rotation does no harm: it only leaves gaps.
* `DInv`, the bytes: a range is *settled* when it lies below the counter and apart
  from every live part; it stays so, since new parts start at the counter
  (`NextLInv`). A copied message is whole in a buffer or whole in a settled range
  (`Survives`), a completed write has the buffer's bytes (`Completed`), a reported
  range is settled and filled (`Reported`). The reset is where a message moves
  from the first case to the second, which needs all three.

`NInv` is the case without a store: nothing reaches the io_uring.

**`RingShutdownProofs`**: the same hypotheses, for `ShutdownSpec`.

| Theorem | Hypotheses | Statement |
|---|---|---|
| `ShutdownTypes` | none | `ShutdownSpec => []TypeOK` |
| `ShutdownDisjoint` | one producer, `AlwaysFlushed` | `ShutdownSpec => []DisjointRanges` |
| `ShutdownAcked` | one producer, `AlwaysFlushed` | `ShutdownSpec => []AckedSurvives` |
| `ShutdownReports` | and `SqDepth > 0` | `ShutdownSpec => []ReportsSettled` |
| `ShutdownDelivers` | and `SqDepth > 0` | `ShutdownSpec => []ShutdownComplete` |

The code's queue has 8 entries; with none every submission would be dropped
without being counted as failed.

`flush_current` breaks the layers above. A buffer in flight gets a second write and
another address, so flush ownership, `LInv` and with it "a completion means that
the range at the buffer's address is written" are gone, and the buffer is reset by
the first of its two completions. The invariant after it, `CInv`, speaks about the
writes that may still come (`Pending`: a request, or the entry a retry would push):
two of them never meet unless they are the same write. Since nobody copies any
more, this gives `Fixed(p, a, v)`: byte `a` of the file is `v` and no write to come
makes it anything else. A buffer with a successful completion holds only fixed
bytes (`Saved`), at the address it was actually written to, so the early reset
loses nothing (`Safe`). `CloseCInv` gets all this from the layers at the step of
`flush_current`, because its range starts at the counter, above everything claimed.

`ReportsSettled` and `ShutdownComplete` are about the second address, where nothing
may be yet. `EInv` says, as long as no submission failed, that such a byte *will* be
there: `Will(p, a, v)` is that all writes to come agree on `v` and that it is there
already or a write covering `a` is owed (`Owed`: with the kernel, or failed and to
be repeated). A sealed buffer's bytes will be at its address (`Placed`), what was
reported will be readable (`Promised`), and a message is in a buffer or will be in
the file within a reported range (`Delivered`). `FInv` is what this needs from the
time before: an empty submission queue between calls, and every flush somewhere on
its way. When everything has completed nothing is owed and no buffer is sealed
(`AllDone`), so what will be is.

**`QuikIOProofs`**: for every set of threads, number of buffers, page size, set of
reads, queue depth, and number of calls and failures, in both write modes
(`QuikIOAssumption`, `SetupsAssumption`).

| Theorem | Statement |
|---|---|
| `TypeCorrect` | `Spec => []TypeOK` |
| `ServedCorrect` | `Spec => []BlockedIsServed` |
| `SyncDurableCorrect` | `Spec => QuietSyncDurable` |
| `ResetSafeCorrect` | `Spec => QuietResetSafe` |
| `ReadCorrect` | `Spec => QuietReadCorrect` |

`TypeOK` itself is not inductive: that the first request of the kernel is not
linked, when a failure cancels a chain, needs the shape of the whole queue after a
request is taken out of it (`Spliced`, `RestLike`), and a completion can only be
resubmitted if the stored entry is a write (`StoredWrites`). `Shape` adds this.
The others rest on one fact about the mutex (`LockedOthers`): while a thread
sleeps in `submit_and_wait`, no other thread changes the queues or the file, so
that only the kernel acts beside it. `Blocked` then says which requests are left.
A caller that found nothing outstanding has its own request alone with the kernel
or its own completion alone in the queue (`SyncAlone`, `ReadAlone`). For `f_sync`
there is a write before the drained fsync (`ResetAlone`), so no write is left when
`sync_data` returns. The reset comes after the unlock, when others have pushed
requests again: `NewRequest` lists all a step can push. A new write has a new
number (`Numbered`), and an old one is pushed only for a failed completion, of
which there is none in the queue or in a thread's hands before the first failure
(`NoneFailed`). Hence `ResetOver`. `CopyAlone` carries the fact about a read
over to the copy, which runs after the mutex was dropped: request numbers are
used once (`ReadNumber`), so no later request can be taken for the finished read.
`ByteInWindow` is the arithmetic of the alignment: for any page size each byte
asked for lies in the window, in the page that holds its page of the file.

**`RangeLog`**: `TiledCorrect` is `Spec => []Tiled`, from the invariant that a
claimed range ends at or below `end`.

**`RingWriterProofs`**: for every set of writers, number of slots, slot size,
payload sizes up to a slot, queue depth, number of bytes and of failures
(`RingWriterAssumption`).

| Theorem | Statement |
|---|---|
| `TypeCorrect` | `Spec => []TypeOK` |
| `PendingCorrect` | `Spec => []PendingIsInFlight` |
| `UntouchedCorrect` | `Spec => InFlightUntouched` |
| `LogCorrect` | `Spec => ImplementsRangeLog` |
| `FileTiledCorrect` | `Spec => []FileTiled` |
| `FinishedCorrect` | `Spec => []FinishedStream` |

The invariant `Inv` is stated for one writer at a time, and another writer's step
leaves it alone (`SameWriterInv`). Its core is that slots in flight and entries
in the io_uring are in one-to-one correspondence (`EntriesMatch`, `OneEntry`,
`Counted`). Without it `pending` could not be decremented once per completion:
`reap_all` never looks at the slot's state before it reopens it. `LogCorrect`
gives each action its step of `RangeLog`. `FileTiledCorrect` follows from it and
`RangeLog`'s theorem. `FinishedCorrect` needs to know where every
byte of the stream is at every moment (`StreamInv`): the last ones in the head
slot (`HeadHolds`), the earlier ones at increasing positions of the file, in a
slot in flight or in a completed range (`Laid`, `Placed`). A completed range of
one writer is never written again by another, because the ranges lie apart.

Only model-checked, not proved: `MessageReturns` and `CallsReturn`, since liveness
under fairness is beyond TLAPS. That the six statements of section 4 are violated
is shown by TLC's traces.

## 6. Not modelled

* calls of `flush_current` beside running writers, and calls of `flush`, `seal`,
  `is_sealed` or `reset_buffer` by the client of a ring: no code of the repository
  makes them;
* `f_sync` together with put: it is modelled on the buffers of `QuikIO`, whose
  state word is abstracted to busy or not;
* liveness of QuikIO: `wait_for_all` need not return (section 4), and a sleeping
  caller is covered by the invariant `BlockedIsServed`;
* allocation of a buffer and `set_address` (a plain store, called only by a test
  and by `examples/o_direct.rs`): set-up without protocol state;
* `examples/o_direct.rs`: one thread whose calls are those of `QuikIO`;
* printing, timing and reading back in the other examples' `main`;
* short writes and reads: the code treats any non-negative result as complete.

## 7. Plan

Done, in this order: the word and one buffer, the packed integer, the ring with
put, rotation, flush, completions and the kernel; the theorems about one buffer
and about the ring's flush ownership; the options as a variable, the shutdown with
`flush_current`, `QuikIO` with `f_sync`, `RingWriter` with its abstract log; the
theorems about `RangeLog`, `RingWriter`, `QuikIO` and the packed word; those about
the ring with one producer and its shutdown.

Left, most valuable first:

1. `f_sync` in the ring itself, beside put and `check_cque`. `FlushOwnership` would
   then be false (section 4); the question is what is left of it.
2. `flush_current` beside running writers, should a client come to call it so.
3. Weaker memory orderings than sequential consistency, for `local_address` and the
   payload in particular.
