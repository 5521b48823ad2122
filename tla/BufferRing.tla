----------------------------- MODULE BufferRing -----------------------------
(***************************************************************************)
(* The ring (ring.rs) under concurrent writers: put, rotation, the flush   *)
(* it dispatches through QuikIO, and the completion handler check_cque,    *)
(* with the io_uring instance they share.                                  *)
(*                                                                         *)
(* Each thread runs the documented client loop: load the current buffer,   *)
(* reserve_space, put, and on a sealed buffer poll completions and retry.  *)
(* A step is one access to shared memory: one atomic operation on a state  *)
(* word, local_address, current_buffer, next_index or next_address_range,  *)
(* one payload copy, or one critical section of the io_uring mutex.  All   *)
(* atomics are taken to be sequentially consistent.                        *)
(***************************************************************************)
EXTENDS StateWord, FiniteSets

CONSTANTS
  Threads,
  RingLen,          \* BufferRingOptions::capacity
  Block,            \* ONE_MEGABYTE_BLOCK
  Page,             \* FOUR_KB_BLOCK
  Sizes,            \* payload sizes
  Options,          \* the BufferRingOptions a ring may be made with
  PollOnSealed,     \* the client polls when reserve_space finds a sealed buffer
  SqDepth,          \* entries of the submission queue, 8 in the code
  MaxMsgs,          \* bound: messages per thread
  MaxIoFaults,      \* bound: writes the kernel completes with an error
  MaxSubmitFaults   \* bound: io_uring_enter calls that fail

\* The options that matter here; io_instance and cq_tx say whether there is one.
BufferRingOptions ==
  [io_instance : BOOLEAN, auto_flush : BOOLEAN, auto_rotate : BOOLEAN,
   cq_tx : BOOLEAN]

ASSUME BufferRingAssumption ==
  /\ RingLen \in Nat \ {0}
  /\ Block \in Nat \ {0}
  /\ Block < OffsetSpan
  /\ Page \in Nat \ {0}
  /\ Sizes \subseteq 1 .. Block
  /\ Options \subseteq BufferRingOptions
  /\ PollOnSealed \in BOOLEAN
  /\ {SqDepth, MaxMsgs, MaxIoFaults, MaxSubmitFaults} \subseteq Nat

Buffers  == 0 .. RingLen - 1
Messages == Threads \X (1 .. MaxMsgs)
Empty    == <<>>                       \* a byte no payload was copied to

VARIABLES
  opt,            \* the options, never changed after with_options
  word,           \* word[b]: FlushBuffer::state
  address,        \* address[b]: FlushBuffer::local_address
  sqe,            \* sqe[b]: the stored entry, {} for None
  mem,            \* mem[b][i]: which byte of which message was copied there
  current,        \* current_buffer
  next_index,     \* next_index modulo the ring length, its only use
  next_address,   \* next_address_range
  sq, kernel, cq, \* io_uring: queued, started and completed requests
  pc, loc,        \* per thread: program counter and locals
  got,            \* per thread: the CQEs check_cque took and has not handled
  sent,           \* per thread: messages started
  acked,          \* messages for which put returned Ok
  copied,         \* messages copied into a buffer, with their size
  reports,        \* what was sent on the completion channel
  disk,           \* file contents, a function on the bytes ever written
  serial, ioFaults, submitFaults   \* request numbers and the fault budgets

bufVars    == <<word, address, sqe, mem>>
ringVars   == <<current, next_index, next_address>>
uringVars  == <<sq, kernel, cq, serial, disk, ioFaults, submitFaults>>
clientVars == <<sent, acked, copied, reports>>
vars == <<opt, bufVars, ringVars, uringVars, clientVars, pc, loc, got>>

HasStore    == opt.io_instance
AutoFlush   == opt.auto_flush
AutoRotate  == opt.auto_rotate
HasReceiver == opt.cq_tx

Sqe     == [at : Nat, len : Nat]
Request == [id : Nat, buf : Buffers, at : Nat, len : Nat]
Cqe     == [id : Nat, buf : Buffers, ok : BOOLEAN]
Local   == [buf : Buffers, seen : Word, off : Nat, size : Nat, at : Nat,
            len : Nat, tries : Nat, cand : Buffers,
            mode : {"writer", "sealer", "poller"}]

NoLocals == [buf |-> 0, seen |-> ZeroWord, off |-> 0, size |-> 0, at |-> 0,
             len |-> 0, tries |-> 0, cand |-> 0, mode |-> "writer"]

Message(t) == <<t, sent[t]>>

\* The bytes a thread may be writing.
Region(t) == loc[t].off .. loc[t].off + loc[t].size - 1

Init ==
  /\ opt \in Options
  /\ word = [b \in Buffers |-> ZeroWord]
  /\ address = [b \in Buffers |-> 0]
  /\ sqe = [b \in Buffers |-> {}]
  /\ mem = [b \in Buffers |-> [i \in 0 .. Block - 1 |-> Empty]]
  /\ current = 0
  /\ next_index = 1 % RingLen
  /\ next_address = 0
  /\ sq = {} /\ kernel = {} /\ cq = {}
  /\ pc = [t \in Threads |-> "idle"]
  /\ loc = [t \in Threads |-> NoLocals]
  /\ got = [t \in Threads |-> {}]
  /\ sent = [t \in Threads |-> 0]
  /\ acked = {} /\ copied = {} /\ reports = {}
  /\ disk = <<>>
  /\ serial = 0 /\ ioFaults = 0 /\ submitFaults = 0

-----------------------------------------------------------------------------
(* Control flow of a thread *)

Goto(t, label) == pc' = [pc EXCEPT ![t] = label]

At(t, label) == pc[t] = label

\* put returned Ok(_): the client takes the message as logged.
ReturnOk(t) ==
  /\ acked' = acked \cup {Message(t)}
  /\ loc' = [loc EXCEPT ![t] = NoLocals]
  /\ Goto(t, "idle")
  /\ UNCHANGED <<sent, copied, reports>>

\* put returned Err(EncounteredSealedBuffer): the client calls check_cque.
ReturnSealed(t) ==
  /\ Goto(t, "poll")
  /\ loc' = [loc EXCEPT ![t] = [NoLocals EXCEPT !.size = loc[t].size]]
  /\ UNCHANGED clientVars

\* The client starts logging one message.
StartMessage(t) ==
  /\ At(t, "idle")
  /\ sent[t] < MaxMsgs
  /\ \E n \in Sizes : loc' = [loc EXCEPT ![t].size = n]
  /\ sent' = [sent EXCEPT ![t] = sent[t] + 1]
  /\ Goto(t, "load")
  /\ UNCHANGED <<bufVars, ringVars, uringVars, acked, copied, reports, got>>

\* The client calls check_cque between two messages.
StartPoll(t) ==
  /\ At(t, "idle")
  /\ Goto(t, "poll")
  /\ UNCHANGED <<bufVars, ringVars, uringVars, clientVars, loc, got>>

-----------------------------------------------------------------------------
(* reserve_space on the current buffer *)

LoadCurrent(t) ==
  /\ At(t, "load")
  /\ loc' = [loc EXCEPT ![t].buf = current]
  /\ Goto(t, "reserve")
  /\ UNCHANGED <<bufVars, ringVars, uringVars, clientVars, got>>

\* The load of reserve_space.  A sealed or flushing buffer makes the client
\* start over; one without room is handed to put as InsufficientSpace.
ReserveLoad(t) ==
  LET w == word[loc[t].buf] IN
  /\ At(t, "reserve")
  /\ \/ /\ ~IsOpen(w)
        /\ Goto(t, IF PollOnSealed THEN "poll" ELSE "load")
        /\ UNCHANGED loc
     \/ /\ IsOpen(w)
        /\ w.offset + loc[t].size > Block
        /\ Goto(t, "seal")
        /\ UNCHANGED loc
     \/ /\ IsOpen(w)
        /\ w.offset + loc[t].size <= Block
        /\ loc' = [loc EXCEPT ![t].seen = w]
        /\ Goto(t, "cas")
  /\ UNCHANGED <<bufVars, ringVars, uringVars, clientVars, got>>

\* Mutation: fetch_add in place of the compare_exchange.
ReserveAdd(t) ==
  LET b == loc[t].buf IN
  /\ At(t, "cas")
  /\ word' = [word EXCEPT ![b] = Reserved(word[b], loc[t].size)]
  /\ loc' = [loc EXCEPT ![t].off = word[b].offset]
  /\ Goto(t, "copy")
  /\ UNCHANGED <<address, sqe, mem, ringVars, uringVars, clientVars, got>>

\* The compare_exchange; on FailedReservation the client starts over.
ReserveCas(t) ==
  LET b == loc[t].buf IN
  /\ At(t, "cas")
  /\ \/ /\ word[b] = loc[t].seen
        /\ word' = [word EXCEPT ![b] = Reserved(loc[t].seen, loc[t].size)]
        /\ loc' = [loc EXCEPT ![t].off = loc[t].seen.offset]
        /\ Goto(t, "copy")
     \/ /\ word[b] # loc[t].seen
        /\ Goto(t, "load")
        /\ UNCHANGED loc
        /\ UNCHANGED word
  /\ UNCHANGED <<address, sqe, mem, ringVars, uringVars, clientVars, got>>

-----------------------------------------------------------------------------
(* put with Ok(offset): copy, decrement, maybe flush *)

Write(t) ==
  LET b == loc[t].buf IN
  /\ At(t, "copy")
  /\ mem' = [mem EXCEPT ![b] = [i \in 0 .. Block - 1 |->
               IF i \in Region(t) THEN <<Message(t), i - loc[t].off>>
                                  ELSE mem[b][i]]]
  /\ copied' = copied \cup {<<Message(t), loc[t].size>>}
  /\ Goto(t, "dec")
  /\ UNCHANGED <<word, address, sqe, ringVars, uringVars, sent, acked, reports,
                 loc, got>>

\* Mutation: the result of the fetch_sub is taken for the new value of the word.
DecrementMisread(t) ==
  LET w == word[loc[t].buf] IN
  /\ At(t, "dec")
  /\ word' = [word EXCEPT ![loc[t].buf] = SubWriter(w)]
  /\ \/ /\ w.writers = 0 /\ w.sealed
        /\ loc' = [loc EXCEPT ![t].mode = "writer"]
        /\ Goto(t, "claim")
        /\ UNCHANGED clientVars
     \/ /\ ~(w.writers = 0 /\ w.sealed)
        /\ ReturnOk(t)
  /\ UNCHANGED <<address, sqe, mem, ringVars, uringVars, got>>

\* decrement_writers; the last writer of a sealed buffer goes for the flush.
DecrementWriters(t) ==
  LET w == word[loc[t].buf] IN
  /\ At(t, "dec")
  /\ word' = [word EXCEPT ![loc[t].buf] = SubWriter(w)]
  /\ \/ /\ w.writers = 1 /\ w.sealed
        /\ loc' = [loc EXCEPT ![t].mode = "writer"]
        /\ Goto(t, "claim")
        /\ UNCHANGED clientVars
     \/ /\ ~(w.writers = 1 /\ w.sealed)
        /\ ReturnOk(t)
  /\ UNCHANGED <<address, sqe, mem, ringVars, uringVars, got>>

\* Mutation: the previous value of the word is ignored.
ClaimUnchecked(t) ==
  LET b == loc[t].buf IN
  /\ At(t, "claim")
  /\ word' = [word EXCEPT ![b] = SetFlushing(word[b])]
  /\ Goto(t, IF HasStore /\ AutoFlush THEN "flush" ELSE "reset")
  /\ UNCHANGED <<address, sqe, mem, ringVars, uringVars, clientVars, loc, got>>

\* set_flush_in_progress: whoever sees the bit go from 0 to 1 owns the flush.
\* A last writer that lost returns Ok(SuccessfullWrite), a sealer that lost
\* returns Err(EncounteredSealedBuffer).
ClaimFlush(t) ==
  LET b == loc[t].buf IN
  /\ At(t, "claim")
  /\ word' = [word EXCEPT ![b] = SetFlushing(word[b])]
  /\ \/ /\ ~word[b].flushing
        /\ Goto(t, IF HasStore /\ AutoFlush THEN "flush" ELSE "reset")
        /\ UNCHANGED loc
        /\ UNCHANGED clientVars
     \/ /\ word[b].flushing /\ loc[t].mode = "writer"
        /\ ReturnOk(t)
     \/ /\ word[b].flushing /\ loc[t].mode = "sealer"
        /\ ReturnSealed(t)
  /\ UNCHANGED <<address, sqe, mem, ringVars, uringVars, got>>

-----------------------------------------------------------------------------
(* put with Err(InsufficientSpace): seal, claim an address, rotate *)

\* The fetch_or: only the thread that sets the bit goes on.
Seal(t) ==
  LET b == loc[t].buf IN
  /\ At(t, "seal")
  /\ word' = [word EXCEPT ![b] = SetSealed(word[b])]
  /\ \/ /\ word[b].sealed
        /\ ReturnSealed(t)
     \/ /\ ~word[b].sealed
        /\ loc' = [loc EXCEPT ![t].mode = "sealer"]
        /\ Goto(t, "size")
        /\ UNCHANGED clientVars
  /\ UNCHANGED <<address, sqe, mem, ringVars, uringVars, got>>

\* current.size().next_multiple_of(FOUR_KB_BLOCK)
SealSize(t) ==
  /\ At(t, "size")
  /\ loc' = [loc EXCEPT ![t].len =
               NextMultipleOf(word[loc[t].buf].offset, Page)]
  /\ Goto(t, "slot")
  /\ UNCHANGED <<bufVars, ringVars, uringVars, clientVars, got>>

\* Mutation: a load of next_address_range in place of the fetch_add.
ReadSlot(t) ==
  /\ At(t, "slot")
  /\ loc' = [loc EXCEPT ![t].at = next_address]
  /\ Goto(t, "store")
  /\ UNCHANGED <<bufVars, ringVars, uringVars, clientVars, got>>

\* incrment_address(padded)
ClaimSlot(t) ==
  /\ At(t, "slot")
  /\ loc' = [loc EXCEPT ![t].at = next_address]
  /\ next_address' = next_address + loc[t].len
  /\ Goto(t, "store")
  /\ UNCHANGED <<bufVars, current, next_index, uringVars, clientVars, got>>

\* local_address.store(slot)
StoreAddress(t) ==
  /\ At(t, "store")
  /\ address' = [address EXCEPT ![loc[t].buf] = loc[t].at]
  /\ Goto(t, IF AutoRotate THEN "rotate" ELSE "drain")
  /\ UNCHANGED <<word, sqe, mem, ringVars, uringVars, clientVars, loc, got>>

\* rotate_after_seal: another thread may have rotated already.
RotateLoad(t) ==
  /\ At(t, "rotate")
  /\ Goto(t, IF current = loc[t].buf THEN "rsize" ELSE "drain")
  /\ UNCHANGED <<bufVars, ringVars, uringVars, clientVars, loc, got>>

\* current_ref.size(), unpadded; then the scan over the ring begins.
RotateSize(t) ==
  /\ At(t, "rsize")
  /\ loc' = [loc EXCEPT ![t].len = word[loc[t].buf].offset,
                        ![t].tries = RingLen]
  /\ Goto(t, "scan")
  /\ UNCHANGED <<bufVars, ringVars, uringVars, clientVars, got>>

\* Mutation: the index is not reduced.
NextIndexUnreduced(i) == i + 1

NextIndex(i) == (i + 1) % RingLen

\* next_index.fetch_add(1) % ring_len
RotateScan(t) ==
  /\ At(t, "scan")
  /\ loc' = [loc EXCEPT ![t].cand = next_index,
                        ![t].tries = loc[t].tries - 1]
  /\ next_index' = NextIndex(next_index)
  /\ Goto(t, "avail")
  /\ UNCHANGED <<bufVars, current, next_address, uringVars, clientVars, got>>

\* is_available; after ring_len candidates the RingExhausted error is dropped
\* by put and the sealed buffer stays current.
RotateCheck(t) ==
  /\ At(t, "avail")
  /\ Goto(t, IF IsAvailable(word[loc[t].cand]) THEN "swap"
             ELSE IF loc[t].tries > 0 THEN "scan" ELSE "drain")
  /\ UNCHANGED <<bufVars, ringVars, uringVars, clientVars, loc, got>>

\* The compare_exchange on current_buffer, its result ignored.
RotateSwap(t) ==
  /\ At(t, "swap")
  /\ current' = IF current = loc[t].buf THEN loc[t].cand ELSE current
  /\ Goto(t, "raddr")
  /\ UNCHANGED <<bufVars, next_index, next_address, uringVars, clientVars, loc,
                 got>>

\* __reserve_buf_addr: the fetch_add of the old buffer's unpadded size ...
RotateReserve(t) ==
  /\ At(t, "raddr")
  /\ loc' = [loc EXCEPT ![t].at = next_address]
  /\ next_address' = next_address + loc[t].len
  /\ Goto(t, "rcas")
  /\ UNCHANGED <<bufVars, current, next_index, uringVars, clientVars, got>>

\* ... and the compare_exchange(0, slot) on the new buffer's address.
RotateAddress(t) ==
  LET c == loc[t].cand IN
  /\ At(t, "rcas")
  /\ address' = [address EXCEPT ![c] =
                   IF address[c] = 0 THEN loc[t].at ELSE address[c]]
  /\ Goto(t, "drain")
  /\ UNCHANGED <<word, sqe, mem, ringVars, uringVars, clientVars, loc, got>>

\* The sealer looks for remaining writers: none, and it goes for the flush;
\* otherwise the last of them will, and put returns EncounteredSealedBuffer.
DrainCheck(t) ==
  /\ At(t, "drain")
  /\ \/ /\ word[loc[t].buf].writers = 0
        /\ Goto(t, "claim")
        /\ UNCHANGED loc
        /\ UNCHANGED clientVars
     \/ /\ word[loc[t].buf].writers # 0
        /\ ReturnSealed(t)
  /\ UNCHANGED <<bufVars, ringVars, uringVars, got>>

-----------------------------------------------------------------------------
(* flush and QuikIO::submit_buffer *)

\* flush sets the bit a second time.
FlushMark(t) ==
  LET b == loc[t].buf IN
  /\ At(t, "flush")
  /\ word' = [word EXCEPT ![b] = SetFlushing(word[b])]
  /\ Goto(t, "len")
  /\ UNCHANGED <<address, sqe, mem, ringVars, uringVars, clientVars, loc, got>>

\* buffer_data: the length written is the offset rounded up to a page.
FlushLen(t) ==
  /\ At(t, "len")
  /\ loc' = [loc EXCEPT ![t].len =
               NextMultipleOf(word[loc[t].buf].offset, Page)]
  /\ Goto(t, "at")
  /\ UNCHANGED <<bufVars, ringVars, uringVars, clientVars, got>>

\* Mutation: the position is read from the ring's counter.
FlushAtNext(t) ==
  /\ At(t, "at")
  /\ loc' = [loc EXCEPT ![t].at = next_address]
  /\ Goto(t, "push")
  /\ UNCHANGED <<bufVars, ringVars, uringVars, clientVars, got>>

\* FlushableBuffer::offset: the file position is local_address.
FlushAt(t) ==
  /\ At(t, "at")
  /\ loc' = [loc EXCEPT ![t].at = address[loc[t].buf]]
  /\ Goto(t, "push")
  /\ UNCHANGED <<bufVars, ringVars, uringVars, clientVars, got>>

\* IoUring::submit on a submission queue holding S: the kernel takes it all,
\* or the system call fails and S stays queued.
Enter(S) ==
  \/ /\ kernel' = kernel \cup S
     /\ sq' = {}
     /\ UNCHANGED submitFaults
  \/ /\ submitFaults < MaxSubmitFaults
     /\ submitFaults' = submitFaults + 1
     /\ sq' = S
     /\ UNCHANGED kernel

NewRequest(b, e) == [id |-> serial, buf |-> b, at |-> e.at, len |-> e.len]

\* BackingStore::submit under the mutex.  submit_buffer_raw drops its result,
\* so a full queue loses the flush silently and put still returns Ok.
PushEntry(b, e) ==
  \/ /\ Cardinality(sq) < SqDepth
     /\ sqe' = [sqe EXCEPT ![b] = {e}]
     /\ serial' = serial + 1
     /\ Enter(sq \cup {NewRequest(b, e)})
  \/ /\ Cardinality(sq) >= SqDepth
     /\ UNCHANGED <<sqe, serial, sq, kernel, submitFaults>>

Submit(t) ==
  /\ At(t, "push")
  /\ PushEntry(loc[t].buf, [at |-> loc[t].at, len |-> loc[t].len])
  /\ ReturnOk(t)
  /\ UNCHANGED <<word, address, mem, ringVars, cq, disk, ioFaults, got>>

-----------------------------------------------------------------------------
(* reset_buffer: two stores *)

\* Mutation: clear_flush_in_progress and reset_offset, but no un_sealed.
ResetUnsealed(t) ==
  LET b == loc[t].buf IN
  /\ At(t, "reset")
  /\ word' = [word EXCEPT ![b] = ZeroOffset(ClearFlushing(word[b]))]
  /\ Goto(t, "reset2")
  /\ UNCHANGED <<address, sqe, mem, ringVars, uringVars, clientVars, loc, got>>

ResetState(t) ==
  /\ At(t, "reset")
  /\ word' = [word EXCEPT ![loc[t].buf] = ZeroWord]
  /\ Goto(t, "reset2")
  /\ UNCHANGED <<address, sqe, mem, ringVars, uringVars, clientVars, loc, got>>

ResetAddress(t) ==
  /\ At(t, "reset2")
  /\ address' = [address EXCEPT ![loc[t].buf] = 0]
  /\ \/ /\ loc[t].mode = "poller"
        /\ Goto(t, "reap")
        /\ UNCHANGED loc
        /\ UNCHANGED clientVars
     \/ /\ loc[t].mode # "poller"
        /\ ReturnOk(t)
  /\ UNCHANGED <<word, sqe, mem, ringVars, uringVars, got>>

-----------------------------------------------------------------------------
(* check_cque *)

\* store.cqe(): take every completion.  Without a store, or when there is
\* none, check_cque returns to the client.
PollDrain(t) ==
  /\ At(t, "poll")
  /\ \/ /\ HasStore /\ cq # {}
        /\ got' = [got EXCEPT ![t] = cq]
        /\ cq' = {}
        /\ loc' = [loc EXCEPT ![t].mode = "poller"]
        /\ Goto(t, "reap")
     \/ /\ ~HasStore \/ cq = {}
        /\ loc' = [loc EXCEPT ![t] = [NoLocals EXCEPT !.size = loc[t].size]]
        /\ Goto(t, IF loc[t].size = 0 THEN "idle" ELSE "load")
        /\ UNCHANGED <<got, cq>>
  /\ UNCHANGED <<bufVars, ringVars, sq, kernel, serial, disk, ioFaults,
                 submitFaults, clientVars>>

\* Mutation: the result of the completion is not looked at.
ReapUnchecked(t) ==
  /\ At(t, "reap")
  /\ \/ /\ got[t] = {}
        /\ Goto(t, "poll")
        /\ UNCHANGED <<loc, got>>
     \/ \E c \in got[t] :
        /\ got' = [got EXCEPT ![t] = got[t] \ {c}]
        /\ loc' = [loc EXCEPT ![t].buf = c.buf]
        /\ Goto(t, IF HasReceiver THEN "sendAt" ELSE "reset")
  /\ UNCHANGED <<bufVars, ringVars, uringVars, clientVars>>

\* The for loop over the taken completions, and back to cqe() after it.
Reap(t) ==
  /\ At(t, "reap")
  /\ \/ /\ got[t] = {}
        /\ Goto(t, "poll")
        /\ UNCHANGED loc
        /\ UNCHANGED got
     \/ \E c \in got[t] :
        /\ got' = [got EXCEPT ![t] = got[t] \ {c}]
        /\ loc' = [loc EXCEPT ![t].buf = c.buf]
        /\ Goto(t, IF ~c.ok THEN "retry"
                   ELSE IF HasReceiver THEN "sendAt" ELSE "reset")
  /\ UNCHANGED <<bufVars, ringVars, uringVars, clientVars>>

\* A failed write is pushed again from the stored entry; a push that finds the
\* queue full is dropped, and the queue is submitted either way.  Without a
\* stored entry nothing is done.
Retry(t) ==
  LET b == loc[t].buf IN
  /\ At(t, "retry")
  /\ IF sqe[b] = {}
     THEN UNCHANGED <<serial, sq, kernel, submitFaults>>
     ELSE \/ \E e \in sqe[b] :
               /\ Cardinality(sq) < SqDepth
               /\ serial' = serial + 1
               /\ Enter(sq \cup {NewRequest(b, e)})
          \/ /\ Cardinality(sq) >= SqDepth
             /\ Enter(sq)
             /\ UNCHANGED serial
  /\ Goto(t, "reap")
  /\ UNCHANGED <<bufVars, ringVars, cq, disk, ioFaults, clientVars, loc, got>>

\* The completion channel gets local_address ...
SendAddress(t) ==
  /\ At(t, "sendAt")
  /\ loc' = [loc EXCEPT ![t].at = address[loc[t].buf]]
  /\ Goto(t, "sendLen")
  /\ UNCHANGED <<bufVars, ringVars, uringVars, clientVars, got>>

\* ... and size(), both read again after the completion.
SendReport(t) ==
  /\ At(t, "sendLen")
  /\ reports' = reports \cup
                  {[at |-> loc[t].at, len |-> word[loc[t].buf].offset]}
  /\ Goto(t, "reset")
  /\ UNCHANGED <<bufVars, ringVars, uringVars, sent, acked, copied, loc, got>>

-----------------------------------------------------------------------------
(* The kernel *)

\* A started write reads the buffer's memory as it is now; reads beyond the
\* allocation return bytes of no message.
KernelWrites(r) ==
  LET range == r.at .. r.at + r.len - 1
      byte(a) == IF a - r.at < Block THEN mem[r.buf][a - r.at] ELSE Empty
  IN  [a \in DOMAIN disk \cup range |->
         IF a \in range THEN byte(a) ELSE disk[a]]

KernelComplete ==
  \E r \in kernel :
    /\ kernel' = kernel \ {r}
    /\ cq' = cq \cup {[id |-> r.id, buf |-> r.buf, ok |-> TRUE]}
    /\ disk' = KernelWrites(r)
    /\ UNCHANGED <<bufVars, ringVars, sq, serial, ioFaults, submitFaults,
                   clientVars, pc, loc, got>>

KernelFail ==
  \E r \in kernel :
    /\ ioFaults < MaxIoFaults
    /\ ioFaults' = ioFaults + 1
    /\ kernel' = kernel \ {r}
    /\ cq' = cq \cup {[id |-> r.id, buf |-> r.buf, ok |-> FALSE]}
    /\ UNCHANGED <<bufVars, ringVars, sq, serial, disk, submitFaults,
                   clientVars, pc, loc, got>>

-----------------------------------------------------------------------------

\* A step inside a call; what the client starts next is its own choice.
Step(t) ==
  \/ LoadCurrent(t)   \/ ReserveLoad(t)  \/ ReserveCas(t)
  \/ Write(t)         \/ DecrementWriters(t) \/ ClaimFlush(t)
  \/ Seal(t)          \/ SealSize(t)     \/ ClaimSlot(t)   \/ StoreAddress(t)
  \/ RotateLoad(t)    \/ RotateSize(t)   \/ RotateScan(t)  \/ RotateCheck(t)
  \/ RotateSwap(t)    \/ RotateReserve(t) \/ RotateAddress(t)
  \/ DrainCheck(t)
  \/ FlushMark(t)     \/ FlushLen(t)     \/ FlushAt(t)     \/ Submit(t)
  \/ ResetState(t)    \/ ResetAddress(t)
  \/ PollDrain(t)     \/ Reap(t)         \/ Retry(t)
  \/ SendAddress(t)   \/ SendReport(t)

Next ==
  /\ \/ \E t \in Threads : StartMessage(t) \/ StartPoll(t) \/ Step(t)
     \/ KernelComplete
     \/ KernelFail
  /\ UNCHANGED opt

Spec == Init /\ [][Next]_vars

\* Threads are scheduled, and the kernel finishes every write it has started.
Fairness ==
  /\ \A t \in Threads : WF_vars(Step(t) /\ UNCHANGED opt)
  /\ WF_vars(KernelComplete /\ UNCHANGED opt)

FairSpec == Spec /\ Fairness

-----------------------------------------------------------------------------
(* Properties *)

Labels == {"idle", "load", "reserve", "cas", "copy", "dec", "claim", "seal",
           "size", "slot", "store", "rotate", "rsize", "scan", "avail", "swap",
           "raddr", "rcas", "drain", "flush", "len", "at", "push", "reset",
           "reset2", "poll", "reap", "retry", "sendAt", "sendLen"}

\* The variables the code itself keeps, each in its type.
TypeOK ==
  /\ opt \in Options
  /\ word \in [Buffers -> Word]
  /\ address \in [Buffers -> Nat]
  /\ sqe \in [Buffers -> SUBSET Sqe]
  /\ current \in Buffers
  /\ next_index \in Buffers
  /\ next_address \in Nat
  /\ sq \subseteq Request
  /\ kernel \subseteq Request
  /\ cq \subseteq Cqe
  /\ pc \in [Threads -> Labels]
  /\ loc \in [Threads -> Local]
  /\ got \in [Threads -> SUBSET Cqe]
  /\ serial \in Nat

\* The labels from winning the flush bit, or taking a completion, up to the
\* submission or to the store that clears the word.
OwnerLabels == {"flush", "len", "at", "push", "reset", "retry", "sendAt",
                "sendLen"}

Owns(t, b) == loc[t].buf = b /\ pc[t] \in OwnerLabels

\* Everything that is entitled to touch buffer b's entry, submit it or reset
\* it: a thread that owns the flush, a request, or a completion of it.
Tokens(b) ==
  {<<"owner", t>> : t \in {t \in Threads : Owns(t, b)}}
    \cup {<<"sq", r>> : r \in {r \in sq : r.buf = b}}
    \cup {<<"kernel", r>> : r \in {r \in kernel : r.buf = b}}
    \cup {<<"cq", c>> : c \in {c \in cq : c.buf = b}}
    \cup UNION {{<<"got", t, c>> : c \in {c \in got[t] : c.buf = b}} :
                t \in Threads}

\* lib.rs, FlushBuffer::sqe: "Guarded by the flush-in-progress state
\* transition - only one thread may write or read this field at a time."
\* At most one flush of a buffer exists anywhere between the winning fetch_or
\* and the reset, and as long as it does the bit is set.
FlushOwnership ==
  \A b \in Buffers :
    /\ \A x, y \in Tokens(b) : x = y
    /\ Tokens(b) # {} => word[b].flushing

\* No reservation succeeds in a buffer whose flush is under way, not even by
\* a compare_exchange with a word loaded before the flush began.
NoGrantDuringFlush ==
  [][\A t \in Threads :
       pc[t] = "cas" /\ pc'[t] = "copy" => Tokens(loc[t].buf) = {}]_vars

\* The labels of put from the seal, or from the last decrement, up to the
\* fetch_or that claims the flush.
ClaimantLabels == {"size", "slot", "store", "rotate", "rsize", "scan", "avail",
                   "swap", "raddr", "rcas", "drain", "claim"}

\* A sealed buffer is never left to nobody.  The sealer leaves the flush to the
\* writers still active and the last of them to the sealer, each on the word it
\* happens to read: when no writer is left and the flush bit is clear, one of
\* the two is still on its way to claim the flush.
SealedHasClaimant ==
  \A b \in Buffers :
    word[b].sealed /\ ~word[b].flushing /\ word[b].writers = 0 =>
      \E t \in Threads : loc[t].buf = b /\ pc[t] \in ClaimantLabels

\* Where a byte that put has acknowledged can be: in the reserved part of a
\* buffer, or in the file.
Kept(byte) ==
  \/ \E b \in Buffers : \E i \in 0 .. Block - 1 :
       i < word[b].offset /\ mem[b][i] = byte
  \/ \E a \in DOMAIN disk : disk[a] = byte

\* With a store, a message that was copied and acknowledged is never lost: no
\* reset before its write completed, no later write over it.
AckedSurvives ==
  HasStore => \A m \in copied : m[1] \in acked =>
    \A j \in 0 .. m[2] - 1 : Kept(<<m[1], j>>)

\* A range sent on the completion channel is in the file, and every byte of
\* it belongs to a message (read_completed_ranges reads exactly this range).
ReportsReadable ==
  \A r \in reports : \A a \in r.at .. r.at + r.len - 1 :
    a \in DOMAIN disk /\ disk[a] # Empty

\* The client's loop around reserve_space and put ends for every message it
\* has started: a sealed buffer is reopened or rotated away in time.  Only a
\* failed submission, which put hides from its caller, may prevent it.
MessageReturns ==
  \A t \in Threads : pc[t] = "load" ~> (pc[t] = "idle" \/ submitFaults > 0)

-----------------------------------------------------------------------------
(* Statements of the documentation *)

\* lib.rs, BufferMsg: both Ok results say "the payload was written".
AckedMeansWritten == \A m \in acked : \E n \in Sizes : <<m, n>> \in copied

\* lib.rs, Buffer: "no two threads are ever granted the same region".
ExclusiveRegions ==
  \A t, u \in Threads :
    t # u /\ pc[t] = "copy" /\ pc[u] = "copy" /\ loc[t].buf = loc[u].buf
      => Region(t) \cap Region(u) = {}

\* ring.rs, BufferRing: "no two buffers ever map to the same region of the
\* backing file even when flushes complete out of order".
DisjointRanges ==
  \A r, s \in sq \cup kernel :
    r.buf # s.buf =>
      (r.at .. r.at + r.len - 1) \cap (s.at .. s.at + s.len - 1) = {}
=============================================================================
