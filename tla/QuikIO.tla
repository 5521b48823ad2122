------------------------------- MODULE QuikIO -------------------------------
(***************************************************************************)
(* QuikIO (quik_io.rs): one io_uring behind a mutex, shared by threads     *)
(* that submit buffers, poll completions as check_cque does, retry, read,  *)
(* wait_for_all, sync_data, and BufferRing::f_sync, which combines them.   *)
(*                                                                         *)
(* A step is one critical section of the mutex.  sync_data and read block  *)
(* inside theirs, so the guard is held over several steps; every other     *)
(* section is over at once.  f_sync resets its buffer outside of any.  A   *)
(* buffer has one page of the file to itself, and its contents are the     *)
(* number of the call that filled it.                                      *)
(***************************************************************************)
EXTENDS Integers, Sequences, FiniteSets, Functions

CONSTANTS
  Threads,
  NumBuffers,
  Page,        \* FOUR_KB_PAGE
  Reads,       \* offsets and lengths that read is called with
  Setups,      \* WriteMode, "Tail" or "Serialized", and size of the submission
               \* queue, 8 in the code: the pairs to check
  MaxCalls,    \* bound: calls by all threads
  MaxFaults    \* bound: failed requests and failed io_uring_enter calls

Buffers == 0 .. NumBuffers - 1

ASSUME QuikIOAssumption ==
  /\ NumBuffers \in Nat \ {0}
  /\ Page \in Nat \ {0}
  /\ Reads \subseteq [offset : Nat, len : Nat \ {0}]
  /\ {MaxCalls, MaxFaults} \subseteq Nat

ASSUME SetupsAssumption == Setups \subseteq {"Tail", "Serialized"} \X (Nat \ {0})

VARIABLES
  mode, depth,     \* BackingStore::mode and the queue's size, never changed
  mem, busy, sqe,  \* per buffer: contents, flush in progress, stored entry
  sq, kernel, cq,  \* the io_uring, in submission and in completion order
  disk, durable,   \* per page: contents written, and contents synced
  pc, loc,         \* per thread: program counter and locals
  got,             \* per thread: completions check_cque has taken
  rd,              \* per thread: the pages read allocated
  calls, ioFaults, enterFaults

bufVars   == <<mem, busy, sqe>>
fileVars  == <<disk, durable>>
setup     == <<mode, depth>>
vars == <<setup, bufVars, sq, kernel, cq, fileVars, pc, loc, got, rd, calls,
          ioFaults, enterFaults>>

\* id: the call that made the request; of: its buffer or thread.
Ours(r) == r.of \in IF r.op = "write" THEN Buffers ELSE Threads

Request ==
  {r \in [op : {"write", "fsync", "read"}, of : Buffers \cup Threads, id : Nat,
          at : Nat, len : Nat, drain : BOOLEAN, linked : BOOLEAN] : Ours(r)}

Cqe ==
  {c \in [op : {"write", "fsync", "read"}, of : Buffers \cup Threads, id : Nat,
          ok : BOOLEAN] : Ours(c)}

NoLocals == [b |-> 0, fsync |-> FALSE, id |-> 0, offset |-> 0, len |-> 0,
             quiet |-> FALSE, before |-> [b \in Buffers |-> 0]]

Init ==
  /\ \E s \in Setups : mode = s[1] /\ depth = s[2]
  /\ mem = [b \in Buffers |-> 0]
  /\ busy = {}
  /\ sqe = [b \in Buffers |-> {}]
  /\ sq = <<>> /\ kernel = <<>> /\ cq = <<>>
  /\ disk = [b \in Buffers |-> 0]
  /\ durable = disk
  /\ pc = [t \in Threads |-> "idle"]
  /\ loc = [t \in Threads |-> NoLocals]
  /\ got = [t \in Threads |-> <<>>]
  /\ rd = [t \in Threads |-> <<>>]
  /\ calls = 0 /\ ioFaults = 0 /\ enterFaults = 0

Goto(t, label) == pc' = [pc EXCEPT ![t] = label]

\* Mutation: the guard is dropped before the wait.
UnlockedAlways == TRUE

\* sync_data and read block while they hold the mutex.
Unlocked == \A t \in Threads : pc[t] \notin {"sync", "read"}

\* A thread with nothing to do calls one of the functions.
Call(t) ==
  /\ pc[t] = "idle"
  /\ calls < MaxCalls
  /\ calls' = calls + 1

-----------------------------------------------------------------------------
(* Pushing and entering *)

\* IO_LINK ties a write to the entry after it in the same submission.
Links(r) == r.op = "write" /\ mode = "Serialized"

Batch(q) == [i \in DOMAIN q |->
               [q[i] EXCEPT !.linked = i > 1 /\ Links(q[i - 1])]]

EnterOk(q) ==
  /\ kernel' = kernel \o Batch(q)
  /\ sq' = <<>>
  /\ UNCHANGED enterFaults

EnterFails(q) ==
  /\ ioFaults + enterFaults < MaxFaults
  /\ enterFaults' = enterFaults + 1
  /\ sq' = q
  /\ UNCHANGED kernel

HasRoom == Len(sq) < depth

\* The write of a buffer at its own page.
WriteOf(b, id) == [op |-> "write", of |-> b, id |-> id, at |-> b * Page,
                   len |-> Page, drain |-> FALSE, linked |-> FALSE]

\* BackingStore::submit, whose result submit_buffer_raw drops.  flush and f_sync
\* set the flush bit whether or not it was set: a buffer under flush is submitted
\* once more, with the contents it has.
SubmitBuffer(b) ==
  LET r == WriteOf(b, calls + 1) IN
  /\ Unlocked
  /\ busy' = busy \cup {b}
  /\ mem' = IF b \in busy THEN mem ELSE [mem EXCEPT ![b] = calls + 1]
  /\ \/ /\ HasRoom
        /\ sqe' = [sqe EXCEPT ![b] = {r}]
        /\ EnterOk(Append(sq, r)) \/ EnterFails(Append(sq, r))
     \/ /\ ~HasRoom
        /\ UNCHANGED <<sqe, sq, kernel, enterFaults>>

Submit(t) ==
  /\ Call(t)
  /\ \E b \in Buffers : SubmitBuffer(b)
  /\ UNCHANGED <<setup, cq, fileVars, pc, loc, got, rd, ioFaults>>

-----------------------------------------------------------------------------
(* check_cque, with retry_sqe as the alternative to its own retry *)

\* cqe: take every completion there is.
TakeAll(t) ==
  /\ Unlocked
  /\ got' = [got EXCEPT ![t] = cq]
  /\ cq' = <<>>
  /\ Goto(t, IF cq = <<>> THEN "idle" ELSE "handle")
  /\ UNCHANGED <<setup, bufVars, sq, kernel, fileVars, loc, rd, ioFaults,
                 enterFaults>>

\* check_cque; when there is no completion it returns and nothing has changed.
StartPoll(t) ==
  /\ Call(t)
  /\ cq # <<>>
  /\ TakeAll(t)

Poll(t) ==
  /\ pc[t] = "poll"
  /\ TakeAll(t)
  /\ UNCHANGED calls

\* A failed write is pushed again from the stored entry.  When the queue is
\* full check_cque only submits it, and retry_sqe returns its error.
Resubmit(b) ==
  /\ Unlocked
  /\ \E r \in sqe[b] :
       \/ /\ HasRoom
          /\ EnterOk(Append(sq, r)) \/ EnterFails(Append(sq, r))
       \/ /\ ~HasRoom
          /\ EnterOk(sq) \/ EnterFails(sq) \/ UNCHANGED <<sq, kernel, enterFaults>>

\* One completion; user_data 0 marks those that belong to no buffer.
Handle(t) ==
  LET c == Head(got[t]) IN
  /\ pc[t] = "handle"
  /\ got' = [got EXCEPT ![t] = Tail(got[t])]
  /\ Goto(t, IF Len(got[t]) = 1 THEN "poll" ELSE "handle")
  /\ \/ /\ c.op # "write"
        /\ UNCHANGED <<busy, sq, kernel, enterFaults>>
     \/ /\ c.op = "write" /\ c.ok
        /\ busy' = busy \ {c.of}
        /\ UNCHANGED <<sq, kernel, enterFaults>>
     \/ /\ c.op = "write" /\ ~c.ok
        /\ Resubmit(c.of)
        /\ UNCHANGED busy
  /\ UNCHANGED <<setup, mem, sqe, cq, fileVars, loc, rd, calls, ioFaults>>

-----------------------------------------------------------------------------
(* sync_data *)

Outstanding == sq \o kernel \o cq

\* Nothing is outstanding, or only the write of t's own f_sync.
Quiet(t) ==
  \/ Outstanding = <<>>
  \/ /\ Len(Outstanding) = 1
     /\ loc[t].fsync
     /\ Outstanding[1].op = "write" /\ Outstanding[1].id = loc[t].id

\* What the file holds once every write submitted so far has completed.
Accepted == [b \in Buffers |->
               IF \E r \in Range(sq) \cup Range(kernel) : r.op = "write" /\ r.of = b
               THEN mem[b] ELSE disk[b]]

\* Mutation: the fsync carries no flag.
NoDrainFlag == FALSE

\* squeue::Flags::IO_DRAIN
DrainFlag == TRUE

FsyncOf(t, id) == [op |-> "fsync", of |-> t, id |-> id, at |-> 0, len |-> 0,
                   drain |-> DrainFlag, linked |-> FALSE]

\* sync_data returns an error: f_sync panics on it.
SyncErr(t) ==
  /\ Goto(t, IF loc[t].fsync THEN "dead" ELSE "idle")
  /\ UNCHANGED loc

\* Push the fsync and enter the kernel, which blocks.
SyncData(t, id) ==
  LET q == Append(sq, FsyncOf(t, id)) IN
  /\ Unlocked
  /\ \/ /\ ~HasRoom
        /\ SyncErr(t)
        /\ UNCHANGED <<sq, kernel, enterFaults>>
     \/ /\ HasRoom
        /\ EnterFails(q)
        /\ SyncErr(t)
     \/ /\ HasRoom
        /\ EnterOk(q)
        /\ loc' = [loc EXCEPT ![t].quiet = Quiet(t), ![t].id = id,
                              ![t].before = Accepted]
        /\ Goto(t, "sync")

StartSync(t) ==
  /\ Call(t)
  /\ SyncData(t, calls + 1)
  /\ UNCHANGED <<setup, bufVars, cq, fileVars, got, rd, ioFaults>>

\* Mutation: submit in place of submit_and_wait(1).
AwaitedNone == TRUE

\* submit_and_wait(1): any completion will do.
Awaited == Len(cq) >= 1

\* The guard is dropped and the call returns Ok without looking at the completion.
SyncReturn(t) ==
  /\ pc[t] = "sync"
  /\ Awaited
  /\ \/ /\ loc[t].fsync
        /\ Goto(t, "freset")
        /\ UNCHANGED loc
     \/ /\ ~loc[t].fsync
        /\ Goto(t, "idle")
        /\ loc' = [loc EXCEPT ![t] = NoLocals]
  /\ UNCHANGED <<setup, bufVars, sq, kernel, cq, fileVars, got, rd, calls,
                 ioFaults, enterFaults>>

-----------------------------------------------------------------------------
(* wait_for_all *)

\* wait_for_all returns, Ok or Err: f_sync ignores which.
WaitReturn(t) == Goto(t, IF loc[t].fsync THEN "fsync" ELSE "idle")

\* Every completion is taken and dropped; the first failed one ends the call.
DropAll(t) ==
  /\ Unlocked
  /\ cq' = <<>>
  /\ IF \A c \in Range(cq) : c.ok THEN Goto(t, "check") ELSE WaitReturn(t)
  /\ UNCHANGED <<setup, bufVars, sq, kernel, fileVars, loc, got, rd, ioFaults,
                 enterFaults>>

StartWait(t) == Call(t) /\ DropAll(t)

WaitDrain(t) ==
  /\ pc[t] = "drain"
  /\ DropAll(t)
  /\ UNCHANGED calls

\* Both queues empty: done, whatever the kernel still works on.
WaitCheck(t) ==
  /\ pc[t] = "check"
  /\ Unlocked
  /\ IF sq = <<>> /\ cq = <<>> THEN WaitReturn(t) ELSE Goto(t, "drain")
  /\ UNCHANGED <<setup, bufVars, sq, kernel, cq, fileVars, loc, got, rd, calls,
                 ioFaults, enterFaults>>

-----------------------------------------------------------------------------
(* BufferRing::f_sync: submit, wait_for_all, sync_data, reset_buffer *)

StartFSync(t) ==
  /\ Call(t)
  /\ \E b \in Buffers :
       /\ SubmitBuffer(b)
       /\ loc' = [loc EXCEPT ![t].b = b, ![t].fsync = TRUE,
                             ![t].id = calls + 1]
  /\ Goto(t, "drain")
  /\ UNCHANGED <<setup, cq, fileVars, got, rd, ioFaults>>

FSyncData(t) ==
  /\ pc[t] = "fsync"
  /\ SyncData(t, loc[t].id)
  /\ UNCHANGED <<setup, bufVars, cq, fileVars, got, rd, calls, ioFaults>>

\* The reset takes no lock: others have run since sync_data dropped the guard.
FSyncReset(t) ==
  /\ pc[t] = "freset"
  /\ busy' = busy \ {loc[t].b}
  /\ loc' = [loc EXCEPT ![t] = NoLocals]
  /\ Goto(t, "idle")
  /\ UNCHANGED <<setup, mem, sqe, sq, kernel, cq, fileVars, got, rd, calls,
                 ioFaults, enterFaults>>

-----------------------------------------------------------------------------
(* read *)

NextMultipleOf(n, k) == ((n + k - 1) \div k) * k

AlignedOffset(offset) == offset - (offset % Page)

\* The aligned window holds the bytes before the offset and the requested ones.
AlignedLen(offset, len) == NextMultipleOf(len + (offset % Page), Page)

ReadOf(t, offset, len) ==
  [op |-> "read", of |-> t, id |-> calls + 1, at |-> AlignedOffset(offset),
   len |-> AlignedLen(offset, len), drain |-> FALSE, linked |-> FALSE]

\* Allocate the zeroed window, push, enter the kernel and block.
StartRead(t) ==
  /\ Call(t)
  /\ Unlocked
  /\ \E a \in Reads :
       LET r == ReadOf(t, a.offset, a.len) IN
       \/ /\ HasRoom
          /\ EnterOk(Append(sq, r))
          /\ rd' = [rd EXCEPT ![t] = [i \in 0 .. r.len \div Page - 1 |-> 0]]
          /\ loc' = [loc EXCEPT ![t].id = r.id, ![t].quiet = Quiet(t),
                                ![t].before = Accepted, ![t].offset = a.offset, ![t].len = a.len]
          /\ Goto(t, "read")
       \/ /\ HasRoom
          /\ EnterFails(Append(sq, r))
          /\ UNCHANGED <<rd, loc, pc>>
       \/ /\ ~HasRoom
          /\ UNCHANGED <<sq, kernel, enterFaults, rd, loc, pc>>
  /\ UNCHANGED <<setup, bufVars, cq, fileVars, got, ioFaults>>

\* The first completion is taken for the read's own, and the guard dropped.
ReadTake(t) ==
  /\ pc[t] = "read"
  /\ Awaited
  /\ cq' = Tail(cq)
  /\ \/ /\ Head(cq).ok
        /\ Goto(t, "copy")
        /\ UNCHANGED <<loc, rd>>
     \/ /\ ~Head(cq).ok
        /\ loc' = [loc EXCEPT ![t] = NoLocals]
        /\ rd' = [rd EXCEPT ![t] = <<>>]
        /\ Goto(t, "idle")
  /\ UNCHANGED <<setup, bufVars, sq, kernel, fileVars, got, calls, ioFaults,
                 enterFaults>>

\* The byte at i of what read hands to its caller.
Copied(t, i) == rd[t][((loc[t].offset % Page) + i) \div Page]

\* Copy the requested bytes out of the window and free it.
ReadCopy(t) ==
  /\ pc[t] = "copy"
  /\ rd' = [rd EXCEPT ![t] = <<>>]
  /\ loc' = [loc EXCEPT ![t] = NoLocals]
  /\ Goto(t, "idle")
  /\ UNCHANGED <<setup, bufVars, sq, kernel, cq, fileVars, got, calls, ioFaults,
                 enterFaults>>

-----------------------------------------------------------------------------
(* The kernel *)

\* A drained request waits for all before it, and all after it wait for it; a
\* linked one waits for the one before it.
Ready(i) ==
  /\ ~kernel[i].linked
  /\ kernel[i].drain => i = 1
  /\ \A j \in 1 .. i - 1 : ~kernel[j].drain

\* The contents of the page at a file position, zero beyond the end.
PageAt(a) == IF a \div Page \in Buffers THEN disk[a \div Page] ELSE 0

\* A read fills its window; one whose call has returned fills freed memory,
\* which may or may not be the window of the thread's next read.
Filled(r) ==
  LET new == [rd EXCEPT ![r.of] = [i \in DOMAIN rd[r.of] |->
                IF i < r.len \div Page THEN PageAt(r.at + i * Page) ELSE rd[r.of][i]]]
  IN  IF loc[r.of].id = r.id THEN {new} ELSE {rd, new}

Effect(r) ==
  \/ /\ r.op = "write"
     /\ disk' = [disk EXCEPT ![r.of] = mem[r.of]]
     /\ UNCHANGED <<durable, rd>>
  \/ /\ r.op = "fsync"
     /\ durable' = disk
     /\ UNCHANGED <<disk, rd>>
  \/ /\ r.op = "read"
     /\ rd' \in Filled(r)
     /\ UNCHANGED <<disk, durable>>

Completion(r, ok) == [op |-> r.op, of |-> r.of, id |-> r.id, ok |-> ok]

\* The entry after a completed one is released if it was linked to it.
Unlink(s) == [i \in DOMAIN s |-> IF i = 1 THEN [s[i] EXCEPT !.linked = FALSE]
                                          ELSE s[i]]

KernelComplete ==
  \E i \in DOMAIN kernel :
    /\ Ready(i)
    /\ Effect(kernel[i])
    /\ kernel' = SubSeq(kernel, 1, i - 1)
                   \o Unlink(SubSeq(kernel, i + 1, Len(kernel)))
    /\ cq' = Append(cq, Completion(kernel[i], TRUE))
    /\ UNCHANGED <<setup, bufVars, sq, pc, loc, got, calls, ioFaults, enterFaults>>

\* A failed request cancels the chain of entries linked after it.
KernelFail ==
  \E i \in DOMAIN kernel :
    LET chain == {j \in i + 1 .. Len(kernel) :
                    \A k \in i + 1 .. j : kernel[k].linked}
        last  == i + Cardinality(chain)
    IN
    /\ Ready(i)
    /\ ioFaults + enterFaults < MaxFaults
    /\ ioFaults' = ioFaults + 1
    /\ kernel' = SubSeq(kernel, 1, i - 1) \o SubSeq(kernel, last + 1, Len(kernel))
    /\ cq' = cq \o [n \in 1 .. last - i + 1 |-> Completion(kernel[i + n - 1], FALSE)]
    /\ UNCHANGED <<setup, bufVars, sq, fileVars, pc, loc, got, rd, calls, enterFaults>>

-----------------------------------------------------------------------------

Step(t) ==
  \/ Poll(t)      \/ Handle(t)    \/ SyncReturn(t) \/ WaitDrain(t)
  \/ WaitCheck(t) \/ FSyncData(t) \/ FSyncReset(t) \/ ReadTake(t)
  \/ ReadCopy(t)

Next ==
  \/ \E t \in Threads :
       \/ Submit(t)    \/ StartPoll(t)  \/ StartSync(t) \/ StartWait(t)
       \/ StartFSync(t) \/ StartRead(t) \/ Step(t)
  \/ KernelComplete
  \/ KernelFail

Spec == Init /\ [][Next]_vars

-----------------------------------------------------------------------------
(* Properties *)

\* Types, one holder of the mutex, and links that have a head.
TypeOK ==
  /\ mem \in [Buffers -> Nat] /\ disk \in [Buffers -> Nat]
  /\ durable \in [Buffers -> Nat]
  /\ busy \subseteq Buffers
  /\ \A b \in Buffers : sqe[b] \subseteq Request
  /\ Len(sq) <= depth
  /\ Range(sq) \cup Range(kernel) \subseteq Request
  /\ Range(cq) \subseteq Cqe
  /\ \A t \in Threads : Range(got[t]) \subseteq Cqe
  /\ pc \in [Threads -> {"idle", "poll", "handle", "sync", "drain", "check",
                         "fsync", "freset", "read", "copy", "dead"}]
  /\ \A t, u \in Threads :
       {pc[t], pc[u]} \subseteq {"sync", "read"} => t = u
  /\ kernel # <<>> => ~kernel[1].linked

Leaves(t, label) == pc[t] = label /\ pc'[t] # label

\* sync_data called with nothing outstanding returns after its own fsync: what
\* was written before is durable, unless that fsync failed.
QuietSyncDurable ==
  [][\A t \in Threads :
       Leaves(t, "sync") /\ loc[t].quiet /\ ~loc[t].fsync =>
         \E c \in Range(cq) :
           /\ c.op = "fsync" /\ c.id = loc[t].id
           /\ c.ok => \A b \in Buffers : durable[b] >= loc[t].before[b]]_vars

\* f_sync that finds nothing but its own write outstanding when it calls sync_data,
\* on a ring where no request has failed, resets its buffer with that write over:
\* it is neither queued nor with the kernel, whatever others did to the buffer
\* between the unlock and the reset.
QuietResetSafe ==
  [][\A t \in Threads :
       Leaves(t, "freset") /\ loc[t].quiet /\ ioFaults = 0 =>
         \A r \in Range(sq) \cup Range(kernel) :
           ~(r.op = "write" /\ r.id = loc[t].id)]_vars

\* What page p held when t called, zero beyond the end of the file.
Before(t, p) == IF p \in Buffers THEN loc[t].before[p] ELSE 0

\* read called with nothing outstanding returns the file's bytes at the offset,
\* and its window is free of the kernel when it is released.
QuietReadCorrect ==
  [][\A t \in Threads :
       Leaves(t, "copy") /\ loc[t].quiet =>
         /\ \A i \in 0 .. loc[t].len - 1 :
              Copied(t, i) = Before(t, (loc[t].offset + i) \div Page)
         /\ \A r \in Range(sq) \cup Range(kernel) :
              ~(r.op = "read" /\ r.id = loc[t].id)]_vars

\* A thread that blocks in submit_and_wait will be woken: its own request is
\* with the kernel, or a completion is there for it to take.
BlockedIsServed ==
  \A t \in Threads : pc[t] \in {"sync", "read"} =>
    \/ cq # <<>>
    \/ \E r \in Range(kernel) : r.of = t /\ r.id = loc[t].id

-----------------------------------------------------------------------------
(* Statements of the documentation *)

\* quik_io.rs, sync_data: "all in-flight submit_buffer writes are guaranteed
\* durable before this returns".
SyncMeansDurable ==
  [][\A t \in Threads : Leaves(t, "sync") =>
       \A b \in Buffers : durable[b] >= loc[t].before[b]]_vars

\* ring.rs, f_sync: "Blocks and waits untill all previously flush data has been
\* persisten"; and reset_buffer, its last step: "Calling this too early (before
\* I/O completion) risks data loss".  When f_sync resets its buffer its own write
\* is over, at least if nothing else was outstanding as it called sync_data.
ResetAfterIO ==
  [][\A t \in Threads : Leaves(t, "freset") /\ loc[t].quiet =>
       \A r \in Range(sq) \cup Range(kernel) :
         ~(r.op = "write" /\ r.id = loc[t].id)]_vars
=============================================================================
