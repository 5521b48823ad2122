----------------------------- MODULE RingWriter -----------------------------
(***************************************************************************)
(* The RingWriter of examples/model.rs: every thread owns a writer with a  *)
(* ring of slots and an io_uring of its own; the writers share the file    *)
(* and the counter file_offset.                                            *)
(*                                                                         *)
(* A writer is used through &mut self, so what it does between two         *)
(* accesses to file_offset or to its io_uring is one step.  The kernel     *)
(* works on the slots' memory at any time.  An append, flush or finish     *)
(* whose io_uring call fails returns its error, and main then ends the     *)
(* thread.                                                                 *)
(***************************************************************************)
EXTENDS Integers, FiniteSets

CONSTANTS
  Writers,          \* the threads, each with its writer
  RingLen,          \* RING_LEN
  Batch,            \* BATCH_SIZE
  Sizes,            \* payload sizes
  SqDepth,          \* entries of a submission queue, 256 in the code
  MaxBytes,         \* bound: bytes given to append by all writers
  MaxFaults         \* bound: failed writes and failed io_uring_enter calls

ASSUME RingWriterAssumption ==
  /\ RingLen \in Nat \ {0}
  /\ Batch \in Nat \ {0}
  /\ Sizes \subseteq 1 .. Batch
  /\ SqDepth \in Nat \ {0}
  /\ {MaxBytes, MaxFaults} \subseteq Nat

Slots == 0 .. RingLen - 1

VARIABLES
  file_offset,   \* the shared counter
  slots,         \* slots[w][i]: state, disk_offset and sealed_len of a slot
  mem,           \* mem[w][i][a]: which byte of w's stream is in the slot, or -1
  head, cursor,  \* per writer: the slot in use and the next free byte in it
  pending,       \* per writer: writes it waits for
  completed,     \* per writer: the CompletedRanges
  sq, kernel, cq,\* per writer: its io_uring
  pc, loc,       \* per writer: program counter and locals
  total,         \* per writer: bytes appended
  given,         \* bytes given to append by all writers
  disk,          \* file contents, a function on the bytes ever written
  bad,           \* ranges whose write failed
  faults

writerVars == <<slots, mem, head, cursor, pending, completed>>
clientVars == <<given, total>>
vars == <<file_offset, writerVars, sq, kernel, cq, pc, loc, clientVars, disk,
          bad, faults>>

CompletedRange == [disk_offset : Nat, sealed_len : Nat]
OpenSlot == [state |-> "Open", disk_offset |-> 0, sealed_len |-> 0]
NoLocals == [len |-> 0, valid_len |-> 0, then |-> "idle"]

Init ==
  /\ file_offset = 0
  /\ slots = [w \in Writers |-> [i \in Slots |-> OpenSlot]]
  /\ mem = [w \in Writers |-> [i \in Slots |-> [a \in 0 .. Batch - 1 |-> -1]]]
  /\ head = [w \in Writers |-> 0]
  /\ cursor = [w \in Writers |-> 0]
  /\ pending = [w \in Writers |-> 0]
  /\ completed = [w \in Writers |-> {}]
  /\ sq = [w \in Writers |-> {}]
  /\ kernel = [w \in Writers |-> {}]
  /\ cq = [w \in Writers |-> {}]
  /\ pc = [w \in Writers |-> "idle"]
  /\ loc = [w \in Writers |-> NoLocals]
  /\ given = 0
  /\ total = [w \in Writers |-> 0]
  /\ disk = <<>>
  /\ bad = {}
  /\ faults = 0

Goto(w, label) == pc' = [pc EXCEPT ![w] = label]

-----------------------------------------------------------------------------
(* append, flush, finish *)

\* Buffer::write of the next n bytes of w's stream at offset a of slot i.
Write(w, i, a, n) ==
  /\ mem' = [mem EXCEPT ![w][i] = [b \in 0 .. Batch - 1 |->
               IF b \in a .. a + n - 1 THEN total[w] + (b - a) ELSE mem[w][i][b]]]
  /\ total' = [total EXCEPT ![w] = total[w] + n]

\* cursor.fetch_add, and the payload fits.
AppendFits(w, n) ==
  /\ cursor[w] + n <= Batch
  /\ cursor' = [cursor EXCEPT ![w] = cursor[w] + n]
  /\ Write(w, head[w], cursor[w], n)
  /\ UNCHANGED <<pc, loc>>

\* The payload does not fit: what was there before the claim is sealed.
AppendOverflows(w, n) ==
  /\ cursor[w] + n > Batch
  /\ cursor' = [cursor EXCEPT ![w] = cursor[w] + n]
  /\ loc' = [loc EXCEPT ![w] = [len |-> n, valid_len |-> cursor[w], then |-> "append"]]
  /\ Goto(w, "seal")
  /\ UNCHANGED <<mem, total>>

Append(w) ==
  /\ pc[w] = "idle"
  /\ \E n \in Sizes :
       /\ given + n <= MaxBytes
       /\ given' = given + n
       /\ AppendFits(w, n) \/ AppendOverflows(w, n)
  /\ UNCHANGED <<file_offset, slots, head, pending, completed, sq, kernel, cq,
                 disk, bad, faults>>

\* Mutation: an empty slot is sealed too.
HasDataAlways(w) == TRUE

HasData(w) == cursor[w] > 0

\* flush and finish seal what the slot holds, if anything.
SealRest(w, then) ==
  /\ pc[w] = "idle"
  /\ \/ /\ HasData(w)
        /\ loc' = [loc EXCEPT ![w] = [len |-> 0, valid_len |-> cursor[w], then |-> then]]
        /\ Goto(w, "seal")
     \/ /\ ~HasData(w)
        /\ Goto(w, then)
        /\ UNCHANGED loc
  /\ UNCHANGED <<file_offset, writerVars, sq, kernel, cq, clientVars, disk, bad,
                 faults>>

Flush(w)  == SealRest(w, "idle")
Finish(w) == SealRest(w, "drain")

-----------------------------------------------------------------------------
(* seal_and_advance *)

\* An io_uring_enter of w fails and its error ends the thread.
EnterFails(w) ==
  /\ faults < MaxFaults
  /\ faults' = faults + 1
  /\ Goto(w, "failed")

\* Mutation: the file offset advances by the width of a slot.
ClaimBatch(w) == file_offset' = file_offset + Batch

\* file_offset.fetch_add(valid_len)
ClaimRange(w) == file_offset' = file_offset + loc[w].valid_len

\* submit_slot: claim the range, mark the slot, push the entry.  A full queue is
\* submitted first; when that fails the slot is marked and nothing is pushed.
SubmitSlot(w) ==
  LET r == [idx |-> head[w], at |-> file_offset, len |-> loc[w].valid_len] IN
  /\ pc[w] = "seal"
  /\ ClaimRange(w)
  /\ slots' = [slots EXCEPT ![w][head[w]] =
                 [state |-> "InFlight", disk_offset |-> r.at, sealed_len |-> r.len]]
  /\ \/ /\ Cardinality(sq[w]) < SqDepth
        /\ sq' = [sq EXCEPT ![w] = sq[w] \cup {r}]
        /\ pending' = [pending EXCEPT ![w] = pending[w] + 1]
        /\ Goto(w, "advance")
        /\ UNCHANGED <<kernel, faults>>
     \/ /\ Cardinality(sq[w]) >= SqDepth
        /\ kernel' = [kernel EXCEPT ![w] = kernel[w] \cup sq[w]]
        /\ sq' = [sq EXCEPT ![w] = {r}]
        /\ pending' = [pending EXCEPT ![w] = pending[w] + 1]
        /\ Goto(w, "advance")
        /\ UNCHANGED faults
     \/ /\ Cardinality(sq[w]) >= SqDepth
        /\ EnterFails(w)
        /\ UNCHANGED <<kernel, sq, pending>>
  /\ UNCHANGED <<mem, head, cursor, completed, cq, loc, clientVars, disk, bad>>

NextSlot(w) == (head[w] + 1) % RingLen

\* Mutation: the next slot is taken without looking at its state.
SlotIsFreeAlways(w) == TRUE

SlotIsFree(w) == slots[w][NextSlot(w)].state = "Open"

\* The next slot is free: move there, and let append write its payload.
Advance(w) ==
  /\ pc[w] = "advance"
  /\ SlotIsFree(w)
  /\ head' = [head EXCEPT ![w] = NextSlot(w)]
  /\ cursor' = [cursor EXCEPT ![w] = loc[w].len]
  /\ loc' = [loc EXCEPT ![w] = NoLocals]
  /\ \/ /\ loc[w].then = "append"
        /\ Write(w, NextSlot(w), 0, loc[w].len)
        /\ Goto(w, "idle")
     \/ /\ loc[w].then # "append"
        /\ Goto(w, loc[w].then)
        /\ UNCHANGED <<mem, total>>
  /\ UNCHANGED <<file_offset, slots, pending, completed, sq, kernel, cq, given,
                 disk, bad, faults>>

\* Mutation: wait without submitting what is queued.
EnterNothing(w) == UNCHANGED <<sq, kernel, faults>> /\ Goto(w, "wait")

\* submit_and_wait submits the queue, then blocks.
Enter(w) ==
  \/ /\ kernel' = [kernel EXCEPT ![w] = kernel[w] \cup sq[w]]
     /\ sq' = [sq EXCEPT ![w] = {}]
     /\ Goto(w, "wait")
     /\ UNCHANGED faults
  \/ /\ EnterFails(w)
     /\ UNCHANGED <<sq, kernel>>

\* The next slot is in flight, or finish has writes to wait for.
SubmitAndWait(w) ==
  /\ \/ pc[w] = "advance" /\ ~SlotIsFree(w)
     \/ pc[w] = "drain" /\ pending[w] > 0
  /\ loc' = [loc EXCEPT ![w].then = IF pc[w] = "drain" THEN "done" ELSE @]
  /\ Enter(w)
  /\ UNCHANGED <<file_offset, writerVars, cq, clientVars, disk, bad>>

\* Mutation: finish waits for one completion as seal_and_advance does.
WantedOne(w) == 1

\* submit_and_wait(1) when the ring is full, submit_and_wait(pending) in finish.
Wanted(w) == IF loc[w].then = "done" THEN pending[w] ELSE 1

\* Mutation: the pending count is left alone.
PendingAfterUnchanged(w) == pending[w]

PendingAfter(w) == pending[w] - Cardinality(cq[w])

\* Mutation: the range reported is the width of the slot.
RangeOfFull(w, c) ==
  [disk_offset |-> slots[w][c.idx].disk_offset, sealed_len |-> Batch]

\* The CompletedRange of a completion: the length comes back in user_data.
RangeOf(w, c) ==
  [disk_offset |-> slots[w][c.idx].disk_offset, sealed_len |-> c.len]

\* reap_all: every completion frees its slot and becomes a CompletedRange,
\* whatever its result is.
Reap(w) ==
  LET done == {c.idx : c \in cq[w]} IN
  /\ pc[w] = "wait"
  /\ Cardinality(cq[w]) >= Wanted(w)
  /\ completed' = [completed EXCEPT ![w] =
                     completed[w] \cup {RangeOf(w, c) : c \in cq[w]}]
  /\ slots' = [slots EXCEPT ![w] = [i \in Slots |->
       IF i \in done THEN [slots[w][i] EXCEPT !.state = "Open", !.sealed_len = 0]
                     ELSE slots[w][i]]]
  /\ pending' = [pending EXCEPT ![w] = PendingAfter(w)]
  /\ cq' = [cq EXCEPT ![w] = {}]
  /\ Goto(w, IF loc[w].then = "done" THEN "done" ELSE "advance")
  /\ UNCHANGED <<file_offset, mem, head, cursor, sq, kernel, loc, clientVars,
                 disk, bad, faults>>

\* finish with nothing in flight.
NothingPending(w) ==
  /\ pc[w] = "drain"
  /\ pending[w] = 0
  /\ Goto(w, "done")
  /\ UNCHANGED <<file_offset, writerVars, sq, kernel, cq, loc, clientVars, disk,
                 bad, faults>>

-----------------------------------------------------------------------------
(* The kernel *)

KernelTakes(w, r, ok) ==
  /\ kernel' = [kernel EXCEPT ![w] = kernel[w] \ {r}]
  /\ cq' = [cq EXCEPT ![w] = cq[w] \cup {[idx |-> r.idx, len |-> r.len, ok |-> ok]}]
  /\ UNCHANGED <<file_offset, writerVars, sq, pc, loc, clientVars>>

\* What the kernel may find in slot i: when the thread has failed, the writer
\* and its slots were dropped with the write in flight.
Found(w, i) ==
  {mem[w][i]} \cup
    IF pc[w] = "failed" THEN {[a \in 0 .. Batch - 1 |-> -1]} ELSE {}

KernelComplete(w) ==
  \E r \in kernel[w] : \E m \in Found(w, r.idx) :
    LET range == r.at .. r.at + r.len - 1 IN
    /\ KernelTakes(w, r, TRUE)
    /\ disk' = [a \in DOMAIN disk \cup range |->
                  IF a \in range THEN <<w, m[a - r.at]>> ELSE disk[a]]
    /\ UNCHANGED <<bad, faults>>

KernelFail(w) ==
  \E r \in kernel[w] :
    /\ faults < MaxFaults
    /\ faults' = faults + 1
    /\ KernelTakes(w, r, FALSE)
    /\ bad' = bad \cup {[disk_offset |-> r.at, sealed_len |-> r.len]}
    /\ UNCHANGED disk

-----------------------------------------------------------------------------

Step(w) ==
  \/ SubmitSlot(w)    \/ Advance(w) \/ SubmitAndWait(w)
  \/ Reap(w)          \/ NothingPending(w)

Next ==
  \E w \in Writers :
    \/ Append(w) \/ Flush(w) \/ Finish(w)
    \/ Step(w)
    \/ KernelComplete(w) \/ KernelFail(w)

Spec == Init /\ [][Next]_vars

\* A writer inside a call is scheduled, and the kernel finishes what it started.
Fairness == \A w \in Writers : WF_vars(Step(w)) /\ WF_vars(KernelComplete(w))

FairSpec == Spec /\ Fairness

-----------------------------------------------------------------------------
(* Properties *)

\* Every variable in its type; submit_slot queues no empty write (flush and
\* finish skip an empty slot) and none longer than a slot.
TypeOK ==
  /\ file_offset \in Nat
  /\ slots \in [Writers -> [Slots -> [state : {"Open", "InFlight"},
                                      disk_offset : Nat, sealed_len : Nat]]]
  /\ mem \in [Writers -> [Slots -> [0 .. Batch - 1 -> Nat \cup {-1}]]]
  /\ head \in [Writers -> Slots]
  /\ cursor \in [Writers -> 0 .. 2 * Batch]
  /\ pending \in [Writers -> Nat]
  /\ \A w \in Writers : completed[w] \subseteq CompletedRange
  /\ \A w \in Writers : sq[w] \cup kernel[w] \subseteq
       [idx : Slots, at : Nat, len : 1 .. Batch]
  /\ \A w \in Writers : cq[w] \subseteq
       [idx : Slots, len : 1 .. Batch, ok : BOOLEAN]
  /\ pc \in [Writers ->
       {"idle", "seal", "advance", "wait", "drain", "done", "failed"}]

InFlight(w) == {i \in Slots : slots[w][i].state = "InFlight"}

\* finish blocks for exactly `pending` completions: the count is the number of
\* slots in flight, and each of them has one entry somewhere in the io_uring.
PendingIsInFlight ==
  \A w \in Writers : pc[w] # "failed" =>
    /\ pending[w] = Cardinality(InFlight(w))
    /\ pending[w] = Cardinality(sq[w]) + Cardinality(kernel[w]) + Cardinality(cq[w])

\* Memory handed to the kernel is not written until its completion is reaped.
InFlightUntouched ==
  [][\A w \in Writers : \A i \in InFlight(w) : mem'[w][i] = mem[w][i]]_vars

Failed(a) == \E r \in bad : a \in r.disk_offset .. r.disk_offset + r.sealed_len - 1

\* When finish has returned, what the completed ranges hold in file order is the
\* writer's stream, whole and in the order of its appends, except where a write
\* failed (reap_all does not look at the result).
FinishedStream ==
  \A w \in Writers : pc[w] = "done" =>
    \E at \in [0 .. total[w] - 1 -> 0 .. file_offset - 1] :
      /\ \A p, q \in 0 .. total[w] - 1 : p < q => at[p] < at[q]
      /\ \A p \in 0 .. total[w] - 1 :
           /\ \E r \in completed[w] :
                at[p] \in r.disk_offset .. r.disk_offset + r.sealed_len - 1
           /\ Failed(at[p]) \/ (at[p] \in DOMAIN disk /\ disk[at[p]] = <<w, p>>)

AsRange(r) == [at |-> r.disk_offset, len |-> r.sealed_len]

Reported == {AsRange(r) : r \in UNION {completed[w] : w \in Writers}}

\* The ranges are those of an abstract log: claimed one after the other in the
\* order of fetch_add, finished by the kernel in any order, and reported with
\* the position and the length they were claimed with.
Log == INSTANCE RangeLog WITH
  end      <- file_offset,
  claimed  <- Reported \cup UNION {{AsRange(slots[w][i]) : i \in InFlight(w)} :
                                   w \in Writers},
  finished <- Reported \cup UNION {{AsRange(slots[w][c.idx]) : c \in cq[w]} :
                                   w \in Writers},
  reported <- Reported

ImplementsRangeLog == Log!Spec

\* Positions reported to main lie apart and leave no gap in the file.
FileTiled == Log!Tiled

\* append, flush and finish return or fail, although seal_and_advance waits for
\* the next slot and finish for all pending writes.
CallsReturn ==
  \A w \in Writers :
    pc[w] \in {"seal", "drain"} ~> pc[w] \in {"idle", "done", "failed"}
=============================================================================
