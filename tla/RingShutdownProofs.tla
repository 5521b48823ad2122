------------------------- MODULE RingShutdownProofs -------------------------
(***************************************************************************)
(* Proofs about the logger's shutdown with one producer p: what its main   *)
(* finds in the file after flush_current and the polls that follow.        *)
(*                                                                         *)
(* Until flush_current the invariants of BufferRingSoloProofs hold.  It    *)
(* breaks two of them: a buffer whose write is in flight gets a second one *)
(* and another address.  What holds from there on is stated below in terms *)
(* of the writes that may still come: each of their ranges is written from *)
(* one buffer only, and no buffer is copied to any more.                   *)
(***************************************************************************)
EXTENDS RingShutdown, BufferRingSoloProofs, WellFoundedInduction

OneEntry == \A b \in Buffers : \A e, f \in sqe[b] : e = f

\* The counters; a buffer stores one entry; no message is empty.
Counted(p) ==
  /\ sent \in [Threads -> Nat]
  /\ submitFaults \in Nat
  /\ OneEntry
  /\ pc[p] \in {"load", "reserve", "cas", "copy"} => loc[p].size > 0
  /\ \A x \in copied : x[2] > 0

-----------------------------------------------------------------------------
(* What a failed submission breaks *)

\* As long as no submission failed, the queue is empty between calls, and every
\* flush is somewhere: with the producer, in the kernel or completed.
Carried(p, b) ==
  \/ pc[p] \in OwnerLabels /\ loc[p].buf = b
  \/ \E r \in kernel : r.buf = b
  \/ \E c \in cq \cup got[p] : c.buf = b

FInv(p) ==
  submitFaults = 0 =>
    sq = {} /\ \A b \in Buffers : word[b].flushing => Carried(p, b)

-----------------------------------------------------------------------------
(* The writes that may still come *)

\* A write of buffer b failed, and is to be repeated from the stored entry.
Failed(p, b) ==
  \/ \E c \in cq \cup got[p] : ~c.ok /\ c.buf = b
  \/ pc[p] = "retry" /\ loc[p].buf = b

\* Buffer b may be written to the k bytes from x.
Pending(p, b, x, k) ==
  \/ \E r \in sq \cup kernel : r.buf = b /\ r.at = x /\ r.len = k
  \/ /\ Failed(p, b) \/ \E r \in sq \cup kernel : r.buf = b
     /\ [at |-> x, len |-> k] \in sqe[b]

Covers(x, k, a) == x <= a /\ a < x + k

\* Whatever is still written to byte a of the file is v.
Agreed(p, a, v) ==
  \A b \in Buffers : \A x, k \in Nat :
    Pending(p, b, x, k) /\ Covers(x, k, a) => a - x < Block /\ mem[b][a - x] = v

OnDisk(a, v) == a \in DOMAIN disk /\ disk[a] = v

\* Byte a of the file is v for good.
Fixed(p, a, v) == Agreed(p, a, v) /\ OnDisk(a, v)

\* The stored entry of buffer b is being written, or will be.
Owed(p, b, e) ==
  Failed(p, b) \/ \E r \in kernel : r.buf = b /\ r.at = e.at /\ r.len = e.len

\* Byte a of the file will be v when all writes are done.
Will(p, a, v) ==
  /\ Agreed(p, a, v)
  /\ \/ OnDisk(a, v)
     \/ \E b \in Buffers : \E e \in sqe[b] : Covers(e.at, e.len, a) /\ Owed(p, b, e)

-----------------------------------------------------------------------------
(* After flush_current *)

\* The threads only poll.
Polls(p) ==
  /\ pc[p] \in {"idle", "poll"} \cup Handling
  /\ loc[p].size = 0
  /\ pc[p] \in Handling => loc[p].mode = "poller"
  /\ got[p] # {} => pc[p] \in Handling
  /\ pc[p] = "reset2" => word[loc[p].buf] = ZeroWord

\* No two writes to come meet in the file, unless they are the same; each is
\* long enough for its buffer.
Ranges(p) ==
  /\ \A b, c \in Buffers : \A x, k, y, l \in Nat :
       Pending(p, b, x, k) /\ Pending(p, c, y, l) =>
         (b = c /\ x = y /\ k = l) \/ Apart(x, k, y, l)
  /\ \A b \in Buffers : \A x, k \in Nat : Pending(p, b, x, k) => word[b].offset <= k

\* Only sealed buffers hold data; every byte of it was copied there.
Holds(b) ==
  /\ word[b].offset <= Block
  /\ word[b].sealed \/ word[b].offset = 0
  /\ \A i \in 0 .. word[b].offset - 1 : mem[b][i] # Empty

\* What a buffer with a successful write holds is fixed somewhere.
Saved(p) ==
  \A b \in Buffers : Done(p, b) =>
    \E x \in Nat : \A i \in 0 .. word[b].offset - 1 : Fixed(p, x + i, mem[b][i])

HeldAt(b, i, m, n) ==
  i + n <= word[b].offset /\ \A j \in 0 .. n - 1 : mem[b][i + j] = <<m, j>>

Held(m, n) == \E b \in Buffers : \E i \in Nat : HeldAt(b, i, m, n)

FixedAt(p, a, m, n) == \A j \in 0 .. n - 1 : Fixed(p, a + j, <<m, j>>)

\* A message is in a buffer, or fixed in the file.
Safe(p) ==
  \A x \in copied : x[2] \in Nat /\
    (Held(x[1], x[2]) \/ \E a \in Nat : FixedAt(p, a, x[1], x[2]))

CInv(p) ==
  /\ Polls(p)
  /\ DOMAIN mem = Buffers
  /\ Ranges(p)
  /\ \A b \in Buffers : Holds(b)
  /\ Saved(p)
  /\ Safe(p)

-----------------------------------------------------------------------------
(* After flush_current, when no submission failed *)

\* Every sealed buffer has a write under way, or a completion to be handled, and
\* a write that may fail has a stored entry.
Carries(p) ==
  /\ sq = {}
  /\ \A b \in Buffers : Failed(p, b) \/ (\E r \in kernel : r.buf = b) => sqe[b] # {}
  /\ \A b \in Buffers : word[b].sealed =>
       \/ \E r \in kernel : r.buf = b
       \/ \E c \in cq \cup got[p] : c.buf = b
       \/ pc[p] \in {"retry", "sendAt", "sendLen", "reset"} /\ loc[p].buf = b

\* What a sealed buffer holds will be at its address.
Placed(p) ==
  \A b \in Buffers : word[b].sealed =>
    \A i \in 0 .. word[b].offset - 1 : Will(p, address[b] + i, mem[b][i])

\* Whether it is reported, and reported under that address.
Sends(p) ==
  LET b == loc[p].buf IN
  /\ pc[p] = "sendLen" /\ word[b].offset > 0 => loc[p].at = address[b]
  /\ pc[p] = "reset" /\ word[b].offset > 0 /\ HasReceiver =>
       [at |-> address[b], len |-> word[b].offset] \in reports

\* What is reported will be in the file.
Promised(p) ==
  \A r \in reports : r.at \in Nat /\ r.len \in Nat /\
    \A i \in 0 .. r.len - 1 : \E v : v # Empty /\ Will(p, r.at + i, v)

WillAt(p, a, m, n) ==
  /\ \A j \in 0 .. n - 1 : Will(p, a + j, <<m, j>>)
  /\ HasReceiver => \E r \in reports : r.at <= a /\ a + n <= r.at + r.len

\* A message is in a buffer, or will be in the file, reported.
Delivered(p) ==
  \A x \in copied :
    Held(x[1], x[2]) \/ \E a \in Nat : WillAt(p, a, x[1], x[2])

EInv(p) ==
  submitFaults = 0 =>
    /\ Carries(p)
    /\ Placed(p)
    /\ Sends(p)
    /\ Promised(p)
    /\ Delivered(p)

-----------------------------------------------------------------------------
(* Until flush_current *)

\* Nothing is counted in a new ring.
LEMMA InitCounted ==
  ASSUME NEW p, OneProducer(p), Init PROVE Counted(p)
  BY DEF Init, OneProducer, Counted, OneEntry

\* A message gets its size, which is not 0, when the client starts it.
LEMMA NextCounted ==
  ASSUME NEW p, OneProducer(p), TInv, Counted(p), [Next]_vars PROVE Counted(p)'
<1> USE DEF bufVars, ringVars, uringVars, clientVars, Goto, At
<1>1. CASE KernelComplete \/ KernelFail \/ UNCHANGED vars
  BY <1>1 DEF KernelComplete, KernelFail, vars, Counted, OneEntry
<1>2. CASE StartMessage(p) \/ StartPoll(p) \/ Step(p)
  <2>1. sent' \in [Threads -> Nat]
    <3>1. StartMessage(p) \/ sent' = sent
      BY <1>2 DEF Step, StartPoll, LoadCurrent, ReserveLoad,
         ReserveCas, Write, DecrementWriters, ClaimFlush, Seal, SealSize, ClaimSlot,
         StoreAddress, RotateLoad, RotateSize, RotateScan, RotateCheck, RotateSwap,
         RotateReserve, RotateAddress, DrainCheck, FlushMark, FlushLen, FlushAt,
         Submit, ResetState, ResetAddress, PollDrain, Reap, Retry, SendAddress,
         SendReport, ReturnOk, ReturnSealed
    <3> QED
      BY <3>1, Producer DEF Counted, StartMessage
  <2>2. submitFaults' \in Nat
    <3>1. \A S : Enter(S) => submitFaults' \in Nat
      BY DEF Enter, Counted
    <3>2. CASE Submit(p) \/ Retry(p)
      BY <3>1, <3>2 DEF Submit, PushEntry, Retry, Counted
    <3>3. CASE ~(Submit(p) \/ Retry(p))
      <4>1. submitFaults' = submitFaults
        BY <1>2, <3>3 DEF Step, StartMessage, StartPoll, LoadCurrent, ReserveLoad,
         ReserveCas, Write, DecrementWriters, ClaimFlush, Seal, SealSize, ClaimSlot,
         StoreAddress, RotateLoad, RotateSize, RotateScan, RotateCheck, RotateSwap,
         RotateReserve, RotateAddress, DrainCheck, FlushMark, FlushLen, FlushAt,
         ResetState, ResetAddress, PollDrain, Reap, SendAddress, SendReport
      <4> QED
        BY <4>1 DEF Counted
    <3> QED
      BY <3>2, <3>3
  <2>3. pc'[p] \in {"load", "reserve", "cas", "copy"} => loc'[p].size > 0
    <3>1. CASE \/ StartMessage(p) \/ StartPoll(p) \/ Write(p) \/ ResetState(p) \/ Reap(p)
               \/ SendAddress(p) \/ SendReport(p) \/ Retry(p)
      BY <3>1, Producer, BufferRingAssumption DEF StartMessage, StartPoll, Write, ResetState,
         Reap, SendAddress, SendReport, Retry, Local
    <3>2. CASE LoadCurrent(p) \/ ReserveLoad(p) \/ ReserveCas(p)
      <4>1. loc'[p].size = loc[p].size /\ pc[p] \in {"load", "reserve", "cas"}
        BY <3>2, Producer DEF LoadCurrent, ReserveLoad, ReserveCas, Local
      <4> QED
        BY <4>1 DEF Counted
    <3>3. CASE PollDrain(p)
      BY <3>3, Producer DEF PollDrain, NoLocals
    <3>4. CASE \/ Seal(p) \/ DecrementWriters(p) \/ DrainCheck(p) \/ ResetAddress(p)
               \/ Submit(p) \/ ClaimFlush(p)
      BY <3>4, Producer DEF Seal, DecrementWriters, DrainCheck, ResetAddress, Submit,
         ClaimFlush, ReturnOk, ReturnSealed
    <3>5. CASE \/ SealSize(p) \/ ClaimSlot(p) \/ StoreAddress(p) \/ RotateLoad(p)
               \/ RotateSize(p) \/ RotateScan(p) \/ RotateCheck(p) \/ RotateSwap(p)
               \/ RotateReserve(p) \/ RotateAddress(p)
      BY <3>5, Producer DEF SealSize, ClaimSlot, StoreAddress, RotateLoad, RotateSize,
         RotateScan, RotateCheck, RotateSwap, RotateReserve, RotateAddress
    <3>6. CASE FlushMark(p) \/ FlushLen(p) \/ FlushAt(p)
      BY <3>6, Producer DEF FlushMark, FlushLen, FlushAt
    <3> QED
      BY <1>2, <3>1, <3>2, <3>3, <3>4, <3>5, <3>6 DEF Step
  <2>4. \A x \in copied' : x[2] > 0
    <3>1. Write(p) \/ copied' = copied
      BY <1>2 DEF Step, StartMessage, StartPoll, LoadCurrent, ReserveLoad,
         ReserveCas, DecrementWriters, ClaimFlush, Seal, SealSize, ClaimSlot,
         StoreAddress, RotateLoad, RotateSize, RotateScan, RotateCheck, RotateSwap,
         RotateReserve, RotateAddress, DrainCheck, FlushMark, FlushLen, FlushAt,
         Submit, ResetState, ResetAddress, PollDrain, Reap, Retry, SendAddress,
         SendReport, ReturnOk, ReturnSealed
    <3> QED
      BY <3>1 DEF Counted, Write
  <2>5. OneEntry'
    <3>1. CASE Submit(p)
      <4>1. \/ sqe' = sqe
            \/ sqe' = [sqe EXCEPT ![loc[p].buf] = {[at |-> loc[p].at, len |-> loc[p].len]}]
        BY <3>1 DEF Submit, PushEntry
      <4> QED
        BY <4>1 DEF Counted, OneEntry, TInv, SharedOK
    <3>2. CASE ~Submit(p)
      <4>1. sqe' = sqe
        BY <1>2, <3>2 DEF Step, StartMessage, StartPoll, LoadCurrent, ReserveLoad,
         ReserveCas, Write, DecrementWriters, ClaimFlush, Seal, SealSize, ClaimSlot,
         StoreAddress, RotateLoad, RotateSize, RotateScan, RotateCheck, RotateSwap,
         RotateReserve, RotateAddress, DrainCheck, FlushMark, FlushLen, FlushAt,
         ResetState, ResetAddress, PollDrain, Reap, Retry, SendAddress, SendReport
      <4> QED
        BY <4>1 DEF Counted, OneEntry
    <3> QED
      BY <3>1, <3>2
  <2> QED
    BY <2>1, <2>2, <2>3, <2>4, <2>5 DEF Counted
<1> QED
  BY <1>1, <1>2, SoloSteps

\* A push finds room in an empty queue, and unless the call fails the kernel has
\* the request.
LEMMA EnterEmpty ==
  ASSUME SqDepth > 0, sq = {}, submitFaults \in Nat
  PROVE  /\ Cardinality(sq) < SqDepth
         /\ \A S : Enter(S) /\ submitFaults' = 0 => sq' = {} /\ kernel' = kernel \cup S
<1>1. Cardinality(sq) = 0
  BY FS_EmptySet
<1> QED
  BY <1>1, BufferRingAssumption DEF Enter

\* A new ring has no flush.
LEMMA InitFInv ==
  ASSUME NEW p, Init PROVE FInv(p)
  BY DEF Init, FInv, ZeroWord

\* The steps that leave every flush with the holder it has, or give it to the one
\* who sets the bit.
LEMMA FQuiet ==
  ASSUME NEW p, OneProducer(p), TInv, FInv(p), UNCHANGED <<sq, kernel, cq, got, submitFaults>>,
         \A b \in Buffers : word'[b].flushing =>
           word[b].flushing \/ (pc'[p] \in OwnerLabels /\ loc'[p].buf = b),
         \A b \in Buffers : word'[b].flushing /\ pc[p] \in OwnerLabels /\ loc[p].buf = b =>
           pc'[p] \in OwnerLabels /\ loc'[p].buf = b
  PROVE  FInv(p)'
  BY DEF FInv, Carried

\* A successful submission hands the producer's flush to the kernel.
LEMMA FSubmit ==
  ASSUME NEW p, OneProducer(p), TInv, LInv(p), FInv(p), Counted(p), SqDepth > 0,
         Submit(p) \/ Retry(p)
  PROVE  FInv(p)'
<1> PICK b \in Buffers : b = loc[p].buf
  BY Producer
<1> USE DEF bufVars, ringVars, uringVars, clientVars, Goto, At
<1> SUFFICES ASSUME submitFaults' = 0
             PROVE  sq' = {} /\ \A c \in Buffers : word'[c].flushing => Carried(p, c)'
  BY DEF FInv
<1>0. \A S : Enter(S) => submitFaults = 0
  BY DEF Enter, Counted
<1>1. submitFaults = 0
  BY <1>0 DEF Submit, PushEntry, Retry
<1>2. sq = {} /\ \A c \in Buffers : word[c].flushing => Carried(p, c)
  BY <1>1 DEF FInv
<1>3. /\ Cardinality(sq) < SqDepth /\ ~(Cardinality(sq) >= SqDepth)
      /\ \A S : Enter(S) => sq' = {} /\ kernel' = kernel \cup S
  <2>1. Cardinality(sq) = 0
    BY <1>2, FS_EmptySet
  <2>2. Cardinality(sq) < SqDepth /\ ~(Cardinality(sq) >= SqDepth)
    BY <2>1, BufferRingAssumption
  <2>3. submitFaults \in Nat
    BY DEF Counted
  <2>4. \A S : Enter(S) /\ submitFaults' = 0 => sq' = {} /\ kernel' = kernel \cup S
    BY <1>2, <2>3, EnterEmpty
  <2> QED
    BY <2>2, <2>4
<1>4. UNCHANGED <<word, cq, got>>
  BY DEF Submit, Retry
<1>5. PICK e : Enter(sq \cup {NewRequest(b, e)})
  <2>1. CASE Submit(p)
    BY <1>3, <2>1 DEF Submit, PushEntry
  <2>2. CASE Retry(p)
    <3>1. Waiting(p, b)
      BY <2>2 DEF Retry, Waiting
    <3>2. sqe[b] = {Entry(b)}
      BY <3>1 DEF LInv, Entries
    <3> QED
      BY <1>3, <2>2, <3>2 DEF Retry
  <2> QED
    BY <2>1, <2>2
<1>6. /\ sq' = {} /\ kernel' = kernel \cup {NewRequest(b, e)}
      /\ NewRequest(b, e).buf = b
  BY <1>2, <1>3, <1>5 DEF NewRequest
<1> QED
  BY <1>2, <1>4, <1>6 DEF Carried

\* Completions change hands.
LEMMA FPoll ==
  ASSUME NEW p, OneProducer(p), TInv, FInv(p), PollDrain(p) \/ Reap(p), WInv(p)
  PROVE  FInv(p)'
<1> USE DEF bufVars, ringVars, uringVars, clientVars, Goto, At
<1>1. UNCHANGED <<sq, kernel, word, submitFaults>> /\ pc[p] \in {"poll", "reap"}
  BY DEF PollDrain, Reap
<1>2. ASSUME NEW b \in Buffers, Carried(p, b) PROVE Carried(p, b)'
  <2>1. CASE PollDrain(p)
    <3>1. cq' \cup got'[p] = cq \cup got[p]
      BY <2>1, Producer DEF PollDrain, WInv, ProducerOK, Handling
    <3> QED
      BY <1>1, <1>2, <3>1 DEF Carried, OwnerLabels
  <2>2. CASE Reap(p)
    <3>1. CASE UNCHANGED <<got, cq>>
      BY <1>1, <1>2, <3>1 DEF Carried, OwnerLabels
    <3>2. ASSUME NEW c \in got[p], got' = [got EXCEPT ![p] = got[p] \ {c}],
                 loc' = [loc EXCEPT ![p].buf = c.buf],
                 pc'[p] \in {"retry", "sendAt", "reset"}, cq' = cq
          PROVE  Carried(p, b)'
      <4>1. loc'[p].buf = c.buf /\ got'[p] = got[p] \ {c}
        BY <3>2, Producer DEF Local
      <4> QED
        BY <1>1, <1>2, <3>2, <4>1 DEF Carried, OwnerLabels
    <3>3. \/ UNCHANGED <<got, cq>>
          \/ \E c \in got[p] : /\ got' = [got EXCEPT ![p] = got[p] \ {c}]
                               /\ loc' = [loc EXCEPT ![p].buf = c.buf]
                               /\ pc'[p] \in {"retry", "sendAt", "reset"} /\ cq' = cq
      BY <2>2, Producer DEF Reap
    <3> QED
      BY <3>1, <3>2, <3>3
  <2> QED
    BY <2>1, <2>2
<1> QED
  BY <1>1, <1>2 DEF FInv

\* The kernel turns a request into its completion.
LEMMA FKernel ==
  ASSUME NEW p, FInv(p), KernelComplete \/ KernelFail \/ UNCHANGED vars
  PROVE  FInv(p)'
<1> USE DEF bufVars, ringVars, uringVars, clientVars
<1>1. CASE UNCHANGED vars
  BY <1>1 DEF vars, FInv, Carried
<1>2. CASE KernelComplete \/ KernelFail
  <2>1. UNCHANGED <<sq, word, got, pc, loc, submitFaults>>
    BY <1>2 DEF KernelComplete, KernelFail
  <2>2. PICK r \in kernel, ok \in BOOLEAN :
          /\ kernel' = kernel \ {r}
          /\ cq' = cq \cup {[id |-> r.id, buf |-> r.buf, ok |-> ok]}
    BY <1>2 DEF KernelComplete, KernelFail
  <2>3. PICK c : c.buf = r.buf /\ cq' = cq \cup {c}
    BY <2>2
  <2>4. \A b \in Buffers : Carried(p, b) => Carried(p, b)'
    BY <2>1, <2>2, <2>3 DEF Carried
  <2> QED
    BY <2>1, <2>4 DEF FInv
<1> QED
  BY <1>1, <1>2

\* Until a submission fails, every flush stays with somebody.
LEMMA NextFInv ==
  ASSUME NEW p, OneProducer(p), SqDepth > 0, SoloInv(p), Counted(p), FInv(p), [Next]_vars
  PROVE  FInv(p)'
<1> PICK l \in Buffers : l = loc[p].buf
  BY Producer DEF SoloInv
<1> USE DEF bufVars, ringVars, uringVars, clientVars, Goto, At, SoloInv
<1>0. word \in [Buffers -> Word]
  BY Producer
<1>1. CASE Submit(p) \/ Retry(p)
  BY <1>1, FSubmit
<1>2. CASE PollDrain(p) \/ Reap(p)
  BY <1>2, FPoll
<1>3. CASE KernelComplete \/ KernelFail \/ UNCHANGED vars
  BY <1>3, FKernel
<1>4. CASE \/ FlushMark(p) \/ FlushLen(p) \/ FlushAt(p) \/ SendAddress(p) \/ SendReport(p)
  <2>1. word' = word
    BY <1>4, WFlush DEF SendAddress, SendReport
  <2>2. UNCHANGED <<sq, kernel, cq, got, submitFaults>> /\ loc'[p].buf = l
        /\ pc'[p] \in OwnerLabels
    BY <1>4, Producer DEF FlushMark, FlushLen, FlushAt, SendAddress, SendReport, Local,
       OwnerLabels
  <2> QED
    BY <2>1, <2>2, FQuiet
<1>5. CASE ClaimFlush(p)
  <2>1. /\ pc[p] = "claim" /\ loc' = loc /\ pc'[p] \in {"flush", "reset"}
        /\ word' = [word EXCEPT ![l] = SetFlushing(word[l])]
    BY <1>5, WClaim
  <2>2. UNCHANGED <<sq, kernel, cq, got, submitFaults>>
    BY <1>5 DEF ClaimFlush
  <2> QED
    BY <1>0, <2>1, <2>2, FQuiet DEF OwnerLabels
<1>6. CASE ResetState(p)
  <2>1. /\ word' = [word EXCEPT ![l] = ZeroWord]
        /\ UNCHANGED <<sq, kernel, cq, got, submitFaults>>
    BY <1>6 DEF ResetState
  <2>2. ~word'[l].flushing /\ \A b \in Buffers : b # l => word'[b] = word[b]
    BY <1>0, <2>1 DEF ZeroWord
  <2> QED
    BY <2>1, <2>2, FQuiet
<1>7. CASE \/ StartMessage(p) \/ StartPoll(p) \/ LoadCurrent(p) \/ ReserveLoad(p)
           \/ Write(p) \/ SealSize(p) \/ ClaimSlot(p) \/ StoreAddress(p)
           \/ RotateLoad(p) \/ RotateSize(p) \/ RotateScan(p) \/ RotateCheck(p)
           \/ RotateSwap(p) \/ RotateReserve(p) \/ RotateAddress(p) \/ DrainCheck(p)
           \/ ResetAddress(p)
  <2>1. /\ UNCHANGED <<sq, kernel, cq, got, submitFaults, word>>
        /\ pc[p] \notin OwnerLabels
    BY <1>7 DEF StartMessage, StartPoll, LoadCurrent, ReserveLoad,
       Write, SealSize, ClaimSlot, StoreAddress, RotateLoad, RotateSize, RotateScan,
       RotateCheck, RotateSwap, RotateReserve, RotateAddress, DrainCheck, ResetAddress,
       OwnerLabels
  <2> QED
    BY <2>1, FQuiet
<1>8. CASE Seal(p) \/ DecrementWriters(p) \/ ReserveCas(p)
  <2>1. UNCHANGED <<sq, kernel, cq, got, submitFaults>> /\ pc[p] \notin OwnerLabels
    BY <1>8 DEF Seal, DecrementWriters, ReserveCas, OwnerLabels
  <2>2. \A b \in Buffers : word'[b].flushing => word[b].flushing
    <3>1. CASE Seal(p)
      <4>1. word' = [word EXCEPT ![l] = SetSealed(word[l])]
        BY <3>1 DEF Seal
      <4>2. SetSealed(word[l]).flushing = word[l].flushing
        BY <1>0, FlagOps
      <4> QED
        BY <1>0, <4>1, <4>2
    <3>2. CASE DecrementWriters(p)
      BY <3>2, WDecrement
    <3>3. CASE ReserveCas(p)
      <4>1. /\ loc[p].seen \in Word /\ loc[p].size \in Nat
            /\ loc[p].seen.offset + loc[p].size <= Block
        BY <3>3, Producer DEF ReserveCas, TInv, ThreadOK, SeenWasOpen
      <4>2. Reserved(loc[p].seen, loc[p].size).flushing = loc[p].seen.flushing
        BY <4>1, ReservedOps
      <4>3. \/ word' = word
            \/ /\ word[l] = loc[p].seen
               /\ word' = [word EXCEPT ![l] = Reserved(loc[p].seen, loc[p].size)]
        BY <3>3 DEF ReserveCas
      <4> QED
        BY <1>0, <4>2, <4>3
    <3> QED
      BY <1>8, <3>1, <3>2, <3>3
  <2> QED
    BY <2>1, <2>2, FQuiet
<1> QED
  BY <1>1, <1>2, <1>3, <1>4, <1>5, <1>6, <1>7, <1>8, SoloSteps DEF Step

-----------------------------------------------------------------------------
(* flush_current *)

\* The least of some naturals is one of them.
LEMMA MinIn ==
  ASSUME NEW S, S \subseteq Nat, S # {} PROVE Min(S) \in S
<1>1. \E x \in S : \A y \in S : ~(<<y, x>> \in OpToRel(<, Nat))
  BY NatLessThanWellFounded, WFMin
<1>2. PICK x \in S : \A y \in S : ~(<<y, x>> \in OpToRel(<, Nat))
  BY <1>1
<1>3. \A y \in S : ~(y < x)
  BY <1>2, Zenon DEF OpToRel
<1>4. \A y \in S : x <= y
  BY <1>3
<1> QED
  BY <1>4 DEF Min

\* Rotation goes to an available buffer, and gives no other an address.
LEMMA Rotation ==
  ASSUME TInv, NEW b \in Buffers, NEW ws \in [Buffers -> Word],
         NEW as \in [Buffers -> Nat], NEW n \in Nat, RotateAfterSeal(b, ws, as, n)
  PROVE  /\ current' \in Buffers /\ next_index' \in Buffers /\ next_address' \in Nat
         /\ address' \in [Buffers -> Nat]
         /\ \A c \in Buffers : ~IsAvailable(ws[c]) => address'[c] = as[c]
<1> DEFINE at(k) == (next_index + k) % RingLen
           found == {k \in 0 .. RingLen - 1 : IsAvailable(ws[at(k)])}
<1> PICK m : m = Min(found)
  OBVIOUS
<1>0. /\ next_index \in Nat /\ next_address \in Nat /\ RingLen \in Nat \ {0}
      /\ next_index \in Buffers /\ current \in Buffers /\ ws[b].offset \in Nat
  BY BufferRingAssumption, WordFields DEF TInv, SharedOK, Buffers
<1>1. found # {} => m \in 0 .. RingLen - 1 /\ IsAvailable(ws[at(m)])
  <2>1. found \subseteq Nat
    BY <1>0
  <2>2. found # {} => Min(found) \in found
    BY <2>1, MinIn
  <2> QED
    BY <2>2
<1>2. \/ found = {} /\ address' = as /\ next_address' = next_address + n
         /\ UNCHANGED <<current, next_index>>
      \/ /\ found # {} /\ current' = at(m) /\ next_index' = NextIndex(at(m))
         /\ address' = [as EXCEPT ![at(m)] = IF as[at(m)] = 0 THEN next_address + n
                                                             ELSE as[at(m)]]
         /\ next_address' = next_address + n + ws[b].offset
  BY DEF RotateAfterSeal
<1>3. \A z \in Nat : z % RingLen \in Buffers
  BY <1>0 DEF Buffers
<1> PICK c : c = at(m)
  OBVIOUS
<1>4. ASSUME found # {} PROVE c \in Buffers /\ IsAvailable(ws[c]) /\ NextIndex(c) \in Buffers
  <2>1. next_index + m \in Nat
    BY <1>0, <1>1, <1>4
  <2>2. c \in Buffers
    BY <1>3, <2>1
  <2> QED
    BY <1>1, <1>4, <2>2, IndexInRing
<1>5. CASE found = {}
  <2>1. address' = as /\ next_address' = next_address + n /\ UNCHANGED <<current, next_index>>
    BY <1>2, <1>5
  <2> HIDE DEF at, found
  <2>2. next_address + n \in Nat
    BY <1>0
  <2>3. UNCHANGED <<current, next_index>> /\ current \in Buffers /\ next_index \in Buffers
    BY <1>0, <2>1
  <2> QED
    BY <2>1, <2>2, <2>3
<1>6. CASE found # {}
  <2>1. /\ current' = c /\ next_index' = NextIndex(c)
        /\ address' = [as EXCEPT ![c] = IF as[c] = 0 THEN next_address + n ELSE as[c]]
        /\ next_address' = next_address + n + ws[b].offset
    BY <1>2, <1>6
  <2> HIDE DEF at, found
  <2>2. c \in Buffers /\ IsAvailable(ws[c]) /\ NextIndex(c) \in Buffers
    BY <1>4, <1>6
  <2>3. next_address + n \in Nat /\ next_address + n + ws[b].offset \in Nat
    BY <1>0
  <2> QED
    BY <2>1, <2>2, <2>3
<1> QED
  BY <1>5, <1>6

\* What flush_current does to buffer b, the current one, when it holds n bytes.
\* The buffer is marked and gets the next part of the file; the other buffers
\* that are not available keep their words and addresses.
LEMMA Flushes ==
  ASSUME TInv, FlushCurrent, NEW b \in Buffers, b = current, NEW n \in Nat,
         n = word[b].offset, n > 0,
         NEW e, e = [at |-> next_address, len |-> NextMultipleOf(n, Page)]
  PROVE  /\ UNCHANGED <<opt, clientVars, pc, loc, got, mem, cq, disk>>
         /\ word' \in [Buffers -> Word]
         /\ HasStore => word' = [word EXCEPT ![b] = SetFlushing(SetSealed(word[b]))]
         /\ ~HasStore => word' = [word EXCEPT ![b] = ZeroWord]
         /\ current' \in Buffers /\ next_index' \in Buffers /\ next_address' \in Nat
         /\ address' \in [Buffers -> Nat]
         /\ HasStore => address'[b] = next_address
         /\ \A c \in Buffers : c # b /\ ~IsAvailable(word[c]) => address'[c] = address[c]
         /\ HasStore => PushEntry(b, e)
         /\ ~HasStore => UNCHANGED <<sqe, serial, sq, kernel, submitFaults>>
<1> DEFINE as == [address EXCEPT ![b] = IF HasStore THEN next_address ELSE 0]
           w  == IF HasStore THEN SetFlushing(SetSealed(word[b])) ELSE ZeroWord
<1>0. word \in [Buffers -> Word] /\ address \in [Buffers -> Nat] /\ next_address \in Nat
  BY DEF TInv, SharedOK
<1>1. /\ UNCHANGED <<opt, clientVars, pc, loc, got, mem, cq, disk>>
      /\ word' = [word EXCEPT ![b] = w]
      /\ RotateAfterSeal(b, word', as, n)
      /\ IF HasStore THEN PushEntry(b, e) ELSE UNCHANGED <<sqe, serial, sq, kernel, submitFaults>>
  BY DEF FlushCurrent, SealAt
<1>2. w \in Word /\ (HasStore => w.sealed)
  <2>1. SetSealed(word[b]) \in Word
    BY <1>0, FlagOps
  <2>2. SetFlushing(SetSealed(word[b])) \in Word
    BY <2>1, FlagOps
  <2>3. SetFlushing(SetSealed(word[b])).sealed
    BY <1>0, <2>1 DEF SetFlushing, SetSealed, Word
  <2>4. ZeroWord \in Word
    BY SpanAssumption DEF ZeroWord, Word
  <2> QED
    BY <2>2, <2>3, <2>4
<1>3. word' \in [Buffers -> Word] /\ word'[b] = w /\ \A c \in Buffers : c # b => word'[c] = word[c]
  BY <1>0, <1>1, <1>2
<1>4. as \in [Buffers -> Nat] /\ (HasStore => as[b] = next_address)
      /\ \A c \in Buffers : c # b => as[c] = address[c]
  BY <1>0
<1>5. /\ current' \in Buffers /\ next_index' \in Buffers /\ next_address' \in Nat
      /\ address' \in [Buffers -> Nat]
      /\ \A c \in Buffers : ~IsAvailable(word'[c]) => address'[c] = as[c]
  <2> PICK ws \in [Buffers -> Word], xs \in [Buffers -> Nat] : ws = word' /\ xs = as
    BY <1>3, <1>4
  <2>1. RotateAfterSeal(b, ws, xs, n)
    BY <1>1
  <2> HIDE DEF as
  <2> QED
    BY <2>1, Rotation
<1>6. HasStore => address'[b] = next_address
  BY <1>2, <1>3, <1>4, <1>5 DEF IsAvailable, IsOpen
<1>7. \A c \in Buffers : c # b /\ ~IsAvailable(word[c]) => address'[c] = address[c]
  BY <1>3, <1>4, <1>5
<1> QED
  BY <1>1, <1>3, <1>5, <1>6, <1>7

\* flush_current keeps the types.
LEMMA FlushTypes ==
  ASSUME TInv, FlushCurrent PROVE TInv'
<1> PICK b \in Buffers, n \in Nat : b = current /\ n = word[b].offset
  BY WordFields DEF TInv, SharedOK
<1> USE DEF bufVars, ringVars, uringVars, clientVars
<1>1. CASE n = 0
  BY <1>1 DEF FlushCurrent, TInv, ThreadOK, SharedOK, SeenWasOpen, ScanBounded
<1>2. CASE n > 0
  <2> PICK e : e = [at |-> next_address, len |-> NextMultipleOf(n, Page)]
    OBVIOUS
  <2>0. e \in Sqe
    BY PaddedNat DEF Sqe, TInv, SharedOK
  <2>1. /\ UNCHANGED <<pc, loc, got, cq>> /\ word' \in [Buffers -> Word]
        /\ current' \in Buffers /\ next_index' \in Buffers /\ next_address' \in Nat
        /\ address' \in [Buffers -> Nat]
        /\ PushEntry(b, e) \/ UNCHANGED <<sqe, serial, sq, kernel, submitFaults>>
    BY <1>2, Flushes
  <2>2. ThreadOK'
    BY <2>1 DEF TInv, ThreadOK, SeenWasOpen, ScanBounded
  <2>3. /\ sqe' \in [Buffers -> SUBSET Sqe] /\ sq' \subseteq Request
        /\ kernel' \subseteq Request /\ serial' \in Nat
    <3>1. CASE UNCHANGED <<sqe, serial, sq, kernel, submitFaults>>
      BY <3>1 DEF TInv, SharedOK
    <3>2. CASE PushEntry(b, e)
      <4>1. NewRequest(b, e) \in Request
        BY <2>0 DEF NewRequest, Request, Sqe, TInv, SharedOK
      <4>2. sq \cup {NewRequest(b, e)} \subseteq Request
        BY <4>1 DEF TInv, SharedOK
      <4> QED
        BY <2>0, <3>2, <4>2, EnterTypes DEF PushEntry, TInv, SharedOK
    <3> QED
      BY <2>1, <3>1, <3>2
  <2>4. SharedOK'
    BY <2>1, <2>3 DEF TInv, SharedOK
  <2> QED
    BY <2>2, <2>4 DEF TInv
<1> QED
  BY <1>1, <1>2

\* Before flush_current, with the producer joined: a buffer is live when it is
\* sealed, and what may still be written of it goes to its own part of the file.
LEMMA AtRest ==
  ASSUME NEW p, OneProducer(p), SoloInv(p), Joined
  PROVE  /\ pc[p] = "idle" /\ loc[p].size = 0 /\ got[p] = {}
         /\ \A b \in Buffers : /\ Place(p, b) = address[b]
                               /\ Live(p, b) <=> word[b].sealed
                               /\ word[b].sealed => word[b].flushing
         /\ \A b \in Buffers : \A x, k \in Nat : Pending(p, b, x, k) =>
              /\ x = address[b] /\ k = Padded(b) /\ word[b].sealed
              /\ sqe[b] = {Entry(b)}
<1> USE DEF SoloInv
<1>1. pc[p] = "idle" /\ loc[p].size = 0 /\ got[p] = {}
  BY Producer DEF Joined, At, WInv, ProducerOK, Handling
<1>2. \A b \in Buffers : /\ Place(p, b) = address[b]
                         /\ Live(p, b) <=> word[b].sealed
                         /\ word[b].sealed => word[b].flushing
  BY <1>1 DEF Place, Live, WInv, WordOK, Sealing
<1>3. ASSUME NEW b \in Buffers, NEW x \in Nat, NEW k \in Nat, Pending(p, b, x, k)
      PROVE  x = address[b] /\ k = Padded(b) /\ word[b].sealed /\ sqe[b] = {Entry(b)}
  <2>1. Waiting(p, b)
    BY <1>3 DEF Pending, Failed, Waiting
  <2>2. sqe[b] = {Entry(b)} /\ word[b].flushing
    BY <2>1, WaitingFlushes DEF LInv, Entries
  <2>3. word[b].sealed
    BY <2>2 DEF WInv, WordOK
  <2>4. CASE \E r \in sq \cup kernel : r.buf = b /\ r.at = x /\ r.len = k
    BY <2>2, <2>3, <2>4 DEF LInv, Entries
  <2>5. CASE [at |-> x, len |-> k] \in sqe[b]
    BY <2>2, <2>3, <2>5 DEF Entry
  <2> QED
    BY <1>3, <2>4, <2>5 DEF Pending
<1> QED
  BY <1>1, <1>2, <1>3

\* flush_current writes buffer b.
Again(b) == b = current /\ word[b].offset > 0

\* With a store, flush_current seals the current buffer at the end of the claimed
\* file, and adds the write of that range to those that may still come.
LEMMA Closes ==
  ASSUME NEW p, OneProducer(p), TInv, HasStore, FlushCurrent
  PROVE  /\ UNCHANGED <<opt, clientVars, pc, loc, got, mem, cq, disk>>
         /\ \A b \in Buffers : word'[b].offset = word[b].offset
         /\ \A b \in Buffers : word'[b].sealed <=> word[b].sealed \/ Again(b)
         /\ \A b \in Buffers : Again(b) => address'[b] = next_address
         /\ \A b \in Buffers : word[b].sealed /\ ~Again(b) => address'[b] = address[b]
         /\ \A b \in Buffers : \A x, k \in Nat : Pending(p, b, x, k)' =>
              \/ Pending(p, b, x, k)
              \/ Again(b) /\ x = next_address /\ k = Padded(b)
         /\ \A b \in Buffers : ~Again(b) => sqe'[b] = sqe[b]
<1> PICK l \in Buffers, n \in Nat : l = current /\ n = word[l].offset
  BY WordFields DEF TInv, SharedOK
<1> USE DEF bufVars, ringVars, uringVars, clientVars
<1>0. word \in [Buffers -> Word] /\ sqe \in [Buffers -> SUBSET Sqe]
  BY DEF TInv, SharedOK
<1>1. CASE n = 0
  <2>1. /\ UNCHANGED <<opt, clientVars, pc, loc, got, mem, cq, disk>>
        /\ UNCHANGED <<word, address, sqe, sq, kernel>>
    BY <1>1 DEF FlushCurrent
  <2>2. \A b \in Buffers : ~Again(b)
    <3>1. ~(word[l].offset > 0)
      BY <1>1
    <3> QED
      BY <3>1 DEF Again
  <2>3. \A b \in Buffers : \A x, k \in Nat : Pending(p, b, x, k)' => Pending(p, b, x, k)
    BY <2>1 DEF Pending, Failed
  <2> QED
    BY <2>1, <2>2, <2>3
<1>2. CASE n > 0
  <2> PICK e : e = [at |-> next_address, len |-> NextMultipleOf(n, Page)]
    OBVIOUS
  <2> PICK r : r = NewRequest(l, e)
    OBVIOUS
  <2>1. /\ UNCHANGED <<opt, clientVars, pc, loc, got, mem, cq, disk>>
        /\ word' = [word EXCEPT ![l] = SetFlushing(SetSealed(word[l]))]
        /\ address'[l] = next_address
        /\ \A c \in Buffers : c # l /\ ~IsAvailable(word[c]) => address'[c] = address[c]
        /\ PushEntry(l, e)
    BY <1>2, Flushes
  <2>2. \A b \in Buffers : Again(b) <=> b = l
    BY <1>2 DEF Again
  <2>3. word'[l].offset = word[l].offset /\ word'[l].sealed
    <3>1. /\ SetSealed(word[l]) \in Word /\ SetSealed(word[l]).offset = word[l].offset
          /\ SetSealed(word[l]).sealed
      BY <1>0, WordOps, FlagOps DEF OneProducer
    <3>2. /\ SetFlushing(SetSealed(word[l])).offset = word[l].offset
          /\ SetFlushing(SetSealed(word[l])).sealed
      BY <3>1, WordOps DEF OneProducer
    <3> QED
      BY <1>0, <2>1, <3>2
  <2>4. \A b \in Buffers : b # l => word'[b] = word[b]
    BY <1>0, <2>1
  <2>5. \/ sqe' = [sqe EXCEPT ![l] = {e}] /\ sq' \cup kernel' = kernel \cup (sq \cup {r})
        \/ UNCHANGED <<sqe, sq, kernel>>
    BY <2>1, EnterMoves DEF PushEntry
  <2>6. \A b \in Buffers : b # l => sqe'[b] = sqe[b]
    BY <1>0, <2>5
  <2>7. r.buf = l /\ r.at = next_address /\ r.len = Padded(l)
    BY DEF NewRequest, Padded
  <2>8. ASSUME NEW b \in Buffers, NEW x \in Nat, NEW k \in Nat, Pending(p, b, x, k)'
        PROVE  Pending(p, b, x, k) \/ (b = l /\ x = next_address /\ k = Padded(l))
    <3>0. UNCHANGED <<cq, got, pc, loc>> /\ (Failed(p, b)' <=> Failed(p, b))
      BY <2>1 DEF Failed
    <3>1. CASE UNCHANGED <<sqe, sq, kernel>>
      BY <2>8, <3>0, <3>1 DEF Pending
    <3>2. CASE sqe' = [sqe EXCEPT ![l] = {e}] /\ sq' \cup kernel' = kernel \cup (sq \cup {r})
      <4>0. sqe'[l] = {e} /\ \A s \in sq' \cup kernel' : s = r \/ s \in sq \cup kernel
        BY <1>0, <3>2
      <4>1. CASE \E s \in sq' \cup kernel' : s.buf = b /\ s.at = x /\ s.len = k
        BY <2>7, <4>0, <4>1 DEF Pending
      <4>2. CASE /\ Failed(p, b)' \/ \E s \in sq' \cup kernel' : s.buf = b
                 /\ [at |-> x, len |-> k] \in sqe'[b]
        <5>1. CASE b = l
          <6>1. [at |-> x, len |-> k] = e
            BY <4>0, <4>2, <5>1
          <6>2. x = e.at /\ k = e.len
            BY <6>1
          <6> QED
            BY <5>1, <6>2 DEF Padded
        <5>2. CASE b # l
          BY <2>6, <2>7, <3>0, <4>0, <4>2, <5>2 DEF Pending
        <5> QED
          BY <5>1, <5>2
      <4> QED
        BY <2>8, <4>1, <4>2 DEF Pending
    <3> QED
      BY <2>5, <3>1, <3>2
  <2>9. \A b \in Buffers : word[b].sealed => ~IsAvailable(word[b])
    BY DEF IsAvailable, IsOpen
  <2>10. \A b \in Buffers : word'[b].offset = word[b].offset
    BY <2>3, <2>4
  <2>11. \A b \in Buffers : word'[b].sealed <=> word[b].sealed \/ Again(b)
    BY <2>2, <2>3, <2>4
  <2> QED
    BY <2>1, <2>2, <2>6, <2>8, <2>9, <2>10, <2>11
<1> QED
  BY <1>1, <1>2

\* What is settled or in a live part before flush_current is safe from the writes
\* that may come after it.
LEMMA CloseAgreed ==
  ASSUME NEW p, OneProducer(p), SoloInv(p), HasStore, FlushCurrent
  PROVE  /\ \A a, n \in Nat : Settled(p, a, n) =>
              \A j \in 0 .. n - 1 : \A v : Agreed(p, a + j, v)'
         /\ \A b \in Buffers : word[b].sealed =>
              \A i \in 0 .. word[b].offset - 1 : \A a \in Nat :
                a = address[b] + i => Agreed(p, a, mem[b][i])'
         /\ \A b \in Buffers : Again(b) =>
              \A i \in 0 .. word[b].offset - 1 : \A a \in Nat :
                a = next_address + i => Agreed(p, a, mem[b][i])'
<1> USE DEF SoloInv
<1>0. Joined
  BY DEF FlushCurrent
<1>1. /\ next_address \in Nat /\ Block \in Nat /\ mem' = mem
      /\ \A b \in Buffers : /\ word[b].offset \in Nat /\ word[b].offset <= Block
                            /\ word[b].offset <= Padded(b) /\ Padded(b) \in Nat
                            /\ address[b] \in Nat
  BY SizeFits, BufferRingAssumption, Closes DEF TInv, SharedOK
<1>2. \A b \in Buffers : /\ Place(p, b) = address[b]
                         /\ Live(p, b) <=> word[b].sealed
  BY <1>0, AtRest
<1>3. /\ \A b \in Buffers : word[b].sealed => address[b] + Padded(b) <= next_address
      /\ \A b, c \in Buffers : word[b].sealed /\ word[c].sealed /\ b # c =>
           Apart(address[b], Padded(b), address[c], Padded(c))
  BY <1>2 DEF LInv, Layout
<1>4. \A c \in Buffers : \A y, l \in Nat : Pending(p, c, y, l)' =>
        \/ word[c].sealed /\ y = address[c] /\ l = Padded(c)
        \/ Again(c) /\ y = next_address /\ l = Padded(c)
  BY <1>0, AtRest, Closes
<1>5. ASSUME NEW a \in Nat, NEW n \in Nat, Settled(p, a, n), NEW j \in 0 .. n - 1, NEW v
      PROVE  Agreed(p, a + j, v)'
  <2> SUFFICES ASSUME NEW c \in Buffers, NEW y \in Nat, NEW l \in Nat,
                      Pending(p, c, y, l)', Covers(y, l, a + j)
               PROVE  FALSE
    BY DEF Agreed, Covers
  <2>1. a + n <= next_address /\ (word[c].sealed => Apart(a, n, address[c], Padded(c)))
    BY <1>2, <1>5 DEF Settled
  <2> QED
    BY <1>1, <1>4, <1>5, <2>1 DEF Covers, Apart
<1>6. ASSUME NEW b \in Buffers, word[b].sealed, NEW i \in 0 .. word[b].offset - 1,
             NEW a \in Nat, a = address[b] + i
      PROVE  Agreed(p, a, mem[b][i])'
  <2> SUFFICES ASSUME NEW c \in Buffers, NEW y \in Nat, NEW l \in Nat,
                      Pending(p, c, y, l)', Covers(y, l, a)
               PROVE  a - y < Block /\ mem[c][a - y] = mem[b][i]
    BY <1>1 DEF Agreed, Covers
  <2>1. CASE word[c].sealed /\ y = address[c] /\ l = Padded(c)
    <3>1. b = c
      BY <1>1, <1>3, <1>6, <2>1 DEF Covers, Apart
    <3>2. a - y = i /\ i < Block
      BY <1>1, <1>6, <2>1, <3>1
    <3> QED
      BY <3>1, <3>2
  <2>2. CASE y = next_address
    BY <1>1, <1>3, <1>6, <2>2 DEF Covers
  <2> QED
    BY <1>4, <2>1, <2>2
<1>7. ASSUME NEW b \in Buffers, Again(b), NEW i \in 0 .. word[b].offset - 1,
             NEW a \in Nat, a = next_address + i
      PROVE  Agreed(p, a, mem[b][i])'
  <2> SUFFICES ASSUME NEW c \in Buffers, NEW y \in Nat, NEW l \in Nat,
                      Pending(p, c, y, l)', Covers(y, l, a)
               PROVE  a - y < Block /\ mem[c][a - y] = mem[b][i]
    BY <1>1 DEF Agreed, Covers
  <2>1. CASE word[c].sealed /\ y = address[c] /\ l = Padded(c)
    BY <1>1, <1>3, <1>7, <2>1 DEF Covers
  <2>2. CASE Again(c) /\ y = next_address
    <3>1. b = c
      BY <1>7, <2>2 DEF Again
    <3>2. a - y = i /\ i < Block
      BY <1>1, <1>7, <2>2
    <3> QED
      BY <3>1, <3>2
  <2> QED
    BY <1>4, <2>1, <2>2
<1> QED
  BY <1>5, <1>6, <1>7

\* The invariant after flush_current holds right after it.
LEMMA CloseCInv ==
  ASSUME NEW p, OneProducer(p), SoloInv(p), DInv(p), HasStore, FlushCurrent
  PROVE  CInv(p)'
<1> USE DEF SoloInv
<1>0. Joined /\ Data(p) /\ MemOK
  BY DEF FlushCurrent, DInv
<1>1. /\ UNCHANGED <<pc, loc, got, mem, cq, disk, copied>>
      /\ \A b \in Buffers : word'[b].offset = word[b].offset
      /\ \A b \in Buffers : word'[b].sealed <=> word[b].sealed \/ Again(b)
  BY Closes DEF clientVars
<1>2. /\ next_address \in Nat /\ Block \in Nat
      /\ \A b \in Buffers : /\ word[b].offset \in Nat /\ word[b].offset <= Block
                            /\ word[b].offset <= Padded(b) /\ Padded(b) \in Nat
                            /\ address[b] \in Nat
  BY SizeFits, BufferRingAssumption DEF TInv, SharedOK
<1>3. /\ pc[p] = "idle" /\ loc[p].size = 0 /\ got[p] = {}
      /\ \A b \in Buffers : Place(p, b) = address[b] /\ (Live(p, b) <=> word[b].sealed)
  BY <1>0, AtRest
<1>4. Polls(p)'
  BY <1>1, <1>3 DEF Polls, Handling
<1>5. Ranges(p)'
  <2>1. \A c \in Buffers : \A y, l \in Nat : Pending(p, c, y, l)' =>
          \/ word[c].sealed /\ y = address[c] /\ l = Padded(c)
          \/ Again(c) /\ y = next_address /\ l = Padded(c)
    BY <1>0, AtRest, Closes
  <2>2. /\ \A b \in Buffers : word[b].sealed => address[b] + Padded(b) <= next_address
        /\ \A b, c \in Buffers : word[b].sealed /\ word[c].sealed /\ b # c =>
             Apart(address[b], Padded(b), address[c], Padded(c))
    BY <1>3 DEF LInv, Layout
  <2>3. \A b \in Buffers : \A x, k \in Nat : Pending(p, b, x, k)' => word'[b].offset <= k
    BY <1>1, <1>2, <2>1
  <2>4. ASSUME NEW b \in Buffers, NEW c \in Buffers, NEW x \in Nat, NEW k \in Nat,
               NEW y \in Nat, NEW l \in Nat, Pending(p, b, x, k)', Pending(p, c, y, l)'
        PROVE  (b = c /\ x = y /\ k = l) \/ Apart(x, k, y, l)
    <3>1. CASE word[b].sealed /\ x = address[b] /\ k = Padded(b)
      BY <1>2, <2>1, <2>2, <2>4, <3>1 DEF Apart
    <3>2. CASE Again(b) /\ x = next_address /\ k = Padded(b)
      <4>1. CASE word[c].sealed /\ y = address[c] /\ l = Padded(c)
        BY <1>2, <2>2, <3>2, <4>1 DEF Apart
      <4>2. CASE Again(c) /\ y = next_address /\ l = Padded(c)
        BY <3>2, <4>2 DEF Again
      <4> QED
        BY <2>1, <2>4, <4>1, <4>2
    <3> QED
      BY <2>1, <2>4, <3>1, <3>2
  <2> QED
    BY <2>3, <2>4 DEF Ranges
<1>6. ASSUME NEW b \in Buffers PROVE Holds(b)'
  <2>1. \A i \in 0 .. word[b].offset - 1 : mem[b][i] # Empty
    BY <1>0, <1>3 DEF Data, Filled
  <2>2. word'[b].sealed \/ word'[b].offset = 0
    BY <1>1, <1>2 DEF WInv, WordOK, Again
  <2> QED
    BY <1>1, <1>2, <2>1, <2>2 DEF Holds
<1>7. Saved(p)'
  <2> SUFFICES ASSUME NEW b \in Buffers, Done(p, b)
               PROVE  \E x \in Nat : \A i \in 0 .. word'[b].offset - 1 : Fixed(p, x + i, mem[b][i])'
    BY <1>1 DEF Saved, Done
  <2>1. word[b].sealed /\ Written(b)
    BY <1>0, <1>3, DoneLive DEF Data, Completed
  <2> PICK x \in Nat : x = address[b]
    BY <1>2
  <2>2. ASSUME NEW i \in 0 .. word[b].offset - 1 PROVE Fixed(p, x + i, mem[b][i])'
    <3>1. Agreed(p, x + i, mem[b][i])'
      <4> PICK a \in Nat : a = x + i
        BY <1>2
      <4>1. Agreed(p, a, mem[b][i])'
        BY <2>1, <2>2, CloseAgreed
      <4> QED
        BY <4>1
    <3>2. OnDisk(x + i, mem[b][i])'
      BY <1>1, <2>1, <2>2 DEF Written, OnDisk
    <3> QED
      BY <3>1, <3>2 DEF Fixed
  <2> QED
    BY <1>1, <2>2
<1>8. Safe(p)'
  <2> SUFFICES ASSUME NEW y \in copied
               PROVE  /\ y[2] \in Nat
                      /\ Held(y[1], y[2])' \/ \E a \in Nat : FixedAt(p, a, y[1], y[2])'
    BY <1>1 DEF Safe
  <2>1. PICK n \in Nat, m \in {y[1]} : y[2] = n /\ y[1] = m /\ Somewhere(p, m, n)
    BY <1>0 DEF Data, Survives
  <2>2. ASSUME NEW b \in Buffers, NEW i \in 0 .. Block, InBuffer(p, b, i, m, n)
        PROVE  Held(m, n)'
    <3>1. i \in Nat /\ HeldAt(b, i, m, n)'
      BY <1>1, <1>2, <2>2 DEF InBuffer, HeldAt
    <3> QED
      BY <3>1 DEF Held
  <2>3. ASSUME NEW a \in 0 .. next_address, InFile(p, a, m, n)
        PROVE  a \in Nat /\ FixedAt(p, a, m, n)'
    <3>1. a \in Nat /\ Settled(p, a, n)
      BY <1>2, <2>3 DEF InFile
    <3>2. ASSUME NEW j \in 0 .. n - 1 PROVE Fixed(p, a + j, <<m, j>>)'
      <4>1. Agreed(p, a + j, <<m, j>>)'
        BY <3>1, <3>2, CloseAgreed
      <4> QED
        BY <1>1, <2>3, <3>2, <4>1 DEF InFile, Fixed, OnDisk
    <3> QED
      BY <3>1, <3>2 DEF FixedAt
  <2>4. Held(m, n)' \/ \E a \in Nat : FixedAt(p, a, m, n)'
    BY <2>1, <2>2, <2>3 DEF Somewhere
  <2> QED
    BY <2>1, <2>4
<1>9. (DOMAIN mem = Buffers)'
  BY <1>0, <1>1 DEF MemOK
<1> QED
  BY <1>4, <1>5, <1>6, <1>7, <1>8, <1>9 DEF CInv

\* When the submission did not fail, the kernel has flush_current's request.
LEMMA ClosePush ==
  ASSUME NEW p, OneProducer(p), TInv, HasStore, FlushCurrent, SqDepth > 0,
         Counted(p), FInv(p), submitFaults' = 0
  PROVE  /\ submitFaults = 0 /\ sq' = {} /\ kernel \subseteq kernel'
         /\ \A b \in Buffers : Again(b) =>
              \E r \in kernel' : \E e \in sqe'[b] :
                /\ r.buf = b /\ r.at = e.at /\ r.len = e.len
                /\ e.at = next_address /\ e.len = Padded(b)
<1> PICK l \in Buffers, n \in Nat : l = current /\ n = word[l].offset
  BY WordFields DEF TInv, SharedOK
<1> USE DEF bufVars, ringVars, uringVars, clientVars
<1>0. sqe \in [Buffers -> SUBSET Sqe] /\ submitFaults \in Nat
  BY DEF TInv, SharedOK, Counted
<1>1. CASE n = 0
  <2>1. UNCHANGED <<sq, kernel, submitFaults>>
    BY <1>1 DEF FlushCurrent
  <2>2. \A b \in Buffers : ~Again(b)
    <3>1. ~(word[l].offset > 0)
      BY <1>1
    <3> QED
      BY <3>1 DEF Again
  <2> QED
    BY <2>1, <2>2 DEF FInv
<1>2. CASE n > 0
  <2> PICK e : e = [at |-> next_address, len |-> NextMultipleOf(n, Page)]
    OBVIOUS
  <2> PICK r : r = NewRequest(l, e)
    OBVIOUS
  <2>1. PushEntry(l, e)
    BY <1>2, Flushes
  <2>2. \A S : Enter(S) => submitFaults = 0
    BY <1>0 DEF Enter
  <2>3. submitFaults = 0
    BY <2>1, <2>2 DEF PushEntry
  <2>4. sq = {}
    BY <2>3 DEF FInv
  <2>5. Cardinality(sq) < SqDepth /\ ~(Cardinality(sq) >= SqDepth)
    <3>1. Cardinality(sq) = 0
      BY <2>4, FS_EmptySet
    <3> QED
      BY <3>1, BufferRingAssumption
  <2>6. sqe' = [sqe EXCEPT ![l] = {e}] /\ Enter(sq \cup {r})
    BY <2>1, <2>5 DEF PushEntry
  <2>7. sq' = {} /\ kernel' = kernel \cup {r}
    BY <1>0, <2>4, <2>6, EnterEmpty
  <2>8. /\ r.buf = l /\ r.at = e.at /\ r.len = e.len
        /\ e.at = next_address /\ e.len = Padded(l)
    BY DEF NewRequest, Padded
  <2>9. e \in sqe'[l] /\ r \in kernel' /\ \A b \in Buffers : Again(b) => b = l
    BY <1>0, <2>6, <2>7 DEF Again
  <2> QED
    BY <2>3, <2>7, <2>8, <2>9
<1> QED
  BY <1>1, <1>2

\* What every buffer sealed after flush_current holds will be at its address.
LEMMA ClosePlaced ==
  ASSUME NEW p, OneProducer(p), SoloInv(p), DInv(p), HasStore, FlushCurrent, SqDepth > 0,
         Counted(p), FInv(p), submitFaults' = 0
  PROVE  Placed(p)'
<1> USE DEF SoloInv
<1>0. Joined /\ Data(p)
  BY DEF FlushCurrent, DInv
<1>1. /\ UNCHANGED <<pc, loc, got, mem, cq, disk>>
      /\ \A b \in Buffers : word'[b].offset = word[b].offset
      /\ \A b \in Buffers : word'[b].sealed <=> word[b].sealed \/ Again(b)
  BY Closes DEF clientVars
<1>2. /\ next_address \in Nat
      /\ \A b \in Buffers : /\ word[b].offset \in Nat
                            /\ word[b].offset <= Padded(b) /\ Padded(b) \in Nat
                            /\ address[b] \in Nat
  BY SizeFits DEF TInv, SharedOK
<1>3. /\ pc[p] = "idle" /\ got[p] = {}
      /\ \A b \in Buffers : word[b].sealed => word[b].flushing
  BY <1>0, AtRest
<1>4. ASSUME NEW b \in Buffers, Again(b), NEW i \in 0 .. word[b].offset - 1,
             NEW a \in Nat, a = next_address + i
      PROVE  Will(p, a, mem[b][i])'
  <2>1. Agreed(p, a, mem[b][i])'
    BY <1>4, CloseAgreed
  <2>2. PICK r \in kernel', e \in sqe'[b] :
          /\ r.buf = b /\ r.at = e.at /\ r.len = e.len
          /\ e.at = next_address /\ e.len = Padded(b)
    BY <1>4, ClosePush
  <2>3. Covers(e.at, e.len, a)
    BY <1>2, <1>4, <2>2 DEF Covers
  <2>4. Owed(p, b, e)'
    BY <2>2 DEF Owed
  <2> QED
    BY <2>1, <2>3, <2>4 DEF Will
<1>5. ASSUME NEW b \in Buffers, word[b].sealed, ~Again(b), NEW i \in 0 .. word[b].offset - 1,
             NEW a \in Nat, a = address[b] + i
      PROVE  Will(p, a, mem[b][i])'
  <2>1. Agreed(p, a, mem[b][i])'
    BY <1>5, CloseAgreed
  <2>2. sqe'[b] = sqe[b] /\ kernel \subseteq kernel'
    BY <1>5, Closes, ClosePush
  <2>3. (\E r \in kernel : r.buf = b) \/ (\E c \in cq : c.buf = b)
    <3>1. Carried(p, b)
      BY <1>3, <1>5, ClosePush DEF FInv
    <3> QED
      BY <1>3, <3>1 DEF Carried, OwnerLabels
  <2>4. sqe[b] = {Entry(b)}
    BY <2>3 DEF LInv, Entries, Waiting
  <2>5. CASE \E c \in cq : c.ok /\ c.buf = b
    <3>1. Written(b)
      BY <1>0, <2>5 DEF Data, Completed, Done
    <3>2. OnDisk(a, mem[b][i])'
      BY <1>1, <1>5, <3>1 DEF Written, OnDisk
    <3> QED
      BY <2>1, <3>2 DEF Will
  <2>6. CASE (\E r \in kernel : r.buf = b) \/ (\E c \in cq : ~c.ok /\ c.buf = b)
    <3> PICK e : e = Entry(b)
      OBVIOUS
    <3>1. e \in sqe'[b] /\ e.at = address[b] /\ e.len = Padded(b)
      BY <2>2, <2>4 DEF Entry
    <3>2. Covers(e.at, e.len, a)
      BY <1>2, <1>5, <3>1 DEF Covers
    <3>3. Owed(p, b, e)'
      <4>1. CASE \E c \in cq : ~c.ok /\ c.buf = b
        BY <1>1, <4>1 DEF Owed, Failed
      <4>2. ASSUME NEW r \in kernel, r.buf = b PROVE Owed(p, b, e)'
        BY <2>2, <3>1, <4>2 DEF LInv, Entries, Owed
      <4> QED
        BY <2>6, <4>1, <4>2
    <3> QED
      BY <2>1, <3>1, <3>2, <3>3 DEF Will
  <2> QED
    BY <2>3, <2>5, <2>6
<1> SUFFICES ASSUME NEW b \in Buffers, word'[b].sealed, NEW i \in 0 .. word'[b].offset - 1
             PROVE  Will(p, address[b] + i, mem[b][i])'
  BY DEF Placed
<1>6. i \in 0 .. word[b].offset - 1 /\ i \in Nat
  BY <1>1, <1>2
<1>7. CASE Again(b)
  <2>1. address'[b] = next_address
    BY <1>7, Closes
  <2> PICK a \in Nat : a = address'[b] + i
    BY <1>2, <1>6, <2>1
  <2>2. Will(p, a, mem[b][i])'
    BY <1>4, <1>6, <1>7, <2>1
  <2> QED
    BY <2>2
<1>8. CASE ~Again(b)
  <2>1. word[b].sealed /\ address'[b] = address[b]
    BY <1>1, <1>8, Closes
  <2> PICK a \in Nat : a = address'[b] + i
    BY <1>2, <1>6, <2>1
  <2>2. Will(p, a, mem[b][i])'
    BY <1>5, <1>6, <1>8, <2>1
  <2> QED
    BY <2>2
<1> QED
  BY <1>7, <1>8

\* What holds after flush_current unless a submission failed, holds right after it.
LEMMA CloseEInv ==
  ASSUME NEW p, OneProducer(p), SoloInv(p), DInv(p), HasStore, FlushCurrent, SqDepth > 0,
         Counted(p), FInv(p)
  PROVE  EInv(p)'
<1> USE DEF SoloInv
<1> SUFFICES ASSUME submitFaults' = 0
             PROVE  Carries(p)' /\ Placed(p)' /\ Sends(p)' /\ Promised(p)' /\ Delivered(p)'
  BY DEF EInv
<1>0. Joined /\ Data(p)
  BY DEF FlushCurrent, DInv
<1>1. /\ UNCHANGED <<opt, pc, loc, got, mem, cq, disk, copied, reports>>
      /\ \A b \in Buffers : word'[b].offset = word[b].offset
      /\ \A b \in Buffers : word'[b].sealed <=> word[b].sealed \/ Again(b)
  BY Closes DEF clientVars
<1>2. next_address \in Nat
  BY DEF TInv, SharedOK
<1>3. /\ pc[p] = "idle" /\ got[p] = {}
      /\ \A b \in Buffers : word[b].sealed => word[b].flushing
  BY <1>0, AtRest
<1>4. Carries(p)'
  <2>1. \A b \in Buffers : word[b].sealed =>
          (\E r \in kernel : r.buf = b) \/ (\E c \in cq : c.buf = b)
    BY <1>3, ClosePush DEF FInv, Carried, OwnerLabels
  <2>2. \A b \in Buffers : Again(b) => \E r \in kernel' : r.buf = b
    BY ClosePush
  <2>3. sq' = {} /\ kernel \subseteq kernel'
    BY ClosePush
  <2>4. \A b \in Buffers : \A x, k \in Nat : Pending(p, b, x, k) => sqe[b] # {}
    BY <1>0, AtRest
  <2>5. ASSUME NEW b \in Buffers, Failed(p, b)' \/ \E r \in kernel' : r.buf = b
        PROVE  sqe'[b] # {}
    <3>1. CASE Again(b)
      BY <3>1, ClosePush
    <3>2. CASE ~Again(b)
      <4>1. sqe'[b] = sqe[b]
        BY <3>2, Closes
      <4>2. ASSUME Failed(p, b)' PROVE sqe[b] # {}
        <5>1. Failed(p, b)
          BY <1>1, <4>2 DEF Failed
        <5>2. Waiting(p, b)
          BY <5>1 DEF Failed, Waiting
        <5> QED
          BY <5>2 DEF LInv, Entries
      <4>3. ASSUME NEW r \in kernel', r.buf = b PROVE sqe[b] # {}
        <5>1. r \in Request /\ r.at \in Nat /\ r.len \in Nat
          BY <4>3, FlushTypes DEF TInv, SharedOK, Request
        <5>2. Pending(p, b, r.at, r.len)'
          BY <4>3 DEF Pending
        <5>3. Pending(p, b, r.at, r.len)
          BY <3>2, <5>1, <5>2, Closes
        <5> QED
          BY <2>4, <5>1, <5>3
      <4> QED
        BY <2>5, <4>1, <4>2, <4>3
    <3> QED
      BY <3>1, <3>2
  <2> QED
    BY <1>1, <2>1, <2>2, <2>3, <2>5 DEF Carries
<1>5. Placed(p)'
  BY ClosePlaced
<1>6. Sends(p)'
  BY <1>1, <1>3 DEF Sends
<1>7. Promised(p)'
  <2> SUFFICES ASSUME NEW r \in reports
               PROVE  /\ r.at \in Nat /\ r.len \in Nat
                      /\ \A i \in 0 .. r.len - 1 : \E v : v # Empty /\ Will(p, r.at + i, v)'
    BY <1>1 DEF Promised
  <2>1. /\ r.at \in Nat /\ r.len \in Nat /\ Settled(p, r.at, r.len)
        /\ \A i \in 0 .. r.len - 1 : r.at + i \in DOMAIN disk /\ disk[r.at + i] # Empty
    BY <1>0 DEF Data, Reported
  <2>2. ASSUME NEW i \in 0 .. r.len - 1 PROVE \E v : v # Empty /\ Will(p, r.at + i, v)'
    <3> PICK v : v = disk[r.at + i]
      OBVIOUS
    <3>1. Agreed(p, r.at + i, v)'
      BY <2>1, <2>2, CloseAgreed
    <3>2. v # Empty /\ OnDisk(r.at + i, v)'
      BY <1>1, <2>1, <2>2 DEF OnDisk
    <3> QED
      BY <3>1, <3>2 DEF Will
  <2> QED
    BY <2>1, <2>2
<1>8. Delivered(p)'
  <2> SUFFICES ASSUME NEW y \in copied
               PROVE  Held(y[1], y[2])' \/ \E a \in Nat : WillAt(p, a, y[1], y[2])'
    BY <1>1 DEF Delivered
  <2>1. PICK n \in Nat, m \in {y[1]} : y[2] = n /\ y[1] = m /\ Somewhere(p, m, n)
    BY <1>0 DEF Data, Survives
  <2>2. ASSUME NEW b \in Buffers, NEW i \in 0 .. Block, InBuffer(p, b, i, m, n)
        PROVE  Held(m, n)'
    <3>1. i \in Nat /\ HeldAt(b, i, m, n)'
      BY <1>1, <2>2, BufferRingAssumption DEF InBuffer, HeldAt
    <3> QED
      BY <3>1 DEF Held
  <2>3. ASSUME NEW a \in 0 .. next_address, InFile(p, a, m, n)
        PROVE  a \in Nat /\ WillAt(p, a, m, n)'
    <3>1. a \in Nat /\ Settled(p, a, n)
      BY <1>2, <2>3 DEF InFile
    <3>2. ASSUME NEW j \in 0 .. n - 1 PROVE Will(p, a + j, <<m, j>>)'
      <4>1. Agreed(p, a + j, <<m, j>>)'
        BY <3>1, <3>2, CloseAgreed
      <4>2. OnDisk(a + j, <<m, j>>)'
        BY <1>1, <2>3, <3>2 DEF InFile, OnDisk
      <4> QED
        BY <4>1, <4>2 DEF Will
    <3>3. (HasReceiver => \E r \in reports : r.at <= a /\ a + n <= r.at + r.len)'
      BY <1>1, <2>3 DEF InFile, HasReceiver
    <3> QED
      BY <3>1, <3>2, <3>3 DEF WillAt
  <2>4. Held(m, n)' \/ \E a \in Nat : WillAt(p, a, m, n)'
    BY <2>1, <2>2, <2>3 DEF Somewhere
  <2> QED
    BY <2>1, <2>4
<1> QED
  BY <1>4, <1>5, <1>6, <1>7, <1>8

-----------------------------------------------------------------------------
(* The polls after flush_current *)

PollStep(p) ==
  \/ StartPoll(p)   \/ PollDrain(p)  \/ Reap(p)       \/ Retry(p)
  \/ SendAddress(p) \/ SendReport(p) \/ ResetState(p) \/ ResetAddress(p)
  \/ KernelComplete \/ KernelFail    \/ UNCHANGED vars

\* The threads cannot leave check_cque, and no message is started.
LEMMA PollSteps ==
  ASSUME NEW p, OneProducer(p), TInv, Counted(p), Polls(p), [Next]_vars, sent' = sent
  PROVE  PollStep(p)
<1> USE DEF At
<1>1. ~StartMessage(p)
  <2>1. sent[p] \in Nat /\ sent[p] + 1 # sent[p]
    BY Producer DEF Counted
  <2> QED
    BY <2>1, Producer DEF StartMessage, Counted
<1>2. CASE Step(p)
  <2>1. pc[p] \in {"idle", "poll", "reap", "retry", "sendAt", "sendLen", "reset", "reset2"}
    BY DEF Polls, Handling
  <2> QED
    BY <1>2, <2>1 DEF Step, PollStep, LoadCurrent, ReserveLoad, ReserveCas, Write,
       DecrementWriters, ClaimFlush, Seal, SealSize, ClaimSlot, StoreAddress, RotateLoad,
       RotateSize, RotateScan, RotateCheck, RotateSwap, RotateReserve, RotateAddress,
       DrainCheck, FlushMark, FlushLen, FlushAt, Submit
<1> QED
  BY <1>1, <1>2, SoloSteps DEF PollStep

\* What the polls leave alone.
LEMMA PollFrame ==
  ASSUME NEW p, OneProducer(p), TInv, Polls(p), PollStep(p)
  PROVE  /\ Polls(p)' /\ UNCHANGED <<mem, sqe, copied>>
         /\ word' = word \/ ResetState(p)
         /\ reports' = reports \/ SendReport(p)
         /\ disk' = disk \/ KernelComplete
         /\ address' = address \/ ResetAddress(p)
<1> USE DEF bufVars, ringVars, uringVars, clientVars, Goto, At, Handling
<1>1. CASE ResetAddress(p)
  <2>1. loc[p].mode = "poller"
    BY <1>1 DEF ResetAddress, Polls
  <2> QED
    BY <1>1, <2>1, Producer DEF ResetAddress, Polls
<1>2. CASE StartPoll(p) \/ Retry(p) \/ SendReport(p)
  BY <1>2, Producer DEF StartPoll, Retry, SendReport, Polls
<1>3. CASE SendAddress(p)
  <2>1. loc'[p].size = loc[p].size /\ loc'[p].mode = loc[p].mode /\ pc'[p] = "sendLen"
        /\ pc[p] = "sendAt"
    BY <1>3, Producer DEF SendAddress, Local
  <2> QED
    BY <1>3, <2>1 DEF SendAddress, Polls
<1>4. CASE Reap(p)
  <2>1. /\ loc'[p].size = loc[p].size /\ loc'[p].mode = loc[p].mode /\ pc[p] = "reap"
        /\ pc'[p] \in {"retry", "sendAt", "reset"} \/ (pc'[p] = "poll" /\ got'[p] = {})
    BY <1>4, Producer DEF Reap, Local
  <2> QED
    BY <1>4, <2>1 DEF Reap, Polls
<1>5. CASE PollDrain(p)
  <2>1. /\ pc[p] = "poll" /\ loc'[p].size = 0 /\ got[p] = {}
        /\ \/ pc'[p] = "reap" /\ loc'[p].mode = "poller"
           \/ pc'[p] = "idle" /\ got' = got
    BY <1>5, Producer DEF PollDrain, Polls, NoLocals, Local
  <2> QED
    BY <1>5, <2>1 DEF PollDrain, Polls
<1>6. CASE ResetState(p)
  <2>1. /\ pc[p] = "reset" /\ pc'[p] = "reset2" /\ loc' = loc /\ word'[loc[p].buf] = ZeroWord
        /\ got' = got
    BY <1>6, Producer DEF ResetState
  <2> QED
    BY <1>6, <2>1 DEF ResetState, Polls
<1>7. CASE KernelComplete \/ KernelFail \/ UNCHANGED vars
  BY <1>7 DEF KernelComplete, KernelFail, vars, Polls
<1> QED
  BY <1>1, <1>2, <1>3, <1>4, <1>5, <1>6, <1>7 DEF PollStep

\* A failed write stays so until the retry, and comes from a request.
LEMMA FailedMoves ==
  ASSUME NEW p, OneProducer(p), TInv, Polls(p), PollStep(p), NEW b \in Buffers
  PROVE  /\ Failed(p, b)' => Failed(p, b) \/ \E r \in kernel : r.buf = b
         /\ Failed(p, b) => Failed(p, b)' \/ (Retry(p) /\ loc[p].buf = b)
<1> USE DEF bufVars, ringVars, uringVars, clientVars, Goto, At
<1>1. CASE Retry(p)
  <2>1. UNCHANGED <<cq, got, loc>> /\ pc'[p] = "reap"
    BY <1>1, Producer DEF Retry
  <2> QED
    BY <1>1, <2>1 DEF Failed
<1>2. CASE \/ StartPoll(p) \/ SendAddress(p) \/ SendReport(p) \/ ResetState(p)
           \/ ResetAddress(p)
  <2>1. UNCHANGED <<cq, got>> /\ pc[p] # "retry" /\ pc'[p] # "retry"
    BY <1>2, Producer DEF StartPoll, SendAddress, SendReport, ResetState, ResetAddress,
       ReturnOk
  <2> QED
    BY <2>1 DEF Failed
<1>3. CASE PollDrain(p)
  <2>1. cq' \cup got'[p] = cq \cup got[p] /\ pc[p] # "retry" /\ pc'[p] # "retry"
    BY <1>3, Producer DEF PollDrain, Polls, Handling
  <2> QED
    BY <2>1 DEF Failed
<1>4. CASE Reap(p)
  <2>1. pc[p] = "reap" /\ cq' = cq
    BY <1>4 DEF Reap
  <2>2. CASE got' = got /\ pc'[p] = "poll"
    BY <2>1, <2>2 DEF Failed
  <2>3. ASSUME NEW c \in got[p], got'[p] = got[p] \ {c}, loc'[p].buf = c.buf,
               pc'[p] = IF ~c.ok THEN "retry" ELSE IF HasReceiver THEN "sendAt" ELSE "reset"
        PROVE  Failed(p, b)' <=> Failed(p, b)
    BY <2>1, <2>3 DEF Failed
  <2>4. \/ got' = got /\ pc'[p] = "poll"
        \/ \E c \in got[p] :
             /\ got'[p] = got[p] \ {c} /\ loc'[p].buf = c.buf
             /\ pc'[p] = IF ~c.ok THEN "retry" ELSE IF HasReceiver THEN "sendAt" ELSE "reset"
    BY <1>4, Producer DEF Reap, Local
  <2> QED
    BY <2>2, <2>3, <2>4
<1>5. CASE KernelComplete \/ KernelFail
  <2>1. UNCHANGED <<got, pc, loc>>
    BY <1>5 DEF KernelComplete, KernelFail
  <2>2. PICK r \in kernel, ok \in BOOLEAN :
          cq' = cq \cup {[id |-> r.id, buf |-> r.buf, ok |-> ok]}
    BY <1>5 DEF KernelComplete, KernelFail
  <2>3. PICK c : c.buf = r.buf /\ cq' = cq \cup {c}
    BY <2>2
  <2> QED
    BY <2>1, <2>3 DEF Failed
<1>6. CASE UNCHANGED vars
  BY <1>6 DEF vars, Failed
<1> QED
  BY <1>1, <1>2, <1>3, <1>4, <1>5, <1>6 DEF PollStep

\* The only new requests are those of a retry, from the stored entry.
LEMMA RequestsMove ==
  ASSUME NEW p, OneProducer(p), TInv, Polls(p), PollStep(p), NEW s \in sq' \cup kernel'
  PROVE  \/ s \in sq \cup kernel
         \/ Failed(p, s.buf) /\ [at |-> s.at, len |-> s.len] \in sqe[s.buf]
<1> USE DEF bufVars, ringVars, uringVars, clientVars, Goto, At
<1>1. CASE Retry(p)
  <2> PICK b \in Buffers : b = loc[p].buf
    BY Producer
  <2>0. Failed(p, b)
    BY <1>1 DEF Retry, Failed
  <2>1. ASSUME NEW e \in sqe[b], Enter(sq \cup {NewRequest(b, e)}), s \notin sq \cup kernel
        PROVE  s.buf = b /\ [at |-> s.at, len |-> s.len] \in sqe[b]
    <3>1. s = NewRequest(b, e)
      BY <2>1, EnterMoves
    <3>2. e \in Sqe
      BY <2>1 DEF TInv, SharedOK
    <3>3. e = [at |-> e.at, len |-> e.len]
      BY <3>2 DEF Sqe
    <3>4. s.buf = b /\ s.at = e.at /\ s.len = e.len
      BY <3>1 DEF NewRequest
    <3> QED
      BY <2>1, <3>3, <3>4
  <2>2. ASSUME Enter(sq) \/ UNCHANGED <<sq, kernel>>
        PROVE  sq' \cup kernel' = sq \cup kernel
    BY <2>2, EnterMoves
  <2> QED
    BY <1>1, <2>0, <2>1, <2>2 DEF Retry
<1>2. CASE KernelComplete \/ KernelFail
  BY <1>2 DEF KernelComplete, KernelFail
<1>3. CASE ~(Retry(p) \/ KernelComplete \/ KernelFail)
  BY <1>3 DEF PollStep, StartPoll, PollDrain, Reap, SendAddress, SendReport, ResetState,
     ResetAddress, vars
<1> QED
  BY <1>1, <1>2, <1>3

\* No step adds to the writes that may still come.
LEMMA PendingKept ==
  ASSUME NEW p, OneProducer(p), TInv, Polls(p), PollStep(p), NEW b \in Buffers,
         NEW x \in Nat, NEW k \in Nat, Pending(p, b, x, k)'
  PROVE  Pending(p, b, x, k)
<1>1. sqe' = sqe
  BY PollFrame
<1>2. CASE \E s \in sq' \cup kernel' : s.buf = b /\ s.at = x /\ s.len = k
  BY <1>2, RequestsMove DEF Pending
<1>3. CASE /\ Failed(p, b)' \/ \E s \in sq' \cup kernel' : s.buf = b
           /\ [at |-> x, len |-> k] \in sqe'[b]
  <2>1. Failed(p, b) \/ \E s \in sq \cup kernel : s.buf = b
    BY <1>3, FailedMoves, RequestsMove
  <2> QED
    BY <1>1, <1>3, <2>1 DEF Pending
<1> QED
  BY <1>2, <1>3 DEF Pending

\* What the writes to come agree on, they agree on after a step.
LEMMA AgreedKept ==
  ASSUME NEW p, OneProducer(p), TInv, Polls(p), PollStep(p), NEW a \in Nat, NEW v,
         Agreed(p, a, v)
  PROVE  Agreed(p, a, v)'
<1>1. mem' = mem
  BY PollFrame
<1>2. \A b \in Buffers : \A x, k \in Nat : Pending(p, b, x, k)' => Pending(p, b, x, k)
  BY PendingKept
<1> QED
  BY <1>1, <1>2 DEF Agreed

\* A completed write puts what was agreed on in the file.
LEMMA AgreedWritten ==
  ASSUME NEW p, TInv, NEW a \in Nat, NEW v, Agreed(p, a, v), NEW r \in kernel,
         disk' = KernelWrites(r), Covers(r.at, r.len, a)
  PROVE  OnDisk(a, v)'
<1>1. r \in Request /\ r.buf \in Buffers /\ r.at \in Nat /\ r.len \in Nat
  BY DEF TInv, SharedOK, Request
<1>2. Pending(p, r.buf, r.at, r.len)
  BY DEF Pending
<1>3. a - r.at < Block /\ mem[r.buf][a - r.at] = v
  BY <1>1, <1>2 DEF Agreed
<1>4. /\ a - r.at \in Nat /\ a - r.at < r.len /\ r.at + (a - r.at) = a
  BY <1>1 DEF Covers
<1>5. r.at + (a - r.at) \in DOMAIN disk' /\ disk'[r.at + (a - r.at)] = mem[r.buf][a - r.at]
  BY <1>1, <1>3, <1>4, WriteEffect
<1> QED
  BY <1>3, <1>4, <1>5 DEF OnDisk

\* What is in the file as agreed stays there.
LEMMA OnDiskKept ==
  ASSUME NEW p, OneProducer(p), TInv, Polls(p), PollStep(p), NEW a \in Nat, NEW v,
         Agreed(p, a, v), OnDisk(a, v)
  PROVE  OnDisk(a, v)'
<1>1. CASE disk' = disk
  BY <1>1 DEF OnDisk
<1>2. CASE KernelComplete
  <2>1. PICK r \in kernel : disk' = KernelWrites(r)
    BY <1>2 DEF KernelComplete
  <2>2. r \in Request
    BY DEF TInv, SharedOK
  <2>3. CASE Covers(r.at, r.len, a)
    BY <2>1, <2>3, AgreedWritten
  <2>4. CASE ~Covers(r.at, r.len, a)
    BY <2>1, <2>2, <2>4, WriteEffect DEF OnDisk, Covers
  <2> QED
    BY <2>3, <2>4
<1> QED
  BY <1>1, <1>2, PollFrame

\* Fixed is for good.
LEMMA FixedKept ==
  ASSUME NEW p, OneProducer(p), TInv, Polls(p), PollStep(p), NEW a \in Nat, NEW v,
         Fixed(p, a, v)
  PROVE  Fixed(p, a, v)'
  BY AgreedKept, OnDiskKept DEF Fixed

\* As long as no submission fails, a retry hands its write to the kernel.
LEMMA RetryOwes ==
  ASSUME NEW p, OneProducer(p), TInv, Counted(p), SqDepth > 0, sq = {}, submitFaults' = 0,
         Retry(p), NEW b \in Buffers, loc[p].buf = b, NEW e \in sqe[b]
  PROVE  \E r \in kernel' : r.buf = b /\ r.at = e.at /\ r.len = e.len
<1>1. submitFaults \in Nat /\ Cardinality(sq) < SqDepth /\ ~(Cardinality(sq) >= SqDepth)
  <2>1. Cardinality(sq) = 0
    BY FS_EmptySet
  <2> QED
    BY <2>1, BufferRingAssumption DEF Counted
<1>2. PICK f \in sqe[b] : Enter(sq \cup {NewRequest(b, f)})
  BY <1>1 DEF Retry
<1>3. NewRequest(b, f) \in kernel'
  BY <1>1, <1>2, EnterEmpty
<1>4. f = e
  BY DEF Counted, OneEntry
<1> QED
  BY <1>3, <1>4 DEF NewRequest

\* As long as no submission fails, a write that is owed is still owed after a
\* step, or has been done.
LEMMA WillKept ==
  ASSUME NEW p, OneProducer(p), TInv, Counted(p), Polls(p), PollStep(p), SqDepth > 0,
         sq = {}, submitFaults' = 0, NEW a \in Nat, NEW v, Will(p, a, v)
  PROVE  Will(p, a, v)'
<1>1. Agreed(p, a, v)'
  BY AgreedKept DEF Will
<1>2. CASE OnDisk(a, v)
  BY <1>1, <1>2, OnDiskKept DEF Will
<1>3. ASSUME NEW b \in Buffers, NEW e \in sqe[b], Covers(e.at, e.len, a), Owed(p, b, e)
      PROVE  Will(p, a, v)'
  <2>0. sqe' = sqe
    BY PollFrame
  <2>1. CASE Failed(p, b)
    <3>1. CASE Failed(p, b)'
      BY <1>1, <1>3, <2>0, <3>1 DEF Will, Owed
    <3>2. CASE Retry(p) /\ loc[p].buf = b
      <4>1. Owed(p, b, e)'
        BY <1>3, <3>2, RetryOwes DEF Owed
      <4> QED
        BY <1>1, <1>3, <2>0, <4>1 DEF Will
    <3> QED
      BY <2>1, <3>1, <3>2, FailedMoves
  <2>2. ASSUME NEW r \in kernel, r.buf = b, r.at = e.at, r.len = e.len
        PROVE  Will(p, a, v)'
    <3>1. CASE r \in kernel'
      <4>1. Owed(p, b, e)'
        BY <2>2, <3>1 DEF Owed
      <4> QED
        BY <1>1, <1>3, <2>0, <4>1 DEF Will
    <3>2. CASE KernelComplete /\ r \notin kernel'
      <4>1. disk' = KernelWrites(r)
        BY <3>2 DEF KernelComplete
      <4>2. OnDisk(a, v)'
        BY <1>3, <2>2, <4>1, AgreedWritten DEF Will
      <4> QED
        BY <1>1, <4>2 DEF Will
    <3>3. CASE KernelFail /\ r \notin kernel'
      <4>1. cq' = cq \cup {[id |-> r.id, buf |-> r.buf, ok |-> FALSE]}
        BY <3>3 DEF KernelFail
      <4>2. PICK c : ~c.ok /\ c.buf = b /\ c \in cq'
        BY <2>2, <4>1
      <4>3. Owed(p, b, e)'
        BY <4>2 DEF Owed, Failed
      <4> QED
        BY <1>1, <1>3, <2>0, <4>3 DEF Will
    <3>4. KernelComplete \/ KernelFail \/ kernel \subseteq kernel'
      <4>1. CASE Retry(p)
        <5>1. \A S : Enter(S) => kernel \subseteq kernel'
          BY DEF Enter
        <5> QED
          BY <4>1, <5>1 DEF Retry
      <4>2. CASE ~(Retry(p) \/ KernelComplete \/ KernelFail)
        BY <4>2 DEF PollStep, StartPoll, PollDrain, Reap, SendAddress, SendReport,
           ResetState, ResetAddress, vars, uringVars
      <4> QED
        BY <4>1, <4>2
    <3> QED
      BY <3>1, <3>2, <3>3, <3>4
  <2> QED
    BY <1>3, <2>1, <2>2 DEF Owed
<1> QED
  BY <1>2, <1>3 DEF Will

\* A word changes only in that the handled buffer is reset.
LEMMA WordsReset ==
  ASSUME NEW p, OneProducer(p), TInv, Polls(p), PollStep(p), NEW b \in Buffers
  PROVE  \/ word'[b] = word[b]
         \/ /\ ResetState(p) /\ pc[p] = "reset" /\ loc[p].buf = b
            /\ word'[b].offset = 0 /\ ~word'[b].sealed
<1>1. CASE word' = word
  BY <1>1
<1>2. CASE ResetState(p)
  <2>1. word' = [word EXCEPT ![loc[p].buf] = ZeroWord] /\ pc[p] = "reset"
    BY <1>2 DEF ResetState, At
  <2>2. loc[p].buf \in Buffers /\ word \in [Buffers -> Word]
    BY Producer
  <2> QED
    BY <1>2, <2>1, <2>2 DEF ZeroWord
<1> QED
  BY <1>1, <1>2, PollFrame

\* Only the kernel completes a write.
LEMMA DoneMoves ==
  ASSUME NEW p, OneProducer(p), TInv, Polls(p), PollStep(p), NEW b \in Buffers, Done(p, b)'
  PROVE  \/ Done(p, b)
         \/ \E r \in kernel : r.buf = b /\ disk' = KernelWrites(r)
<1> USE DEF bufVars, ringVars, uringVars, clientVars, Goto, At
<1>1. CASE Reap(p)
  <2>1. /\ cq' \cup got'[p] \subseteq cq \cup got[p]
        /\ pc'[p] \in {"sendAt", "reset"} => \E c \in got[p] : c.ok /\ loc'[p].buf = c.buf
        /\ pc'[p] # "sendLen"
    BY <1>1, Producer DEF Reap, Local
  <2> QED
    BY <2>1 DEF Done
<1>2. CASE PollDrain(p) \/ StartPoll(p) \/ Retry(p) \/ ResetState(p) \/ ResetAddress(p)
  <2>1. /\ cq' \cup got'[p] \subseteq cq \cup got[p]
        /\ pc'[p] \notin {"sendAt", "sendLen", "reset"}
    BY <1>2, Producer DEF PollDrain, StartPoll, Retry, ResetState, ResetAddress, ReturnOk
  <2> QED
    BY <2>1 DEF Done
<1>3. CASE SendAddress(p) \/ SendReport(p)
  <2>1. /\ cq' = cq /\ got' = got /\ loc'[p].buf = loc[p].buf
        /\ pc[p] \in {"sendAt", "sendLen"}
    BY <1>3, Producer DEF SendAddress, SendReport, Local
  <2> QED
    BY <2>1 DEF Done
<1>4. CASE KernelComplete
  <2>1. PICK r \in kernel : /\ cq' = cq \cup {[id |-> r.id, buf |-> r.buf, ok |-> TRUE]}
                            /\ disk' = KernelWrites(r) /\ UNCHANGED <<got, pc, loc>>
    BY <1>4 DEF KernelComplete
  <2>2. PICK c : c.buf = r.buf /\ cq' = cq \cup {c}
    BY <2>1
  <2> QED
    BY <2>1, <2>2 DEF Done
<1>5. CASE KernelFail
  <2>1. PICK r \in kernel : /\ cq' = cq \cup {[id |-> r.id, buf |-> r.buf, ok |-> FALSE]}
                            /\ UNCHANGED <<got, pc, loc>>
    BY <1>5 DEF KernelFail
  <2>2. PICK c : ~c.ok /\ cq' = cq \cup {c}
    BY <2>1
  <2> QED
    BY <2>1, <2>2 DEF Done
<1>6. CASE UNCHANGED vars
  BY <1>6 DEF vars, Done
<1> QED
  BY <1>1, <1>2, <1>3, <1>4, <1>5, <1>6 DEF PollStep

\* What a buffer with a successful write holds stays fixed; a write that succeeds
\* now fixes it.
LEMMA SavedKept ==
  ASSUME NEW p, OneProducer(p), TInv, CInv(p), PollStep(p)
  PROVE  Saved(p)'
<1> USE DEF CInv
<1>0. mem' = mem
  BY PollFrame
<1> SUFFICES ASSUME NEW b \in Buffers, Done(p, b)'
             PROVE  \E x \in Nat : \A i \in 0 .. word'[b].offset - 1 : Fixed(p, x + i, mem[b][i])'
  BY <1>0 DEF Saved
<1>1. word'[b].offset = word[b].offset \/ word'[b].offset = 0
  BY WordsReset
<1>2. CASE word'[b].offset = 0
  BY <1>2
<1>3. ASSUME NEW x \in Nat, \A i \in 0 .. word[b].offset - 1 : Fixed(p, x + i, mem[b][i])',
             word'[b].offset = word[b].offset
      PROVE  \E y \in Nat : \A i \in 0 .. word'[b].offset - 1 : Fixed(p, y + i, mem[b][i])'
  BY <1>3
<1>4. word[b].offset \in Nat /\ word[b].offset <= Block /\ Block \in Nat
  BY Producer, WordFields, BufferRingAssumption DEF Holds
<1>5. CASE Done(p, b)
  <2>1. PICK x \in Nat : \A i \in 0 .. word[b].offset - 1 : Fixed(p, x + i, mem[b][i])
    BY <1>5 DEF Saved
  <2>2. ASSUME NEW i \in 0 .. word[b].offset - 1 PROVE Fixed(p, x + i, mem[b][i])'
    <3> PICK a \in Nat, v \in {mem[b][i]} : a = x + i /\ v = mem[b][i]
      BY <1>4
    <3>1. Fixed(p, a, v)'
      BY <2>1, <2>2, FixedKept
    <3> QED
      BY <1>0, <3>1
  <2> QED
    BY <1>1, <1>2, <1>3, <2>2
<1>6. ASSUME NEW r \in kernel, r.buf = b, disk' = KernelWrites(r)
      PROVE  \E x \in Nat : \A i \in 0 .. word'[b].offset - 1 : Fixed(p, x + i, mem[b][i])'
  <2>0. r.at \in Nat /\ r.len \in Nat /\ Pending(p, b, r.at, r.len)
    BY <1>6 DEF TInv, SharedOK, Request, Pending
  <2>1. word[b].offset <= r.len
    BY <2>0 DEF Ranges
  <2>2. ASSUME NEW i \in 0 .. word[b].offset - 1 PROVE Fixed(p, r.at + i, mem[b][i])'
    <3> PICK a \in Nat, v \in {mem[b][i]} : a = r.at + i /\ v = mem[b][i]
      BY <1>4, <2>0
    <3>1. Covers(r.at, r.len, a) /\ a - r.at = i /\ i < Block
      BY <1>4, <2>0, <2>1 DEF Covers
    <3>2. Agreed(p, a, v)
      <4> SUFFICES ASSUME NEW c \in Buffers, NEW y \in Nat, NEW k \in Nat,
                          Pending(p, c, y, k), Covers(y, k, a)
                   PROVE  a - y < Block /\ mem[c][a - y] = v
        BY DEF Agreed
      <4>1. (b = c /\ r.at = y /\ r.len = k) \/ Apart(r.at, r.len, y, k)
        BY <2>0 DEF Ranges
      <4>2. b = c /\ r.at = y
        BY <2>0, <3>1, <4>1 DEF Apart, Covers
      <4> QED
        BY <3>1, <4>2
    <3>3. Fixed(p, a, v)'
      BY <1>6, <3>1, <3>2, AgreedKept, AgreedWritten DEF Fixed
    <3> QED
      BY <1>0, <1>6, <3>3
  <2> QED
    BY <1>1, <1>2, <1>3, <2>0, <2>2
<1> QED
  BY <1>5, <1>6, DoneMoves

\* A message in a buffer is there after a step, unless the buffer is reset.
LEMMA HeldMoves ==
  ASSUME NEW p, OneProducer(p), TInv, Polls(p), PollStep(p), NEW b \in Buffers,
         NEW i \in Nat, NEW m, NEW n \in Nat, HeldAt(b, i, m, n)
  PROVE  Held(m, n)' \/ (pc[p] = "reset" /\ loc[p].buf = b)
<1>1. mem' = mem
  BY PollFrame
<1>2. CASE word'[b] = word[b]
  BY <1>1, <1>2 DEF HeldAt, Held
<1> QED
  BY <1>2, WordsReset

\* No message is lost: when its buffer is reset, it is fixed in the file.
LEMMA SafeKept ==
  ASSUME NEW p, OneProducer(p), TInv, CInv(p), PollStep(p)
  PROVE  Safe(p)'
<1> USE DEF CInv
<1>0. copied' = copied
  BY PollFrame
<1> SUFFICES ASSUME NEW y \in copied
             PROVE  /\ y[2] \in Nat
                    /\ Held(y[1], y[2])' \/ \E a \in Nat : FixedAt(p, a, y[1], y[2])'
  BY <1>0 DEF Safe
<1>1. PICK n \in Nat, m \in {y[1]} :
        y[2] = n /\ y[1] = m /\ (Held(m, n) \/ \E a \in Nat : FixedAt(p, a, m, n))
  BY DEF Safe
<1>2. ASSUME NEW a \in Nat, FixedAt(p, a, m, n) PROVE FixedAt(p, a, m, n)'
  <2>1. ASSUME NEW j \in 0 .. n - 1 PROVE Fixed(p, a + j, <<m, j>>)'
    BY <1>2, <2>1, FixedKept DEF FixedAt
  <2> QED
    BY <2>1 DEF FixedAt
<1>3. ASSUME NEW b \in Buffers, NEW i \in Nat, HeldAt(b, i, m, n)
      PROVE  Held(m, n)' \/ \E a \in Nat : FixedAt(p, a, m, n)'
  <2>1. CASE pc[p] = "reset" /\ loc[p].buf = b
    <3>1. Done(p, b) /\ word[b].offset \in Nat
      BY <2>1, Producer, WordFields DEF Done
    <3>2. PICK x \in Nat : \A k \in 0 .. word[b].offset - 1 : Fixed(p, x + k, mem[b][k])
      BY <3>1 DEF Saved
    <3>3. ASSUME NEW j \in 0 .. n - 1 PROVE Fixed(p, (x + i) + j, <<m, j>>)
      <4>1. i + j \in 0 .. word[b].offset - 1 /\ mem[b][i + j] = <<m, j>>
        BY <1>3, <3>1, <3>3 DEF HeldAt
      <4>2. x + (i + j) = (x + i) + j
        BY <3>3
      <4> QED
        BY <3>2, <4>1, <4>2
    <3>4. x + i \in Nat /\ FixedAt(p, x + i, m, n)
      BY <3>3 DEF FixedAt
    <3> QED
      BY <1>2, <3>4
  <2> QED
    BY <1>3, <2>1, HeldMoves
<1>4. Held(m, n)' \/ \E a \in Nat : FixedAt(p, a, m, n)'
  BY <1>1, <1>2, <1>3 DEF Held
<1> QED
  BY <1>1, <1>4

\* Every step after flush_current keeps the invariant.
LEMMA NextCInv ==
  ASSUME NEW p, OneProducer(p), TInv, CInv(p), PollStep(p)
  PROVE  CInv(p)'
<1> USE DEF CInv
<1>0. Polls(p)' /\ mem' = mem
  BY PollFrame
<1>1. \A b \in Buffers : word[b].offset \in Nat
  BY Producer, WordFields
<1>2. ASSUME NEW b \in Buffers PROVE Holds(b)'
  <2>1. CASE word'[b] = word[b]
    BY <1>0, <2>1 DEF Holds
  <2>2. CASE word'[b].offset = 0
    BY <2>2, BufferRingAssumption DEF Holds
  <2> QED
    BY <2>1, <2>2, WordsReset
<1>3. Ranges(p)'
  <2>1. ASSUME NEW b \in Buffers, NEW x \in Nat, NEW k \in Nat, Pending(p, b, x, k)'
        PROVE  word'[b].offset <= k
    <3>1. word[b].offset <= k
      BY <2>1, PendingKept DEF Ranges
    <3> QED
      BY <3>1, WordsReset
  <2>2. ASSUME NEW b \in Buffers, NEW c \in Buffers, NEW x \in Nat, NEW k \in Nat,
               NEW y \in Nat, NEW l \in Nat, Pending(p, b, x, k)', Pending(p, c, y, l)'
        PROVE  (b = c /\ x = y /\ k = l) \/ Apart(x, k, y, l)
    <3>1. Pending(p, b, x, k) /\ Pending(p, c, y, l)
      BY <2>2, PendingKept
    <3> QED
      BY <3>1 DEF Ranges
  <2> QED
    BY <2>1, <2>2 DEF Ranges
<1>4. Saved(p)' /\ Safe(p)'
  BY SavedKept, SafeKept
<1> QED
  BY <1>0, <1>2, <1>3, <1>4

-----------------------------------------------------------------------------
(* The polls after flush_current, when no submission failed *)

\* The failures are counted.
LEMMA FaultsBefore ==
  ASSUME NEW p, Counted(p), PollStep(p), submitFaults' = 0 PROVE submitFaults = 0
<1>1. \A S : Enter(S) => submitFaults = 0
  BY DEF Enter, Counted
<1>2. CASE Retry(p)
  BY <1>1, <1>2 DEF Retry
<1>3. CASE ~Retry(p)
  BY <1>3 DEF PollStep, StartPoll, PollDrain, Reap, SendAddress, SendReport, ResetState,
     ResetAddress, KernelComplete, KernelFail, vars, uringVars
<1> QED
  BY <1>2, <1>3

\* The queue stays empty, and what can be retried has an entry.
LEMMA EntriesStored ==
  ASSUME NEW p, OneProducer(p), TInv, Counted(p), Polls(p), PollStep(p), SqDepth > 0,
         Carries(p), submitFaults' = 0
  PROVE  /\ sq' = {}
         /\ \A b \in Buffers : Failed(p, b)' \/ (\E r \in kernel' : r.buf = b) => sqe'[b] # {}
<1>0. sq = {} /\ submitFaults \in Nat /\ sqe' = sqe
  BY PollFrame DEF Carries, Counted
<1>1. sq' = {}
  <2>1. \A S : Enter(S) => sq' = {}
    BY <1>0, EnterEmpty
  <2>2. CASE Retry(p)
    BY <1>0, <2>1, <2>2 DEF Retry
  <2>3. CASE ~Retry(p)
    BY <1>0, <2>3 DEF PollStep, StartPoll, PollDrain, Reap, SendAddress, SendReport, ResetState,
       ResetAddress, KernelComplete, KernelFail, vars, uringVars
  <2> QED
    BY <2>2, <2>3
<1>2. ASSUME NEW b \in Buffers, Failed(p, b)' PROVE sqe[b] # {}
  BY <1>2, FailedMoves DEF Carries
<1>3. ASSUME NEW b \in Buffers, NEW r \in kernel', r.buf = b PROVE sqe[b] # {}
  BY <1>0, <1>3, RequestsMove DEF Carries
<1> QED
  BY <1>0, <1>1, <1>2, <1>3

\* A buffer that stays sealed keeps a write under way, or a completion.
LEMMA CarriesKept ==
  ASSUME NEW p, OneProducer(p), TInv, Counted(p), Polls(p), PollStep(p), SqDepth > 0,
         Carries(p), submitFaults' = 0
  PROVE  Carries(p)'
<1> USE DEF bufVars, ringVars, uringVars, clientVars, Goto, At
<1> DEFINE Has(b) == \/ \E r \in kernel : r.buf = b
                     \/ \E c \in cq \cup got[p] : c.buf = b
                     \/ pc[p] \in {"retry", "sendAt", "sendLen", "reset"} /\ loc[p].buf = b
<1> SUFFICES ASSUME NEW b \in Buffers, word'[b].sealed PROVE Has(b)'
  BY EntriesStored DEF Carries
<1>0. sq = {} /\ word'[b] = word[b] /\ Has(b)
  BY WordsReset DEF Carries
<1>1. CASE Retry(p)
  <2>1. /\ UNCHANGED <<cq, got, loc>> /\ pc[p] = "retry"
    BY <1>1 DEF Retry
  <2>2. kernel \subseteq kernel'
    <3>1. \A S : Enter(S) => kernel \subseteq kernel'
      BY DEF Enter
    <3> QED
      BY <1>1, <3>1 DEF Retry
  <2>3. CASE loc[p].buf = b
    <3>1. Failed(p, b)
      BY <2>1, <2>3 DEF Failed
    <3>2. PICK e \in sqe[b] : TRUE
      BY <3>1 DEF Carries
    <3>3. \E r \in kernel' : r.buf = b
      BY <1>0, <1>1, <2>3, <3>2, RetryOwes
    <3> QED
      BY <3>3
  <2>4. CASE loc[p].buf # b
    BY <1>0, <2>1, <2>2, <2>4
  <2> QED
    BY <2>3, <2>4
<1>2. CASE StartPoll(p) \/ ResetAddress(p) \/ ResetState(p)
  <2>1. UNCHANGED <<cq, got, kernel>>
    BY <1>2 DEF StartPoll, ResetAddress, ResetState
  <2>2. ~(pc[p] \in {"retry", "sendAt", "sendLen", "reset"} /\ loc[p].buf = b)
    <3>1. CASE ResetState(p)
      <4>1. word' = [word EXCEPT ![loc[p].buf] = ZeroWord]
        BY <3>1 DEF ResetState
      <4>2. b # loc[p].buf
        BY <4>1, Producer DEF ZeroWord
      <4> QED
        BY <4>2
    <3>2. CASE StartPoll(p) \/ ResetAddress(p)
      BY <3>2 DEF StartPoll, ResetAddress
    <3> QED
      BY <1>2, <3>1, <3>2
  <2> QED
    BY <1>0, <2>1, <2>2
<1>3. CASE SendAddress(p) \/ SendReport(p)
  <2>1. /\ UNCHANGED <<cq, got, kernel>> /\ loc'[p].buf = loc[p].buf
        /\ pc'[p] \in {"sendLen", "reset"}
    BY <1>3, Producer DEF SendAddress, SendReport, Local
  <2> QED
    BY <1>0, <2>1
<1>4. CASE PollDrain(p)
  <2>1. cq' \cup got'[p] = cq \cup got[p] /\ pc[p] = "poll" /\ kernel' = kernel
    BY <1>4, Producer DEF PollDrain, Polls, Handling
  <2> QED
    BY <1>0, <2>1
<1>5. CASE Reap(p)
  <2>1. pc[p] = "reap" /\ cq' = cq /\ kernel' = kernel
    BY <1>5 DEF Reap
  <2>2. CASE got' = got
    BY <1>0, <2>1, <2>2
  <2>3. ASSUME NEW c \in got[p], got'[p] = got[p] \ {c}, loc'[p].buf = c.buf,
               pc'[p] \in {"retry", "sendAt", "reset"}
        PROVE  Has(b)'
    BY <1>0, <2>1, <2>3
  <2>4. \/ got' = got
        \/ \E c \in got[p] : /\ got'[p] = got[p] \ {c} /\ loc'[p].buf = c.buf
                             /\ pc'[p] \in {"retry", "sendAt", "reset"}
    BY <1>5, Producer DEF Reap, Local
  <2> HIDE DEF Has
  <2> QED
    BY <2>2, <2>3, <2>4
<1>6. CASE KernelComplete \/ KernelFail
  <2>1. UNCHANGED <<got, pc, loc>>
    BY <1>6 DEF KernelComplete, KernelFail
  <2>2. PICK r \in kernel, ok \in BOOLEAN :
          /\ kernel' = kernel \ {r}
          /\ cq' = cq \cup {[id |-> r.id, buf |-> r.buf, ok |-> ok]}
    BY <1>6 DEF KernelComplete, KernelFail
  <2>3. PICK c : c.buf = r.buf /\ cq' = cq \cup {c}
    BY <2>2
  <2> QED
    BY <1>0, <2>1, <2>2, <2>3
<1>7. CASE UNCHANGED vars
  BY <1>0, <1>7 DEF vars
<1> HIDE DEF Has
<1> QED
  BY <1>1, <1>2, <1>3, <1>4, <1>5, <1>6, <1>7 DEF PollStep

\* What a sealed buffer holds will still be at its address, which only a reset
\* buffer loses.
LEMMA PlacedKept ==
  ASSUME NEW p, OneProducer(p), TInv, Counted(p), Polls(p), PollStep(p), SqDepth > 0,
         Carries(p), Placed(p), submitFaults' = 0
  PROVE  Placed(p)'
<1>0. mem' = mem /\ sq = {}
  BY PollFrame DEF Carries
<1> SUFFICES ASSUME NEW b \in Buffers, word'[b].sealed, NEW i \in 0 .. word'[b].offset - 1
             PROVE  Will(p, address[b] + i, mem[b][i])'
  BY DEF Placed
<1>1. word'[b] = word[b]
  BY WordsReset
<1>2. address'[b] = address[b]
  <2>1. CASE ResetAddress(p)
    <3>1. word[loc[p].buf] = ZeroWord /\ address' = [address EXCEPT ![loc[p].buf] = 0]
      BY <2>1 DEF ResetAddress, Polls, At
    <3>2. b # loc[p].buf
      BY <1>1, <3>1 DEF ZeroWord
    <3> QED
      BY <3>1, <3>2, Producer
  <2> QED
    BY <2>1, PollFrame
<1>3. i \in 0 .. word[b].offset - 1 /\ i \in Nat /\ address[b] \in Nat
  BY <1>1, Producer, WordFields
<1> PICK a \in Nat, v \in {mem[b][i]} : a = address[b] + i /\ v = mem[b][i]
  BY <1>3
<1>4. Will(p, a, v)
  BY <1>1, <1>3 DEF Placed
<1>5. Will(p, a, v)'
  BY <1>0, <1>4, WillKept
<1> QED
  BY <1>0, <1>2, <1>5

\* The address sent is the one the buffer has when it is reset.
LEMMA SendsKept ==
  ASSUME NEW p, OneProducer(p), TInv, Polls(p), PollStep(p), Sends(p), opt' = opt
  PROVE  Sends(p)'
<1> PICK b \in Buffers : b = loc[p].buf
  BY Producer
<1> USE DEF bufVars, ringVars, uringVars, clientVars, Goto, At
<1>0. HasReceiver' <=> HasReceiver
  BY DEF HasReceiver
<1>1. CASE StartPoll(p) \/ PollDrain(p) \/ Retry(p) \/ ResetState(p) \/ ResetAddress(p)
  <2>1. pc'[p] \notin {"sendLen", "reset"}
    BY <1>1, Producer DEF StartPoll, PollDrain, Retry, ResetState, ResetAddress, ReturnOk
  <2> QED
    BY <2>1 DEF Sends
<1>2. CASE Reap(p)
  <2>1. pc'[p] # "sendLen" /\ (pc'[p] = "reset" => ~HasReceiver)
    BY <1>2, Producer DEF Reap
  <2> QED
    BY <1>0, <2>1 DEF Sends
<1>3. CASE SendAddress(p)
  <2>1. loc' = [loc EXCEPT ![p].at = address[b]] /\ UNCHANGED <<word, address>>
    BY <1>3 DEF SendAddress
  <2>2. loc'[p].buf = b /\ loc'[p].at = address[b]
    BY <2>1, Producer DEF Local
  <2>3. pc'[p] = "sendLen"
    BY <1>3, Producer DEF SendAddress
  <2> QED
    BY <2>1, <2>2, <2>3 DEF Sends
<1>4. CASE SendReport(p)
  <2>1. /\ UNCHANGED <<word, address, loc>> /\ pc[p] = "sendLen"
        /\ reports' = reports \cup {[at |-> loc[p].at, len |-> word[b].offset]}
    BY <1>4 DEF SendReport
  <2>2. pc'[p] = "reset"
    BY <1>4, Producer DEF SendReport
  <2> QED
    BY <2>1, <2>2 DEF Sends
<1>5. CASE KernelComplete \/ KernelFail \/ UNCHANGED vars
  <2>1. UNCHANGED <<word, address, pc, loc, reports>>
    BY <1>5 DEF KernelComplete, KernelFail, vars
  <2> QED
    BY <1>0, <2>1 DEF Sends
<1> QED
  BY <1>1, <1>2, <1>3, <1>4, <1>5 DEF PollStep

\* What is reported now will be in the file, like what was reported before.
LEMMA PromisedKept ==
  ASSUME NEW p, OneProducer(p), TInv, Counted(p), Polls(p), PollStep(p), SqDepth > 0,
         Carries(p), Placed(p), Sends(p), Promised(p), submitFaults' = 0,
         \A b \in Buffers : Holds(b)
  PROVE  Promised(p)'
<1> PICK b \in Buffers : b = loc[p].buf
  BY Producer
<1>0. sq = {} /\ word[b].offset \in Nat /\ address[b] \in Nat /\ loc[p].at \in Nat
  BY Producer, WordFields DEF Carries
<1>1. ASSUME NEW a \in Nat, \E v : v # Empty /\ Will(p, a, v)
      PROVE  \E v : v # Empty /\ Will(p, a, v)'
  BY <1>0, <1>1, WillKept
<1>2. ASSUME NEW r \in reports
      PROVE  r.at \in Nat /\ r.len \in Nat /\
             \A i \in 0 .. r.len - 1 : \E v : v # Empty /\ Will(p, r.at + i, v)'
  <2>1. r.at \in Nat /\ r.len \in Nat
    BY DEF Promised
  <2>2. ASSUME NEW i \in 0 .. r.len - 1 PROVE \E v : v # Empty /\ Will(p, r.at + i, v)'
    <3>1. r.at + i \in Nat /\ \E v : v # Empty /\ Will(p, r.at + i, v)
      BY <2>1 DEF Promised
    <3> QED
      BY <1>1, <3>1
  <2> QED
    BY <2>1, <2>2
<1>3. CASE reports' = reports
  BY <1>2, <1>3 DEF Promised
<1>4. CASE SendReport(p)
  <2> PICK s : s = [at |-> loc[p].at, len |-> word[b].offset]
    OBVIOUS
  <2>1. reports' = reports \cup {s} /\ pc[p] = "sendLen"
    BY <1>4 DEF SendReport, At
  <2>2. s.at \in Nat /\ s.len \in Nat /\ s.at = loc[p].at /\ s.len = word[b].offset
    BY <1>0
  <2>3. ASSUME NEW i \in 0 .. s.len - 1 PROVE \E v : v # Empty /\ Will(p, s.at + i, v)'
    <3>1. word[b].offset > 0 /\ i \in 0 .. word[b].offset - 1 /\ s.at + i \in Nat
      BY <1>0, <2>2
    <3>2. loc[p].at = address[b]
      BY <2>1, <3>1 DEF Sends
    <3>3. word[b].sealed /\ mem[b][i] # Empty
      BY <3>1 DEF Holds
    <3>4. Will(p, s.at + i, mem[b][i])
      BY <2>2, <3>1, <3>2, <3>3 DEF Placed
    <3> QED
      BY <1>1, <3>1, <3>3, <3>4
  <2> QED
    BY <1>2, <2>1, <2>2, <2>3 DEF Promised
<1> QED
  BY <1>3, <1>4, PollFrame

\* A message whose buffer is reset will be in the file, and is reported.
LEMMA DeliveredKept ==
  ASSUME NEW p, OneProducer(p), TInv, Counted(p), CInv(p), PollStep(p), SqDepth > 0,
         Carries(p), Placed(p), Sends(p), Delivered(p), submitFaults' = 0, opt' = opt
  PROVE  Delivered(p)'
<1> USE DEF CInv
<1>0. copied' = copied /\ sq = {} /\ reports \subseteq reports' /\ (HasReceiver' <=> HasReceiver)
  BY PollFrame DEF Carries, SendReport, HasReceiver
<1> SUFFICES ASSUME NEW y \in copied
             PROVE  Held(y[1], y[2])' \/ \E a \in Nat : WillAt(p, a, y[1], y[2])'
  BY <1>0 DEF Delivered
<1>1. PICK n \in Nat, m \in {y[1]} :
        y[2] = n /\ y[1] = m /\ n > 0 /\ (Held(m, n) \/ \E a \in Nat : WillAt(p, a, m, n))
  BY DEF Safe, Delivered, Counted
<1>2. ASSUME NEW a \in Nat, WillAt(p, a, m, n) PROVE WillAt(p, a, m, n)'
  <2>1. ASSUME NEW j \in 0 .. n - 1 PROVE Will(p, a + j, <<m, j>>)'
    BY <1>0, <1>2, <2>1, WillKept DEF WillAt
  <2>2. HasReceiver' => \E r \in reports' : r.at <= a /\ a + n <= r.at + r.len
    BY <1>0, <1>2 DEF WillAt
  <2> QED
    BY <2>1, <2>2 DEF WillAt
<1>3. ASSUME NEW b \in Buffers, NEW i \in Nat, HeldAt(b, i, m, n)
      PROVE  Held(m, n)' \/ \E a \in Nat : WillAt(p, a, m, n)'
  <2>1. CASE pc[p] = "reset" /\ loc[p].buf = b
    <3>1. /\ word[b].offset \in Nat /\ word[b].offset > 0 /\ i + n <= word[b].offset
          /\ address[b] \in Nat
      BY <1>1, <1>3, Producer, WordFields DEF HeldAt
    <3>2. word[b].sealed
      BY <3>1 DEF Holds
    <3>3. ASSUME NEW j \in 0 .. n - 1 PROVE Will(p, (address[b] + i) + j, <<m, j>>)
      <4>1. i + j \in 0 .. word[b].offset - 1 /\ mem[b][i + j] = <<m, j>>
        BY <1>3, <3>1, <3>3 DEF HeldAt
      <4>2. address[b] + (i + j) = (address[b] + i) + j
        BY <3>1, <3>3
      <4> QED
        BY <3>2, <4>1, <4>2 DEF Placed
    <3>4. ASSUME HasReceiver
          PROVE  \E r \in reports : r.at <= address[b] + i /\ address[b] + i + n <= r.at + r.len
      <4> PICK s : s = [at |-> address[b], len |-> word[b].offset]
        OBVIOUS
      <4>1. s \in reports
        BY <2>1, <3>1, <3>4 DEF Sends
      <4>2. s.at <= address[b] + i /\ address[b] + i + n <= s.at + s.len
        BY <3>1
      <4> QED
        BY <4>1, <4>2
    <3>5. PICK a \in Nat : a = address[b] + i
      BY <3>1
    <3>6. WillAt(p, a, m, n)
      BY <3>3, <3>4, <3>5 DEF WillAt
    <3> QED
      BY <1>2, <3>6
  <2> QED
    BY <1>3, <2>1, HeldMoves
<1>4. Held(m, n)' \/ \E a \in Nat : WillAt(p, a, m, n)'
  BY <1>1, <1>2, <1>3 DEF Held
<1> QED
  BY <1>1, <1>4

\* Every step after flush_current keeps what holds unless a submission failed.
LEMMA NextEInv ==
  ASSUME NEW p, OneProducer(p), TInv, Counted(p), CInv(p), EInv(p), PollStep(p),
         SqDepth > 0, opt' = opt
  PROVE  EInv(p)'
<1> SUFFICES ASSUME submitFaults' = 0
             PROVE  Carries(p)' /\ Placed(p)' /\ Sends(p)' /\ Promised(p)' /\ Delivered(p)'
  BY DEF EInv
<1>1. Carries(p) /\ Placed(p) /\ Sends(p) /\ Promised(p) /\ Delivered(p)
  BY FaultsBefore DEF EInv
<1>2. Polls(p) /\ \A b \in Buffers : Holds(b)
  BY DEF CInv
<1> QED
  BY <1>1, <1>2, CarriesKept, PlacedKept, SendsKept, PromisedKept, DeliveredKept

-----------------------------------------------------------------------------
(* The whole run of the logger *)

\* flush_current stores one entry and starts no message.
LEMMA FlushCounted ==
  ASSUME NEW p, TInv, Counted(p), FlushCurrent PROVE Counted(p)'
<1> PICK b \in Buffers, n \in Nat : b = current /\ n = word[b].offset
  BY WordFields DEF TInv, SharedOK
<1> USE DEF bufVars, ringVars, uringVars, clientVars
<1>1. CASE n = 0
  BY <1>1 DEF FlushCurrent, Counted, OneEntry
<1>2. CASE n > 0
  <2> PICK e : e = [at |-> next_address, len |-> NextMultipleOf(n, Page)]
    OBVIOUS
  <2>1. /\ UNCHANGED <<sent, copied, pc, loc>>
        /\ PushEntry(b, e) \/ UNCHANGED <<sqe, serial, sq, kernel, submitFaults>>
    BY <1>2, Flushes
  <2>2. submitFaults' \in Nat
    <3>1. \A S : Enter(S) => submitFaults' \in Nat
      BY DEF Enter, Counted
    <3> QED
      BY <2>1, <3>1 DEF PushEntry, Counted
  <2>3. OneEntry'
    <3>1. sqe' = sqe \/ sqe' = [sqe EXCEPT ![b] = {e}]
      BY <2>1 DEF PushEntry
    <3> QED
      BY <3>1 DEF Counted, OneEntry, TInv, SharedOK
  <2> QED
    BY <2>1, <2>2, <2>3 DEF Counted
<1> QED
  BY <1>1, <1>2

\* Without a store flush_current submits nothing.
LEMMA FlushNInv ==
  ASSUME NEW p, TInv, NInv(p), FlushCurrent PROVE NInv(p)'
<1> PICK b \in Buffers, n \in Nat : b = current /\ n = word[b].offset
  BY WordFields DEF TInv, SharedOK
<1> USE DEF bufVars, ringVars, uringVars, clientVars
<1>0. UNCHANGED <<opt, reports, pc, loc, got>>
  BY DEF FlushCurrent
<1>1. ~HasStore => UNCHANGED <<sq, kernel, cq>>
  <2>1. CASE n = 0
    BY <2>1 DEF FlushCurrent
  <2>2. CASE n > 0
    <3> PICK e : e = [at |-> next_address, len |-> NextMultipleOf(n, Page)]
      OBVIOUS
    <3> QED
      BY <2>2, Flushes
  <2> QED
    BY <2>1, <2>2
<1> QED
  BY <1>0, <1>1 DEF NInv, HasStore

\* The layers of BufferRingSoloProofs until flush_current, CInv from there on.
ShutInv(p) ==
  /\ TInv /\ Counted(p) /\ NInv(p)
  /\ ~closed => SoloInv(p) /\ DInv(p)
  /\ closed /\ HasStore => CInv(p)

\* The same for what holds unless a submission failed.
Faultless(p) ==
  /\ ~closed => FInv(p)
  /\ closed /\ HasStore => EInv(p)

\* A step of the logger is one of the ring, or flush_current.
LEMMA ShutSteps ==
  ASSUME [ShutdownNext]_shutdownVars
  PROVE  /\ opt' = opt
         /\ \/ [Next]_vars /\ closed' = closed /\ (closed => sent' = sent)
            \/ FlushCurrent /\ ~closed /\ closed' = TRUE
<1>1. CASE FlushCurrent
  BY <1>1 DEF FlushCurrent
<1>2. CASE ~FlushCurrent
  BY <1>2 DEF ShutdownNext, shutdownVars, Next, vars, clientVars
<1> QED
  BY <1>1, <1>2

\* Nothing has happened yet.
LEMMA InitShutInv ==
  ASSUME NEW p, OneProducer(p), ShutdownInit PROVE ShutInv(p) /\ Faultless(p)
<1>1. Init /\ closed = FALSE
  BY DEF ShutdownInit
<1>2. TInv /\ OInv
  BY <1>1, InitTInv, InitOInv
<1>3. WInv(p) /\ LInv(p) /\ DInv(p) /\ NInv(p) /\ Counted(p) /\ FInv(p)
  BY <1>1, InitWInv, InitLInv, InitDInv, InitNInv, InitCounted, InitFInv
<1> QED
  BY <1>1, <1>2, <1>3 DEF ShutInv, Faultless, SoloInv

\* Each step keeps the invariant of its phase, and flush_current leads from one to
\* the other.
LEMMA NextShutInv ==
  ASSUME NEW p, OneProducer(p), AlwaysFlushed, ShutInv(p), [ShutdownNext]_shutdownVars
  PROVE  ShutInv(p)'
<1>0. TInv /\ Counted(p) /\ NInv(p) /\ opt' = opt
  BY ShutSteps DEF ShutInv
<1>1. HasStore' <=> HasStore
  BY <1>0 DEF HasStore
<1>2. CASE [Next]_vars /\ closed' = closed /\ (closed => sent' = sent)
  <2>1. TInv' /\ Counted(p)' /\ NInv(p)'
    BY <1>0, <1>2, NextTInv, NextCounted, NextNInv
  <2>2. ASSUME ~closed PROVE SoloInv(p)' /\ DInv(p)'
    <3>1. SoloInv(p) /\ DInv(p)
      BY <2>2 DEF ShutInv
    <3>2. SoloInv(p)'
      BY <1>2, <3>1, NextTInv, NextOInv, NextWInv, NextLInv DEF SoloInv
    <3> QED
      BY <1>2, <3>1, <3>2, NextDInv
  <2>3. ASSUME closed, HasStore PROVE CInv(p)'
    <3>1. CInv(p) /\ Polls(p)
      BY <2>3 DEF ShutInv, CInv
    <3>2. PollStep(p)
      BY <1>0, <1>2, <2>3, <3>1, PollSteps
    <3> QED
      BY <1>0, <3>1, <3>2, NextCInv
  <2> QED
    BY <1>1, <1>2, <2>1, <2>2, <2>3 DEF ShutInv
<1>3. CASE FlushCurrent /\ ~closed /\ closed' = TRUE
  <2>1. TInv' /\ Counted(p)' /\ NInv(p)'
    BY <1>0, <1>3, FlushTypes, FlushCounted, FlushNInv
  <2>2. SoloInv(p) /\ DInv(p)
    BY <1>3 DEF ShutInv
  <2>3. ASSUME HasStore PROVE CInv(p)'
    BY <1>3, <2>2, <2>3, CloseCInv
  <2> QED
    BY <1>1, <1>3, <2>1, <2>3 DEF ShutInv
<1> QED
  BY <1>2, <1>3, ShutSteps

\* The same when the submission queue has room for an entry.
LEMMA NextFaultless ==
  ASSUME NEW p, OneProducer(p), SqDepth > 0, ShutInv(p), Faultless(p),
         [ShutdownNext]_shutdownVars
  PROVE  Faultless(p)'
<1>0. TInv /\ Counted(p) /\ opt' = opt
  BY ShutSteps DEF ShutInv
<1>1. HasStore' <=> HasStore
  BY <1>0 DEF HasStore
<1>2. CASE [Next]_vars /\ closed' = closed /\ (closed => sent' = sent)
  <2>1. ASSUME ~closed PROVE FInv(p)'
    BY <1>0, <1>2, <2>1, NextFInv DEF ShutInv, Faultless
  <2>2. ASSUME closed, HasStore PROVE EInv(p)'
    <3>1. CInv(p) /\ Polls(p) /\ EInv(p)
      BY <2>2 DEF ShutInv, CInv, Faultless
    <3>2. PollStep(p)
      BY <1>0, <1>2, <2>2, <3>1, PollSteps
    <3> QED
      BY <1>0, <3>1, <3>2, NextEInv
  <2> QED
    BY <1>1, <1>2, <2>1, <2>2 DEF Faultless
<1>3. CASE FlushCurrent /\ ~closed /\ closed' = TRUE
  <2>1. SoloInv(p) /\ DInv(p) /\ FInv(p)
    BY <1>3 DEF ShutInv, Faultless
  <2>2. ASSUME HasStore PROVE EInv(p)'
    BY <1>0, <1>3, <2>1, <2>2, CloseEInv
  <2> QED
    BY <1>1, <1>3, <2>2 DEF Faultless
<1> QED
  BY <1>2, <1>3, ShutSteps

\* Both are invariants of the logger.
LEMMA ShutInvariance ==
  ASSUME NEW p, OneProducer(p), AlwaysFlushed PROVE ShutdownSpec => []ShutInv(p)
<1>1. ShutdownInit => ShutInv(p)
  BY InitShutInv
<1>2. ShutInv(p) /\ [ShutdownNext]_shutdownVars => ShutInv(p)'
  BY NextShutInv
<1> QED
  BY <1>1, <1>2, PTL DEF ShutdownSpec

\* The second one needs room in the submission queue.
LEMMA FaultlessInvariance ==
  ASSUME NEW p, OneProducer(p), AlwaysFlushed, SqDepth > 0
  PROVE  ShutdownSpec => []Faultless(p)
<1>1. ShutdownInit => Faultless(p)
  BY InitShutInv
<1>2. ShutInv(p) /\ Faultless(p) /\ [ShutdownNext]_shutdownVars => Faultless(p)'
  BY NextFaultless
<1> QED
  BY <1>1, <1>2, ShutInvariance, PTL DEF ShutdownSpec

-----------------------------------------------------------------------------
(* What main may rely on *)

\* When all is done, what will be in the file is there, and no buffer holds data.
LEMMA AllDone ==
  ASSUME NEW p, OneProducer(p), TInv, CInv(p), EInv(p), submitFaults = 0, Drained
  PROVE  /\ \A a, v : Will(p, a, v) => OnDisk(a, v)
         /\ \A b \in Buffers : word[b].offset = 0
<1>1. pc[p] = "idle" /\ got[p] = {} /\ kernel = {} /\ cq = {}
  BY Producer DEF Drained, Joined, At, CInv, Polls, Handling
<1>2. \A b : \A e : ~Owed(p, b, e)
  BY <1>1 DEF Owed, Failed
<1>3. \A b \in Buffers : ~word[b].sealed
  BY <1>1 DEF EInv, Carries
<1> QED
  BY <1>2, <1>3 DEF Will, CInv, Holds

\* The types hold through flush_current as well, for any threads and options.
THEOREM ShutdownTypes == ShutdownSpec => []TypeOK
<1>1. TInv /\ opt \in Options => TypeOK
  BY DEF TInv, ThreadOK, SharedOK, TypeOK
<1>2. ShutdownInit => TInv /\ opt \in Options
  BY InitTInv DEF ShutdownInit, Init
<1>3. TInv /\ opt \in Options /\ [ShutdownNext]_shutdownVars => TInv' /\ (opt \in Options)'
  BY ShutSteps, NextTInv, FlushTypes
<1> QED
  BY <1>1, <1>2, <1>3, PTL DEF ShutdownSpec

\* flush_current writes a buffer whose write is in flight a second time, to another
\* range; still no two buffers are ever written to the same region of the file, up
\* to the end of the program and whatever fails.
THEOREM ShutdownDisjoint ==
  ASSUME NEW p, OneProducer(p), AlwaysFlushed PROVE ShutdownSpec => []DisjointRanges
<1>1. ShutInv(p) => DisjointRanges
  <2> SUFFICES ASSUME ShutInv(p) PROVE DisjointRanges
    OBVIOUS
  <2>1. CASE ~closed
    BY <2>1, SoloRanges DEF ShutInv
  <2>2. CASE ~HasStore
    BY <2>2 DEF ShutInv, NInv, DisjointRanges
  <2>3. CASE closed /\ HasStore
    <3> SUFFICES ASSUME NEW r \in sq \cup kernel, NEW s \in sq \cup kernel, r.buf # s.buf
                 PROVE  (r.at .. r.at + r.len - 1) \cap (s.at .. s.at + s.len - 1) = {}
      BY DEF DisjointRanges
    <3>1. /\ r.buf \in Buffers /\ r.at \in Nat /\ r.len \in Nat
          /\ s.buf \in Buffers /\ s.at \in Nat /\ s.len \in Nat
      BY DEF ShutInv, TInv, SharedOK, Request
    <3>2. Pending(p, r.buf, r.at, r.len) /\ Pending(p, s.buf, s.at, s.len)
      BY DEF Pending
    <3>3. Apart(r.at, r.len, s.at, s.len)
      BY <2>3, <3>1, <3>2 DEF ShutInv, CInv, Ranges
    <3> QED
      BY <3>1, <3>3 DEF Apart
  <2> QED
    BY <2>1, <2>2, <2>3
<1> QED
  BY <1>1, ShutInvariance, PTL

\* No message that was copied is lost by flush_current, or by the reset of a buffer
\* of which it started a second write, even when submissions fail.
THEOREM ShutdownAcked ==
  ASSUME NEW p, OneProducer(p), AlwaysFlushed PROVE ShutdownSpec => []AckedSurvives
<1>1. ShutInv(p) => AckedSurvives
  <2> SUFFICES ASSUME ShutInv(p) PROVE AckedSurvives
    OBVIOUS
  <2>1. CASE ~closed
    BY <2>1, SoloBytes DEF ShutInv
  <2>2. CASE closed
    <3> SUFFICES ASSUME HasStore, NEW x \in copied, NEW j \in 0 .. x[2] - 1
                 PROVE  Kept(<<x[1], j>>)
      BY DEF AckedSurvives
    <3>1. CInv(p)
      BY <2>2 DEF ShutInv
    <3>2. PICK n \in Nat, m \in {x[1]} : x[2] = n /\ x[1] = m
      BY <3>1 DEF CInv, Safe
    <3>3. ASSUME NEW b \in Buffers, NEW i \in Nat, HeldAt(b, i, m, n)
          PROVE  Kept(<<m, j>>)
      <4>1. /\ word[b].offset \in Nat /\ word[b].offset <= Block /\ Block \in Nat
            /\ i + n <= word[b].offset
        BY <3>1, <3>3, WordFields, BufferRingAssumption
           DEF CInv, Holds, HeldAt, ShutInv, TInv, SharedOK
      <4>2. i + j \in 0 .. Block - 1 /\ i + j < word[b].offset
        BY <3>2, <4>1
      <4>3. mem[b][i + j] = <<m, j>>
        BY <3>2, <3>3 DEF HeldAt
      <4> QED
        BY <4>2, <4>3 DEF Kept
    <3>4. ASSUME NEW a \in Nat, FixedAt(p, a, m, n) PROVE Kept(<<m, j>>)
      <4>1. OnDisk(a + j, <<m, j>>)
        BY <3>2, <3>4 DEF FixedAt, Fixed
      <4> QED
        BY <4>1 DEF OnDisk, Kept
    <3>5. Held(m, n) \/ \E a \in Nat : FixedAt(p, a, m, n)
      BY <3>1, <3>2 DEF CInv, Safe
    <3> QED
      BY <3>2, <3>3, <3>4, <3>5 DEF Held
  <2> QED
    BY <2>1, <2>2
<1> QED
  BY <1>1, ShutInvariance, PTL

\* Every range sent on the completion channel is in the file as long as the threads
\* run and, when no submission failed, again when everything has completed, also
\* the ranges reported for a buffer that flush_current gave a second address.
THEOREM ShutdownReports ==
  ASSUME NEW p, OneProducer(p), AlwaysFlushed, SqDepth > 0
  PROVE  ShutdownSpec => []ReportsSettled
<1>1. ShutInv(p) /\ Faultless(p) => ReportsSettled
  <2> SUFFICES ASSUME ShutInv(p), Faultless(p), ~closed \/ (Drained /\ submitFaults = 0)
               PROVE  ReportsReadable
    BY DEF ReportsSettled
  <2>1. CASE ~closed
    BY <2>1, Readable DEF ShutInv
  <2>2. CASE ~HasStore
    BY <2>2 DEF ShutInv, NInv, ReportsReadable
  <2>3. CASE closed /\ HasStore
    <3> SUFFICES ASSUME NEW r \in reports, NEW a \in r.at .. r.at + r.len - 1
                 PROVE  a \in DOMAIN disk /\ disk[a] # Empty
      BY DEF ReportsReadable
    <3>1. TInv /\ CInv(p) /\ EInv(p) /\ Promised(p) /\ Drained /\ submitFaults = 0
      BY <2>3 DEF ShutInv, Faultless, EInv
    <3>2. r.at \in Nat /\ r.len \in Nat
      BY <3>1 DEF Promised
    <3>3. a - r.at \in 0 .. r.len - 1 /\ r.at + (a - r.at) = a
      BY <3>2
    <3>4. PICK v : v # Empty /\ Will(p, a, v)
      BY <3>1, <3>3 DEF Promised
    <3>5. OnDisk(a, v)
      BY <3>1, <3>4, AllDone
    <3> QED
      BY <3>4, <3>5 DEF OnDisk
  <2> QED
    BY <2>1, <2>2, <2>3
<1> QED
  BY <1>1, ShutInvariance, FaultlessInvariance, PTL

\* At the end of the program every message that was copied is in the file, whole
\* and in one piece, within a range sent on the completion channel, unless a
\* submission failed: the logger finds everything it wrote.
THEOREM ShutdownDelivers ==
  ASSUME NEW p, OneProducer(p), AlwaysFlushed, SqDepth > 0
  PROVE  ShutdownSpec => []ShutdownComplete
<1>1. ShutInv(p) /\ Faultless(p) => ShutdownComplete
  <2> SUFFICES ASSUME ShutInv(p), Faultless(p), closed, Drained, HasStore, HasReceiver,
                      submitFaults = 0, NEW x \in copied
               PROVE  \E r \in reports : \E a \in r.at .. r.at + r.len - x[2] :
                        \A j \in 0 .. x[2] - 1 :
                          a + j \in DOMAIN disk /\ disk[a + j] = <<x[1], j>>
    BY DEF ShutdownComplete
  <2>1. TInv /\ CInv(p) /\ EInv(p) /\ Promised(p) /\ Delivered(p) /\ Counted(p)
    BY DEF ShutInv, Faultless, EInv
  <2>2. PICK n \in Nat, m \in {x[1]} : x[2] = n /\ x[1] = m /\ n > 0
    BY <2>1 DEF CInv, Safe, Counted
  <2>3. ~Held(m, n)
    <3>1. \A b \in Buffers : word[b].offset = 0
      BY <2>1, AllDone
    <3> QED
      BY <2>2, <3>1 DEF Held, HeldAt
  <2>4. PICK a \in Nat : WillAt(p, a, m, n)
    BY <2>1, <2>2, <2>3 DEF Delivered
  <2>5. PICK r \in reports : r.at <= a /\ a + n <= r.at + r.len
    BY <2>4 DEF WillAt
  <2>6. r.at \in Nat /\ r.len \in Nat
    BY <2>1 DEF Promised
  <2>7. a \in r.at .. r.at + r.len - n
    BY <2>5, <2>6
  <2>8. ASSUME NEW j \in 0 .. n - 1 PROVE a + j \in DOMAIN disk /\ disk[a + j] = <<m, j>>
    <3>1. Will(p, a + j, <<m, j>>)
      BY <2>4 DEF WillAt
    <3>2. OnDisk(a + j, <<m, j>>)
      BY <2>1, <3>1, AllDone
    <3> QED
      BY <3>2 DEF OnDisk
  <2> QED
    BY <2>2, <2>7, <2>8
<1> QED
  BY <1>1, ShutInvariance, FaultlessInvariance, PTL

=============================================================================
