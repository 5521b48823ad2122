------------------------ MODULE BufferRingSoloProofs ------------------------
(***************************************************************************)
(* Proofs about BufferRing with one producer p, the only use in which the  *)
(* ring keeps what it promises about the file: with more, DisjointRanges   *)
(* and AckedSurvives fail (README.md, the documentation runs).  The ring,  *)
(* the sizes, the messages and the faults are arbitrary.                   *)
(*                                                                         *)
(* The argument has three layers, each an invariant that uses the ones     *)
(* before it: what the state words say about the producer, which part of   *)
(* the file each sealed buffer has, and where the bytes of a message are.  *)
(***************************************************************************)
EXTENDS BufferRingProofs, FiniteSetTheorems

\* One producer; the writers field can count it.
OneProducer(p) == Threads = {p} /\ WriterSpan > 1

\* Every ring is made with auto_flush, the default.
AlwaysFlushed == \A o \in Options : o.auto_flush

-----------------------------------------------------------------------------
(* The words and the producer *)

\* A reservation is counted; the buffer is sealed and not yet flushing; a
\* completion is being handled.
Filling  == {"copy", "dec"}
Sealing  == {"size", "slot", "store", "rotate", "rsize", "scan", "avail", "swap",
             "raddr", "rcas", "drain", "claim"}
Handling == {"reap", "retry", "sendAt", "sendLen", "reset", "reset2"}

\* A flushing buffer is sealed; an open one that holds data is the current one;
\* sealed without flushing, or a counted writer, is the producer's doing.
WordOK(p, b) ==
  /\ word[b].offset <= Block
  /\ word[b].flushing => word[b].sealed
  /\ ~word[b].sealed /\ word[b].offset > 0 => b = current
  /\ word[b].sealed /\ ~word[b].flushing => pc[p] \in Sealing /\ loc[p].buf = b
  /\ word[b].writers # 0 => pc[p] \in Filling /\ loc[p].buf = b

\* What the producer knows about the buffer it is working on.
ProducerOK(p) ==
  LET l == loc[p]
      w == word[loc[p].buf]
  IN
  /\ pc[p] \in {"reserve", "cas", "copy", "dec", "seal"} => l.buf = current
  /\ pc[p] = "cas" => w = l.seen
  /\ pc[p] \in {"copy", "dec", "seal"} => IsOpen(w)
  /\ pc[p] \in Filling => w.writers = 1
  /\ pc[p] = "copy" => w.offset = l.off + l.size
  /\ pc[p] \in Sealing => w.sealed /\ ~w.flushing /\ l.mode = "sealer"
  /\ pc[p] \in {"swap", "raddr", "rcas"} => IsAvailable(word[l.cand])
  /\ pc[p] = "reset2" => w = ZeroWord
  /\ pc[p] = "idle" => l.size = 0
  /\ got[p] # {} => pc[p] \in Handling /\ l.mode = "poller"

WInv(p) == ProducerOK(p) /\ \A b \in Buffers : WordOK(p, b)

-----------------------------------------------------------------------------
(* The parts of the file *)

Padded(b) == NextMultipleOf(word[b].offset, Page)

Apart(a, n, c, k) == a + n <= c \/ c + k <= a

\* Buffer b has been given the Padded(b) bytes of the file from Place(p, b), and
\* what it holds is not yet reported and done with.
Live(p, b) ==
  word[b].sealed /\ ~(loc[p].buf = b /\ pc[p] \in {"size", "slot", "reset"})

Place(p, b) ==
  IF pc[p] = "store" /\ loc[p].buf = b THEN loc[p].at ELSE address[b]

Entry(b) == [at |-> address[b], len |-> Padded(b)]

\* The live buffers have disjoint parts of the claimed file.
Layout(p) ==
  /\ \A b \in Buffers : Live(p, b) => Place(p, b) + Padded(b) <= next_address
  /\ \A b, c \in Buffers : Live(p, b) /\ Live(p, c) /\ b # c =>
       Apart(Place(p, b), Padded(b), Place(p, c), Padded(c))

\* The locals that become a position or a length in the file.
LocalPlace(p) ==
  /\ pc[p] \in {"slot", "store", "at", "push"} => loc[p].len = Padded(loc[p].buf)
  /\ pc[p] = "push" => loc[p].at = address[loc[p].buf]

\* A write of buffer b is under way, or was and may have to be repeated.
Waiting(p, b) ==
  \/ \E r \in sq \cup kernel : r.buf = b
  \/ \E c \in cq \cup got[p] : c.buf = b
  \/ pc[p] = "retry" /\ loc[p].buf = b

\* Requests, and the entries a retry would take, are for the buffer's own part.
Entries(p) ==
  /\ \A r \in sq \cup kernel : r.at = address[r.buf] /\ r.len = Padded(r.buf)
  /\ \A b \in Buffers : Waiting(p, b) => sqe[b] = {Entry(b)}

LInv(p) == Layout(p) /\ LocalPlace(p) /\ Entries(p)

-----------------------------------------------------------------------------
(* The bytes *)

\* A range of the file that no buffer will write to again.
Settled(p, a, n) ==
  /\ a + n <= next_address
  /\ \A b \in Buffers : Live(p, b) => Apart(a, n, Place(p, b), Padded(b))

\* What buffer b holds is in the file, at its address.
Written(b) ==
  \A i \in 0 .. word[b].offset - 1 :
    address[b] + i \in DOMAIN disk /\ disk[address[b] + i] = mem[b][i]

\* The write of buffer b succeeded, and the completion is not handled yet.
Done(p, b) ==
  \/ \E c \in cq \cup got[p] : c.ok /\ c.buf = b
  \/ pc[p] \in {"sendAt", "sendLen", "reset"} /\ loc[p].buf = b

\* A completion reports a write that happened; when the buffer is about to be
\* reset its part is settled, and was reported.
Completed(p) ==
  LET b == loc[p].buf IN
  /\ \A c \in Buffers : Done(p, c) => Written(c)
  /\ pc[p] = "sendLen" => loc[p].at = address[b]
  /\ pc[p] = "reset" =>
       /\ Settled(p, address[b], word[b].offset)
       /\ HasReceiver => [at |-> address[b], len |-> word[b].offset] \in reports

\* Every reserved byte has been copied to, but for the reservation under way.
Filled(p) ==
  \A b \in Buffers : \A i \in 0 .. word[b].offset - 1 :
    mem[b][i] # Empty \/ (pc[p] = "copy" /\ loc[p].buf = b /\ i >= loc[p].off)

Reported(p) ==
  \A r \in reports :
    /\ r.at \in Nat /\ r.len \in Nat
    /\ Settled(p, r.at, r.len)
    /\ \A i \in 0 .. r.len - 1 :
         r.at + i \in DOMAIN disk /\ disk[r.at + i] # Empty

\* Message m of n bytes is whole in buffer b from i, and copied ...
InBuffer(p, b, i, m, n) ==
  /\ i + n <= word[b].offset
  /\ pc[p] = "copy" /\ loc[p].buf = b => i + n <= loc[p].off
  /\ \A j \in 0 .. n - 1 : mem[b][i + j] = <<m, j>>

\* ... or whole in a settled part of the file, and reported.
InFile(p, a, m, n) ==
  /\ Settled(p, a, n)
  /\ \A j \in 0 .. n - 1 : a + j \in DOMAIN disk /\ disk[a + j] = <<m, j>>
  /\ HasReceiver => \E r \in reports : r.at <= a /\ a + n <= r.at + r.len

Somewhere(p, m, n) ==
  \/ \E b \in Buffers : \E i \in 0 .. Block : InBuffer(p, b, i, m, n)
  \/ \E a \in 0 .. next_address : InFile(p, a, m, n)

Survives(p) ==
  \A x \in copied : x[2] \in Nat /\ Somewhere(p, x[1], x[2])

MemOK == DOMAIN mem = Buffers

Data(p) == Completed(p) /\ Filled(p) /\ Reported(p) /\ Survives(p)

DInv(p) == MemOK /\ opt \in Options /\ (HasStore => Data(p))

-----------------------------------------------------------------------------
(* Without a store *)

NInv(p) ==
  ~HasStore =>
    /\ sq = {} /\ kernel = {} /\ cq = {} /\ got[p] = {} /\ reports = {}
    /\ pc[p] \notin {"flush", "len", "at", "push", "retry", "sendAt", "sendLen"}

-----------------------------------------------------------------------------
(* The first layer holds *)

\* The producer's variables, typed.
LEMMA Producer ==
  ASSUME NEW p, OneProducer(p), TInv
  PROVE  /\ p \in Threads /\ \A t \in Threads : t = p
         /\ pc \in [Threads -> Labels] /\ loc \in [Threads -> Local]
         /\ loc[p] \in Local /\ loc[p].buf \in Buffers /\ loc[p].cand \in Buffers
         /\ loc[p].seen \in Word
         /\ loc[p].off \in Nat /\ loc[p].size \in Nat /\ loc[p].at \in Nat
         /\ loc[p].len \in Nat
         /\ word \in [Buffers -> Word] /\ address \in [Buffers -> Nat]
         /\ got \in [Threads -> SUBSET Cqe]
<1>1. p \in Threads /\ \A t \in Threads : t = p
  BY DEF OneProducer
<1>2. loc[p] \in Local
  BY <1>1 DEF TInv, ThreadOK
<1> QED
  BY <1>1, <1>2, SetLocal DEF TInv, ThreadOK, SharedOK

\* The fields of a word, typed.
LEMMA WordFields ==
  ASSUME NEW w \in Word
  PROVE  /\ w.offset \in Nat /\ w.writers \in Nat
         /\ w.offset < OffsetSpan /\ w.writers < WriterSpan
         /\ w.flushing \in BOOLEAN /\ w.sealed \in BOOLEAN
  BY SpanAssumption DEF Word

\* What the operations make of an unshared word: one reservation at a time never
\* carries out of the writers field, nor out of the offset.
LEMMA WordOps ==
  ASSUME NEW w \in Word, WriterSpan > 1
  PROVE  /\ \A n \in Nat : w.offset + n <= Block /\ w.writers = 0 =>
              /\ Reserved(w, n).offset = w.offset + n
              /\ Reserved(w, n).writers = 1
              /\ Reserved(w, n).sealed = w.sealed
              /\ Reserved(w, n).flushing = w.flushing
         /\ w.writers = 1 => /\ SubWriter(w).offset = w.offset
                             /\ SubWriter(w).writers = 0
                             /\ SubWriter(w).sealed = w.sealed
                             /\ SubWriter(w).flushing = w.flushing
         /\ SetSealed(w).offset = w.offset /\ SetSealed(w).writers = w.writers
         /\ SetSealed(w).sealed /\ SetSealed(w).flushing = w.flushing
         /\ SetFlushing(w).offset = w.offset /\ SetFlushing(w).writers = w.writers
         /\ SetFlushing(w).sealed = w.sealed /\ SetFlushing(w).flushing
<1> USE WordFields
<1>1. ASSUME NEW n \in Nat, w.offset + n <= Block, w.writers = 0
      PROVE  /\ Reserved(w, n).offset = w.offset + n
             /\ Reserved(w, n).writers = 1
             /\ Reserved(w, n).sealed = w.sealed
             /\ Reserved(w, n).flushing = w.flushing
  <2>1. WrapOffset(w.offset + n) = w.offset + n
    BY <1>1, BufferRingAssumption, SpanAssumption DEF WrapOffset
  <2> DEFINE v == AddOffset(w, n)
  <2>2. v = [w EXCEPT !.offset = w.offset + n]
    BY <2>1 DEF AddOffset
  <2>3. /\ v.offset = w.offset + n /\ v.writers = 0 /\ v.sealed = w.sealed
        /\ v.flushing = w.flushing
        /\ v = [offset |-> v.offset, writers |-> v.writers, flushing |-> v.flushing,
                sealed |-> v.sealed]
    BY <1>1, <2>2 DEF Word
  <2>4. Reserved(w, n) = AddWriter(v)
    BY DEF Reserved
  <2> HIDE DEF v
  <2>5. AddWriter(v) = [v EXCEPT !.writers = 1]
    BY <2>3, SpanAssumption DEF AddWriter
  <2> QED
    BY <2>3, <2>4, <2>5
<1>2. ASSUME w.writers = 1
      PROVE  /\ SubWriter(w).offset = w.offset
             /\ SubWriter(w).writers = 0
             /\ SubWriter(w).sealed = w.sealed
             /\ SubWriter(w).flushing = w.flushing
  <2>1. SubWriter(w) = [w EXCEPT !.writers = 0]
    BY <1>2 DEF SubWriter
  <2> QED
    BY <2>1 DEF Word
<1>3. /\ SetSealed(w).offset = w.offset /\ SetSealed(w).writers = w.writers
      /\ SetSealed(w).sealed /\ SetSealed(w).flushing = w.flushing
  BY DEF SetSealed, Word
<1>4. /\ SetFlushing(w).offset = w.offset /\ SetFlushing(w).writers = w.writers
      /\ SetFlushing(w).sealed = w.sealed /\ SetFlushing(w).flushing
  BY DEF SetFlushing, Word
<1> QED
  BY <1>1, <1>2, <1>3, <1>4

\* A new ring.
LEMMA InitWInv ==
  ASSUME NEW p, OneProducer(p), Init PROVE WInv(p)
<1>1. p \in Threads
  BY DEF OneProducer
<1>2. /\ pc[p] = "idle" /\ loc[p] = NoLocals /\ got[p] = {}
      /\ \A b \in Buffers : word[b] = ZeroWord
  BY <1>1 DEF Init
<1>3. ProducerOK(p)
  BY <1>2 DEF ProducerOK, NoLocals, Filling, Sealing
<1>4. \A b \in Buffers : WordOK(p, b)
  BY <1>2, BufferRingAssumption DEF WordOK, ZeroWord
<1> QED
  BY <1>3, <1>4 DEF WInv

\* A step of the producer that touches no word.
LEMMA WMove ==
  ASSUME NEW p, WInv(p), UNCHANGED <<word, current>>,
         pc[p] \in Sealing => pc'[p] \in Sealing /\ loc'[p].buf = loc[p].buf,
         pc[p] \in Filling => pc'[p] \in Filling /\ loc'[p].buf = loc[p].buf,
         ProducerOK(p)'
  PROVE  WInv(p)'
  BY DEF WInv, WordOK

\* The steps between the client and reserve_space.
LEMMA WClient ==
  ASSUME NEW p, OneProducer(p), TInv, WInv(p),
         StartMessage(p) \/ StartPoll(p) \/ LoadCurrent(p) \/ ReserveLoad(p) \/ Write(p)
  PROVE  WInv(p)'
<1> USE DEF bufVars, ringVars, uringVars, clientVars, Goto, At, Filling, Sealing, Handling
<1>0. UNCHANGED <<word, current, got>>
  BY DEF StartMessage, StartPoll, LoadCurrent, ReserveLoad, Write
<1>1. CASE StartMessage(p) \/ StartPoll(p)
  <2>1. pc[p] = "idle" /\ pc'[p] \in {"load", "poll"} /\ got[p] = {}
    BY <1>1, Producer DEF StartMessage, StartPoll, WInv, ProducerOK
  <2> QED
    BY <1>0, <2>1, WMove DEF ProducerOK
<1>2. CASE LoadCurrent(p)
  <2>1. pc[p] = "load" /\ pc'[p] = "reserve" /\ got[p] = {} /\ loc'[p].buf = current
    BY <1>2, Producer DEF LoadCurrent, WInv, ProducerOK, Local
  <2> QED
    BY <1>0, <2>1, WMove DEF ProducerOK
<1>3. CASE ReserveLoad(p)
  <2>1. /\ pc[p] = "reserve" /\ got[p] = {} /\ loc'[p].buf = loc[p].buf
        /\ loc[p].buf = current
        /\ \/ pc'[p] \in {"poll", "load"}
           \/ pc'[p] = "seal" /\ IsOpen(word[loc[p].buf])
           \/ pc'[p] = "cas" /\ loc'[p].seen = word[loc[p].buf]
    BY <1>3, Producer DEF ReserveLoad, WInv, ProducerOK, Local
  <2> QED
    BY <1>0, <2>1, WMove DEF ProducerOK
<1>4. CASE Write(p)
  <2>1. pc[p] = "copy" /\ pc'[p] = "dec" /\ got[p] = {} /\ loc' = loc
    BY <1>4, Producer DEF Write, WInv, ProducerOK
  <2> QED
    BY <1>0, <2>1, WMove DEF ProducerOK, WInv
<1> QED
  BY <1>1, <1>2, <1>3, <1>4

\* A step of the producer that gives the buffer it works on another word.
LEMMA WWord ==
  ASSUME NEW p, WInv(p), NEW b \in Buffers, loc[p].buf = b, NEW w,
         word \in [Buffers -> Word], word' = [word EXCEPT ![b] = w], current' = current,
         WordOK(p, b)', ProducerOK(p)'
  PROVE  WInv(p)'
  BY DEF WInv, WordOK

\* reserve_space succeeds: nobody else was counted, and the word is as loaded.
LEMMA WReserve ==
  ASSUME NEW p, OneProducer(p), TInv, WInv(p), ReserveCas(p)
  PROVE  WInv(p)'
<1> PICK b \in Buffers : b = loc[p].buf
  BY Producer
<1> USE DEF bufVars, ringVars, uringVars, clientVars, Goto, At, Filling, Sealing, Handling
<1>0. pc[p] = "cas" /\ got[p] = {} /\ b = current /\ word[b] = loc[p].seen
  BY DEF ReserveCas, WInv, ProducerOK
<1>1. /\ word[b].writers = 0 /\ word[b].offset + loc[p].size <= Block /\ IsOpen(word[b])
  BY <1>0, Producer DEF WInv, WordOK, TInv, ThreadOK, SeenWasOpen
<1>2. /\ got' = got /\ current' = current
      /\ word' = [word EXCEPT ![b] = Reserved(word[b], loc[p].size)]
      /\ pc'[p] = "copy" /\ loc'[p].off = word[b].offset /\ loc'[p].size = loc[p].size
      /\ loc'[p].buf = b
  <2>1. /\ got' = got /\ current' = current
        /\ word' = [word EXCEPT ![b] = Reserved(word[b], loc[p].size)]
        /\ pc' = [pc EXCEPT ![p] = "copy"]
        /\ loc' = [loc EXCEPT ![p].off = word[b].offset]
    BY <1>0 DEF ReserveCas
  <2> QED
    BY <2>1, Producer DEF Local
<1>3. /\ word'[b].offset = word[b].offset + loc[p].size
      /\ word'[b].writers = 1
      /\ word'[b].sealed = word[b].sealed
      /\ word'[b].flushing = word[b].flushing
  BY <1>1, <1>2, Producer, WordOps DEF OneProducer
<1>4. WordOK(p, b)'
  BY <1>0, <1>1, <1>2, <1>3, Producer DEF WordOK, IsOpen
<1>5. ProducerOK(p)'
  BY <1>0, <1>1, <1>2, <1>3 DEF ProducerOK, IsOpen
<1> QED
  BY <1>2, <1>4, <1>5, WWord, Producer

\* decrement_writers: the buffer is still open, so put returns.
LEMMA WDecrement ==
  ASSUME NEW p, OneProducer(p), TInv, WInv(p), DecrementWriters(p)
  PROVE  /\ WInv(p)'
         /\ pc[p] = "dec" /\ pc'[p] = "idle" /\ ReturnOk(p)
         /\ \A b \in Buffers : word'[b].sealed = word[b].sealed
                               /\ word'[b].flushing = word[b].flushing
                               /\ word'[b].offset = word[b].offset
<1> PICK b \in Buffers : b = loc[p].buf
  BY Producer
<1> USE DEF bufVars, ringVars, uringVars, clientVars, Goto, At, Filling, Sealing, Handling
<1>0. /\ pc[p] = "dec" /\ got[p] = {} /\ b = current /\ word[b].writers = 1
      /\ IsOpen(word[b])
  BY DEF DecrementWriters, WInv, ProducerOK
<1>1. ReturnOk(p)
  BY <1>0 DEF DecrementWriters, IsOpen
<1>2. /\ got' = got /\ current' = current
      /\ word' = [word EXCEPT ![b] = SubWriter(word[b])]
      /\ pc'[p] = "idle" /\ loc'[p].size = 0
  BY <1>1, Producer DEF DecrementWriters, ReturnOk, NoLocals
<1>3. /\ word'[b].offset = word[b].offset
      /\ word'[b].writers = 0
      /\ word'[b].sealed = word[b].sealed
      /\ word'[b].flushing = word[b].flushing
  BY <1>0, <1>2, Producer, WordOps DEF OneProducer
<1>4. WordOK(p, b)'
  BY <1>0, <1>2, <1>3, Producer DEF WInv, WordOK, IsOpen
<1>5. ProducerOK(p)'
  BY <1>0, <1>2 DEF ProducerOK
<1>6. WInv(p)'
  BY <1>2, <1>4, <1>5, WWord, Producer
<1> QED
  BY <1>0, <1>1, <1>2, <1>3, <1>6, Producer

\* Sealing: the buffer was open, so the producer is the one who seals it.
LEMMA WSeal ==
  ASSUME NEW p, OneProducer(p), TInv, WInv(p), Seal(p)
  PROVE  /\ WInv(p)'
         /\ pc[p] = "seal" /\ pc'[p] = "size" /\ loc'[p].buf = loc[p].buf
         /\ ~word[loc[p].buf].sealed /\ ~word[loc[p].buf].flushing
         /\ word' = [word EXCEPT ![loc[p].buf] = SetSealed(word[loc[p].buf])]
<1> PICK b \in Buffers : b = loc[p].buf
  BY Producer
<1> USE DEF bufVars, ringVars, uringVars, clientVars, Goto, At, Filling, Sealing, Handling
<1>0. /\ pc[p] = "seal" /\ got[p] = {} /\ b = current /\ IsOpen(word[b])
  BY DEF Seal, WInv, ProducerOK
<1>2. /\ got' = got /\ current' = current
      /\ word' = [word EXCEPT ![b] = SetSealed(word[b])]
      /\ pc'[p] = "size" /\ loc'[p].buf = b /\ loc'[p].mode = "sealer"
  <2>1. /\ got' = got /\ current' = current
        /\ word' = [word EXCEPT ![b] = SetSealed(word[b])]
        /\ pc' = [pc EXCEPT ![p] = "size"]
        /\ loc' = [loc EXCEPT ![p].mode = "sealer"]
    BY <1>0 DEF Seal, IsOpen
  <2> QED
    BY <2>1, Producer DEF Local
<1>3. /\ word'[b].offset = word[b].offset
      /\ word'[b].writers = word[b].writers
      /\ word'[b].sealed
      /\ word'[b].flushing = word[b].flushing
  BY <1>0, <1>2, Producer, WordOps DEF OneProducer
<1>4. WordOK(p, b)'
  BY <1>0, <1>2, <1>3, Producer DEF WInv, WordOK, IsOpen
<1>5. ProducerOK(p)'
  BY <1>0, <1>2, <1>3 DEF ProducerOK, IsOpen
<1>6. WInv(p)'
  BY <1>2, <1>4, <1>5, WWord, Producer
<1> QED
  BY <1>0, <1>2, <1>6 DEF IsOpen

\* The sealer's steps up to its claim of the flush.
LEMMA WSealer ==
  ASSUME NEW p, OneProducer(p), TInv, WInv(p),
         \/ SealSize(p)   \/ ClaimSlot(p)  \/ StoreAddress(p) \/ RotateLoad(p)
         \/ RotateSize(p) \/ RotateScan(p) \/ RotateCheck(p)  \/ RotateSwap(p)
         \/ RotateReserve(p) \/ RotateAddress(p) \/ DrainCheck(p)
  PROVE  /\ WInv(p)'
         /\ pc[p] \in Sealing /\ pc'[p] \in Sealing \ {"size"}
         /\ loc'[p].buf = loc[p].buf /\ word' = word
         /\ UNCHANGED <<sqe, mem, sq, kernel, cq, got, disk, reports, copied, sent>>
<1> USE DEF bufVars, ringVars, uringVars, clientVars, Goto, At, Filling, Sealing, Handling
<1>1. word' = word /\ pc[p] \in Sealing
  BY DEF SealSize, ClaimSlot, StoreAddress, RotateLoad, RotateSize, RotateScan,
     RotateCheck, RotateSwap, RotateReserve, RotateAddress, DrainCheck
<1>2. got[p] = {} /\ word[loc[p].buf].writers = 0
  BY <1>1, Producer DEF WInv, ProducerOK, WordOK
<1>3. UNCHANGED <<sqe, mem, sq, kernel, cq, got, disk, reports, copied, sent>>
  BY <1>2 DEF SealSize, ClaimSlot, StoreAddress, RotateLoad, RotateSize, RotateScan,
     RotateCheck, RotateSwap, RotateReserve, RotateAddress, DrainCheck
<1>4. pc'[p] \in Sealing \ {"size"}
  <2>1. CASE SealSize(p) \/ ClaimSlot(p)  \/ StoreAddress(p) \/ RotateLoad(p) \/ RotateSize(p)
    BY <2>1, Producer DEF SealSize, ClaimSlot, StoreAddress, RotateLoad, RotateSize
  <2>2. CASE RotateScan(p) \/ RotateCheck(p)  \/ RotateSwap(p) \/ RotateReserve(p) \/ RotateAddress(p)
    BY <2>2, Producer DEF RotateScan, RotateCheck, RotateSwap, RotateReserve, RotateAddress
  <2>3. CASE DrainCheck(p)
    BY <1>2, <2>3, Producer DEF DrainCheck
  <2> QED
    BY <2>1, <2>2, <2>3
<1>5. loc'[p].buf = loc[p].buf /\ loc'[p].mode = loc[p].mode
  BY <1>2, Producer DEF SealSize, ClaimSlot, StoreAddress, RotateLoad, RotateSize,
     RotateScan, RotateCheck, RotateSwap, RotateReserve, RotateAddress, DrainCheck, Local
<1>6. /\ pc'[p] = "swap" => IsAvailable(word[loc'[p].cand])
      /\ pc'[p] \in {"raddr", "rcas"} => IsAvailable(word[loc'[p].cand])
  <2>1. CASE SealSize(p) \/ ClaimSlot(p)  \/ StoreAddress(p) \/ RotateLoad(p) \/ RotateSize(p) \/ DrainCheck(p)
    BY <1>2, <2>1, Producer DEF SealSize, ClaimSlot, StoreAddress, RotateLoad, RotateSize, DrainCheck
  <2>2. CASE RotateScan(p) \/ RotateCheck(p) \/ RotateAddress(p)
    BY <2>2, Producer DEF RotateScan, RotateCheck, RotateAddress
  <2>3. CASE RotateSwap(p) \/ RotateReserve(p)
    BY <2>3, Producer DEF RotateSwap, RotateReserve, WInv, ProducerOK, Local
  <2> QED
    BY <2>1, <2>2, <2>3
<1>7. ProducerOK(p)'
  BY <1>1, <1>2, <1>3, <1>4, <1>5, <1>6 DEF WInv, ProducerOK
<1>8. \A b \in Buffers : WordOK(p, b)'
  <2>1. CASE current' = current
    BY <1>1, <1>4, <1>5, <2>1 DEF WInv, WordOK
  <2>2. CASE RotateSwap(p)
    <3>1. \A b \in Buffers : ~word[b].sealed /\ word[b].offset > 0 => b = current'
      BY <1>1, <2>2 DEF RotateSwap, WInv, WordOK, ProducerOK
    <3> QED
      BY <1>1, <1>4, <1>5, <3>1 DEF WInv, WordOK
  <2> QED
    BY <2>1, <2>2 DEF SealSize, ClaimSlot, StoreAddress, RotateLoad, RotateSize,
       RotateScan, RotateCheck, RotateSwap, RotateReserve, RotateAddress, DrainCheck
<1> QED
  BY <1>1, <1>3, <1>4, <1>5, <1>7, <1>8 DEF WInv

\* The sealer's claim of the flush succeeds.
LEMMA WClaim ==
  ASSUME NEW p, OneProducer(p), TInv, WInv(p), ClaimFlush(p)
  PROVE  /\ WInv(p)'
         /\ pc[p] = "claim" /\ loc' = loc
         /\ pc'[p] = IF HasStore /\ AutoFlush THEN "flush" ELSE "reset"
         /\ word[loc[p].buf].sealed
         /\ word' = [word EXCEPT ![loc[p].buf] = SetFlushing(word[loc[p].buf])]
<1> PICK b \in Buffers : b = loc[p].buf
  BY Producer
<1> USE DEF bufVars, ringVars, uringVars, clientVars, Goto, At, Filling, Sealing, Handling
<1>0. /\ pc[p] = "claim" /\ got[p] = {} /\ word[b].sealed /\ ~word[b].flushing
  BY DEF ClaimFlush, WInv, ProducerOK
<1>1. /\ got' = got /\ current' = current /\ loc' = loc
      /\ word' = [word EXCEPT ![b] = SetFlushing(word[b])]
      /\ pc' = [pc EXCEPT ![p] = IF HasStore /\ AutoFlush THEN "flush" ELSE "reset"]
  BY <1>0 DEF ClaimFlush
<1>2. pc'[p] = IF HasStore /\ AutoFlush THEN "flush" ELSE "reset"
  BY <1>1, Producer
<1>3. /\ word'[b].offset = word[b].offset
      /\ word'[b].writers = word[b].writers
      /\ word'[b].sealed = word[b].sealed
      /\ word'[b].flushing
  BY <1>1, Producer, WordOps DEF OneProducer
<1>4. WordOK(p, b)'
  BY <1>0, <1>1, <1>3 DEF WInv, WordOK
<1>5. ProducerOK(p)'
  BY <1>0, <1>1, <1>2 DEF ProducerOK
<1>6. WInv(p)'
  BY <1>1, <1>4, <1>5, WWord, Producer
<1> QED
  BY <1>0, <1>1, <1>2, <1>6

\* The steps of the flush up to the submission: the word stays as it is.
LEMMA WFlush ==
  ASSUME NEW p, OneProducer(p), TInv, OInv, WInv(p),
         FlushMark(p) \/ FlushLen(p) \/ FlushAt(p) \/ Submit(p)
  PROVE  /\ WInv(p)'
         /\ word'= word /\ pc[p] \in {"flush", "len", "at", "push"}
<1> PICK b \in Buffers : b = loc[p].buf
  BY Producer
<1> USE DEF bufVars, ringVars, uringVars, clientVars, Goto, At, Filling, Sealing, Handling
<1>0. /\ pc[p] \in {"flush", "len", "at", "push"} /\ got[p] = {}
      /\ current' = current /\ got' = got
      /\ pc'[p] \in {"len", "at", "push", "idle"}
      /\ pc'[p] = "idle" => loc'[p].size = 0
  BY Producer DEF FlushMark, FlushLen, FlushAt, Submit, ReturnOk, WInv, ProducerOK, NoLocals
<1>1. word[b].flushing
  BY <1>0, Producer DEF OInv, Marked, Owner, OwnerLabels
<1>2. SetFlushing(word[b]) = word[b]
  BY <1>1, Producer DEF SetFlushing, Word
<1>3. word' = word
  BY <1>2, Producer DEF FlushMark, FlushLen, FlushAt, Submit
<1>4. ProducerOK(p)'
  BY <1>0 DEF ProducerOK
<1> QED
  BY <1>0, <1>3, <1>4, WMove

\* The reset: the word is cleared, then the address.
LEMMA WReset ==
  ASSUME NEW p, OneProducer(p), TInv, WInv(p), ResetState(p) \/ ResetAddress(p)
  PROVE  WInv(p)'
<1> PICK b \in Buffers : b = loc[p].buf
  BY Producer
<1> USE DEF bufVars, ringVars, uringVars, clientVars, Goto, At, Filling, Sealing, Handling
<1>1. CASE ResetState(p)
  <2>1. /\ pc[p] = "reset" /\ current' = current /\ got' = got /\ loc' = loc
        /\ word' = [word EXCEPT ![b] = ZeroWord] /\ pc'[p] = "reset2"
    BY <1>1, Producer DEF ResetState
  <2>2. word'[b] = ZeroWord
    BY <2>1, Producer
  <2>3. WordOK(p, b)'
    BY <2>2, BufferRingAssumption DEF WordOK, ZeroWord
  <2>4. ProducerOK(p)'
    BY <2>1, <2>2 DEF ProducerOK, WInv
  <2> QED
    BY <2>1, <2>3, <2>4, WWord, Producer
<1>2. CASE ResetAddress(p)
  <2>1. /\ pc[p] = "reset2" /\ current' = current /\ got' = got /\ word' = word
        /\ \/ pc'[p] = "reap" /\ loc' = loc
           \/ loc[p].mode # "poller" /\ pc'[p] = "idle" /\ loc'[p].size = 0
    BY <1>2, Producer DEF ResetAddress, ReturnOk, NoLocals
  <2>2. ProducerOK(p)'
    BY <2>1 DEF ProducerOK, WInv
  <2> QED
    BY <2>1, <2>2, WMove
<1> QED
  BY <1>1, <1>2

\* check_cque outside of the reset.
LEMMA WPoll ==
  ASSUME NEW p, OneProducer(p), TInv, WInv(p),
         PollDrain(p) \/ Reap(p) \/ Retry(p) \/ SendAddress(p) \/ SendReport(p)
  PROVE  WInv(p)' /\ word' = word
<1> USE DEF bufVars, ringVars, uringVars, clientVars, Goto, At, Filling, Sealing, Handling
<1>0. UNCHANGED <<word, current>>
  BY DEF PollDrain, Reap, Retry, SendAddress, SendReport
<1>1. CASE PollDrain(p)
  <2>1. /\ pc[p] = "poll" /\ got[p] = {}
        /\ \/ pc'[p] = "reap" /\ loc'[p].mode = "poller"
           \/ got' = got /\ pc'[p] = "load"
           \/ got' = got /\ pc'[p] = "idle" /\ loc'[p].size = 0
    <3>1. pc[p] = "poll" /\ got[p] = {}
      BY <1>1 DEF PollDrain, WInv, ProducerOK
    <3>2. [NoLocals EXCEPT !.size = loc[p].size].size = loc[p].size
      BY DEF NoLocals
    <3>3. CASE loc' = [loc EXCEPT ![p].mode = "poller"] /\ Goto(p, "reap")
      BY <3>1, <3>3, Producer DEF Local
    <3>4. CASE /\ loc' = [loc EXCEPT ![p] = [NoLocals EXCEPT !.size = loc[p].size]]
               /\ Goto(p, IF loc[p].size = 0 THEN "idle" ELSE "load")
               /\ got' = got
      <4>1. loc'[p].size = loc[p].size
        BY <3>2, <3>4, Producer
      <4> QED
        BY <3>1, <3>4, <4>1, Producer
    <3> QED
      BY <1>1, <3>3, <3>4 DEF PollDrain
  <2>2. ProducerOK(p)'
    BY <2>1 DEF ProducerOK
  <2> QED
    BY <1>0, <2>1, <2>2, WMove
<1>2. CASE Reap(p)
  <2>1. /\ pc[p] = "reap"
        /\ \/ got'[p] = {} /\ pc'[p] = "poll"
           \/ /\ pc'[p] \in {"retry", "sendAt", "reset"} /\ loc'[p].mode = loc[p].mode
              /\ got[p] # {}
    BY <1>2, Producer DEF Reap, Local
  <2>2. ProducerOK(p)'
    BY <2>1 DEF ProducerOK, WInv
  <2> QED
    BY <1>0, <2>1, <2>2, WMove
<1>3. CASE Retry(p) \/ SendAddress(p) \/ SendReport(p)
  <2>1. /\ pc[p] \in {"retry", "sendAt", "sendLen"}
        /\ pc'[p] \in {"reap", "sendLen", "reset"} /\ loc'[p].mode = loc[p].mode
        /\ got' = got
    BY <1>3, Producer DEF Retry, SendAddress, SendReport, Local
  <2>2. ProducerOK(p)'
    BY <2>1 DEF ProducerOK, WInv
  <2> QED
    BY <1>0, <2>1, <2>2, WMove
<1> QED
  BY <1>0, <1>1, <1>2, <1>3

\* The kernel and stuttering leave the words and the producer alone.
LEMMA WKernel ==
  ASSUME NEW p, WInv(p), KernelComplete \/ KernelFail \/ UNCHANGED vars
  PROVE  WInv(p)'
<1>1. UNCHANGED <<word, current, got, pc, loc>>
  BY DEF KernelComplete, KernelFail, vars, bufVars, ringVars
<1> QED
  BY <1>1 DEF WInv, WordOK, ProducerOK

\* Every step of the ring is one of the producer's or the kernel's.
LEMMA SoloSteps ==
  ASSUME NEW p, OneProducer(p), [Next]_vars
  PROVE  \/ StartMessage(p) \/ StartPoll(p) \/ Step(p)
         \/ KernelComplete \/ KernelFail \/ UNCHANGED vars
  BY DEF Next, OneProducer

\* Every step keeps the first layer.
LEMMA NextWInv ==
  ASSUME NEW p, OneProducer(p), TInv, OInv, WInv(p), [Next]_vars
  PROVE  WInv(p)'
  BY SoloSteps, WClient, WReserve, WDecrement, WSeal, WSealer, WClaim, WFlush, WReset,
     WPoll, WKernel DEF Step

-----------------------------------------------------------------------------
(* The second layer holds *)

\* No part of the file is given out or moves, and no live buffer's part grows.
Shrinks(p) ==
  /\ next_address' >= next_address
  /\ \A b \in Buffers : Live(p, b)' =>
       Live(p, b) /\ Place(p, b)' = Place(p, b) /\ Padded(b)' = Padded(b)

\* Positions and lengths are natural numbers.
LEMMA PlaceTypes ==
  ASSUME NEW p, OneProducer(p), TInv
  PROVE  /\ next_address \in Nat
         /\ \A b \in Buffers : Place(p, b) \in Nat /\ Padded(b) \in Nat
<1>1. next_address \in Nat
  BY DEF TInv, SharedOK
<1>2. ASSUME NEW b \in Buffers PROVE Place(p, b) \in Nat /\ Padded(b) \in Nat
  <2>1. word[b].offset \in Nat /\ address[b] \in Nat
    BY Producer, WordFields
  <2> QED
    BY <2>1, Producer, PaddedNat DEF Place, Padded
<1> QED
  BY <1>1, <1>2

\* Such a step keeps the layout, and settled ranges settled.
LEMMA LayoutKept ==
  ASSUME NEW p, OneProducer(p), TInv, TInv', Shrinks(p)
  PROVE  /\ Layout(p) => Layout(p)'
         /\ \A a, n \in Nat : Settled(p, a, n) => Settled(p, a, n)'
<1> USE DEF Shrinks
<1>1. /\ next_address \in Nat /\ next_address' \in Nat
      /\ \A b \in Buffers : Place(p, b) \in Nat /\ Padded(b) \in Nat
  BY PlaceTypes DEF TInv, SharedOK
<1>2. ASSUME Layout(p) PROVE Layout(p)'
  <2> HIDE DEF Live, Place, Padded, Apart
  <2>1. ASSUME NEW b \in Buffers, Live(p, b)'
        PROVE  Place(p, b)' + Padded(b)' <= next_address'
    BY <1>1, <1>2, <2>1 DEF Layout
  <2>2. ASSUME NEW b \in Buffers, NEW c \in Buffers, Live(p, b)', Live(p, c)', b # c
        PROVE  Apart(Place(p, b)', Padded(b)', Place(p, c)', Padded(c)')
    BY <1>2, <2>2 DEF Layout
  <2> QED
    BY <2>1, <2>2 DEF Layout, Apart
<1>3. ASSUME NEW a \in Nat, NEW n \in Nat, Settled(p, a, n) PROVE Settled(p, a, n)'
  <2>1. a + n <= next_address'
    BY <1>1, <1>3 DEF Settled
  <2>2. ASSUME NEW b \in Buffers, Live(p, b)'
        PROVE  Apart(a, n, Place(p, b)', Padded(b)')
    BY <1>3, <2>2 DEF Settled
  <2> QED
    BY <2>1, <2>2 DEF Settled, Apart
<1> QED
  BY <1>2, <1>3

\* The sealer's slot is beyond everything claimed before it.
LEMMA LayoutSlot ==
  ASSUME NEW p, OneProducer(p), TInv, TInv', WInv(p), LInv(p), ClaimSlot(p)
  PROVE  /\ Layout(p)'
         /\ \A a, n \in Nat : Settled(p, a, n) => Settled(p, a, n)'
         /\ LocalPlace(p)'
<1> PICK b \in Buffers : b = loc[p].buf
  BY Producer
<1>1. /\ pc[p] = "slot" /\ pc'[p] = "store" /\ loc'[p].buf = b
      /\ loc'[p].at = next_address /\ loc'[p].len = loc[p].len
      /\ loc[p].len = Padded(b)
      /\ word' = word /\ address' = address
      /\ next_address' = next_address + Padded(b)
  BY Producer DEF ClaimSlot, At, Goto, Local, bufVars, LInv, LocalPlace
<1>2. /\ next_address \in Nat /\ \A c \in Buffers : Place(p, c) \in Nat /\ Padded(c) \in Nat
  BY PlaceTypes
<1>3. \A c \in Buffers : Padded(c)' = Padded(c)
  BY <1>1 DEF Padded
<1>4. Place(p, b)' = next_address /\ Padded(b)' = Padded(b)
  BY <1>1 DEF Place, Padded
<1>5. \A c \in Buffers : c # b /\ Live(p, c)' =>
         Live(p, c) /\ Place(p, c)' = Place(p, c)
  BY <1>1 DEF Live, Place
<1>6. Layout(p)'
  <2>1. ASSUME NEW c \in Buffers, Live(p, c)'
        PROVE  Place(p, c)' + Padded(c)' <= next_address'
    BY <1>1, <1>2, <1>3, <1>4, <1>5, <2>1 DEF LInv, Layout
  <2>2. ASSUME NEW c \in Buffers, NEW d \in Buffers, Live(p, c)', Live(p, d)', c # d
        PROVE  Apart(Place(p, c)', Padded(c)', Place(p, d)', Padded(d)')
    BY <1>1, <1>2, <1>3, <1>4, <1>5, <2>2 DEF LInv, Layout, Apart
  <2> QED
    BY <2>1, <2>2 DEF Layout, Apart
<1>7. ASSUME NEW a \in Nat, NEW n \in Nat, Settled(p, a, n) PROVE Settled(p, a, n)'
  <2>1. a + n <= next_address'
    BY <1>1, <1>2, <1>7 DEF Settled
  <2>2. ASSUME NEW c \in Buffers, Live(p, c)'
        PROVE  Apart(a, n, Place(p, c)', Padded(c)')
    BY <1>1, <1>2, <1>3, <1>4, <1>5, <1>7, <2>2 DEF Settled, Apart
  <2> QED
    BY <2>1, <2>2 DEF Settled, Apart
<1>8. LocalPlace(p)'
  BY <1>1, <1>3 DEF LocalPlace
<1> QED
  BY <1>6, <1>7, <1>8

\* A step that starts no write, and gives no buffer whose write is under way
\* another address, size or entry.
LEMMA EntriesKept ==
  ASSUME NEW p, TInv, Entries(p), sq' \cup kernel' \subseteq sq \cup kernel,
         \A b \in Buffers : Waiting(p, b)' =>
           /\ Waiting(p, b)
           /\ sqe'[b] = sqe[b]
           /\ address'[b] = address[b]
           /\ word'[b].offset = word[b].offset
  PROVE  Entries(p)'
<1>1. ASSUME NEW r \in sq' \cup kernel'
      PROVE  r.at = address'[r.buf] /\ r.len = Padded(r.buf)'
  <2>1. r \in sq \cup kernel /\ r.buf \in Buffers
    BY <1>1, NamedBuffers
  <2>2. Waiting(p, r.buf)'
    BY <1>1 DEF Waiting
  <2> QED
    BY <2>1, <2>2 DEF Entries, Padded
<1>2. ASSUME NEW b \in Buffers, Waiting(p, b)' PROVE sqe'[b] = {Entry(b)'}
  BY <1>2 DEF Entries, Entry, Padded
<1> QED
  BY <1>1, <1>2 DEF Entries, Entry, Padded

\* Two ways a step can be of no consequence to the second layer.
Unmoved(p) == pc[p] \notin {"size", "slot", "store", "at", "push", "reset", "retry"}
UnmovedNext(p) == pc'[p] \notin {"size", "slot", "store", "at", "push", "reset", "retry"}

\* Neither label is one at which the second layer says something.
LEMMA LQuiet ==
  ASSUME NEW p, OneProducer(p), TInv, LInv(p), Unmoved(p), UnmovedNext(p),
         UNCHANGED <<address, sqe, sq, kernel, cq, got>>,
         next_address' >= next_address,
         \A b \in Buffers : word'[b].sealed =>
           word[b].sealed /\ word'[b].offset = word[b].offset,
         \A b \in Buffers : word[b].flushing => word'[b].offset = word[b].offset,
         Marked
  PROVE  Shrinks(p) /\ LocalPlace(p)' /\ Entries(p)'
<1>0. p \in Threads
  BY Producer
<1>1. Shrinks(p)
  BY DEF Shrinks, Live, Place, Padded, Unmoved, UnmovedNext
<1>2. LocalPlace(p)'
  BY DEF LocalPlace, UnmovedNext
<1>3. \A b \in Buffers : Waiting(p, b)' => Waiting(p, b) /\ word[b].flushing
  BY <1>0 DEF Waiting, UnmovedNext, Marked
<1>4. Entries(p)'
  BY <1>3, EntriesKept DEF LInv
<1> QED
  BY <1>1, <1>2, <1>4

\* reserve_space, the copy, and the client around them.
LEMMA LClient ==
  ASSUME NEW p, OneProducer(p), TInv, OInv, WInv(p), LInv(p),
         \/ StartMessage(p) \/ StartPoll(p) \/ LoadCurrent(p) \/ ReserveLoad(p)
         \/ ReserveCas(p) \/ Write(p) \/ DecrementWriters(p)
  PROVE  Shrinks(p) /\ LocalPlace(p)' /\ Entries(p)'
<1> USE DEF bufVars, ringVars, uringVars, clientVars, Goto, At
<1>0. /\ UNCHANGED <<address, sqe, sq, kernel, cq, got, next_address>> /\ Unmoved(p)
  BY DEF StartMessage, StartPoll, LoadCurrent, ReserveLoad, ReserveCas, Write,
     DecrementWriters, Unmoved
<1>1. next_address' >= next_address
  BY <1>0 DEF TInv, SharedOK
<1>2. CASE ReserveCas(p)
  <2> PICK b \in Buffers : b = loc[p].buf
    BY Producer
  <2>1. UnmovedNext(p)
    BY <1>2, Producer DEF ReserveCas, UnmovedNext
  <2>2. word[b].writers = 0 /\ loc[p].seen = word[b] /\ IsOpen(word[b])
        /\ word[b].offset + loc[p].size <= Block
    BY <1>2, Producer DEF ReserveCas, WInv, WordOK, ProducerOK, Filling, TInv, ThreadOK,
       SeenWasOpen
  <2>3. word' = word \/ word' = [word EXCEPT ![b] = Reserved(word[b], loc[p].size)]
    BY <1>2, <2>2 DEF ReserveCas
  <2>4. ~Reserved(word[b], loc[p].size).sealed
    BY <2>2, WordOps, Producer DEF OneProducer, IsOpen
  <2>5. \A c \in Buffers : c # b => word'[c] = word[c]
    BY <2>3, Producer
  <2>6. word'[b].sealed => word[b].sealed /\ word'[b].offset = word[b].offset
    BY <2>2, <2>3, <2>4, Producer DEF IsOpen
  <2> QED
    BY <1>0, <1>1, <2>1, <2>2, <2>5, <2>6, LQuiet DEF OInv, IsOpen
<1>3. CASE DecrementWriters(p)
  <2>1. UnmovedNext(p)
    BY <1>3, WDecrement DEF UnmovedNext
  <2>2. \A b \in Buffers : /\ word'[b].sealed = word[b].sealed
                           /\ word'[b].offset = word[b].offset
    BY <1>3, WDecrement
  <2> QED
    BY <1>0, <1>1, <2>1, <2>2, LQuiet DEF OInv
<1>4. CASE StartMessage(p) \/ StartPoll(p) \/ LoadCurrent(p) \/ ReserveLoad(p) \/ Write(p)
  <2>1. word' = word
    BY <1>4 DEF StartMessage, StartPoll, LoadCurrent, ReserveLoad, Write
  <2>2. UnmovedNext(p)
    BY <1>4, Producer DEF StartMessage, StartPoll, LoadCurrent, ReserveLoad, Write, UnmovedNext
  <2> QED
    BY <1>0, <1>1, <2>1, <2>2, LQuiet DEF OInv
<1> QED
  BY <1>2, <1>3, <1>4

\* A buffer that is not flushing has no write under way.
LEMMA WaitingFlushes ==
  ASSUME NEW p, OneProducer(p), OInv
  PROVE  \A b \in Buffers : Waiting(p, b) => word[b].flushing
  BY DEF OneProducer, Waiting, OInv, Marked, Owner, OwnerLabels

\* Sealing a buffer and working out its slot.
LEMMA LSeal ==
  ASSUME NEW p, OneProducer(p), TInv, OInv, WInv(p), LInv(p), Seal(p) \/ SealSize(p)
  PROVE  Shrinks(p) /\ LocalPlace(p)' /\ Entries(p)'
<1> PICK b \in Buffers : b = loc[p].buf
  BY Producer
<1> USE DEF bufVars, ringVars, uringVars, clientVars, Goto, At
<1>0. /\ UNCHANGED <<address, sqe, sq, kernel, cq, got, next_address>>
      /\ next_address \in Nat
  BY DEF Seal, SealSize, TInv, SharedOK
<1>1. CASE Seal(p)
  <2>1. /\ pc[p] = "seal" /\ pc'[p] = "size" /\ loc'[p].buf = b
        /\ word' = [word EXCEPT ![b] = SetSealed(word[b])]
    BY <1>1, WSeal
  <2>2. /\ \A c \in Buffers : c # b => word'[c] = word[c]
        /\ word'[b].offset = word[b].offset
    BY <2>1, Producer, WordOps DEF OneProducer
  <2>3. Shrinks(p)
    BY <1>0, <2>1, <2>2 DEF Shrinks, Live, Place, Padded
  <2>4. LocalPlace(p)'
    BY <2>1 DEF LocalPlace
  <2>5. \A c \in Buffers : Waiting(p, c)' =>
          Waiting(p, c) /\ word'[c].offset = word[c].offset
    BY <1>0, <2>1, <2>2 DEF Waiting
  <2> QED
    BY <1>0, <2>3, <2>4, <2>5, EntriesKept DEF LInv
<1>2. CASE SealSize(p)
  <2>1. /\ pc[p] = "size" /\ pc'[p] = "slot" /\ loc'[p].buf = b /\ word' = word
        /\ loc'[p].len = NextMultipleOf(word[b].offset, Page)
    BY <1>2, Producer DEF SealSize, Local
  <2>2. Shrinks(p)
    BY <1>0, <2>1 DEF Shrinks, Live, Place, Padded
  <2>3. LocalPlace(p)'
    BY <2>1 DEF LocalPlace, Padded
  <2>4. \A c \in Buffers : Waiting(p, c)' => Waiting(p, c)
    BY <1>0, <2>1 DEF Waiting
  <2> QED
    BY <1>0, <2>1, <2>2, <2>3, <2>4, EntriesKept DEF LInv
<1> QED
  BY <1>1, <1>2

\* The stores to addresses: the sealed buffer's own, and that of a free buffer.
LEMMA LAddress ==
  ASSUME NEW p, OneProducer(p), TInv, OInv, WInv(p), LInv(p),
         ClaimSlot(p) \/ StoreAddress(p) \/ RotateAddress(p)
  PROVE  /\ ClaimSlot(p) \/ (Shrinks(p) /\ LocalPlace(p)')
         /\ Entries(p)'
<1> PICK b \in Buffers : b = loc[p].buf
  BY Producer
<1> USE DEF bufVars, ringVars, uringVars, clientVars, Goto, At
<1>0. UNCHANGED <<word, sqe, sq, kernel, cq, got>>
  BY DEF ClaimSlot, StoreAddress, RotateAddress
<1>1. /\ word[b].sealed /\ ~word[b].flushing /\ loc'[p].buf = b /\ pc'[p] # "retry"
  BY Producer, WSealer DEF ClaimSlot, StoreAddress, RotateAddress, Sealing, WInv, ProducerOK
<1>2. \A c \in Buffers : Waiting(p, c)' => Waiting(p, c) /\ word[c].flushing
  BY <1>0, <1>1, WaitingFlushes DEF Waiting
<1>3. CASE ClaimSlot(p)
  <2>1. address' = address
    BY <1>3 DEF ClaimSlot
  <2> QED
    BY <1>0, <1>2, <1>3, <2>1, EntriesKept DEF LInv
<1>4. CASE StoreAddress(p)
  <2>1. /\ pc[p] = "store" /\ pc'[p] \in {"rotate", "drain"} /\ loc' = loc
        /\ address' = [address EXCEPT ![b] = loc[p].at] /\ next_address' = next_address
        /\ next_address \in Nat
    BY <1>4, Producer DEF StoreAddress, TInv, SharedOK
  <2>2. \A c \in Buffers : Place(p, c)' = Place(p, c)
    BY <2>1, Producer DEF Place
  <2>3. Shrinks(p)
    BY <1>0, <2>1, <2>2 DEF Shrinks, Live, Padded
  <2>4. LocalPlace(p)'
    BY <2>1 DEF LocalPlace
  <2>5. \A c \in Buffers : word[c].flushing => address'[c] = address[c]
    BY <1>1, <2>1, Producer
  <2> QED
    BY <1>0, <1>2, <2>3, <2>4, <2>5, EntriesKept DEF LInv
<1>5. CASE RotateAddress(p)
  <2>1. /\ pc[p] = "rcas" /\ pc'[p] = "drain" /\ loc' = loc
        /\ next_address' = next_address /\ next_address \in Nat
    BY <1>5, Producer DEF RotateAddress, TInv, SharedOK
  <2>2. \A c \in Buffers : word[c].sealed \/ word[c].flushing => address'[c] = address[c]
    <3>1. IsAvailable(word[loc[p].cand])
      BY <2>1 DEF WInv, ProducerOK
    <3>2. \A c \in Buffers : c # loc[p].cand => address'[c] = address[c]
      BY <1>5, Producer DEF RotateAddress
    <3> QED
      BY <3>1, <3>2 DEF IsAvailable, IsOpen
  <2>3. Shrinks(p)
    BY <1>0, <2>1, <2>2 DEF Shrinks, Live, Place, Padded
  <2>4. LocalPlace(p)'
    BY <2>1 DEF LocalPlace
  <2> QED
    BY <1>0, <1>2, <2>2, <2>3, <2>4, EntriesKept DEF LInv
<1> QED
  BY <1>3, <1>4, <1>5

\* The sealer's other steps, rotation included, and its claim of the flush.
LEMMA LSealer ==
  ASSUME NEW p, OneProducer(p), TInv, OInv, WInv(p), LInv(p),
         \/ RotateLoad(p)  \/ RotateSize(p) \/ RotateScan(p) \/ RotateCheck(p)
         \/ RotateSwap(p)  \/ RotateReserve(p) \/ DrainCheck(p) \/ ClaimFlush(p)
  PROVE  Shrinks(p) /\ LocalPlace(p)' /\ Entries(p)'
<1> PICK b \in Buffers : b = loc[p].buf
  BY Producer
<1> USE DEF bufVars, ringVars, uringVars, clientVars, Goto, At
<1>0. UNCHANGED <<address, sqe, sq, kernel, cq, got>>
  <2>1. CASE ClaimFlush(p)
    BY <2>1 DEF ClaimFlush
  <2>2. CASE ~ClaimFlush(p)
    BY <2>2, WSealer DEF RotateLoad, RotateSize, RotateScan, RotateCheck, RotateSwap, RotateReserve,
       DrainCheck
  <2> QED
    BY <2>1, <2>2
<1>1. next_address' >= next_address
  <2>1. next_address' = next_address \/ next_address' = next_address + loc[p].len
    BY DEF RotateLoad, RotateSize, RotateScan, RotateCheck, RotateSwap, RotateReserve,
       DrainCheck, ClaimFlush
  <2> QED
    BY <2>1, Producer, PlaceTypes
<1>2. CASE ClaimFlush(p)
  <2>1. /\ pc[p] = "claim" /\ loc' = loc /\ pc'[p] \in {"flush", "reset"}
        /\ word' = [word EXCEPT ![b] = SetFlushing(word[b])]
    BY <1>2, WClaim
  <2>2. \A c \in Buffers : word'[c].offset = word[c].offset /\ word'[c].sealed = word[c].sealed
    BY <2>1, Producer, WordOps DEF OneProducer
  <2>3. Shrinks(p)
    BY <1>0, <1>1, <2>1, <2>2 DEF Shrinks, Live, Place, Padded
  <2>4. LocalPlace(p)'
    BY <2>1 DEF LocalPlace
  <2>5. \A c \in Buffers : Waiting(p, c)' => Waiting(p, c)
    BY <1>0, <2>1 DEF Waiting
  <2> QED
    BY <1>0, <2>2, <2>3, <2>4, <2>5, EntriesKept DEF LInv
<1>3. CASE ~ClaimFlush(p)
  <2>1. word' = word
    BY <1>3, WSealer
  <2>2. Unmoved(p) /\ UnmovedNext(p)
    <3>1. pc[p] \in {"rotate", "rsize", "scan", "avail", "swap", "raddr", "drain"}
      BY <1>3 DEF RotateLoad, RotateSize, RotateScan, RotateCheck, RotateSwap,
         RotateReserve, DrainCheck
    <3>2. pc'[p] \in Sealing \ {"size", "slot", "store"}
      <4>1. pc'[p] \in Sealing \ {"size"}
        BY <1>3, WSealer
      <4>2. pc'[p] \notin {"slot", "store"}
        BY <1>3, Producer DEF RotateLoad, RotateSize, RotateScan, RotateCheck, RotateSwap,
           RotateReserve, DrainCheck, ReturnSealed
      <4> QED
        BY <4>1, <4>2
    <3> QED
      BY <3>1, <3>2 DEF Unmoved, UnmovedNext, Sealing
  <2> QED
    BY <1>0, <1>1, <2>1, <2>2, LQuiet DEF OInv
<1> QED
  BY <1>2, <1>3

\* The flush reads the length and the address the seal gave the buffer.
LEMMA LFlush ==
  ASSUME NEW p, OneProducer(p), TInv, OInv, WInv(p), LInv(p),
         FlushMark(p) \/ FlushLen(p) \/ FlushAt(p)
  PROVE  Shrinks(p) /\ LocalPlace(p)' /\ Entries(p)'
<1> PICK b \in Buffers : b = loc[p].buf
  BY Producer
<1> USE DEF bufVars, ringVars, uringVars, clientVars, Goto, At
<1>0. /\ UNCHANGED <<word, address, sqe, sq, kernel, cq, got, next_address>>
      /\ next_address \in Nat
  BY WFlush DEF FlushMark, FlushLen, FlushAt, TInv, SharedOK
<1>1. \/ pc[p] = "flush" /\ pc'[p] = "len"
      \/ /\ pc[p] = "len" /\ pc'[p] = "at" /\ loc'[p].buf = b
         /\ loc'[p].len = NextMultipleOf(word[b].offset, Page)
      \/ /\ pc[p] = "at" /\ pc'[p] = "push" /\ loc'[p].buf = b
         /\ loc'[p].len = loc[p].len /\ loc'[p].at = address[b]
  BY Producer DEF FlushMark, FlushLen, FlushAt, Local
<1>2. Shrinks(p)
  BY <1>0, <1>1 DEF Shrinks, Live, Place, Padded
<1>3. LocalPlace(p)'
  BY <1>0, <1>1 DEF LInv, LocalPlace, Padded
<1>4. \A c \in Buffers : Waiting(p, c)' => Waiting(p, c)
  BY <1>0, <1>1 DEF Waiting
<1> QED
  BY <1>0, <1>2, <1>3, <1>4, EntriesKept DEF LInv

\* io_uring_enter loses nothing.
LEMMA EnterMoves ==
  ASSUME NEW S, sq \subseteq S, Enter(S)
  PROVE  sq' \cup kernel' = kernel \cup S
  BY DEF Enter

\* submit_buffer stores the entry and queues its request, or finds the queue full.
LEMMA LSubmit ==
  ASSUME NEW p, OneProducer(p), TInv, OInv, WInv(p), LInv(p), Submit(p)
  PROVE  Shrinks(p) /\ LocalPlace(p)' /\ Entries(p)'
<1> PICK b \in Buffers : b = loc[p].buf
  BY Producer
<1> PICK e : e = [at |-> loc[p].at, len |-> loc[p].len]
  OBVIOUS
<1> PICK r : r = NewRequest(b, e)
  OBVIOUS
<1> USE DEF bufVars, ringVars, uringVars, clientVars, Goto, At
<1>0. /\ UNCHANGED <<word, address, cq, got, next_address>>
      /\ next_address \in Nat /\ pc[p] = "push" /\ pc'[p] = "idle"
  BY Producer DEF Submit, ReturnOk, TInv, SharedOK
<1>1. e = Entry(b) /\ Entry(b)' = Entry(b)
  BY <1>0 DEF LInv, LocalPlace, Entry, Padded
<1>2. r.buf = b /\ r.at = address[b] /\ r.len = Padded(b)
  BY <1>1 DEF NewRequest, Entry
<1>3. \/ sqe' = [sqe EXCEPT ![b] = {e}] /\ sq' \cup kernel' = kernel \cup (sq \cup {r})
      \/ UNCHANGED <<sqe, sq, kernel>>
  BY EnterMoves DEF Submit, PushEntry
<1>4. Shrinks(p)
  BY <1>0 DEF Shrinks, Live, Place, Padded
<1>5. LocalPlace(p)'
  BY <1>0 DEF LocalPlace
<1>6. CASE UNCHANGED <<sqe, sq, kernel>>
  <2>1. \A c \in Buffers : Waiting(p, c)' => Waiting(p, c)
    BY <1>0, <1>6 DEF Waiting
  <2> QED
    BY <1>0, <1>4, <1>5, <1>6, <2>1, EntriesKept DEF LInv
<1>7. CASE sqe' = [sqe EXCEPT ![b] = {e}] /\ sq' \cup kernel' = kernel \cup (sq \cup {r})
  <2>1. \A c \in Buffers : Padded(c)' = Padded(c) /\ Entry(c)' = Entry(c)
    BY <1>0 DEF Padded, Entry
  <2>2. sqe'[b] = {Entry(b)} /\ \A c \in Buffers : c # b => sqe'[c] = sqe[c]
    BY <1>1, <1>7 DEF TInv, SharedOK
  <2>3. \A c \in Buffers : Waiting(p, c)' => c = b \/ Waiting(p, c)
    BY <1>0, <1>2, <1>7 DEF Waiting
  <2>4. \A s \in sq' \cup kernel' : s.buf \in Buffers /\ s.at = address[s.buf] /\ s.len = Padded(s.buf)
    BY <1>2, <1>7, NamedBuffers DEF LInv, Entries
  <2>5. \A s \in sq' \cup kernel' : s.at = address'[s.buf] /\ s.len = Padded(s.buf)'
    BY <1>0, <2>1, <2>4
  <2>6. \A c \in Buffers : Waiting(p, c)' => sqe'[c] = {Entry(c)'}
    BY <2>1, <2>2, <2>3 DEF LInv, Entries
  <2>7. Entries(p)'
    BY <2>5, <2>6 DEF Entries
  <2> QED
    BY <1>4, <1>5, <2>7
<1> QED
  BY <1>3, <1>6, <1>7

\* A retry queues the stored entry again, for the same part of the file.
LEMMA LRetry ==
  ASSUME NEW p, OneProducer(p), TInv, OInv, WInv(p), LInv(p), Retry(p)
  PROVE  Shrinks(p) /\ LocalPlace(p)' /\ Entries(p)'
<1> PICK b \in Buffers : b = loc[p].buf
  BY Producer
<1> USE DEF bufVars, ringVars, uringVars, clientVars, Goto, At
<1>0. /\ UNCHANGED <<word, address, sqe, cq, got, next_address, loc>>
      /\ next_address \in Nat /\ pc[p] = "retry" /\ pc'[p] = "reap"
  BY Producer DEF Retry, TInv, SharedOK
<1>1. Waiting(p, b) /\ sqe[b] = {Entry(b)}
  <2>1. Waiting(p, b)
    BY <1>0 DEF Waiting
  <2> QED
    BY <2>1 DEF LInv, Entries
<1>2. \A s \in sq' \cup kernel' :
        s \in sq \cup kernel \/ (s.buf = b /\ s.at = address[b] /\ s.len = Padded(b))
  <2>1. ASSUME NEW e \in sqe[b], Enter(sq \cup {NewRequest(b, e)}),
               NEW s \in sq' \cup kernel', s \notin sq \cup kernel
        PROVE  s.buf = b /\ s.at = address[b] /\ s.len = Padded(b)
    <3>1. e = Entry(b)
      BY <1>1
    <3>2. s = NewRequest(b, e)
      BY <2>1, EnterMoves
    <3> QED
      BY <3>1, <3>2 DEF NewRequest, Entry
  <2>2. ASSUME Enter(sq) \/ UNCHANGED <<sq, kernel>>
        PROVE  sq' \cup kernel' = sq \cup kernel
    BY <2>2, EnterMoves
  <2> QED
    BY <2>1, <2>2 DEF Retry
<1>4. Shrinks(p)
  BY <1>0 DEF Shrinks, Live, Place, Padded
<1>5. LocalPlace(p)'
  BY <1>0 DEF LocalPlace
<1>6. \A c \in Buffers : Padded(c)' = Padded(c) /\ Entry(c)' = Entry(c)
  BY <1>0 DEF Padded, Entry
<1>7. \A c \in Buffers : Waiting(p, c)' => Waiting(p, c)
  BY <1>0, <1>1, <1>2 DEF Waiting
<1>8. \A s \in sq' \cup kernel' : s.buf \in Buffers /\ s.at = address[s.buf] /\ s.len = Padded(s.buf)
  BY <1>2, NamedBuffers DEF LInv, Entries
<1>9. \A s \in sq' \cup kernel' : s.at = address'[s.buf] /\ s.len = Padded(s.buf)'
  BY <1>0, <1>6, <1>8
<1>10. \A c \in Buffers : Waiting(p, c)' => sqe'[c] = {Entry(c)'}
  BY <1>0, <1>6, <1>7 DEF LInv, Entries
<1>11. Entries(p)'
  BY <1>9, <1>10 DEF Entries
<1> QED
  BY <1>4, <1>5, <1>11

\* The reset gives up the buffer's part; its write is over.
LEMMA LReset ==
  ASSUME NEW p, OneProducer(p), TInv, OInv, WInv(p), LInv(p),
         ResetState(p) \/ ResetAddress(p)
  PROVE  Shrinks(p) /\ LocalPlace(p)' /\ Entries(p)'
<1> PICK b \in Buffers : b = loc[p].buf
  BY Producer
<1> USE DEF bufVars, ringVars, uringVars, clientVars, Goto, At
<1>0. /\ UNCHANGED <<sqe, sq, kernel, cq, got, next_address>>
      /\ next_address \in Nat
  BY DEF ResetState, ResetAddress, TInv, SharedOK
<1>1. CASE ResetState(p)
  <2>1. /\ pc[p] = "reset" /\ pc'[p] = "reset2" /\ loc' = loc /\ address' = address
        /\ word' = [word EXCEPT ![b] = ZeroWord]
    BY <1>1, Producer DEF ResetState
  <2>2. /\ ~word'[b].sealed /\ \A c \in Buffers : c # b => word'[c] = word[c]
    BY <2>1, Producer DEF ZeroWord
  <2>3. Shrinks(p)
    BY <1>0, <2>1, <2>2 DEF Shrinks, Live, Place, Padded
  <2>4. LocalPlace(p)'
    BY <2>1 DEF LocalPlace
  <2>5. ~Waiting(p, b) /\ \A c \in Buffers : Waiting(p, c)' => Waiting(p, c)
    BY <1>0, <2>1, Producer DEF Waiting, OInv, OwnerAlone, Owner, OwnerLabels
  <2> QED
    BY <1>0, <2>1, <2>2, <2>3, <2>4, <2>5, EntriesKept DEF LInv
<1>2. CASE ResetAddress(p)
  <2>1. /\ pc[p] = "reset2" /\ pc'[p] \in {"reap", "idle"} /\ word' = word
        /\ address' = [address EXCEPT ![b] = 0]
    BY <1>2, Producer DEF ResetAddress, ReturnOk
  <2>2. ~word[b].sealed /\ ~word[b].flushing
    BY <2>1 DEF WInv, ProducerOK, ZeroWord
  <2>3. \A c \in Buffers : c # b => address'[c] = address[c]
    BY <2>1, Producer
  <2>4. Shrinks(p)
    BY <1>0, <2>1, <2>2, <2>3 DEF Shrinks, Live, Place, Padded
  <2>5. LocalPlace(p)'
    BY <2>1 DEF LocalPlace
  <2>6. ~Waiting(p, b) /\ \A c \in Buffers : Waiting(p, c)' => Waiting(p, c)
    BY <1>0, <2>1, <2>2, WaitingFlushes DEF Waiting
  <2> QED
    BY <1>0, <2>1, <2>3, <2>4, <2>5, <2>6, EntriesKept DEF LInv
<1> QED
  BY <1>1, <1>2

\* Taking completions, handling them and reporting them.
LEMMA LPoll ==
  ASSUME NEW p, OneProducer(p), TInv, OInv, WInv(p), LInv(p),
         PollDrain(p) \/ Reap(p) \/ SendAddress(p) \/ SendReport(p)
  PROVE  Shrinks(p) /\ LocalPlace(p)' /\ Entries(p)'
<1> USE DEF bufVars, ringVars, uringVars, clientVars, Goto, At
<1>0. /\ UNCHANGED <<word, address, sqe, sq, kernel, next_address>>
      /\ next_address \in Nat
  BY DEF PollDrain, Reap, SendAddress, SendReport, TInv, SharedOK
<1>1. /\ pc[p] \in {"poll", "reap", "sendAt", "sendLen"}
      /\ pc'[p] \in {"reap", "idle", "load", "poll", "retry", "sendAt", "reset", "sendLen"}
  BY Producer DEF PollDrain, Reap, SendAddress, SendReport
<1>2. Shrinks(p)
  BY <1>0, <1>1 DEF Shrinks, Live, Place, Padded
<1>3. LocalPlace(p)'
  BY <1>1 DEF LocalPlace
<1>4. \A c \in Buffers : Waiting(p, c)' => Waiting(p, c)
  <2>1. CASE PollDrain(p)
    <3>1. cq' \cup got'[p] \subseteq cq \cup got[p] /\ pc'[p] # "retry"
      BY <2>1, Producer DEF PollDrain
    <3> QED
      BY <1>0, <3>1 DEF Waiting
  <2>2. CASE Reap(p)
    <3>1. /\ cq' \cup got'[p] \subseteq cq \cup got[p]
          /\ pc'[p] = "retry" => \E c \in got[p] : loc'[p].buf = c.buf
      BY <2>2, Producer DEF Reap, Local
    <3> QED
      BY <1>0, <3>1 DEF Waiting
  <2>3. CASE SendAddress(p) \/ SendReport(p)
    <3>1. cq' = cq /\ got' = got /\ pc'[p] # "retry"
      BY <2>3, Producer DEF SendAddress, SendReport
    <3> QED
      BY <1>0, <3>1 DEF Waiting
  <2> QED
    BY <2>1, <2>2, <2>3
<1> QED
  BY <1>0, <1>2, <1>3, <1>4, EntriesKept DEF LInv

\* A request becomes its completion.
LEMMA LKernel ==
  ASSUME NEW p, OneProducer(p), TInv, OInv, LInv(p),
         KernelComplete \/ KernelFail \/ UNCHANGED vars
  PROVE  Shrinks(p) /\ LocalPlace(p)' /\ Entries(p)'
<1>0. /\ UNCHANGED <<word, address, sqe, sq, got, next_address, pc, loc>>
      /\ next_address \in Nat
  BY DEF KernelComplete, KernelFail, vars, bufVars, ringVars, uringVars, TInv, SharedOK
<1>1. Shrinks(p)
  BY <1>0 DEF Shrinks, Live, Place, Padded
<1>2. LocalPlace(p)'
  BY <1>0 DEF LInv, LocalPlace, Padded
<1>3. kernel' \subseteq kernel /\ \A c \in Buffers : Waiting(p, c)' => Waiting(p, c)
  <2>1. CASE UNCHANGED vars
    BY <1>0, <2>1 DEF vars, uringVars, Waiting
  <2>2. CASE KernelComplete \/ KernelFail
    <3>1. PICK r \in kernel, ok \in BOOLEAN :
            /\ kernel' = kernel \ {r}
            /\ cq' = cq \cup {[id |-> r.id, buf |-> r.buf, ok |-> ok]}
      BY <2>2 DEF KernelComplete, KernelFail
    <3>2. PICK c : c.buf = r.buf /\ cq' = cq \cup {c}
      BY <3>1
    <3> QED
      BY <1>0, <3>1, <3>2 DEF Waiting
  <2> QED
    BY <2>1, <2>2
<1> QED
  BY <1>0, <1>1, <1>2, <1>3, EntriesKept DEF LInv

\* A new ring has claimed nothing.
LEMMA InitLInv ==
  ASSUME NEW p, OneProducer(p), Init PROVE LInv(p)
<1>1. /\ pc[p] = "idle" /\ sq = {} /\ kernel = {} /\ cq = {} /\ got[p] = {}
      /\ \A b \in Buffers : ~word[b].sealed
  BY DEF Init, OneProducer, ZeroWord
<1> QED
  BY <1>1 DEF LInv, Layout, Live, LocalPlace, Entries, Waiting

\* Settled ranges stay settled, whatever the step, and the second layer holds.
LEMMA NextLInv ==
  ASSUME NEW p, OneProducer(p), TInv, TInv', OInv, WInv(p), LInv(p), [Next]_vars
  PROVE  /\ LInv(p)'
         /\ \A a, n \in Nat : Settled(p, a, n) => Settled(p, a, n)'
         /\ ClaimSlot(p) \/ Shrinks(p)
<1>1. CASE ClaimSlot(p)
  BY <1>1, LAddress, LayoutSlot DEF LInv
<1>2. CASE ~ClaimSlot(p)
  <2>1. Shrinks(p) /\ LocalPlace(p)' /\ Entries(p)'
    BY <1>2, SoloSteps, LClient, LSeal, LAddress, LSealer, LFlush, LSubmit, LRetry,
       LReset, LPoll, LKernel DEF Step
  <2> QED
    BY <2>1, LayoutKept DEF LInv
<1> QED
  BY <1>1, <1>2

\* The first two layers hold throughout.
SoloInv(p) == TInv /\ OInv /\ WInv(p) /\ LInv(p)

\* With one producer they are an invariant of the ring.
LEMMA SoloInvariance ==
  ASSUME NEW p, OneProducer(p) PROVE Spec => []SoloInv(p)
<1>1. Init => SoloInv(p)
  BY InitTInv, InitOInv, InitWInv, InitLInv DEF SoloInv
<1>2. SoloInv(p) /\ [Next]_vars => SoloInv(p)'
  BY NextTInv, NextOInv, NextWInv, NextLInv DEF SoloInv
<1> QED
  BY <1>1, <1>2, PTL DEF Spec

\* The requests of different buffers are for the parts those buffers hold.
LEMMA RequestsLive ==
  ASSUME NEW p, OneProducer(p), TInv, OInv, WInv(p), LInv(p),
         NEW r \in sq \cup kernel
  PROVE  /\ r.buf \in Buffers /\ Live(p, r.buf)
         /\ r.at = Place(p, r.buf) /\ r.len = Padded(r.buf)
<1>1. r.buf \in Buffers /\ word[r.buf].flushing
  BY NamedBuffers DEF OInv, Marked
<1>2. word[r.buf].sealed
  BY <1>1 DEF WInv, WordOK
<1>3. ~(loc[p].buf = r.buf /\ pc[p] \in {"size", "slot", "store", "reset"})
  BY <1>1, Producer DEF WInv, ProducerOK, Sealing, OInv, OwnerAlone, Owner, OwnerLabels
<1> QED
  BY <1>1, <1>2, <1>3 DEF Live, Place, LInv, Entries

\* Different buffers hold disjoint parts, so their requests do not meet.
LEMMA SoloRanges ==
  ASSUME NEW p, OneProducer(p), SoloInv(p) PROVE DisjointRanges
<1> SUFFICES ASSUME NEW r \in sq \cup kernel, NEW s \in sq \cup kernel, r.buf # s.buf
             PROVE  (r.at .. r.at + r.len - 1) \cap (s.at .. s.at + s.len - 1) = {}
  BY DEF DisjointRanges
<1>1. /\ r.buf \in Buffers /\ Live(p, r.buf) /\ s.buf \in Buffers /\ Live(p, s.buf)
      /\ r.at = Place(p, r.buf) /\ r.len = Padded(r.buf)
      /\ s.at = Place(p, s.buf) /\ s.len = Padded(s.buf)
  BY RequestsLive DEF SoloInv
<1>2. r.at \in Nat /\ r.len \in Nat /\ s.at \in Nat /\ s.len \in Nat
  BY <1>1, PlaceTypes DEF SoloInv
<1>3. Apart(r.at, r.len, s.at, s.len)
  BY <1>1 DEF SoloInv, LInv, Layout
<1> QED
  BY <1>2, <1>3 DEF Apart

\* ring.rs, BufferRing: with one producer no two buffers that are being written
\* map to the same region of the file, however often writes fail, are retried or
\* cannot be submitted.
THEOREM SoloDisjoint ==
  ASSUME NEW p, OneProducer(p) PROVE Spec => []DisjointRanges
<1>1. SoloInv(p) => DisjointRanges
  BY SoloRanges
<1> QED
  BY <1>1, SoloInvariance, PTL

-----------------------------------------------------------------------------
(* The third layer holds *)

\* Nothing but the reset touches the size, the address or the memory of a buffer
\* whose flush is under way.
LEMMA FlushingFixed ==
  ASSUME NEW p, OneProducer(p), TInv, OInv, WInv(p), MemOK,
         StartMessage(p) \/ StartPoll(p) \/ Step(p), ~ResetState(p)
  PROVE  \A b \in Buffers : word[b].flushing =>
           /\ address'[b] = address[b]
           /\ word'[b].offset = word[b].offset
           /\ mem'[b] = mem[b]
<1> PICK l : l = loc[p].buf
  OBVIOUS
<1>0. l \in Buffers /\ word \in [Buffers -> Word] /\ address \in [Buffers -> Nat]
  BY Producer
<1> USE DEF bufVars, ringVars, uringVars, clientVars, Goto, At
<1>1. CASE Write(p)
  <2>1. word' = word /\ address' = address /\ ~word[l].flushing
    BY <1>1 DEF Write, WInv, ProducerOK, IsOpen
  <2>2. \A b \in Buffers : b # l => mem'[b] = mem[b]
    BY <1>1 DEF Write, MemOK
  <2> QED
    BY <2>1, <2>2
<1>2. CASE ReserveCas(p) \/ DecrementWriters(p) \/ Seal(p)
  <2>1. address' = address /\ mem' = mem /\ ~word[l].flushing
    <3>1. pc[p] = "cas" => IsOpen(loc[p].seen)
      BY Producer DEF TInv, ThreadOK, SeenWasOpen
    <3> QED
      BY <1>2, <3>1 DEF ReserveCas, DecrementWriters, Seal, WInv, ProducerOK, IsOpen
  <2>2. \A b \in Buffers : b # l => word'[b] = word[b]
    BY <1>0, <1>2 DEF ReserveCas, DecrementWriters, Seal
  <2> QED
    BY <2>1, <2>2
<1>3. CASE ClaimFlush(p)
  <2>1. address' = address /\ mem' = mem
    BY <1>3 DEF ClaimFlush
  <2>2. word' = [word EXCEPT ![l] = SetFlushing(word[l])]
    BY <1>3, WClaim
  <2>3. SetFlushing(word[l]).offset = word[l].offset
    BY <1>0, WordOps DEF OneProducer
  <2> QED
    BY <1>0, <2>1, <2>2, <2>3
<1>4. CASE FlushMark(p) \/ FlushLen(p) \/ FlushAt(p) \/ Submit(p)
  <2>1. address' = address /\ mem' = mem /\ word' = word
    BY <1>4, WFlush DEF FlushMark, FlushLen, FlushAt, Submit
  <2> QED
    BY <2>1
<1>5. CASE StoreAddress(p) \/ ResetAddress(p)
  <2>1. mem' = mem /\ word' = word /\ ~word[l].flushing
    BY <1>5 DEF StoreAddress, ResetAddress, WInv, ProducerOK, Sealing, ZeroWord
  <2>2. \A b \in Buffers : b # l => address'[b] = address[b]
    BY <1>0, <1>5 DEF StoreAddress, ResetAddress
  <2> QED
    BY <2>1, <2>2
<1>6. CASE RotateAddress(p)
  <2>1. mem' = mem /\ word' = word /\ ~word[loc[p].cand].flushing
    BY <1>6 DEF RotateAddress, WInv, ProducerOK, IsAvailable, IsOpen
  <2>2. \A b \in Buffers : b # loc[p].cand => address'[b] = address[b]
    BY <1>0, <1>6 DEF RotateAddress
  <2> QED
    BY <2>1, <2>2
<1>7. CASE \/ StartMessage(p) \/ StartPoll(p) \/ LoadCurrent(p) \/ ReserveLoad(p)
           \/ SealSize(p) \/ ClaimSlot(p) \/ RotateLoad(p) \/ RotateSize(p)
           \/ RotateScan(p) \/ RotateCheck(p) \/ RotateSwap(p) \/ RotateReserve(p)
           \/ DrainCheck(p) \/ PollDrain(p) \/ Reap(p) \/ Retry(p) \/ SendAddress(p)
           \/ SendReport(p)
  <2>1. mem' = mem /\ word' = word /\ address' = address
    BY <1>7 DEF StartMessage, StartPoll, LoadCurrent, ReserveLoad, SealSize, ClaimSlot,
       RotateLoad, RotateSize, RotateScan, RotateCheck, RotateSwap, RotateReserve,
       DrainCheck, PollDrain, Reap, Retry, SendAddress, SendReport
  <2> QED
    BY <2>1
<1> QED
  BY <1>1, <1>2, <1>3, <1>4, <1>5, <1>6, <1>7 DEF Step

\* Where the producer comes from when it arrives at the labels that promise
\* something about the data.
LEMMA Arrivals ==
  ASSUME NEW p, OneProducer(p), TInv, StartMessage(p) \/ StartPoll(p) \/ Step(p)
  PROVE  /\ pc'[p] = "copy" => ReserveCas(p)
         /\ pc'[p] = "retry" => Reap(p)
         /\ pc'[p] = "sendAt" => Reap(p)
         /\ pc'[p] = "sendLen" => SendAddress(p)
         /\ pc'[p] = "reset" => Reap(p) \/ SendReport(p) \/ ClaimFlush(p)
<1> USE DEF Goto
<1>1. CASE \/ StartMessage(p) \/ StartPoll(p) \/ LoadCurrent(p) \/ ReserveLoad(p)
           \/ ReserveCas(p) \/ Write(p) \/ ResetState(p) \/ Reap(p) \/ PollDrain(p)
           \/ SendAddress(p) \/ SendReport(p)
  BY <1>1, Producer DEF StartMessage, StartPoll, LoadCurrent, ReserveLoad, ReserveCas,
     Write, ResetState, Reap, PollDrain, SendAddress, SendReport
<1>2. CASE \/ Seal(p) \/ DecrementWriters(p) \/ DrainCheck(p) \/ ResetAddress(p) \/ Submit(p)
           \/ ClaimFlush(p)
  BY <1>2, Producer DEF Seal, DecrementWriters, DrainCheck, ResetAddress, Submit,
     ClaimFlush, ReturnOk, ReturnSealed
<1>3. CASE \/ SealSize(p) \/ ClaimSlot(p) \/ StoreAddress(p) \/ RotateLoad(p)
           \/ RotateSize(p) \/ RotateScan(p) \/ RotateCheck(p) \/ RotateSwap(p)
           \/ RotateReserve(p) \/ RotateAddress(p)
  BY <1>3, Producer DEF SealSize, ClaimSlot, StoreAddress, RotateLoad, RotateSize,
     RotateScan, RotateCheck, RotateSwap, RotateReserve, RotateAddress
<1>4. CASE FlushMark(p) \/ FlushLen(p) \/ FlushAt(p) \/ Retry(p)
  BY <1>4, Producer DEF FlushMark, FlushLen, FlushAt, Retry
<1> QED
  BY <1>1, <1>2, <1>3, <1>4 DEF Step

\* Only the kernel completes a write: what is done after a step of the producer
\* was done before it.
LEMMA DoneBefore ==
  ASSUME NEW p, OneProducer(p), TInv, OInv, WInv(p), HasStore, AutoFlush,
         StartMessage(p) \/ StartPoll(p) \/ Step(p)
  PROVE  /\ \A b \in Buffers : Done(p, b)' => Done(p, b) /\ word[b].flushing
         /\ ResetState(p) => \A b \in Buffers : Done(p, b)' => b # loc[p].buf
         /\ disk' = disk
<1> PICK l : l = loc[p].buf
  OBVIOUS
<1> USE DEF bufVars, ringVars, uringVars, clientVars, Goto, At
<1>0. \A b \in Buffers : Done(p, b) => word[b].flushing
  BY Producer DEF Done, OInv, Marked, Owner, OwnerLabels
<1>1. CASE Reap(p)
  <2>1. /\ cq' \cup got'[p] \subseteq cq \cup got[p]
        /\ pc'[p] \in {"sendAt", "reset"} => \E c \in got[p] : c.ok /\ loc'[p].buf = c.buf
        /\ pc'[p] # "sendLen" /\ disk' = disk
    BY <1>1, Producer DEF Reap, Local
  <2> QED
    BY <1>0, <1>1, <2>1 DEF Done, Reap, ResetState
<1>2. CASE PollDrain(p)
  <2>1. /\ cq' \cup got'[p] \subseteq cq \cup got[p]
        /\ pc'[p] \notin {"sendAt", "sendLen", "reset"} /\ disk' = disk
    BY <1>2, Producer DEF PollDrain
  <2> QED
    BY <1>0, <1>2, <2>1 DEF Done, PollDrain, ResetState
<1>3. CASE SendAddress(p) \/ SendReport(p)
  <2>1. /\ cq' = cq /\ got' = got /\ disk' = disk /\ loc'[p].buf = l
        /\ pc[p] \in {"sendAt", "sendLen"}
    BY <1>3, Producer DEF SendAddress, SendReport, Local
  <2> QED
    BY <1>0, <1>3, <2>1 DEF Done, ResetState
<1>4. CASE ResetState(p)
  <2>1. cq' = cq /\ got' = got /\ disk' = disk /\ pc[p] = "reset" /\ pc'[p] = "reset2"
    BY <1>4, Producer DEF ResetState
  <2>2. \A b \in Buffers : Done(p, b)' => Done(p, b)
    BY <2>1 DEF Done
  <2>3. \A c \in cq \cup got[p] : c.buf # l
    BY <2>1, Producer DEF OInv, OwnerAlone, Owner, OwnerLabels
  <2>4. \A b \in Buffers : Done(p, b)' => b # l
    BY <2>1, <2>3 DEF Done
  <2> QED
    BY <1>0, <2>1, <2>2, <2>4
<1>5. ASSUME ~(Reap(p) \/ PollDrain(p) \/ SendAddress(p) \/ SendReport(p) \/ ResetState(p))
      PROVE  cq' = cq /\ got' = got /\ disk' = disk /\ pc'[p] \notin {"sendAt", "sendLen", "reset"}
  <2>1. pc'[p] \notin {"sendAt", "sendLen", "reset"}
    BY <1>5, Arrivals, WClaim
  <2>2. cq' = cq /\ got' = got /\ disk' = disk
    BY <1>5 DEF Step, StartMessage, StartPoll, LoadCurrent, ReserveLoad,
       ReserveCas, Write, DecrementWriters, ClaimFlush, Seal, SealSize, ClaimSlot,
       StoreAddress, RotateLoad, RotateSize, RotateScan, RotateCheck, RotateSwap,
       RotateReserve, RotateAddress, DrainCheck, FlushMark, FlushLen, FlushAt,
       Submit, ResetAddress, Retry
  <2> QED
    BY <2>1, <2>2
<1>6. CASE ~(Reap(p) \/ PollDrain(p) \/ SendAddress(p) \/ SendReport(p) \/ ResetState(p))
  BY <1>0, <1>5, <1>6 DEF Done
<1> QED
  BY <1>1, <1>2, <1>3, <1>4, <1>6

\* Padding only adds.
LEMMA PaddedCovers ==
  ASSUME NEW n \in Nat PROVE n <= NextMultipleOf(n, Page)
<1>1. PICK k \in Nat \ {0} : k = Page
  BY BufferRingAssumption
<1>2. PICK m \in Nat : m = n + k - 1
  BY <1>1
<1>3. PICK q \in Nat, o \in Nat : q = m \div k /\ m = q * k + o /\ o < k
  <2>1. m \div k \in Nat /\ m % k \in Nat /\ m % k < k /\ m = (m \div k) * k + (m % k)
    BY <1>1
  <2> QED
    BY <2>1
<1>4. PICK s \in Int : s = q * k
  OBVIOUS
<1>5. NextMultipleOf(n, Page) = s
  BY <1>1, <1>2, <1>3, <1>4 DEF NextMultipleOf
<1> QED
  BY <1>1, <1>2, <1>3, <1>4, <1>5

\* The size of a buffer fits in its part.
LEMMA SizeFits ==
  ASSUME NEW p, OneProducer(p), TInv, WInv(p)
  PROVE  \A b \in Buffers : /\ word[b].offset \in Nat /\ word[b].offset <= Block
                            /\ word[b].offset <= Padded(b) /\ Padded(b) \in Nat
                            /\ address[b] \in Nat
<1> SUFFICES ASSUME NEW b \in Buffers
             PROVE  /\ word[b].offset \in Nat /\ word[b].offset <= Block
                    /\ word[b].offset <= Padded(b) /\ Padded(b) \in Nat
                    /\ address[b] \in Nat
  OBVIOUS
<1>1. word[b].offset \in Nat /\ word[b].offset <= Block /\ address[b] \in Nat
  BY Producer, WordFields DEF WInv, WordOK
<1> QED
  BY <1>1, PaddedCovers, PlaceTypes DEF Padded

\* A part of a settled range is settled.
LEMMA SettledPart ==
  ASSUME NEW p, OneProducer(p), TInv, NEW a \in Nat, NEW n \in Nat, Settled(p, a, n),
         NEW c \in Nat, NEW k \in Nat, a <= c, c + k <= a + n
  PROVE  Settled(p, c, k)
<1>1. c + k <= next_address
  BY PlaceTypes DEF Settled
<1>2. ASSUME NEW b \in Buffers, Live(p, b) PROVE Apart(c, k, Place(p, b), Padded(b))
  BY <1>2, PlaceTypes DEF Settled, Apart
<1> QED
  BY <1>1, <1>2 DEF Settled

\* A buffer whose write completed holds its part.
LEMMA DoneLive ==
  ASSUME NEW p, OneProducer(p), TInv, OInv, WInv(p), NEW b \in Buffers,
         Done(p, b), ~(pc[p] = "reset" /\ loc[p].buf = b)
  PROVE  Live(p, b) /\ Place(p, b) = address[b] /\ word[b].flushing
<1>1. word[b].flushing
  BY Producer DEF Done, OInv, Marked, Owner, OwnerLabels
<1>2. word[b].sealed
  BY <1>1 DEF WInv, WordOK
<1>3. ~(loc[p].buf = b /\ pc[p] \in {"size", "slot", "store"})
  BY <1>1 DEF WInv, ProducerOK, Sealing
<1> QED
  BY <1>1, <1>2, <1>3 DEF Live, Place

\* When the producer turns to the reset of a buffer, the part it held is settled.
LEMMA ResetSettles ==
  ASSUME NEW p, OneProducer(p), TInv, WInv(p), Layout(p), NEW b \in Buffers,
         Live(p, b), Place(p, b) = address[b], pc[p] \notin {"size", "slot", "store", "reset"},
         pc'[p] = "reset", loc'[p].buf = b, UNCHANGED <<word, address, next_address>>
  PROVE  Settled(p, address[b], word[b].offset)'
<1>0. /\ word[b].offset \in Nat /\ word[b].offset <= Padded(b) /\ address[b] \in Nat
      /\ next_address \in Nat
      /\ \A c \in Buffers : Place(p, c) \in Nat /\ Padded(c) \in Nat
  BY SizeFits, PlaceTypes
<1>1. address[b] + word[b].offset <= next_address
  BY <1>0 DEF Layout
<1>2. ASSUME NEW c \in Buffers, Live(p, c)'
      PROVE  Apart(address[b], word[b].offset, Place(p, c)', Padded(c)')
  <2>1. Live(p, c) /\ c # b /\ Place(p, c)' = Place(p, c) /\ Padded(c)' = Padded(c)
    BY <1>2 DEF Live, Place, Padded
  <2>2. Apart(address[b], Padded(b), Place(p, c), Padded(c))
    BY <2>1 DEF Layout
  <2> QED
    BY <1>0, <2>1, <2>2 DEF Apart
<1>3. \A c \in Buffers : Live(p, c)' =>
        Apart(address'[b], word'[b].offset, Place(p, c)', Padded(c)')
  BY <1>2
<1> QED
  BY <1>1, <1>3 DEF Settled, Apart

\* The memory and the size of the buffers that are done are as they were, so what
\* was written is still what they hold.
LEMMA CompletedKept ==
  ASSUME NEW p, OneProducer(p), TInv, OInv, WInv(p), LInv(p), MemOK, HasStore, AutoFlush,
         Completed(p), StartMessage(p) \/ StartPoll(p) \/ Step(p), opt' = opt
  PROVE  Completed(p)'
<1> PICK l : l = loc[p].buf
  OBVIOUS
<1> USE DEF bufVars, ringVars, uringVars, clientVars, Goto, At
<1>1. ASSUME NEW b \in Buffers, Done(p, b)' PROVE Written(b)'
  <2>1. Written(b) /\ word[b].flushing /\ disk' = disk
    BY <1>1, DoneBefore DEF Completed
  <2>2. address'[b] = address[b] /\ word'[b].offset = word[b].offset /\ mem'[b] = mem[b]
    <3>1. CASE ResetState(p)
      <4>1. b # l /\ address' = address /\ mem' = mem /\ word' = [word EXCEPT ![l] = ZeroWord]
        BY <1>1, <3>1, DoneBefore DEF ResetState
      <4> QED
        BY <4>1, Producer
    <3>2. CASE ~ResetState(p)
      BY <2>1, <3>2, FlushingFixed
    <3> QED
      BY <3>1, <3>2
  <2> QED
    BY <2>1, <2>2 DEF Written
<1>2. ASSUME pc'[p] = "sendLen" PROVE loc'[p].at = address'[loc'[p].buf]
  <2>1. SendAddress(p)
    BY <1>2, Arrivals
  <2>2. /\ loc'[p].at = address[l] /\ loc'[p].buf = l /\ address' = address
    BY <2>1, Producer DEF SendAddress, Local
  <2> QED
    BY <2>2
<1>3. ASSUME pc'[p] = "reset"
      PROVE  /\ Settled(p, address[loc[p].buf], word[loc[p].buf].offset)'
             /\ HasReceiver' => [at |-> address'[loc'[p].buf],
                                 len |-> word'[loc'[p].buf].offset] \in reports'
  <2>1. CASE SendReport(p)
    <3>1. /\ pc[p] = "sendLen" /\ loc' = loc
          /\ UNCHANGED <<word, address, next_address>>
          /\ reports' = reports \cup {[at |-> loc[p].at, len |-> word[l].offset]}
      BY <2>1 DEF SendReport
    <3>2. l \in Buffers /\ Done(p, l)
      BY <3>1, Producer DEF Done
    <3>3. Live(p, l) /\ Place(p, l) = address[l]
      BY <3>1, <3>2, DoneLive
    <3>4. Settled(p, address[l], word[l].offset)'
      BY <1>3, <3>1, <3>2, <3>3, ResetSettles DEF LInv
    <3>5. Settled(p, address[loc[p].buf], word[loc[p].buf].offset)'
      BY <3>1, <3>4
    <3>6. [at |-> address'[loc'[p].buf], len |-> word'[loc'[p].buf].offset] \in reports'
      BY <3>1 DEF Completed
    <3> QED
      BY <3>5, <3>6
  <2>2. CASE Reap(p)
    <3>1. PICK c \in got[p] : /\ loc' = [loc EXCEPT ![p].buf = c.buf]
                              /\ c.ok /\ ~HasReceiver
      BY <1>3, <2>2, Producer DEF Reap
    <3>2. PICK b \in Buffers : b = c.buf /\ loc'[p].buf = b
      BY <3>1, Producer DEF Local, Cqe
    <3>3. pc[p] = "reap" /\ UNCHANGED <<word, address, next_address, opt>> /\ Done(p, b)
      BY <2>2, <3>1, <3>2 DEF Reap, Done
    <3>4. Live(p, b) /\ Place(p, b) = address[b]
      BY <3>3, DoneLive
    <3>5. Settled(p, address[b], word[b].offset)'
      BY <1>3, <3>2, <3>3, <3>4, ResetSettles DEF LInv
    <3>6. Settled(p, address[loc[p].buf], word[loc[p].buf].offset)'
      BY <3>2, <3>5
    <3> QED
      BY <3>1, <3>3, <3>6 DEF HasReceiver
  <2>3. CASE ClaimFlush(p)
    BY <1>3, <2>3, WClaim
  <2> QED
    BY <1>3, <2>1, <2>2, <2>3, Arrivals
<1> QED
  BY <1>1, <1>2, <1>3 DEF Completed

\* What a step has to leave alone for a message in the file to stay there ...
LEMMA InFileKept ==
  ASSUME NEW p, NEW a \in Nat, NEW m, NEW n \in Nat, InFile(p, a, m, n), opt' = opt,
         Settled(p, a, n)', reports \subseteq reports',
         \A j \in 0 .. n - 1 : a + j \in DOMAIN disk /\ disk[a + j] = <<m, j>> =>
           a + j \in DOMAIN disk' /\ disk'[a + j] = disk[a + j]
  PROVE  InFile(p, a, m, n)'
<1>1. \A j \in 0 .. n - 1 : a + j \in DOMAIN disk' /\ disk'[a + j] = <<m, j>>
  BY DEF InFile
<1>2. HasReceiver' => \E r \in reports' : r.at <= a /\ a + n <= r.at + r.len
  BY DEF InFile, HasReceiver
<1> QED
  BY <1>1, <1>2 DEF InFile

\* ... so that it is somewhere afterwards.
LEMMA InFileSomewhere ==
  ASSUME NEW p, NEW a \in Nat, NEW m, NEW n \in Nat, TInv',
         InFile(p, a, m, n)'
  PROVE  Somewhere(p, m, n)'
<1>1. a \in 0 .. next_address'
  BY DEF InFile, Settled, TInv, SharedOK
<1> QED
  BY <1>1 DEF Somewhere

\* Reports that were settled and readable stay so while the file is not written.
LEMMA ReportedKept ==
  ASSUME NEW p, Reported(p), disk' = disk, reports' = reports,
         \A a, n \in Nat : Settled(p, a, n) => Settled(p, a, n)'
  PROVE  Reported(p)'
<1> SUFFICES ASSUME NEW r \in reports
             PROVE  /\ r.at \in Nat /\ r.len \in Nat
                    /\ Settled(p, r.at, r.len)'
                    /\ \A i \in 0 .. r.len - 1 :
                         r.at + i \in DOMAIN disk /\ disk[r.at + i] # Empty
  BY DEF Reported
<1>1. r.at \in Nat /\ r.len \in Nat /\ Settled(p, r.at, r.len)
  BY DEF Reported
<1> QED
  BY <1>1 DEF Reported

\* A message is where it was, if neither the file is written nor the buffers'
\* sizes and memory change in it.
LEMMA SurvivesKept ==
  ASSUME NEW p, TInv', Survives(p), disk' = disk, reports \subseteq reports', opt' = opt,
         copied' = copied,
         \A a, n \in Nat : Settled(p, a, n) => Settled(p, a, n)',
         \A b \in Buffers, i \in 0 .. Block, n \in Nat : \A m :
           InBuffer(p, b, i, m, n) => InBuffer(p, b, i, m, n)' \/ Somewhere(p, m, n)'
  PROVE  Survives(p)'
<1> SUFFICES ASSUME NEW x \in copied PROVE x[2] \in Nat /\ Somewhere(p, x[1], x[2])'
  BY DEF Survives
<1>1. x[2] \in Nat /\ Somewhere(p, x[1], x[2])
  BY DEF Survives
<1>2. PICK n \in Nat, m \in {x[1]} : m = x[1] /\ n = x[2]
  BY <1>1
<1>3. CASE \E b \in Buffers : \E i \in 0 .. Block : InBuffer(p, b, i, m, n)
  <2>1. PICK b \in Buffers, i \in 0 .. Block : InBuffer(p, b, i, m, n)
    BY <1>3
  <2>2. CASE Somewhere(p, m, n)'
    BY <1>2, <2>2 DEF Somewhere
  <2>3. CASE InBuffer(p, b, i, m, n)'
    <3>1. Somewhere(p, m, n)'
      BY <2>3 DEF Somewhere
    <3> QED
      BY <1>2, <3>1 DEF Somewhere
  <2> QED
    BY <2>1, <2>2, <2>3
<1>4. CASE \E a \in 0 .. next_address : InFile(p, a, m, n)
  <2>1. PICK a \in Nat : InFile(p, a, m, n)
    BY <1>4
  <2>2. Settled(p, a, n)'
    BY <2>1 DEF InFile
  <2>3. InFile(p, a, m, n)'
    BY <2>1, <2>2, InFileKept
  <2>4. Somewhere(p, m, n)'
    BY <2>3, InFileSomewhere
  <2> QED
    BY <1>2, <2>4 DEF Somewhere
<1> QED
  BY <1>1, <1>2, <1>3, <1>4 DEF Somewhere

\* A step that neither copies nor reserves, resets nothing and reports nothing.
LEMMA DQuiet ==
  ASSUME NEW p, TInv', Filled(p), Reported(p), Survives(p),
         UNCHANGED <<mem, disk, reports, copied, opt>>, pc[p] # "copy", pc'[p] # "copy",
         \A b \in Buffers : word'[b].offset = word[b].offset,
         \A a, n \in Nat : Settled(p, a, n) => Settled(p, a, n)'
  PROVE  Filled(p)' /\ Reported(p)' /\ Survives(p)'
<1>1. Filled(p)'
  BY DEF Filled
<1>2. Reported(p)'
  BY ReportedKept
<1>3. \A b \in Buffers, i \in 0 .. Block, n \in Nat : \A m :
        InBuffer(p, b, i, m, n) => InBuffer(p, b, i, m, n)'
  BY DEF InBuffer
<1>4. Survives(p)'
  BY <1>3, SurvivesKept
<1> QED
  BY <1>1, <1>2, <1>4

\* A reservation: the new bytes are the producer's to fill.
LEMMA DReserve ==
  ASSUME NEW p, OneProducer(p), TInv, TInv', WInv(p), WInv(p)', Data(p),
         ReserveCas(p), opt' = opt,
         \A a, n \in Nat : Settled(p, a, n) => Settled(p, a, n)'
  PROVE  Filled(p)' /\ Reported(p)' /\ Survives(p)'
<1> PICK l \in Buffers : l = loc[p].buf
  BY Producer
<1> USE DEF bufVars, ringVars, uringVars, clientVars, Goto, At
<1>0. pc[p] = "cas" /\ UNCHANGED <<mem, disk, reports, copied>> /\ word[l] = loc[p].seen
  BY DEF ReserveCas, WInv, ProducerOK
<1>1. /\ loc'[p].buf = l /\ pc'[p] = "copy" /\ loc'[p].off = word[l].offset
      /\ loc'[p].size = loc[p].size
      /\ \A b \in Buffers : b # l => word'[b] = word[b]
  <2>1. /\ word' = [word EXCEPT ![l] = Reserved(word[l], loc[p].size)]
        /\ pc' = [pc EXCEPT ![p] = "copy"]
        /\ loc' = [loc EXCEPT ![p].off = word[l].offset]
    BY <1>0 DEF ReserveCas
  <2> QED
    BY <2>1, Producer DEF Local
<1>2. word'[l].offset = word[l].offset + loc[p].size
  BY <1>1 DEF WInv, ProducerOK
<1>3. /\ loc[p].size \in Nat /\ \A b \in Buffers : word[b].offset \in Nat
  BY Producer, SizeFits
<1>4. Filled(p)'
  <2> SUFFICES ASSUME NEW b \in Buffers, NEW i \in 0 .. word'[b].offset - 1
               PROVE  \/ mem'[b][i] # Empty
                      \/ pc'[p] = "copy" /\ loc'[p].buf = b /\ i >= loc'[p].off
    BY DEF Filled
  <2>1. CASE b = l /\ i >= word[l].offset
    BY <1>1, <2>1
  <2>2. CASE ~(b = l /\ i >= word[l].offset)
    <3>1. i \in 0 .. word[b].offset - 1
      BY <1>1, <1>2, <1>3, <2>2
    <3> QED
      BY <1>0, <3>1 DEF Data, Filled
  <2> QED
    BY <2>1, <2>2
<1>5. Reported(p)'
  BY <1>0, ReportedKept DEF Data
<1>6. ASSUME NEW b \in Buffers, NEW i \in 0 .. Block, NEW m, NEW n \in Nat,
             InBuffer(p, b, i, m, n)
      PROVE  InBuffer(p, b, i, m, n)'
  <2>1. i \in Nat /\ i + n <= word[b].offset
    BY <1>6, BufferRingAssumption DEF InBuffer
  <2>2. i + n <= word'[b].offset
    BY <1>1, <1>2, <1>3, <2>1
  <2>3. pc'[p] = "copy" /\ loc'[p].buf = b => i + n <= loc'[p].off
    BY <1>1, <2>1
  <2> QED
    BY <1>0, <1>6, <2>2, <2>3 DEF InBuffer
<1>7. Survives(p)'
  BY <1>0, <1>6, SurvivesKept DEF Data
<1> QED
  BY <1>4, <1>5, <1>7

\* The copy: it fills the reservation, which is above every other message.
LEMMA DWrite ==
  ASSUME NEW p, OneProducer(p), TInv, TInv', WInv(p), MemOK, Data(p),
         Write(p), opt' = opt,
         \A a, n \in Nat : Settled(p, a, n) => Settled(p, a, n)'
  PROVE  Filled(p)' /\ Reported(p)' /\ Survives(p)'
<1> PICK l \in Buffers : l = loc[p].buf
  BY Producer
<1> PICK off \in Nat, size \in Nat : off = loc[p].off /\ size = loc[p].size
  BY Producer
<1> PICK msg : msg = Message(p)
  OBVIOUS
<1> USE DEF bufVars, ringVars, uringVars, clientVars, Goto, At
<1>0. /\ UNCHANGED <<word, disk, reports, loc, next_address>> /\ pc[p] = "copy" /\ pc'[p] = "dec"
      /\ word[l].offset = off + size /\ off + size <= Block
      /\ copied' = copied \cup {<<msg, size>>}
  BY Producer DEF Write, WInv, ProducerOK, WordOK
<1>1. /\ \A b \in Buffers : b # l => mem'[b] = mem[b]
      /\ mem'[l] = [i \in 0 .. Block - 1 |-> IF i \in off .. off + size - 1 THEN <<msg, i - off>>
                                                                        ELSE mem[l][i]]
  BY DEF Write, MemOK, Region
<1>2. /\ Block \in Nat
      /\ \A i \in 0 .. off - 1 : mem'[l][i] = mem[l][i]
      /\ \A j \in 0 .. size - 1 : mem'[l][off + j] = <<msg, j>>
  <2>1. Block \in Nat
    BY BufferRingAssumption
  <2>2. ASSUME NEW i \in 0 .. off - 1 PROVE mem'[l][i] = mem[l][i]
    <3>1. i \in 0 .. Block - 1 /\ i \notin off .. off + size - 1
      BY <1>0, <2>1
    <3> QED
      BY <1>1, <3>1
  <2>3. ASSUME NEW j \in 0 .. size - 1 PROVE mem'[l][off + j] = <<msg, j>>
    <3>1. /\ off + j \in 0 .. Block - 1 /\ (off + j) - off = j
          /\ off + j \in off .. off + size - 1
      BY <1>0, <2>1
    <3> QED
      BY <1>1, <3>1
  <2> QED
    BY <2>1, <2>2, <2>3
<1>3. Filled(p)'
  <2> SUFFICES ASSUME NEW b \in Buffers, NEW i \in 0 .. word[b].offset - 1
               PROVE  mem'[b][i] # Empty
    BY <1>0 DEF Filled
  <2>1. CASE b # l
    BY <1>1, <2>1 DEF Data, Filled
  <2>2. CASE b = l /\ i < off
    BY <1>2, <2>2 DEF Data, Filled
  <2>3. CASE b = l /\ ~(i < off)
    <3>1. PICK j \in 0 .. size - 1 : i = off + j
      <4>1. i - off \in 0 .. size - 1 /\ i = off + (i - off)
        BY <1>0, <2>3
      <4> QED
        BY <4>1
    <3>2. mem'[l][i] = <<msg, j>>
      BY <1>2, <3>1
    <3> QED
      BY <2>3, <3>2 DEF Empty
  <2> QED
    BY <2>1, <2>2, <2>3
<1>4. Reported(p)'
  BY <1>0, ReportedKept DEF Data
<1>5. ASSUME NEW b \in Buffers, NEW i \in 0 .. Block, NEW m, NEW n \in Nat,
             InBuffer(p, b, i, m, n)
      PROVE  InBuffer(p, b, i, m, n)'
  <2>1. ASSUME NEW j \in 0 .. n - 1 PROVE mem'[b][i + j] = mem[b][i + j]
    <3>1. CASE b # l
      BY <1>1, <3>1
    <3>2. CASE b = l
      <4>1. i + n <= off /\ i \in Nat
        BY <1>0, <1>2, <1>5, <3>2 DEF InBuffer
      <4>2. i + j \in 0 .. off - 1
        BY <4>1
      <4> QED
        BY <1>2, <3>2, <4>2
    <3> QED
      BY <3>1, <3>2
  <2> QED
    BY <1>0, <1>5, <2>1 DEF InBuffer
<1>6. InBuffer(p, l, off, msg, size)'
  BY <1>0, <1>2 DEF InBuffer
<1>7. Survives(p)'
  <2> SUFFICES ASSUME NEW x \in copied' PROVE x[2] \in Nat /\ Somewhere(p, x[1], x[2])'
    BY DEF Survives
  <2>1. CASE x = <<msg, size>>
    <3>1. off \in 0 .. Block
      BY <1>0, <1>2
    <3>2. Somewhere(p, msg, size)'
      BY <1>6, <3>1 DEF Somewhere
    <3> QED
      BY <2>1, <3>2
  <2>2. CASE x \in copied
    <3>1. x[2] \in Nat /\ Somewhere(p, x[1], x[2])
      BY <2>2 DEF Data, Survives
    <3>2. PICK n \in Nat, m \in {x[1]} : m = x[1] /\ n = x[2]
      BY <3>1
    <3>3. CASE \E b \in Buffers : \E i \in 0 .. Block : InBuffer(p, b, i, m, n)
      <4>1. Somewhere(p, m, n)'
        BY <1>5, <3>3 DEF Somewhere
      <4> QED
        BY <3>2, <4>1
    <3>4. CASE \E a \in 0 .. next_address : InFile(p, a, m, n)
      <4>1. PICK a \in Nat : InFile(p, a, m, n)
        BY <3>4
      <4>2. Settled(p, a, n)'
        BY <4>1 DEF InFile
      <4>3. InFile(p, a, m, n)'
        BY <1>0, <4>1, <4>2, InFileKept
      <4>4. Somewhere(p, m, n)'
        BY <4>3, InFileSomewhere
      <4> QED
        BY <3>2, <4>4
    <3> QED
      BY <3>1, <3>2, <3>3, <3>4 DEF Somewhere
  <2> QED
    BY <1>0, <2>1, <2>2
<1> QED
  BY <1>3, <1>4, <1>7

\* The reset: what the buffer held is in the file.
LEMMA DReset ==
  ASSUME NEW p, OneProducer(p), TInv, TInv', WInv(p), Data(p),
         ResetState(p), opt' = opt,
         \A a, n \in Nat : Settled(p, a, n) => Settled(p, a, n)'
  PROVE  Filled(p)' /\ Reported(p)' /\ Survives(p)'
<1> PICK l \in Buffers : l = loc[p].buf
  BY Producer
<1> PICK at \in Nat, size \in Nat : at = address[l] /\ size = word[l].offset
  BY SizeFits
<1> USE DEF bufVars, ringVars, uringVars, clientVars, Goto, At
<1>0. /\ UNCHANGED <<mem, disk, reports, copied>> /\ pc[p] = "reset" /\ pc'[p] = "reset2"
      /\ word'[l].offset = 0 /\ \A b \in Buffers : b # l => word'[b] = word[b]
  BY Producer DEF ResetState, ZeroWord
<1>1. /\ Settled(p, at, size)
      /\ \A i \in 0 .. size - 1 : at + i \in DOMAIN disk /\ disk[at + i] = mem[l][i]
      /\ HasReceiver => [at |-> at, len |-> size] \in reports
  <2>1. Done(p, l)
    BY <1>0 DEF Done
  <2> QED
    BY <1>0, <2>1 DEF Data, Completed, Written
<1>2. Filled(p)'
  <2> SUFFICES ASSUME NEW b \in Buffers, NEW i \in 0 .. word'[b].offset - 1
               PROVE  mem[b][i] # Empty
    BY <1>0 DEF Filled
  <2>1. b # l
    BY <1>0
  <2> QED
    BY <1>0, <2>1 DEF Data, Filled
<1>3. Reported(p)'
  BY <1>0, ReportedKept DEF Data
<1>4. ASSUME NEW b \in Buffers, NEW i \in 0 .. Block, NEW m, NEW n \in Nat,
             InBuffer(p, b, i, m, n)
      PROVE  InBuffer(p, b, i, m, n)' \/ Somewhere(p, m, n)'
  <2>1. CASE b # l
    BY <1>0, <1>4, <2>1 DEF InBuffer
  <2>2. CASE b = l
    <3>1. i \in Nat /\ i + n <= size
      BY <1>4, <2>2, BufferRingAssumption DEF InBuffer
    <3>2. PICK a \in Nat : a = at + i
      BY <3>1
    <3>3. Settled(p, a, n)
      BY <1>1, <3>1, <3>2, SettledPart
    <3>4. ASSUME NEW j \in 0 .. n - 1
          PROVE  a + j \in DOMAIN disk /\ disk[a + j] = <<m, j>>
      <4>1. i + j \in 0 .. size - 1 /\ a + j = at + (i + j)
        BY <3>1, <3>2
      <4>2. mem[l][i + j] = <<m, j>>
        BY <1>4, <2>2 DEF InBuffer
      <4> QED
        BY <1>1, <4>1, <4>2
    <3>5. HasReceiver => \E r \in reports : r.at <= a /\ a + n <= r.at + r.len
      <4> SUFFICES ASSUME HasReceiver
                   PROVE  \E r \in reports : r.at <= a /\ a + n <= r.at + r.len
        OBVIOUS
      <4>1. PICK r \in reports : r.at = at /\ r.len = size
        BY <1>1
      <4>2. r.at <= a /\ a + n <= r.at + r.len
        BY <3>1, <3>2, <4>1
      <4> QED
        BY <4>2
    <3>6. InFile(p, a, m, n)
      BY <3>3, <3>4, <3>5 DEF InFile
    <3>7. InFile(p, a, m, n)'
      BY <1>0, <3>3, <3>6, InFileKept
    <3> QED
      BY <3>7, InFileSomewhere
  <2> QED
    BY <2>1, <2>2
<1>5. Survives(p)'
  BY <1>0, <1>4, SurvivesKept DEF Data
<1> QED
  BY <1>2, <1>3, <1>5

\* The report: the range sent was written, all of it with messages.
LEMMA DReport ==
  ASSUME NEW p, OneProducer(p), TInv, TInv', WInv(p), Data(p), Completed(p)',
         SendReport(p), opt' = opt,
         \A a, n \in Nat : Settled(p, a, n) => Settled(p, a, n)'
  PROVE  Filled(p)' /\ Reported(p)' /\ Survives(p)'
<1> PICK l \in Buffers : l = loc[p].buf
  BY Producer
<1> PICK at \in Nat, size \in Nat : at = address[l] /\ size = word[l].offset
  BY SizeFits
<1> USE DEF bufVars, ringVars, uringVars, clientVars, Goto, At
<1>0. /\ UNCHANGED <<mem, disk, copied, word, address, loc>> /\ pc[p] = "sendLen"
      /\ pc'[p] = "reset"
      /\ reports' = reports \cup {[at |-> loc[p].at, len |-> word[l].offset]}
  BY Producer DEF SendReport
<1>1. /\ loc[p].at = at
      /\ \A i \in 0 .. size - 1 : at + i \in DOMAIN disk /\ disk[at + i] = mem[l][i]
  <2>1. Done(p, l)
    BY <1>0 DEF Done
  <2> QED
    BY <1>0, <2>1 DEF Data, Completed, Written
<1>2. Settled(p, at, size)'
  BY <1>0 DEF Completed
<1>3. \A i \in 0 .. size - 1 : mem[l][i] # Empty
  BY <1>0 DEF Data, Filled
<1>4. Filled(p)'
  BY <1>0 DEF Data, Filled
<1>5. Reported(p)'
  <2> SUFFICES ASSUME NEW r \in reports'
               PROVE  /\ r.at \in Nat /\ r.len \in Nat
                      /\ Settled(p, r.at, r.len)'
                      /\ \A i \in 0 .. r.len - 1 :
                           r.at + i \in DOMAIN disk /\ disk[r.at + i] # Empty
    BY <1>0 DEF Reported
  <2>1. CASE r \in reports
    <3>1. r.at \in Nat /\ r.len \in Nat /\ Settled(p, r.at, r.len)
      BY <2>1 DEF Data, Reported
    <3> QED
      BY <2>1, <3>1 DEF Data, Reported
  <2>2. CASE r = [at |-> at, len |-> size]
    <3>1. r.at = at /\ r.len = size
      BY <2>2
    <3>2. \A i \in 0 .. size - 1 : at + i \in DOMAIN disk /\ disk[at + i] # Empty
      BY <1>1, <1>3
    <3> QED
      BY <1>2, <3>1, <3>2
  <2> QED
    BY <1>0, <1>1, <2>1, <2>2
<1>6. ASSUME NEW b \in Buffers, NEW i \in 0 .. Block, NEW m, NEW n \in Nat,
             InBuffer(p, b, i, m, n)
      PROVE  InBuffer(p, b, i, m, n)'
  BY <1>0, <1>6 DEF InBuffer
<1>7. Survives(p)'
  BY <1>0, <1>6, SurvivesKept DEF Data
<1> QED
  BY <1>4, <1>5, <1>7

\* A write puts the buffer's bytes in its part of the file, and touches nothing
\* outside of it.
LEMMA WriteEffect ==
  ASSUME NEW r \in Request, disk' = KernelWrites(r)
  PROVE  /\ \A a \in DOMAIN disk : ~(r.at <= a /\ a < r.at + r.len) =>
              a \in DOMAIN disk' /\ disk'[a] = disk[a]
         /\ \A i \in Nat : i < r.len /\ i < Block =>
              r.at + i \in DOMAIN disk' /\ disk'[r.at + i] = mem[r.buf][i]
<1>0. r.at \in Nat /\ r.len \in Nat /\ Block \in Nat
  BY BufferRingAssumption DEF Request
<1>1. ASSUME NEW a \in DOMAIN disk, ~(r.at <= a /\ a < r.at + r.len)
      PROVE  a \in DOMAIN disk' /\ disk'[a] = disk[a]
  <2>1. a \notin r.at .. r.at + r.len - 1
    BY <1>0, <1>1
  <2> QED
    BY <2>1 DEF KernelWrites
<1>2. ASSUME NEW i \in Nat, i < r.len, i < Block
      PROVE  r.at + i \in DOMAIN disk' /\ disk'[r.at + i] = mem[r.buf][i]
  <2>1. r.at + i \in r.at .. r.at + r.len - 1 /\ (r.at + i) - r.at = i
    BY <1>0, <1>2
  <2> QED
    BY <1>2, <2>1 DEF KernelWrites
<1> QED
  BY <1>1, <1>2

\* The kernel completes a write, with or without success.
LEMMA DKernel ==
  ASSUME NEW p, OneProducer(p), TInv, TInv', OInv, WInv(p), LInv(p), Data(p),
         KernelComplete \/ KernelFail \/ UNCHANGED vars, opt' = opt,
         \A a, n \in Nat : Settled(p, a, n) => Settled(p, a, n)'
  PROVE  Data(p)'
<1>0. UNCHANGED <<word, address, mem, got, next_address, pc, loc, copied, reports>>
  BY DEF KernelComplete, KernelFail, vars, bufVars, ringVars, uringVars, clientVars
<1>1. Filled(p)'
  BY <1>0 DEF Data, Filled
<1>2. \A b \in Buffers, i \in 0 .. Block, n \in Nat : \A m :
        InBuffer(p, b, i, m, n) => InBuffer(p, b, i, m, n)'
  BY <1>0 DEF InBuffer
<1>3. \A a, n : Settled(p, a, n)' <=> Settled(p, a, n)
  BY <1>0 DEF Settled, Live, Place, Padded
<1>4. CASE disk' = disk /\ \A b \in Buffers : Done(p, b)' => Done(p, b)
  <2>1. Completed(p)'
    BY <1>0, <1>3, <1>4 DEF Data, Completed, Written, HasReceiver
  <2>2. Reported(p)'
    BY <1>0, <1>4, ReportedKept DEF Data
  <2>3. Survives(p)'
    BY <1>0, <1>2, <1>4, SurvivesKept DEF Data
  <2> QED
    BY <1>1, <2>1, <2>2, <2>3 DEF Data
<1>5. CASE UNCHANGED vars
  <2>1. disk' = disk /\ \A b \in Buffers : Done(p, b)' => Done(p, b)
    BY <1>0, <1>5 DEF vars, uringVars, Done
  <2> QED
    BY <1>4, <2>1
<1>6. CASE KernelFail
  <2>1. PICK r \in kernel : cq' = cq \cup {[id |-> r.id, buf |-> r.buf, ok |-> FALSE]}
    BY <1>6 DEF KernelFail
  <2>2. PICK c : ~c.ok /\ cq' = cq \cup {c}
    BY <2>1
  <2>3. disk' = disk /\ \A b \in Buffers : Done(p, b)' => Done(p, b)
    BY <1>0, <1>6, <2>2 DEF KernelFail, Done
  <2> QED
    BY <1>4, <2>3
<1>7. CASE KernelComplete
  <2>1. PICK r \in kernel : /\ cq' = cq \cup {[id |-> r.id, buf |-> r.buf, ok |-> TRUE]}
                            /\ disk' = KernelWrites(r)
    BY <1>7 DEF KernelComplete
  <2>2. PICK c : c.buf = r.buf /\ cq' = cq \cup {c}
    BY <2>1
  <2>3. /\ r.buf \in Buffers /\ Live(p, r.buf) /\ r.at = Place(p, r.buf)
        /\ r.len = Padded(r.buf) /\ r.at = address[r.buf]
    BY RequestsLive DEF LInv, Entries
  <2>4. r \in Request /\ r.at \in Nat /\ r.len \in Nat
    BY DEF TInv, SharedOK, Request
  <2>5. /\ \A a \in DOMAIN disk : ~(r.at <= a /\ a < r.at + r.len) =>
              a \in DOMAIN disk' /\ disk'[a] = disk[a]
        /\ \A i \in Nat : i < r.len /\ i < Block =>
              r.at + i \in DOMAIN disk' /\ disk'[r.at + i] = mem[r.buf][i]
    BY <2>1, <2>4, WriteEffect
  <2>6. ASSUME NEW a \in Nat, NEW n \in Nat, Apart(a, n, r.at, r.len),
               NEW j \in 0 .. n - 1, a + j \in DOMAIN disk
        PROVE  a + j \in DOMAIN disk' /\ disk'[a + j] = disk[a + j]
    <3>1. ~(r.at <= a + j /\ a + j < r.at + r.len)
      BY <2>4, <2>6 DEF Apart
    <3> QED
      BY <2>5, <2>6, <3>1
  <2>7. ASSUME NEW a \in Nat, NEW n \in Nat, Settled(p, a, n) PROVE Apart(a, n, r.at, r.len)
    BY <2>3, <2>7 DEF Settled
  <2>8. ASSUME NEW b \in Buffers, Done(p, b)' PROVE Written(b)'
    <3>1. /\ word[b].offset \in Nat /\ address[b] \in Nat /\ word[b].offset <= Padded(b)
          /\ word[b].offset <= Block /\ Padded(b) \in Nat
      BY SizeFits
    <3>2. CASE b = r.buf
      <4>1. \A i \in 0 .. word[b].offset - 1 : i \in Nat /\ i < r.len /\ i < Block
        BY <2>3, <3>1, <3>2, BufferRingAssumption
      <4>2. \A i \in 0 .. word[b].offset - 1 :
              address[b] + i \in DOMAIN disk' /\ disk'[address[b] + i] = mem[b][i]
        BY <2>3, <2>5, <3>2, <4>1
      <4> QED
        BY <1>0, <4>2 DEF Written
    <3>3. CASE b # r.buf
      <4>1. Done(p, b)
        BY <1>0, <2>2, <2>8, <3>3 DEF Done
      <4>2. Written(b)
        BY <4>1 DEF Data, Completed
      <4>3. Apart(address[b], word[b].offset, r.at, r.len)
        <5>1. CASE pc[p] = "reset" /\ loc[p].buf = b
          BY <2>7, <3>1, <5>1 DEF Data, Completed
        <5>2. CASE ~(pc[p] = "reset" /\ loc[p].buf = b)
          <6>1. Live(p, b) /\ Place(p, b) = address[b]
            BY <4>1, <5>2, DoneLive
          <6>2. Apart(address[b], Padded(b), r.at, r.len)
            BY <2>3, <3>3, <6>1 DEF LInv, Layout
          <6> QED
            BY <2>4, <3>1, <6>2 DEF Apart
        <5> QED
          BY <5>1, <5>2
      <4>4. \A i \in 0 .. word[b].offset - 1 :
              address[b] + i \in DOMAIN disk' /\ disk'[address[b] + i] = mem[b][i]
        BY <2>6, <3>1, <4>2, <4>3 DEF Written
      <4> QED
        BY <1>0, <4>4 DEF Written
    <3> QED
      BY <3>2, <3>3
  <2>9. Completed(p)'
    BY <1>0, <1>3, <2>8 DEF Data, Completed, HasReceiver
  <2>10. Reported(p)'
    <3> SUFFICES ASSUME NEW s \in reports
                 PROVE  /\ s.at \in Nat /\ s.len \in Nat
                        /\ Settled(p, s.at, s.len)'
                        /\ \A i \in 0 .. s.len - 1 :
                             s.at + i \in DOMAIN disk' /\ disk'[s.at + i] # Empty
      BY <1>0 DEF Reported
    <3>1. /\ s.at \in Nat /\ s.len \in Nat /\ Settled(p, s.at, s.len)
          /\ \A i \in 0 .. s.len - 1 : s.at + i \in DOMAIN disk /\ disk[s.at + i] # Empty
      BY DEF Data, Reported
    <3>2. Apart(s.at, s.len, r.at, r.len)
      BY <2>7, <3>1
    <3>3. \A i \in 0 .. s.len - 1 : s.at + i \in DOMAIN disk' /\ disk'[s.at + i] # Empty
      BY <2>6, <3>1, <3>2
    <3> QED
      BY <1>3, <3>1, <3>3
  <2>11. Survives(p)'
    <3> SUFFICES ASSUME NEW x \in copied PROVE x[2] \in Nat /\ Somewhere(p, x[1], x[2])'
      BY <1>0 DEF Survives
    <3>1. x[2] \in Nat /\ Somewhere(p, x[1], x[2])
      BY DEF Data, Survives
    <3>2. PICK n \in Nat, m \in {x[1]} : m = x[1] /\ n = x[2]
      BY <3>1
    <3>3. CASE \E b \in Buffers : \E i \in 0 .. Block : InBuffer(p, b, i, m, n)
      <4>1. Somewhere(p, m, n)'
        BY <1>2, <3>3 DEF Somewhere
      <4> QED
        BY <3>2, <4>1
    <3>4. CASE \E a \in 0 .. next_address : InFile(p, a, m, n)
      <4>1. PICK a \in Nat : InFile(p, a, m, n)
        BY <3>4
      <4>2. Settled(p, a, n) /\ Settled(p, a, n)' /\ Apart(a, n, r.at, r.len)
        BY <2>7, <4>1 DEF InFile
      <4>3. \A j \in 0 .. n - 1 : a + j \in DOMAIN disk =>
              a + j \in DOMAIN disk' /\ disk'[a + j] = disk[a + j]
        BY <2>6, <4>2
      <4>4. InFile(p, a, m, n)'
        BY <1>0, <4>1, <4>2, <4>3, InFileKept
      <4>5. Somewhere(p, m, n)'
        BY <4>4, InFileSomewhere
      <4> QED
        BY <3>2, <4>5
    <3> QED
      BY <3>1, <3>2, <3>3, <3>4 DEF Somewhere
  <2> QED
    BY <1>1, <2>9, <2>10, <2>11 DEF Data
<1> QED
  BY <1>5, <1>6, <1>7

\* The other steps neither copy nor report, and change no size.
LEMMA QuietFrame ==
  ASSUME NEW p, OneProducer(p), TInv, OInv, WInv(p),
         StartMessage(p) \/ StartPoll(p) \/ Step(p),
         ~(ReserveCas(p) \/ Write(p) \/ ResetState(p) \/ SendReport(p))
  PROVE  /\ UNCHANGED <<mem, disk, reports, copied>>
         /\ pc[p] # "copy" /\ pc'[p] # "copy"
         /\ \A b \in Buffers : word'[b].offset = word[b].offset
<1> PICK l \in Buffers : l = loc[p].buf
  BY Producer
<1> USE DEF bufVars, ringVars, uringVars, clientVars, Goto, At
<1>1. pc'[p] # "copy"
  BY Arrivals
<1>2. UNCHANGED <<mem, disk, reports, copied>> /\ pc[p] # "copy"
  BY DEF Step, StartMessage, StartPoll, LoadCurrent, ReserveLoad,
     DecrementWriters, ClaimFlush, Seal, SealSize, ClaimSlot,
     StoreAddress, RotateLoad, RotateSize, RotateScan, RotateCheck, RotateSwap,
     RotateReserve, RotateAddress, DrainCheck, FlushMark, FlushLen, FlushAt,
     Submit, ResetAddress, PollDrain, Reap, Retry, SendAddress, ReturnOk, ReturnSealed
<1>3. \A b \in Buffers : word'[b].offset = word[b].offset
  <2>1. CASE DecrementWriters(p)
    BY <2>1, WDecrement
  <2>2. CASE Seal(p) \/ ClaimFlush(p)
    <3>1. \/ word' = [word EXCEPT ![l] = SetSealed(word[l])]
          \/ word' = [word EXCEPT ![l] = SetFlushing(word[l])]
      BY <2>2 DEF Seal, ClaimFlush
    <3>2. SetSealed(word[l]).offset = word[l].offset /\ SetFlushing(word[l]).offset = word[l].offset
      BY Producer, WordOps DEF OneProducer
    <3> QED
      BY <3>1, <3>2, Producer
  <2>3. CASE FlushMark(p)
    BY <2>3, WFlush
  <2>4. ASSUME ~(DecrementWriters(p) \/ Seal(p) \/ ClaimFlush(p) \/ FlushMark(p))
        PROVE  word' = word
    BY <2>4 DEF Step, StartMessage, StartPoll, LoadCurrent, ReserveLoad, SealSize,
       ClaimSlot, StoreAddress, RotateLoad, RotateSize, RotateScan, RotateCheck,
       RotateSwap, RotateReserve, RotateAddress, DrainCheck, FlushLen, FlushAt,
       Submit, ResetAddress, PollDrain, Reap, Retry, SendAddress
  <2> QED
    BY <2>1, <2>2, <2>3, <2>4
<1> QED
  BY <1>1, <1>2, <1>3

\* The memory stays one function on the buffers.
LEMMA MemKept ==
  ASSUME MemOK, NEW p, [Next]_vars, OneProducer(p) PROVE MemOK'
<1>1. mem' = mem \/ Write(p)
  BY SoloSteps DEF Step, StartMessage, StartPoll, LoadCurrent, ReserveLoad, ReserveCas,
     DecrementWriters, ClaimFlush, Seal, SealSize, ClaimSlot,
     StoreAddress, RotateLoad, RotateSize, RotateScan, RotateCheck, RotateSwap,
     RotateReserve, RotateAddress, DrainCheck, FlushMark, FlushLen, FlushAt,
     Submit, ResetState, ResetAddress, PollDrain, Reap, Retry, SendAddress, SendReport,
     KernelComplete, KernelFail, vars, bufVars
<1> QED
  BY <1>1 DEF MemOK, Write

\* Every step keeps the third layer.
LEMMA NextDInv ==
  ASSUME NEW p, OneProducer(p), AlwaysFlushed, SoloInv(p), SoloInv(p)', DInv(p), [Next]_vars
  PROVE  DInv(p)'
<1> USE DEF SoloInv
<1>1. MemOK' /\ opt' = opt
  BY MemKept DEF DInv, Next, vars
<1>2. opt' \in Options
  BY <1>1 DEF DInv
<1>3. ASSUME HasStore PROVE Data(p)'
  <2>0. AutoFlush /\ MemOK /\ Data(p) /\ Completed(p)
    BY <1>3 DEF DInv, AlwaysFlushed, AutoFlush, Data
  <2>1. \A a, n \in Nat : Settled(p, a, n) => Settled(p, a, n)'
    BY NextLInv
  <2>2. CASE KernelComplete \/ KernelFail \/ UNCHANGED vars
    BY <1>1, <2>0, <2>1, <2>2, DKernel
  <2>3. CASE StartMessage(p) \/ StartPoll(p) \/ Step(p)
    <3>1. Completed(p)'
      BY <1>1, <1>3, <2>0, <2>3, CompletedKept
    <3>2. CASE ReserveCas(p)
      BY <1>1, <2>0, <2>1, <3>1, <3>2, DReserve DEF Data
    <3>3. CASE Write(p)
      BY <1>1, <2>0, <2>1, <3>1, <3>3, DWrite DEF Data
    <3>4. CASE ResetState(p)
      BY <1>1, <2>0, <2>1, <3>1, <3>4, DReset DEF Data
    <3>5. CASE SendReport(p)
      BY <1>1, <2>0, <2>1, <3>1, <3>5, DReport DEF Data
    <3>6. CASE ~(ReserveCas(p) \/ Write(p) \/ ResetState(p) \/ SendReport(p))
      <4>1. /\ UNCHANGED <<mem, disk, reports, copied>>
            /\ pc[p] # "copy" /\ pc'[p] # "copy"
            /\ \A b \in Buffers : word'[b].offset = word[b].offset
        BY <2>3, <3>6, QuietFrame
      <4>2. Filled(p) /\ Reported(p) /\ Survives(p)
        BY <2>0 DEF Data
      <4>3. Filled(p)' /\ Reported(p)' /\ Survives(p)'
        BY <1>1, <2>1, <4>1, <4>2, DQuiet
      <4> QED
        BY <3>1, <4>3 DEF Data
    <3> QED
      BY <3>2, <3>3, <3>4, <3>5, <3>6
  <2> QED
    BY <2>2, <2>3, SoloSteps
<1> QED
  BY <1>1, <1>2, <1>3 DEF DInv, HasStore

\* A new ring holds no byte.
LEMMA InitDInv ==
  ASSUME NEW p, OneProducer(p), Init PROVE DInv(p)
<1>1. /\ pc[p] = "idle" /\ cq = {} /\ got[p] = {} /\ reports = {} /\ copied = {}
      /\ \A b \in Buffers : word[b].offset = 0
  BY DEF Init, OneProducer, ZeroWord
<1>2. Completed(p) /\ Reported(p) /\ Survives(p)
  BY <1>1 DEF Completed, Done, Reported, Survives
<1>3. Filled(p)
  BY <1>1 DEF Filled
<1>4. MemOK /\ opt \in Options
  BY DEF Init, MemOK
<1> QED
  BY <1>2, <1>3, <1>4 DEF DInv, Data

\* All three layers are an invariant of the ring.
LEMMA DataInvariance ==
  ASSUME NEW p, OneProducer(p), AlwaysFlushed PROVE Spec => [](SoloInv(p) /\ DInv(p))
<1>1. Init => DInv(p)
  BY InitDInv
<1>2. SoloInv(p) /\ SoloInv(p)' /\ DInv(p) /\ [Next]_vars => DInv(p)'
  BY NextDInv
<1> QED
  BY <1>1, <1>2, SoloInvariance, PTL DEF Spec

\* What the third layer says of a message says it of each of its bytes.
LEMMA ByteKept ==
  ASSUME NEW p, NEW m, NEW n \in Nat, Somewhere(p, m, n), NEW j \in 0 .. n - 1,
         \A b \in Buffers : word[b].offset \in Nat /\ word[b].offset <= Block
  PROVE  Kept(<<m, j>>)
<1>0. Block \in Nat
  BY BufferRingAssumption
<1>1. CASE \E b \in Buffers : \E i \in 0 .. Block : InBuffer(p, b, i, m, n)
  <2>1. PICK b \in Buffers, i \in 0 .. Block : InBuffer(p, b, i, m, n)
    BY <1>1
  <2>2. i + n <= word[b].offset /\ mem[b][i + j] = <<m, j>>
    BY <2>1 DEF InBuffer
  <2>3. i + j \in 0 .. Block - 1 /\ i + j < word[b].offset
    BY <1>0, <2>2
  <2> QED
    BY <2>2, <2>3 DEF Kept
<1>2. CASE \E a \in 0 .. next_address : InFile(p, a, m, n)
  BY <1>2 DEF InFile, Kept
<1> QED
  BY <1>1, <1>2 DEF Somewhere

\* The third layer keeps every byte of a copied message.
LEMMA SoloBytes ==
  ASSUME NEW p, OneProducer(p), SoloInv(p), DInv(p) PROVE AckedSurvives
<1> SUFFICES ASSUME HasStore, NEW x \in copied, NEW j \in 0 .. x[2] - 1
             PROVE  Kept(<<x[1], j>>)
  BY DEF AckedSurvives
<1>1. x[2] \in Nat /\ Somewhere(p, x[1], x[2])
  BY DEF DInv, Data, Survives
<1>2. \A b \in Buffers : word[b].offset \in Nat /\ word[b].offset <= Block
  BY SizeFits DEF SoloInv
<1> QED
  BY <1>1, <1>2, ByteKept

\* With one producer, a store and automatic flushing, no byte of a message that
\* was copied is ever lost: it is in a buffer or in the file, through rotation,
\* reset, failed writes and their retries, and failed submissions.
THEOREM SoloAcked ==
  ASSUME NEW p, OneProducer(p), AlwaysFlushed PROVE Spec => []AckedSurvives
<1>1. SoloInv(p) /\ DInv(p) => AckedSurvives
  BY SoloBytes
<1> QED
  BY <1>1, DataInvariance, PTL

\* A ring without a store has nothing to report.
LEMMA InitNInv ==
  ASSUME NEW p, OneProducer(p), Init PROVE NInv(p)
  BY DEF Init, OneProducer, NInv

\* Without a store nothing reaches the io_uring, whatever the producer does.
LEMMA NextNInv ==
  ASSUME NEW p, OneProducer(p), TInv, NInv(p), [Next]_vars PROVE NInv(p)'
<1> USE DEF bufVars, ringVars, uringVars, clientVars, Goto, At
<1>0. opt' = opt
  BY DEF Next, vars
<1> SUFFICES ASSUME ~HasStore PROVE NInv(p)'
  BY <1>0 DEF NInv, HasStore
<1>1. /\ sq = {} /\ kernel = {} /\ cq = {} /\ got[p] = {} /\ reports = {}
      /\ pc[p] \notin {"flush", "len", "at", "push", "retry", "sendAt", "sendLen"}
  BY DEF NInv
<1>2. CASE KernelComplete \/ KernelFail \/ UNCHANGED vars
  BY <1>1, <1>2 DEF KernelComplete, KernelFail, vars, NInv
<1>3. CASE StartMessage(p) \/ StartPoll(p) \/ Step(p)
  <2>1. ~(FlushMark(p) \/ FlushLen(p) \/ FlushAt(p) \/ Submit(p) \/ Retry(p)
          \/ SendAddress(p) \/ SendReport(p))
    BY <1>1 DEF FlushMark, FlushLen, FlushAt, Submit, Retry, SendAddress, SendReport
  <2>2. CASE PollDrain(p) \/ Reap(p)
    BY <1>0, <1>1, <2>2, Producer DEF PollDrain, Reap, NInv
  <2>3. CASE ~(PollDrain(p) \/ Reap(p))
    <3>1. UNCHANGED <<sq, kernel, cq, got, reports>>
      BY <1>3, <2>1, <2>3 DEF Step, StartMessage, StartPoll, LoadCurrent, ReserveLoad,
         ReserveCas, Write, DecrementWriters, ClaimFlush, Seal, SealSize, ClaimSlot,
         StoreAddress, RotateLoad, RotateSize, RotateScan, RotateCheck, RotateSwap,
         RotateReserve, RotateAddress, DrainCheck, ResetState, ResetAddress,
         ReturnOk, ReturnSealed
    <3>2. pc'[p] \notin {"retry", "sendAt", "sendLen"}
      BY <1>3, <2>1, <2>3, Arrivals
    <3>3. pc'[p] \notin {"flush", "len", "at", "push"}
      <4>1. CASE \/ StartMessage(p) \/ StartPoll(p) \/ LoadCurrent(p) \/ ReserveLoad(p)
                 \/ ReserveCas(p) \/ Write(p) \/ ResetState(p)
        BY <4>1, Producer DEF StartMessage, StartPoll, LoadCurrent, ReserveLoad, ReserveCas,
           Write, ResetState
      <4>2. CASE \/ Seal(p) \/ DecrementWriters(p) \/ DrainCheck(p) \/ ResetAddress(p)
                 \/ ClaimFlush(p)
        BY <4>2, Producer DEF Seal, DecrementWriters, DrainCheck, ResetAddress,
           ClaimFlush, ReturnOk, ReturnSealed
      <4>3. CASE \/ SealSize(p) \/ ClaimSlot(p) \/ StoreAddress(p) \/ RotateLoad(p)
                 \/ RotateSize(p) \/ RotateScan(p) \/ RotateCheck(p) \/ RotateSwap(p)
                 \/ RotateReserve(p) \/ RotateAddress(p)
        BY <4>3, Producer DEF SealSize, ClaimSlot, StoreAddress, RotateLoad, RotateSize,
           RotateScan, RotateCheck, RotateSwap, RotateReserve, RotateAddress
      <4> QED
        BY <1>3, <2>1, <2>3, <4>1, <4>2, <4>3 DEF Step
    <3> QED
      BY <1>1, <3>1, <3>2, <3>3 DEF NInv
  <2> QED
    BY <2>2, <2>3
<1> QED
  BY <1>2, <1>3, SoloSteps

\* As long as the threads run, what is reported can be read.
LEMMA Readable ==
  ASSUME NEW p, DInv(p), NInv(p) PROVE ReportsReadable
<1>1. CASE HasStore
  <2> SUFFICES ASSUME NEW r \in reports, NEW a \in r.at .. r.at + r.len - 1
               PROVE  a \in DOMAIN disk /\ disk[a] # Empty
    BY DEF ReportsReadable
  <2>1. /\ r.at \in Nat /\ r.len \in Nat
        /\ \A i \in 0 .. r.len - 1 : r.at + i \in DOMAIN disk /\ disk[r.at + i] # Empty
    BY <1>1 DEF DInv, Data, Reported
  <2>2. a - r.at \in 0 .. r.len - 1 /\ r.at + (a - r.at) = a
    BY <2>1
  <2> QED
    BY <2>1, <2>2
<1>2. CASE ~HasStore
  BY <1>2 DEF NInv, ReportsReadable
<1> QED
  BY <1>1, <1>2

\* With one producer and automatic flushing, every range that check_cque sends on
\* the completion channel is in the file when it is sent, with no byte in it that
\* belongs to no message, and stays there: no later write touches it.
THEOREM SoloReadable ==
  ASSUME NEW p, OneProducer(p), AlwaysFlushed PROVE Spec => []ReportsReadable
<1>1. Init => NInv(p)
  BY InitNInv
<1>2. SoloInv(p) /\ NInv(p) /\ [Next]_vars => NInv(p)'
  BY NextNInv DEF SoloInv
<1>3. DInv(p) /\ NInv(p) => ReportsReadable
  BY Readable
<1> QED
  BY <1>1, <1>2, <1>3, DataInvariance, PTL DEF Spec

=============================================================================
