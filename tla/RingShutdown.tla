---------------------------- MODULE RingShutdown ----------------------------
(***************************************************************************)
(* How the logger example ends (log.rs, main): it joins its threads, calls *)
(* BufferRing::flush_current, and polls completions until it reads the     *)
(* reported ranges back.                                                   *)
(*                                                                         *)
(* After the join nobody but the kernel runs beside main, and the kernel   *)
(* shares only the io_uring with it, so flush_current is one step.  The    *)
(* polls that follow are those of the joined threads.  The sync_data call  *)
(* among them takes no completion and touches no buffer; see QuikIO.       *)
(***************************************************************************)
EXTENDS BufferRing, FiniteSetsExt

VARIABLE closed     \* main has called flush_current

shutdownVars == <<vars, closed>>

Joined == \A t \in Threads : At(t, "idle")

\* rotate_after_seal(b) on the words ws and the addresses as, when n file bytes
\* have been claimed: the first available buffer after next_index.
RotateAfterSeal(b, ws, as, n) ==
  LET at(k) == (next_index + k) % RingLen
      found == {k \in 0 .. RingLen - 1 : IsAvailable(ws[at(k)])}
      c     == at(Min(found))
  IN
  \/ /\ found = {}
     /\ address' = as
     /\ next_address' = next_address + n
     /\ UNCHANGED <<current, next_index>>
  \/ /\ found # {}
     /\ current' = c
     /\ next_index' = NextIndex(c)
     /\ address' = [as EXCEPT ![c] = IF as[c] = 0 THEN next_address + n ELSE as[c]]
     /\ next_address' = next_address + n + ws[b].offset

\* Mutation: the address the buffer already has is used.
SealAtOld(b) == address[b]

\* The file position flush_current gives to the buffer.
SealAt(b) == next_address

\* flush_current: seal, claim the exact size, store the address, flush, rotate.
\* It does not look at the result of seal: a buffer whose write is in flight is
\* given another address and written again.  Without a store flush resets it.
FlushCurrent ==
  LET b == current
      n == word[b].offset
      e == [at |-> SealAt(b), len |-> NextMultipleOf(n, Page)]
  IN
  /\ Joined
  /\ ~closed
  /\ closed' = TRUE
  /\ \/ /\ n = 0
        /\ UNCHANGED <<bufVars, ringVars, uringVars>>
     \/ /\ n > 0
        /\ word' = [word EXCEPT ![b] = IF HasStore THEN SetFlushing(SetSealed(@))
                                                   ELSE ZeroWord]
        /\ RotateAfterSeal(b, word',
             [address EXCEPT ![b] = IF HasStore THEN e.at ELSE 0], n)
        /\ IF HasStore THEN PushEntry(b, e)
                       ELSE UNCHANGED <<sqe, serial, sq, kernel, submitFaults>>
        /\ UNCHANGED <<mem, cq, disk, ioFaults>>
  /\ UNCHANGED <<opt, clientVars, pc, loc, got>>

ShutdownInit == Init /\ closed = FALSE

\* No message is started once main has joined the threads.
ShutdownNext ==
  \/ /\ Next
     /\ closed => sent' = sent
     /\ UNCHANGED closed
  \/ FlushCurrent

ShutdownSpec == ShutdownInit /\ [][ShutdownNext]_shutdownVars

\* Threads are scheduled, and the kernel finishes every write it has started.
ShutdownFairness ==
  /\ \A t \in Threads : WF_shutdownVars(Step(t) /\ UNCHANGED <<opt, closed>>)
  /\ WF_shutdownVars(KernelComplete /\ UNCHANGED <<opt, closed>>)

ShutdownFairSpec == ShutdownSpec /\ ShutdownFairness

-----------------------------------------------------------------------------
(* Properties *)

\* Everything submitted has completed and every completion has been handled.
Drained == Joined /\ sq = {} /\ kernel = {} /\ cq = {}

\* The ranges reported are in the file as long as the threads run, and again
\* when everything has completed.  In between, the first completion of a buffer
\* that flush_current wrote again is reported under its second address.
ReportsSettled ==
  ~closed \/ (Drained /\ submitFaults = 0) => ReportsReadable

\* At the end every message that was copied is in the file, whole and in one
\* piece, within a range sent on the completion channel: read_completed_ranges
\* finds it there.  Only a failed submission, which flush hides, may lose it.
ShutdownComplete ==
  closed /\ Drained /\ HasStore /\ HasReceiver /\ submitFaults = 0 =>
    \A m \in copied : \E r \in reports : \E a \in r.at .. r.at + r.len - m[2] :
      \A j \in 0 .. m[2] - 1 : a + j \in DOMAIN disk /\ disk[a + j] = <<m[1], j>>
=============================================================================
