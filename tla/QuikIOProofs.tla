---------------------------- MODULE QuikIOProofs ----------------------------
(***************************************************************************)
(* Proofs about QuikIO, for any threads, buffers, page size, queue depth,  *)
(* number of calls and number of failures.                                 *)
(***************************************************************************)
EXTENDS QuikIO, SequenceTheorems, FiniteSetTheorems, NaturalsInduction, TLAPS

USE QuikIOAssumption

-----------------------------------------------------------------------------
(* Sequences *)

\* A function on 1 .. n is a sequence of length n.
LEMMA FunctionIsSeq ==
  ASSUME NEW S, NEW n \in Nat, NEW f \in [1 .. n -> S]
  PROVE  f \in Seq(S) /\ Len(f) = n
<1>1. f \in Seq(S)
  BY SeqDef
<1>2. 1 .. Len(f) = 1 .. n /\ Len(f) \in Nat
  BY <1>1, LenProperties
<1> QED BY <1>1, <1>2

\* Elements of a sequence are what is in its range.
LEMMA RangeOf ==
  ASSUME NEW S, NEW s \in Seq(S)
  PROVE  \A x : x \in Range(s) <=> \E i \in 1 .. Len(s) : x = s[i]
BY RangeEquality

LEMMA EmptyRange == Range(<<>>) = {}
BY DEF Range

\* A set of numbers has a least one.
LEMMA Smallest ==
  ASSUME NEW T \in SUBSET Nat, T # {}
  PROVE  \E m \in T : \A n \in T : m <= n
<1>1. PICK x \in T : \A y \in T : ~(<<y, x>> \in OpToRel(<, Nat))
  BY NatLessThanWellFounded, WFMin
<1>2. \A y \in T : ~(y < x)
  BY <1>1 DEF OpToRel
<1> QED BY <1>2

-----------------------------------------------------------------------------
(* Types *)

Labels == {"idle", "poll", "handle", "sync", "drain", "check", "fsync", "freset",
           "read", "copy", "dead"}

Locals == [b : Buffers, fsync : BOOLEAN, id : Nat, offset : Nat, len : Nat,
           quiet : BOOLEAN, before : [Buffers -> Nat]]

\* TypeOK, with the variables it leaves open; a stored entry is a write, and a
\* thread in its handler's loop has completions left.
Typed ==
  /\ depth \in Nat /\ calls \in Nat
  /\ mem \in [Buffers -> Nat] /\ disk \in [Buffers -> Nat]
  /\ durable \in [Buffers -> Nat]
  /\ busy \subseteq Buffers
  /\ sqe \in [Buffers -> SUBSET Request]
  /\ sq \in Seq(Request) /\ Len(sq) <= depth
  /\ kernel \in Seq(Request)
  /\ cq \in Seq(Cqe)
  /\ got \in [Threads -> Seq(Cqe)]
  /\ pc \in [Threads -> Labels]
  /\ loc \in [Threads -> Locals]

HandleHas == \A t \in Threads : pc[t] = "handle" => got[t] # <<>>

Holds(t) == pc[t] \in {"sync", "read"}

OneHolder == \A t, u \in Threads : Holds(t) /\ Holds(u) => t = u

\* The first request of the kernel waits for nothing.
HeadFree == kernel # <<>> => ~kernel[1].linked

\* r and s are the same request, but for the link.
Alike(r, s) == /\ r.op = s.op /\ r.of = s.of /\ r.id = s.id /\ r.at = s.at
               /\ r.len = s.len /\ r.drain = s.drain

LEMMA BatchOf ==
  ASSUME NEW q \in Seq(Request)
  PROVE  /\ Batch(q) \in Seq(Request) /\ Len(Batch(q)) = Len(q)
         /\ \A i \in 1 .. Len(q) : /\ Alike(Batch(q)[i], q[i])
                                   /\ Batch(q)[i].linked = (i > 1 /\ Links(q[i - 1]))
<1>1. DOMAIN q = 1 .. Len(q) /\ Len(q) \in Nat
  BY LenProperties
<1>2. ASSUME NEW i \in 1 .. Len(q)
      PROVE  /\ Batch(q)[i] = [q[i] EXCEPT !.linked = (i > 1 /\ Links(q[i - 1]))]
             /\ q[i] \in Request
  BY <1>1, ElementOfSeq DEF Batch
<1>3. ASSUME NEW i \in 1 .. Len(q), NEW l \in BOOLEAN
      PROVE  /\ [q[i] EXCEPT !.linked = l] \in Request
             /\ Alike([q[i] EXCEPT !.linked = l], q[i])
             /\ [q[i] EXCEPT !.linked = l].linked = l
  <2>1. PICK r \in Request : r = q[i]
    BY <1>2
  <2>2. [r EXCEPT !.linked = l] \in Request
    BY DEF Request, Ours
  <2>3. Alike([r EXCEPT !.linked = l], r) /\ [r EXCEPT !.linked = l].linked = l
    BY DEF Request, Alike
  <2> QED BY <2>1, <2>2, <2>3
<1>4. \A i \in 1 .. Len(q) : (i > 1 /\ Links(q[i - 1])) \in BOOLEAN
  OBVIOUS
<1>5. \A i \in 1 .. Len(q) : /\ Batch(q)[i] \in Request /\ Alike(Batch(q)[i], q[i])
                             /\ Batch(q)[i].linked = (i > 1 /\ Links(q[i - 1]))
  BY <1>2, <1>3, <1>4
<1>6. Batch(q) \in [1 .. Len(q) -> Request]
  <2>1. DOMAIN Batch(q) = 1 .. Len(q) /\ Batch(q) = [i \in DOMAIN Batch(q) |-> Batch(q)[i]]
    BY <1>1 DEF Batch
  <2> QED BY <2>1, <1>5
<1> QED BY <1>1, <1>5, <1>6, FunctionIsSeq

LEMMA UnlinkOf ==
  ASSUME NEW s \in Seq(Request)
  PROVE  /\ Unlink(s) \in Seq(Request) /\ Len(Unlink(s)) = Len(s)
         /\ \A i \in 1 .. Len(s) : Alike(Unlink(s)[i], s[i])
         /\ s # <<>> => ~Unlink(s)[1].linked
<1>1. DOMAIN s = 1 .. Len(s) /\ Len(s) \in Nat
  BY LenProperties
<1>2. ASSUME NEW i \in 1 .. Len(s)
      PROVE  s[i] \in Request
  BY ElementOfSeq
<1>3. ASSUME NEW i \in 1 .. Len(s)
      PROVE  /\ [s[i] EXCEPT !.linked = FALSE] \in Request
             /\ Alike([s[i] EXCEPT !.linked = FALSE], s[i])
             /\ [s[i] EXCEPT !.linked = FALSE].linked = FALSE
  BY <1>2 DEF Request, Ours, Alike
<1>4. \A i \in 1 .. Len(s) :
        Unlink(s)[i] = IF i = 1 THEN [s[i] EXCEPT !.linked = FALSE] ELSE s[i]
  BY <1>1 DEF Unlink
<1>5. \A i \in 1 .. Len(s) : Unlink(s)[i] \in Request /\ Alike(Unlink(s)[i], s[i])
  BY <1>2, <1>3, <1>4 DEF Alike
<1>6. Unlink(s) \in [1 .. Len(s) -> Request]
  <2>1. /\ DOMAIN Unlink(s) = 1 .. Len(s)
        /\ Unlink(s) = [i \in DOMAIN Unlink(s) |-> Unlink(s)[i]]
    BY <1>1 DEF Unlink
  <2> QED BY <2>1, <1>5
<1>7. s # <<>> => ~Unlink(s)[1].linked
  <2> SUFFICES ASSUME s # <<>> PROVE ~Unlink(s)[1].linked
      OBVIOUS
  <2>1. 1 \in 1 .. Len(s)
    BY EmptySeq, <1>1
  <2> QED BY <2>1, <1>3, <1>4
<1> QED BY <1>1, <1>5, <1>6, <1>7, FunctionIsSeq

-----------------------------------------------------------------------------
(* Pushing and entering *)

\* Accepted is a file.
LEMMA AcceptedType == Typed => Accepted \in [Buffers -> Nat]
BY DEF Typed, Accepted

LEMMA AppendRoom ==
  ASSUME Typed, HasRoom, NEW r \in Request
  PROVE  /\ Append(sq, r) \in Seq(Request)
         /\ Len(Append(sq, r)) = Len(sq) + 1 /\ Len(Append(sq, r)) <= depth
         /\ \A i \in 1 .. Len(sq) : Append(sq, r)[i] = sq[i]
         /\ Append(sq, r)[Len(sq) + 1] = r
<1>1. sq \in Seq(Request) /\ Len(sq) < depth /\ depth \in Nat /\ Len(sq) \in Nat
  BY LenProperties DEF Typed, HasRoom
<1> QED BY <1>1, AppendProperties

LEMMA EnterOkEffect ==
  ASSUME Typed, HeadFree, NEW q \in Seq(Request), EnterOk(q)
  PROVE  /\ sq' = <<>> /\ sq' \in Seq(Request) /\ Len(sq') = 0
         /\ kernel' \in Seq(Request) /\ HeadFree'
         /\ Len(kernel') = Len(kernel) + Len(q)
         /\ \A i \in 1 .. Len(kernel) : kernel'[i] = kernel[i]
         /\ \A i \in 1 .. Len(q) : Alike(kernel'[Len(kernel) + i], q[i])
<1>1. /\ kernel' = kernel \o Batch(q) /\ sq' = <<>> /\ kernel \in Seq(Request)
      /\ Len(kernel) \in Nat /\ Len(q) \in Nat
  BY LenProperties DEF EnterOk, Typed
<1>2. sq' \in Seq(Request) /\ Len(sq') = 0
  BY <1>1, EmptySeq
<1>3. Batch(q) \in Seq(Request) /\ Len(Batch(q)) = Len(q)
  BY BatchOf
<1>4. /\ kernel' \in Seq(Request) /\ Len(kernel') = Len(kernel) + Len(q)
      /\ \A i \in 1 .. Len(kernel) + Len(q) : kernel'[i] =
           IF i <= Len(kernel) THEN kernel[i] ELSE Batch(q)[i - Len(kernel)]
  BY <1>1, <1>3, ConcatProperties
<1>5. \A i \in 1 .. Len(kernel) : kernel'[i] = kernel[i]
  BY <1>1, <1>4
<1>6. ASSUME NEW i \in 1 .. Len(q)
      PROVE  kernel'[Len(kernel) + i] = Batch(q)[i]
  <2>1. /\ Len(kernel) + i \in 1 .. Len(kernel) + Len(q)
        /\ ~(Len(kernel) + i <= Len(kernel)) /\ (Len(kernel) + i) - Len(kernel) = i
    BY <1>1
  <2> QED BY <1>4, <2>1
<1>7. HeadFree'
  <2> SUFFICES ASSUME kernel' # <<>> PROVE ~kernel'[1].linked
      BY DEF HeadFree
  <2>1. CASE kernel # <<>>
    <3>1. 1 \in 1 .. Len(kernel)
      BY <1>1, <2>1, EmptySeq
    <3> QED BY <2>1, <3>1, <1>5 DEF HeadFree
  <2>2. CASE kernel = <<>>
    <3>1. Len(kernel) = 0
      BY <2>2, EmptySeq
    <3>2. 1 \in 1 .. Len(q)
      BY <1>1, <1>4, <3>1, EmptySeq
    <3>3. kernel'[1] = Batch(q)[1]
      BY <3>1, <3>2, <1>6
    <3>4. Batch(q)[1].linked = (1 > 1 /\ Links(q[1 - 1]))
      BY <3>2, BatchOf
    <3>5. ~(1 > 1)
      OBVIOUS
    <3> QED BY <3>3, <3>4, <3>5, Zenon
  <2> QED BY <2>1, <2>2
<1> QED BY <1>1, <1>2, <1>4, <1>5, <1>6, <1>7, BatchOf

Queues == /\ sq \in Seq(Request) /\ Len(sq) <= depth
          /\ kernel \in Seq(Request)
          /\ HeadFree

LEMMA EnterQueues ==
  ASSUME Typed, HeadFree, NEW q \in Seq(Request), Len(q) <= depth, depth' = depth,
         EnterOk(q) \/ EnterFails(q)
  PROVE  Queues'
<1>1. CASE EnterOk(q)
  <2>1. /\ sq' \in Seq(Request) /\ Len(sq') = 0
        /\ kernel' \in Seq(Request) /\ HeadFree'
    BY <1>1, EnterOkEffect
  <2> QED BY <2>1 DEF Queues, Typed
<1>2. CASE EnterFails(q)
  BY <1>2 DEF EnterFails, Queues, Typed, HeadFree
<1> QED BY <1>1, <1>2

LEMMA QueuesKept ==
  ASSUME Typed, HeadFree, UNCHANGED <<depth, sq, kernel>>
  PROVE  Queues'
BY DEF Typed, HeadFree, Queues

\* The requests, wherever they wait.
Requests == Range(sq) \cup Range(kernel)

LEMMA InRequests ==
  ASSUME sq \in Seq(Request), kernel \in Seq(Request)
  PROVE  \A x : x \in Requests <=> \/ \E i \in 1 .. Len(sq) : x = sq[i]
                                   \/ \E i \in 1 .. Len(kernel) : x = kernel[i]
BY RangeOf DEF Requests

\* A request of the queues after entering was there before, or was pushed.
LEMMA EnterFrom ==
  ASSUME Typed, HeadFree, NEW q \in Seq(Request), EnterOk(q) \/ EnterFails(q),
         NEW x \in Requests'
  PROVE  \/ \E i \in 1 .. Len(kernel) : x = kernel[i]
         \/ \E i \in 1 .. Len(q) : Alike(x, q[i])
<1>1. CASE EnterOk(q)
  <2>1. /\ sq' = <<>> /\ Len(sq') = 0 /\ sq' \in Seq(Request)
        /\ kernel' \in Seq(Request) /\ Len(kernel') = Len(kernel) + Len(q)
        /\ \A i \in 1 .. Len(kernel) : kernel'[i] = kernel[i]
        /\ \A i \in 1 .. Len(q) : Alike(kernel'[Len(kernel) + i], q[i])
    BY <1>1, EnterOkEffect
  <2>2. Len(kernel) \in Nat /\ Len(q) \in Nat
    BY LenProperties DEF Typed
  <2>3. Range(sq') = {}
    BY <2>1, EmptyRange
  <2>4. PICK k \in 1 .. Len(kernel) + Len(q) : x = kernel'[k]
    BY <2>1, <2>3, RangeOf DEF Requests
  <2>5. CASE k <= Len(kernel)
    BY <2>1, <2>2, <2>4, <2>5
  <2>6. CASE k > Len(kernel)
    <3>1. k - Len(kernel) \in 1 .. Len(q) /\ Len(kernel) + (k - Len(kernel)) = k
      BY <2>2, <2>6
    <3> QED BY <2>1, <2>4, <3>1
  <2> QED BY <2>2, <2>5, <2>6
<1>2. CASE EnterFails(q)
  <2>1. sq' = q /\ kernel' = kernel
    BY <1>2 DEF EnterFails
  <2>2. \/ \E i \in 1 .. Len(kernel) : x = kernel[i]
        \/ \E i \in 1 .. Len(q) : x = q[i]
    BY <2>1, RangeOf DEF Requests, Typed
  <2> QED BY <2>2 DEF Alike
<1> QED BY <1>1, <1>2

-----------------------------------------------------------------------------
(* Parts of sequences *)

\* The first i - 1 elements of s, then those of w.
Spliced(s, i, w) == SubSeq(s, 1, i - 1) \o w

LEMMA Splice ==
  ASSUME NEW S, NEW s \in Seq(S), NEW i \in 1 .. Len(s), NEW w \in Seq(S)
  PROVE  /\ Spliced(s, i, w) \in Seq(S) /\ Len(Spliced(s, i, w)) = (i - 1) + Len(w)
         /\ \A j \in 1 .. i - 1 : Spliced(s, i, w)[j] = s[j]
         /\ \A j \in 1 .. Len(w) : Spliced(s, i, w)[(i - 1) + j] = w[j]
<1>0. PICK k : k = Spliced(s, i, w)
  OBVIOUS
<1>1. Len(s) \in Nat /\ Len(w) \in Nat /\ i \in Nat /\ i - 1 \in Nat
  BY LenProperties
<1>2. PICK a : a = SubSeq(s, 1, i - 1)
  OBVIOUS
<1>3. \A j \in 1 .. i - 1 : s[j] \in S
  BY <1>1, ElementOfSeq
<1>4. /\ a \in Seq(S) /\ Len(a) = IF 1 <= i - 1 THEN (i - 1) - 1 + 1 ELSE 0
      /\ \A j \in 1 .. (i - 1) - 1 + 1 : a[j] = s[1 + j - 1]
  BY <1>1, <1>2, <1>3, SubSeqProperties
<1>5. Len(a) = i - 1
  BY <1>1, <1>4
<1>6. ASSUME NEW j \in 1 .. i - 1 PROVE a[j] = s[j]
  <2>1. j \in 1 .. (i - 1) - 1 + 1 /\ 1 + j - 1 = j
    BY <1>1
  <2> QED BY <1>4, <2>1
<1>7. k = a \o w
  BY <1>0, <1>2 DEF Spliced
<1>8. /\ k \in Seq(S) /\ Len(k) = Len(a) + Len(w)
      /\ \A j \in 1 .. Len(a) + Len(w) :
           k[j] = IF j <= Len(a) THEN a[j] ELSE w[j - Len(a)]
  BY <1>4, <1>7, ConcatProperties
<1>9. PICK m \in Nat : m = i - 1
  BY <1>1
<1>10. Len(a) = m
  BY <1>5, <1>9
<1>11. \A j \in 1 .. m + Len(w) : k[j] = IF j <= m THEN a[j] ELSE w[j - m]
  BY <1>8, <1>10
<1>12. ASSUME NEW j \in 1 .. m PROVE k[j] = s[j]
  <2>1. j \in 1 .. m + Len(w) /\ j <= m
    BY <1>1
  <2> QED BY <1>6, <1>9, <1>11, <2>1
<1>13. ASSUME NEW j \in 1 .. Len(w) PROVE k[m + j] = w[j]
  <2>1. m + j \in 1 .. m + Len(w) /\ ~(m + j <= m) /\ (m + j) - m = j
    BY <1>1
  <2> QED BY <1>11, <2>1
<1> QED BY <1>0, <1>8, <1>9, <1>10, <1>12, <1>13

\* What is left of s after its first m elements.
LEMMA RestOf ==
  ASSUME NEW S, NEW s \in Seq(S), NEW m \in 0 .. Len(s)
  PROVE  /\ SubSeq(s, m + 1, Len(s)) \in Seq(S)
         /\ Len(SubSeq(s, m + 1, Len(s))) = Len(s) - m
         /\ \A j \in 1 .. Len(s) - m : SubSeq(s, m + 1, Len(s))[j] = s[m + j]
<1>1. PICK n \in Nat : n = Len(s)
  BY LenProperties
<1>2. PICK b : b = SubSeq(s, m + 1, n)
  OBVIOUS
<1>3. \A j \in m + 1 .. n : s[j] \in S
  BY <1>1, ElementOfSeq
<1>4. /\ b \in Seq(S) /\ Len(b) = IF m + 1 <= n THEN n - (m + 1) + 1 ELSE 0
      /\ \A j \in 1 .. n - (m + 1) + 1 : b[j] = s[(m + 1) + j - 1]
  BY <1>1, <1>2, <1>3, SubSeqProperties
<1>5. Len(b) = n - m
  BY <1>1, <1>4
<1>6. ASSUME NEW j \in 1 .. n - m PROVE b[j] = s[m + j]
  <2>1. j \in 1 .. n - (m + 1) + 1 /\ (m + 1) + j - 1 = m + j
    BY <1>1
  <2> QED BY <1>4, <2>1
<1> QED BY <1>1, <1>2, <1>4, <1>5, <1>6

-----------------------------------------------------------------------------
(* The kernel *)

LEMMA CompletionType ==
  ASSUME NEW r \in Request, NEW ok \in BOOLEAN
  PROVE  Completion(r, ok) \in Cqe
BY DEF Completion, Request, Cqe, Ours

\* The request at i leaves the kernel, with those after it up to last; what is
\* left is in its old order, and none at the front waits.
FrontFree(s) == s # <<>> => ~s[1].linked

RestLike(w, s, m) == /\ Len(w) = Len(s) - m
                     /\ \A j \in 1 .. Len(w) : Alike(w[j], s[m + j])

LEMMA LeaveEffect ==
  ASSUME NEW s \in Seq(Request), NEW i \in 1 .. Len(s), NEW last \in i .. Len(s),
         NEW w \in Seq(Request), RestLike(w, s, last), FrontFree(s), FrontFree(w)
  PROVE  /\ Spliced(s, i, w) \in Seq(Request)
         /\ Len(Spliced(s, i, w)) = (i - 1) + (Len(s) - last)
         /\ \A j \in 1 .. Len(Spliced(s, i, w)) :
              \E h \in 1 .. Len(s) : h # i /\ Alike(Spliced(s, i, w)[j], s[h])
         /\ FrontFree(Spliced(s, i, w))
<1>13. Len(w) = Len(s) - last /\ \A j \in 1 .. Len(w) : Alike(w[j], s[last + j])
  BY DEF RestLike
<1>11. PICK k : k = Spliced(s, i, w)
  OBVIOUS
<1>12. /\ Spliced(s, i, w) \in Seq(Request)
       /\ Len(Spliced(s, i, w)) = (i - 1) + Len(w)
       /\ \A j \in 1 .. i - 1 : Spliced(s, i, w)[j] = s[j]
       /\ \A j \in 1 .. Len(w) : Spliced(s, i, w)[(i - 1) + j] = w[j]
  <2>1. Spliced(s, i, w) \in Seq(Request)
    BY Splice
  <2>2. Len(Spliced(s, i, w)) = (i - 1) + Len(w)
    BY Splice
  <2>3. \A j \in 1 .. i - 1 : Spliced(s, i, w)[j] = s[j]
    BY Splice
  <2>4. \A j \in 1 .. Len(w) : Spliced(s, i, w)[(i - 1) + j] = w[j]
    BY Splice
  <2> QED BY <2>1, <2>2, <2>3, <2>4
<1>1. PICK n \in Nat : n = Len(s)
  BY LenProperties
<1>2. PICK m \in Nat : m = i - 1 /\ m < n /\ i = m + 1
  BY <1>1
<1>3. PICK d \in Nat : d = Len(w)
  BY LenProperties
<1>0. last \in Nat /\ last >= i /\ n = last + d
  BY <1>1, <1>2, <1>3, <1>13
<1>4. /\ k \in Seq(Request) /\ Len(k) = m + d
      /\ \A j \in 1 .. m : k[j] = s[j]
      /\ \A j \in 1 .. d : k[m + j] = w[j]
  BY <1>2, <1>3, <1>11, <1>12
<1>5. ASSUME NEW j \in 1 .. m + d
      PROVE  \E h \in 1 .. n : h # i /\ Alike(k[j], s[h])
  <2>1. CASE j <= m
    <3>1. j \in 1 .. m /\ j \in 1 .. n /\ j # i
      BY <1>2, <2>1
    <3>2. k[j] = s[j]
      BY <1>4, <3>1
    <3>3. Alike(k[j], s[j])
      BY <3>2 DEF Alike
    <3> QED BY <3>1, <3>3
  <2>2. CASE j > m
    <3>1. PICK e \in 1 .. d : j = m + e
      BY <2>2
    <3>2. last + e \in 1 .. n /\ last + e # i
      BY <1>0, <1>2
    <3>3. k[j] = w[e]
      BY <1>4, <3>1
    <3>4. Alike(w[e], s[last + e])
      BY <1>3, <1>13
    <3> QED BY <3>2, <3>3, <3>4
  <2>3. j <= m \/ j > m
    OBVIOUS
  <2> QED BY <2>1, <2>2, <2>3
<1>6. FrontFree(k)
  <2> SUFFICES ASSUME k # <<>> PROVE ~k[1].linked
      BY DEF FrontFree
  <2>1. Len(k) # 0
    BY <1>4, EmptySeq
  <2>2. CASE m > 0
    <3>1. 1 \in 1 .. m /\ Len(s) # 0
      BY <1>1, <1>2, <2>2
    <3>2. k[1] = s[1] /\ s # <<>>
      BY <1>4, <3>1, EmptySeq
    <3> QED BY <3>2 DEF FrontFree
  <2>3. CASE m = 0
    <3>1. 1 \in 1 .. d /\ d # 0 /\ m + 1 = 1
      BY <1>4, <2>1, <2>3
    <3>2. k[1] = w[1]
      BY <1>4, <3>1
    <3>3. w # <<>>
      BY <1>3, <3>1, EmptySeq
    <3> QED BY <3>2, <3>3 DEF FrontFree
  <2> QED BY <2>2, <2>3
<1>7. m + d = (i - 1) + (Len(s) - last)
  <2>1. (i - 1) + (n - last) = m + d
    BY <1>0, <1>2
  <2> QED BY <1>1, <2>1
<1> QED BY <1>1, <1>11, <1>4, <1>5, <1>6, <1>7

\* The request at i is done.
LEMMA CompleteEffect ==
  ASSUME Typed, HeadFree, NEW i \in 1 .. Len(kernel),
         kernel' = SubSeq(kernel, 1, i - 1)
                     \o Unlink(SubSeq(kernel, i + 1, Len(kernel)))
  PROVE  /\ kernel' \in Seq(Request) /\ Len(kernel') = (i - 1) + (Len(kernel) - i)
         /\ \A j \in 1 .. Len(kernel') :
              \E h \in 1 .. Len(kernel) : h # i /\ Alike(kernel'[j], kernel[h])
         /\ HeadFree'
<1>1. kernel \in Seq(Request) /\ Len(kernel) \in Nat /\ i \in 0 .. Len(kernel)
  BY LenProperties DEF Typed
<1>2. PICK b : b = SubSeq(kernel, i + 1, Len(kernel))
  OBVIOUS
<1>3. /\ b \in Seq(Request) /\ Len(b) = Len(kernel) - i
      /\ \A j \in 1 .. Len(kernel) - i : b[j] = kernel[i + j]
  BY <1>1, <1>2, RestOf
<1>4. PICK w : w = Unlink(b)
  OBVIOUS
<1>5. /\ w \in Seq(Request) /\ Len(w) = Len(b)
      /\ \A j \in 1 .. Len(b) : Alike(w[j], b[j])
      /\ b # <<>> => ~w[1].linked
  BY <1>3, <1>4, UnlinkOf
<1>6. RestLike(w, kernel, i)
  BY <1>3, <1>5 DEF RestLike
<1>7. FrontFree(w)
  BY <1>3, <1>5, EmptySeq DEF FrontFree
<1>8. i \in i .. Len(kernel)
  BY <1>1
<1>9. kernel' = Spliced(kernel, i, w)
  BY <1>2, <1>4 DEF Spliced
<1>10. FrontFree(kernel)
  BY DEF FrontFree, HeadFree
<1> DEFINE k == Spliced(kernel, i, w)
<1> USE <1>1, <1>5, <1>6, <1>7, <1>8, <1>10
<1>12. k \in Seq(Request)
  BY LeaveEffect
<1>13. Len(k) = (i - 1) + (Len(kernel) - i)
  BY LeaveEffect
<1>14. \A j \in 1 .. Len(k) :
         \E h \in 1 .. Len(kernel) : h # i /\ Alike(k[j], kernel[h])
  BY LeaveEffect
<1>15. FrontFree(k)
  BY LeaveEffect
<1> QED BY <1>9, <1>12, <1>13, <1>14, <1>15 DEF HeadFree, FrontFree

\* A failed request takes the chain linked after it along; the first one that
\* is not taken is not linked.
LEMMA ChainEnd ==
  ASSUME Typed, NEW i \in 1 .. Len(kernel), NEW chain, NEW last,
         chain = {j \in i + 1 .. Len(kernel) :
                    \A k \in i + 1 .. j : kernel[k].linked},
         last = i + Cardinality(chain)
  PROVE  /\ last \in i .. Len(kernel)
         /\ last < Len(kernel) => ~kernel[last + 1].linked
<1>1. PICK n \in Nat : n = Len(kernel)
  BY LenProperties DEF Typed
<1>2. i \in Nat /\ 1 <= i /\ i <= n
  BY <1>1
<1>3. PICK T : T = {j \in i + 1 .. n : ~kernel[j].linked} \cup {n + 1}
  OBVIOUS
<1>4. T \in SUBSET Nat /\ T # {}
  BY <1>2, <1>3
<1>5. PICK m \in T : \A j \in T : m <= j
  BY <1>4, Smallest
<1>6. m \in Nat /\ i + 1 <= m /\ m <= n + 1 /\ (m <= n => ~kernel[m].linked)
  BY <1>2, <1>3, <1>4, <1>5
<1>7. \A k \in i + 1 .. m - 1 : kernel[k].linked
  <2> SUFFICES ASSUME NEW k \in i + 1 .. m - 1, ~kernel[k].linked PROVE FALSE
      OBVIOUS
  <2>1. k \in i + 1 .. n /\ ~(m <= k)
    BY <1>2, <1>6
  <2>2. k \in T
    BY <1>3, <2>1
  <2> QED BY <2>1, <2>2, <1>5
<1>8. chain = i + 1 .. m - 1
  <2>1. ASSUME NEW j \in chain PROVE j \in i + 1 .. m - 1
    <3>1. j \in i + 1 .. n /\ \A k \in i + 1 .. j : kernel[k].linked
      BY <1>1
    <3>2. ASSUME m <= j PROVE FALSE
      <4>1. m \in i + 1 .. j /\ m <= n
        BY <1>2, <1>6, <3>1, <3>2
      <4> QED BY <3>1, <4>1, <1>6
    <3> QED BY <3>1, <3>2, <1>2, <1>6
  <2>2. ASSUME NEW j \in i + 1 .. m - 1 PROVE j \in chain
    <3>1. j \in i + 1 .. n
      BY <1>2, <1>6
    <3>2. ASSUME NEW k \in i + 1 .. j PROVE kernel[k].linked
      <4>1. k \in i + 1 .. m - 1
        BY <1>2, <1>6
      <4> QED BY <4>1, <1>7
    <3> QED BY <1>1, <3>1, <3>2
  <2> QED BY <2>1, <2>2
<1>9. PICK e \in Nat : m = i + 1 + e
  BY <1>2, <1>6
<1>10. Cardinality(chain) = e
  <2>1. i + 1 \in Int /\ i + e \in Int /\ m - 1 = i + e
    BY <1>2, <1>9
  <2>2. Cardinality(i + 1 .. i + e) =
          IF i + 1 > i + e THEN 0 ELSE (i + e) - (i + 1) + 1
    BY <2>1, FS_Interval
  <2>3. Cardinality(chain) = IF i + 1 > i + e THEN 0 ELSE (i + e) - (i + 1) + 1
    BY <1>8, <2>1, <2>2
  <2>4. (IF i + 1 > i + e THEN 0 ELSE (i + e) - (i + 1) + 1) = e
    BY <1>2
  <2> QED BY <2>3, <2>4
<1>11. last = i + e
  BY <1>10
<1>12. /\ last \in i .. n /\ last + 1 = m
       /\ last < n => m <= n
  BY <1>2, <1>6, <1>9, <1>11
<1> QED BY <1>1, <1>6, <1>12

LEMMA FailEffect ==
  ASSUME Typed, HeadFree, NEW i \in 1 .. Len(kernel), NEW last \in i .. Len(kernel),
         last < Len(kernel) => ~kernel[last + 1].linked,
         kernel' = SubSeq(kernel, 1, i - 1) \o SubSeq(kernel, last + 1, Len(kernel))
  PROVE  /\ kernel' \in Seq(Request) /\ Len(kernel') = (i - 1) + (Len(kernel) - last)
         /\ \A j \in 1 .. Len(kernel') :
              \E h \in 1 .. Len(kernel) : h # i /\ Alike(kernel'[j], kernel[h])
         /\ HeadFree'
<1>1. kernel \in Seq(Request) /\ Len(kernel) \in Nat /\ last \in 0 .. Len(kernel)
  BY LenProperties DEF Typed
<1>2. PICK w : w = SubSeq(kernel, last + 1, Len(kernel))
  OBVIOUS
<1>3. /\ w \in Seq(Request) /\ Len(w) = Len(kernel) - last
      /\ \A j \in 1 .. Len(kernel) - last : w[j] = kernel[last + j]
  BY <1>1, <1>2, RestOf
<1>4. RestLike(w, kernel, last)
  BY <1>3 DEF Alike, RestLike
<1>5. FrontFree(w)
  <2> SUFFICES ASSUME w # <<>> PROVE ~w[1].linked
      BY DEF FrontFree
  <2>1. Len(w) # 0 /\ Len(w) \in Nat
    BY <1>3, EmptySeq, LenProperties
  <2>0. PICK n \in Nat : n = Len(kernel)
    BY <1>1
  <2>2. last < n /\ 1 \in 1 .. n - last
    <3>1. PICK d \in Nat : d = Len(w)
      BY <2>1
    <3>2. d # 0 /\ d = n - last /\ last \in 0 .. n
      BY <1>1, <1>3, <2>0, <2>1, <3>1
    <3> QED BY <3>2
  <2> QED BY <1>3, <2>0, <2>2
<1>6. FrontFree(kernel)
  BY DEF FrontFree, HeadFree
<1> DEFINE k == Spliced(kernel, i, w)
<1>8. kernel' = k
  BY <1>2 DEF Spliced
<1> USE <1>1, <1>3, <1>4, <1>5, <1>6
<1>9. k \in Seq(Request)
  BY LeaveEffect
<1>10. Len(k) = (i - 1) + (Len(kernel) - last)
  BY LeaveEffect
<1>11. \A j \in 1 .. Len(k) :
         \E h \in 1 .. Len(kernel) : h # i /\ Alike(k[j], kernel[h])
  BY LeaveEffect
<1>12. FrontFree(k)
  BY LeaveEffect
<1> QED BY <1>8, <1>9, <1>10, <1>11, <1>12 DEF HeadFree, FrontFree

-----------------------------------------------------------------------------
(* Every step keeps the types *)

\* A stored entry is a buffer's write.
StoredWrites == \A b \in Buffers : \A r \in sqe[b] : r.op = "write"

\* A thread outside f_sync has no f_sync under way.
NoFSync == \A t \in Threads :
  pc[t] \in {"idle", "poll", "handle", "read", "copy"} => ~loc[t].fsync

Shape == /\ Typed /\ HeadFree /\ HandleHas /\ OneHolder /\ StoredWrites /\ NoFSync

\* What the buffers and the file hold.
Stores == /\ mem \in [Buffers -> Nat] /\ disk \in [Buffers -> Nat]
          /\ durable \in [Buffers -> Nat]
          /\ busy \subseteq Buffers
          /\ sqe \in [Buffers -> SUBSET Request]
          /\ StoredWrites

\* Where the threads are.
Places == /\ got \in [Threads -> Seq(Cqe)] /\ pc \in [Threads -> Labels]
          /\ loc \in [Threads -> Locals]
          /\ HandleHas /\ OneHolder /\ NoFSync

Counts == depth \in Nat /\ calls \in Nat

LEMMA ShapeParts ==
  Shape <=> Counts /\ Stores /\ Queues /\ cq \in Seq(Cqe) /\ Places
BY DEF Shape, Typed, Counts, Stores, Queues, Places

LEMMA ShapePartsPrime ==
  Shape' <=> Counts' /\ Stores' /\ Queues' /\ cq' \in Seq(Cqe) /\ Places'
BY DEF Shape, Typed, Counts, Stores, Queues, Places

LEMMA StoresKept == Stores /\ UNCHANGED <<bufVars, fileVars>> => Stores'
BY DEF Stores, StoredWrites, bufVars, fileVars

LEMMA PlacesKept == Places /\ UNCHANGED <<pc, loc, got>> => Places'
BY DEF Places, HandleHas, OneHolder, Holds, NoFSync

LEMMA NoLocalsType == NoLocals \in Locals /\ ~NoLocals.fsync
<1>1. 0 \in Buffers /\ [b \in Buffers |-> 0] \in [Buffers -> Nat]
  BY DEF Buffers
<1> QED BY <1>1 DEF NoLocals, Locals

\* Only t moves.
Moves(t, label) == /\ pc' \in [Threads -> Labels] /\ pc'[t] = label
                   /\ \A u \in Threads \ {t} : pc'[u] = pc[u]

LEMMA GotoMoves ==
  ASSUME Places, NEW t \in Threads, NEW label \in Labels, Goto(t, label)
  PROVE  Moves(t, label)
BY DEF Goto, Places, Moves

\* A thread that moves to a label at which it holds the mutex found it free.
LEMMA GotoHolder ==
  ASSUME Places, NEW t \in Threads, NEW label, Moves(t, label),
         Unlocked \/ label \notin {"sync", "read"}
  PROVE  OneHolder'
BY DEF OneHolder, Holds, Unlocked, Places, Moves

LEMMA ShapeInit == Init => Shape
<1> SUFFICES ASSUME Init PROVE Shape
    OBVIOUS
<1>1. depth \in Nat /\ calls \in Nat
  BY SetupsAssumption DEF Init
<1>2. Stores
  BY DEF Init, Stores, StoredWrites
<1>3. sq = <<>> /\ kernel = <<>> /\ cq = <<>>
  BY DEF Init
<1>4. Queues /\ cq \in Seq(Cqe)
  BY <1>1, <1>3, EmptySeq DEF Queues, HeadFree
<1>5. Places
  <2>1. got \in [Threads -> Seq(Cqe)]
    BY EmptySeq DEF Init
  <2>2. pc \in [Threads -> Labels] /\ \A t \in Threads : pc[t] = "idle"
    BY DEF Init, Labels
  <2>3. loc \in [Threads -> Locals] /\ \A t \in Threads : ~loc[t].fsync
    BY NoLocalsType DEF Init
  <2> QED BY <2>1, <2>2, <2>3 DEF Places, HandleHas, OneHolder, Holds, NoFSync
<1> QED BY <1>1, <1>2, <1>4, <1>5, ShapeParts DEF Counts

LEMMA WriteOfType ==
  ASSUME NEW b \in Buffers, NEW id \in Nat
  PROVE  WriteOf(b, id) \in Request /\ WriteOf(b, id).op = "write"
<1>1. b * Page \in Nat
  BY DEF Buffers
<1> QED BY <1>1 DEF WriteOf, Request, Ours

LEMMA SubmitEffect ==
  ASSUME Shape, NEW b \in Buffers, SubmitBuffer(b), UNCHANGED <<setup, fileVars>>
  PROVE  Stores' /\ Queues' /\ Unlocked
<1> DEFINE r == WriteOf(b, calls + 1)
<1>0. Typed /\ HeadFree /\ Stores /\ depth' = depth /\ calls \in Nat
  BY ShapeParts DEF Shape, setup, Typed
<1>1. r \in Request /\ r.op = "write"
  BY <1>0, WriteOfType
<1> HIDE DEF r
<1>2. /\ Unlocked
      /\ busy' = busy \cup {b}
      /\ mem' = IF b \in busy THEN mem ELSE [mem EXCEPT ![b] = calls + 1]
      /\ \/ /\ HasRoom
            /\ sqe' = [sqe EXCEPT ![b] = {r}]
            /\ EnterOk(Append(sq, r)) \/ EnterFails(Append(sq, r))
         \/ /\ ~HasRoom
            /\ UNCHANGED <<sqe, sq, kernel, enterFaults>>
  BY DEF SubmitBuffer, r
<1>3. /\ mem' \in [Buffers -> Nat] /\ disk' \in [Buffers -> Nat]
      /\ durable' \in [Buffers -> Nat] /\ busy' \subseteq Buffers
  BY <1>0, <1>2 DEF Stores, fileVars
<1>4. CASE HasRoom
  <2>1. sqe' \in [Buffers -> SUBSET Request] /\ StoredWrites'
    BY <1>0, <1>1, <1>2, <1>4 DEF Stores, StoredWrites
  <2>2. Append(sq, r) \in Seq(Request) /\ Len(Append(sq, r)) <= depth
    BY <1>0, <1>1, <1>4, AppendRoom
  <2>3. Queues'
    BY <1>0, <1>2, <1>4, <2>2, EnterQueues
  <2> QED BY <1>2, <1>3, <2>1, <2>3 DEF Stores
<1>5. CASE ~HasRoom
  <2>1. sqe' = sqe /\ UNCHANGED <<depth, sq, kernel>>
    BY <1>0, <1>2, <1>5
  <2>2. Queues'
    BY <1>0, <2>1, QueuesKept
  <2> QED BY <1>0, <1>2, <1>3, <2>1, <2>2 DEF Stores, StoredWrites
<1> QED BY <1>4, <1>5

LEMMA ShapeSubmit ==
  ASSUME Shape, NEW t \in Threads, Submit(t)
  PROVE  Shape'
<1>1. PICK b \in Buffers : SubmitBuffer(b)
  BY DEF Submit
<1>2. /\ UNCHANGED <<setup, cq, fileVars, pc, loc, got>> /\ calls' = calls + 1
  BY DEF Submit, Call
<1>3. Stores' /\ Queues'
  BY <1>1, <1>2, SubmitEffect
<1> QED BY <1>2, <1>3, ShapeParts, ShapePartsPrime, PlacesKept DEF Counts, setup

LEMMA TakeEffect ==
  ASSUME Shape, NEW t \in Threads, TakeAll(t), pc[t] \in {"idle", "poll"},
         calls' \in Nat
  PROVE  Shape'
<1>0. /\ Counts /\ Stores /\ Queues /\ cq \in Seq(Cqe) /\ Places
      /\ Typed /\ HeadFree
  BY ShapeParts DEF Shape
<1>1. /\ Unlocked
      /\ got' = [got EXCEPT ![t] = cq] /\ cq' = <<>>
      /\ UNCHANGED <<setup, bufVars, sq, kernel, fileVars, loc>>
      /\ Goto(t, IF cq = <<>> THEN "idle" ELSE "handle")
  BY DEF TakeAll
<1>2. PICK label \in Labels : /\ Moves(t, label)
                              /\ label \in {"idle", "handle"}
                              /\ label = "handle" => cq # <<>>
  <2>1. CASE cq = <<>>
    BY <1>0, <1>1, <2>1, GotoMoves DEF Labels
  <2>2. CASE cq # <<>>
    BY <1>0, <1>1, <2>2, GotoMoves DEF Labels
  <2> QED BY <2>1, <2>2
<1>3. /\ OneHolder' /\ pc' \in [Threads -> Labels] /\ pc'[t] = label
      /\ \A u \in Threads \ {t} : pc'[u] = pc[u]
  BY <1>0, <1>1, <1>2, GotoHolder DEF Moves
<1>4. /\ got' \in [Threads -> Seq(Cqe)] /\ got'[t] = cq
      /\ \A u \in Threads \ {t} : got'[u] = got[u]
  BY <1>0, <1>1 DEF Places
<1>5. HandleHas'
  <2>1. ASSUME NEW u \in Threads, pc'[u] = "handle" PROVE got'[u] # <<>>
    <3>1. CASE u = t
      <4>1. pc'[t] = "handle"
        BY <2>1, <3>1
      <4>2. cq # <<>>
        BY <1>2, <1>3, <4>1
      <4> QED BY <1>4, <3>1, <4>2
    <3>2. CASE u # t
      BY <1>0, <1>3, <1>4, <2>1, <3>2 DEF HandleHas, Places
    <3> QED BY <3>1, <3>2
  <2> QED BY <2>1 DEF HandleHas
<1>6. NoFSync' /\ loc' \in [Threads -> Locals]
  BY <1>0, <1>1, <1>2, <1>3 DEF NoFSync, Places
<1>7. Places'
  BY <1>3, <1>4, <1>5, <1>6 DEF Places
<1>8. Queues' /\ Stores' /\ Counts'
  BY <1>0, <1>1, QueuesKept, StoresKept DEF setup, Counts
<1>9. cq' \in Seq(Cqe)
  BY <1>1, EmptySeq
<1> QED BY <1>7, <1>8, <1>9, ShapePartsPrime

LEMMA ShapePoll ==
  ASSUME Shape, NEW t \in Threads, StartPoll(t) \/ Poll(t)
  PROVE  Shape'
<1>0. calls \in Nat
  BY DEF Shape, Typed
<1>1. TakeAll(t) /\ pc[t] \in {"idle", "poll"} /\ calls' \in Nat
  BY <1>0 DEF StartPoll, Poll, Call
<1> QED BY <1>1, TakeEffect

LEMMA PlacesMoved ==
  ASSUME Places, NEW t \in Threads, NEW label \in Labels, Moves(t, label),
         Unlocked \/ label \notin {"sync", "read"},
         got' \in [Threads -> Seq(Cqe)],
         \A u \in Threads \ {t} : got'[u] = got[u],
         label = "handle" => got'[t] # <<>>,
         loc' \in [Threads -> Locals],
         \A u \in Threads \ {t} : loc'[u] = loc[u],
         label \in {"idle", "poll", "handle", "read", "copy"} => ~loc'[t].fsync
  PROVE  Places'
<1>1. /\ pc' \in [Threads -> Labels] /\ pc'[t] = label
      /\ \A u \in Threads \ {t} : pc'[u] = pc[u]
  BY DEF Moves
<1>2. OneHolder'
  BY GotoHolder
<1>3. ASSUME NEW u \in Threads
      PROVE  /\ pc'[u] = "handle" => got'[u] # <<>>
             /\ pc'[u] \in {"idle", "poll", "handle", "read", "copy"} => ~loc'[u].fsync
  <2>1. CASE u = t
    BY <1>1, <2>1
  <2>2. CASE u # t
    <3>1. pc'[u] = pc[u] /\ got'[u] = got[u] /\ loc'[u] = loc[u]
      BY <1>1, <2>2
    <3> QED BY <3>1 DEF Places, HandleHas, NoFSync
  <2> QED BY <2>1, <2>2
<1>4. HandleHas' /\ NoFSync'
  BY <1>3 DEF HandleHas, NoFSync
<1> QED BY <1>1, <1>2, <1>4 DEF Places

LEMMA ResubmitEffect ==
  ASSUME Shape, NEW b \in Buffers, Resubmit(b), depth' = depth
  PROVE  Queues' /\ Unlocked
<1>0. Typed /\ HeadFree
  BY DEF Shape
<1>1. Unlocked /\ sq \in Seq(Request) /\ Len(sq) <= depth
  BY <1>0 DEF Resubmit, Typed
<1>2. PICK r \in sqe[b] :
        \/ /\ HasRoom
           /\ EnterOk(Append(sq, r)) \/ EnterFails(Append(sq, r))
        \/ /\ ~HasRoom
           /\ EnterOk(sq) \/ EnterFails(sq) \/ UNCHANGED <<sq, kernel, enterFaults>>
  BY DEF Resubmit
<1>3. r \in Request
  BY <1>0 DEF Typed
<1>4. CASE HasRoom
  <2>1. Append(sq, r) \in Seq(Request) /\ Len(Append(sq, r)) <= depth
    BY <1>0, <1>3, <1>4, AppendRoom
  <2> QED BY <1>0, <1>1, <1>2, <1>4, <2>1, EnterQueues
<1>5. CASE ~HasRoom
  <2>1. CASE EnterOk(sq) \/ EnterFails(sq)
    BY <1>0, <1>1, <2>1, EnterQueues
  <2>2. CASE UNCHANGED <<sq, kernel, enterFaults>>
    BY <1>0, <1>1, <2>2, QueuesKept
  <2> QED BY <1>2, <1>5, <2>1, <2>2
<1> QED BY <1>4, <1>5

\* A handled completion leaves a sequence, empty only if it was the last.
LEMMA TailLeft ==
  ASSUME NEW s \in Seq(Cqe), s # <<>>
  PROVE  Head(s) \in Cqe /\ Tail(s) \in Seq(Cqe) /\ (Len(s) # 1 => Tail(s) # <<>>)
<1>1. /\ Head(s) \in Cqe /\ Tail(s) \in Seq(Cqe) /\ Len(Tail(s)) = Len(s) - 1
  BY HeadTailProperties
<1>2. ASSUME Len(s) # 1, Tail(s) = <<>> PROVE FALSE
  <2>1. Len(Tail(s)) = 0
    BY <1>2, EmptySeq
  <2>2. PICK n \in Nat : n = Len(s)
    BY LenProperties
  <2>3. n - 1 = 0 /\ n # 1
    BY <1>1, <1>2, <2>1, <2>2
  <2> QED BY <2>3
<1> QED BY <1>1, <1>2

LEMMA ShapeHandle ==
  ASSUME Shape, NEW t \in Threads, Handle(t)
  PROVE  Shape'
<1> DEFINE c == Head(got[t])
<1>0. /\ Counts /\ Stores /\ Queues /\ cq \in Seq(Cqe) /\ Places
      /\ Typed /\ HeadFree
  BY ShapeParts DEF Shape
<1>1. /\ pc[t] = "handle"
      /\ got' = [got EXCEPT ![t] = Tail(got[t])]
      /\ Goto(t, IF Len(got[t]) = 1 THEN "poll" ELSE "handle")
      /\ \/ /\ c.op # "write"
            /\ UNCHANGED <<busy, sq, kernel, enterFaults>>
         \/ /\ c.op = "write" /\ c.ok
            /\ busy' = busy \ {c.of}
            /\ UNCHANGED <<sq, kernel, enterFaults>>
         \/ /\ c.op = "write" /\ ~c.ok
            /\ Resubmit(c.of)
            /\ UNCHANGED busy
      /\ UNCHANGED <<setup, mem, sqe, cq, fileVars, loc, rd, calls, ioFaults>>
  BY DEF Handle
<1>2. /\ got[t] \in Seq(Cqe) /\ got[t] # <<>>
  BY <1>0, <1>1 DEF Places, HandleHas
<1>3. /\ c \in Cqe /\ Tail(got[t]) \in Seq(Cqe)
      /\ Len(got[t]) # 1 => Tail(got[t]) # <<>>
  BY <1>2, TailLeft
<1> HIDE DEF c
<1>4. /\ got' \in [Threads -> Seq(Cqe)] /\ got'[t] = Tail(got[t])
      /\ \A u \in Threads \ {t} : got'[u] = got[u]
  BY <1>0, <1>1, <1>3 DEF Places
<1>5. PICK label \in Labels : /\ Moves(t, label)
                              /\ label \in {"poll", "handle"}
                              /\ label = "handle" => got'[t] # <<>>
  <2>1. CASE Len(got[t]) = 1
    BY <1>0, <1>1, <2>1, GotoMoves DEF Labels
  <2>2. CASE Len(got[t]) # 1
    <3>1. got'[t] # <<>> /\ Moves(t, "handle")
      BY <1>0, <1>1, <1>3, <1>4, <2>2, GotoMoves DEF Labels
    <3> QED BY <3>1 DEF Labels
  <2> QED BY <2>1, <2>2
<1>6. loc' = loc /\ loc' \in [Threads -> Locals] /\ ~loc[t].fsync
  BY <1>0, <1>1 DEF Places, NoFSync
<1>7. Places'
  <2>1. \A u \in Threads \ {t} : loc'[u] = loc[u]
    BY <1>6
  <2>2. label \notin {"sync", "read"} /\ ~loc'[t].fsync
    BY <1>5, <1>6
  <2> QED BY <1>0, <1>4, <1>5, <1>6, <2>1, <2>2, PlacesMoved
<1>8. Stores'
  BY <1>0, <1>1 DEF Stores, StoredWrites, fileVars
<1>9. Queues'
  <2>1. CASE UNCHANGED <<sq, kernel, enterFaults>>
    BY <1>0, <1>1, <2>1, QueuesKept DEF setup
  <2>2. CASE c.op = "write" /\ ~c.ok /\ Resubmit(c.of)
    <3>1. c.of \in Buffers
      BY <1>3, <2>2 DEF Cqe, Ours
    <3> QED BY <1>1, <2>2, <3>1, ResubmitEffect DEF setup
  <2> QED BY <1>1, <2>1, <2>2
<1>10. Counts' /\ cq' \in Seq(Cqe)
  BY <1>0, <1>1 DEF setup, Counts
<1> QED BY <1>7, <1>8, <1>9, <1>10, ShapePartsPrime

LEMMA FsyncOfType ==
  ASSUME NEW t \in Threads, NEW id \in Nat
  PROVE  FsyncOf(t, id) \in Request /\ FsyncOf(t, id).op = "fsync"
         /\ FsyncOf(t, id).of = t /\ FsyncOf(t, id).id = id /\ FsyncOf(t, id).drain
BY DEF FsyncOf, Request, Ours, DrainFlag

\* sync_data called from label pc[t], which is idle unless it is f_sync's.
LEMMA SyncDataEffect ==
  ASSUME Shape, NEW t \in Threads, NEW id \in Nat, SyncData(t, id),
         pc[t] \in {"idle", "fsync"},
         UNCHANGED <<setup, bufVars, cq, fileVars, got>>, calls' \in Nat
  PROVE  Shape'
<1> DEFINE r == FsyncOf(t, id)
<1>0. /\ Counts /\ Stores /\ Queues /\ cq \in Seq(Cqe) /\ Places
      /\ Typed /\ HeadFree
  BY ShapeParts DEF Shape
<1>1. r \in Request
  BY FsyncOfType
<1> HIDE DEF r
<1>2. /\ Unlocked
      /\ \/ /\ ~HasRoom
            /\ SyncErr(t)
            /\ UNCHANGED <<sq, kernel, enterFaults>>
         \/ /\ HasRoom
            /\ EnterFails(Append(sq, r))
            /\ SyncErr(t)
         \/ /\ HasRoom
            /\ EnterOk(Append(sq, r))
            /\ loc' = [loc EXCEPT ![t].quiet = Quiet(t), ![t].id = id,
                                  ![t].before = Accepted]
            /\ Goto(t, "sync")
  BY DEF SyncData, r
<1>3. Queues'
  <2>1. CASE HasRoom
    <3>1. Append(sq, r) \in Seq(Request) /\ Len(Append(sq, r)) <= depth
      BY <1>0, <1>1, <2>1, AppendRoom
    <3> QED BY <1>0, <1>2, <2>1, <3>1, EnterQueues DEF setup
  <2>2. CASE ~HasRoom
    BY <1>0, <1>2, <2>2, QueuesKept DEF setup
  <2> QED BY <2>1, <2>2
<1>4. got' \in [Threads -> Seq(Cqe)] /\ \A u \in Threads : got'[u] = got[u]
  BY <1>0 DEF Places
<1>5. Places'
  <2>1. CASE SyncErr(t)
    <3>1. /\ loc' = loc
          /\ Goto(t, IF loc[t].fsync THEN "dead" ELSE "idle")
      BY <2>1 DEF SyncErr
    <3>2. PICK label \in {"dead", "idle"} : /\ Goto(t, label)
                                            /\ label = "idle" => ~loc[t].fsync
      BY <3>1
    <3>3. Moves(t, label) /\ label \in Labels
      BY <1>0, <3>2, GotoMoves DEF Labels
    <3>4. loc' \in [Threads -> Locals] /\ \A u \in Threads : loc'[u] = loc[u]
      BY <1>0, <3>1 DEF Places
    <3> QED BY <1>0, <1>4, <3>2, <3>3, <3>4, PlacesMoved
  <2>2. CASE /\ loc' = [loc EXCEPT ![t].quiet = Quiet(t), ![t].id = id,
                                   ![t].before = Accepted]
             /\ Goto(t, "sync")
    <3>1. Moves(t, "sync") /\ "sync" \in Labels
      BY <1>0, <2>2, GotoMoves DEF Labels
    <3>2. loc' \in [Threads -> Locals] /\ \A u \in Threads \ {t} : loc'[u] = loc[u]
      <4>1. Accepted \in [Buffers -> Nat] /\ Quiet(t) \in BOOLEAN
        BY <1>0, AcceptedType DEF Quiet
      <4>2. [loc[t] EXCEPT !.quiet = Quiet(t), !.id = id, !.before = Accepted] \in Locals
        BY <1>0, <4>1 DEF Places, Locals
      <4> QED BY <1>0, <2>2, <4>2 DEF Places
    <3> QED BY <1>0, <1>2, <1>4, <3>1, <3>2, PlacesMoved
  <2> QED BY <1>2, <2>1, <2>2
<1>6. Counts' /\ cq' \in Seq(Cqe) /\ Stores'
  BY <1>0, StoresKept DEF setup, Counts
<1> QED BY <1>3, <1>5, <1>6, ShapePartsPrime

LEMMA ShapeSyncData ==
  ASSUME Shape, NEW t \in Threads, StartSync(t) \/ FSyncData(t)
  PROVE  Shape'
<1>0. calls \in Nat /\ loc[t].id \in Nat
  BY DEF Shape, Typed, Locals
<1>1. CASE StartSync(t)
  BY <1>0, <1>1, SyncDataEffect DEF StartSync, Call
<1>2. CASE FSyncData(t)
  BY <1>0, <1>2, SyncDataEffect DEF FSyncData
<1> QED BY <1>1, <1>2

\* A thread's locals are reset when its call returns.
LEMMA PlacesReset ==
  ASSUME Places, NEW t \in Threads, Goto(t, "idle"), got' = got,
         loc' = [loc EXCEPT ![t] = NoLocals]
  PROVE  Places'
<1>1. Moves(t, "idle") /\ "idle" \in Labels
  BY GotoMoves DEF Labels
<1>2. /\ loc' \in [Threads -> Locals] /\ ~loc'[t].fsync
      /\ \A u \in Threads \ {t} : loc'[u] = loc[u]
  BY NoLocalsType DEF Places
<1>3. got' \in [Threads -> Seq(Cqe)] /\ \A u \in Threads \ {t} : got'[u] = got[u]
  BY DEF Places
<1> QED BY <1>1, <1>2, <1>3, PlacesMoved

\* A thread moves and nothing else of it changes.
LEMMA PlacesGoto ==
  ASSUME Places, NEW t \in Threads, NEW label \in Labels, Goto(t, label),
         label \notin {"sync", "read", "handle"}, UNCHANGED <<got, loc>>,
         label \in {"idle", "poll", "copy"} => ~loc[t].fsync
  PROVE  Places'
<1>1. Moves(t, label)
  BY GotoMoves
<1>2. /\ loc' \in [Threads -> Locals] /\ loc'[t] = loc[t]
      /\ \A u \in Threads \ {t} : loc'[u] = loc[u]
  BY DEF Places
<1>3. got' \in [Threads -> Seq(Cqe)] /\ \A u \in Threads \ {t} : got'[u] = got[u]
  BY DEF Places
<1> QED BY <1>1, <1>2, <1>3, PlacesMoved

LEMMA ShapeSyncReturn ==
  ASSUME Shape, NEW t \in Threads, SyncReturn(t)
  PROVE  Shape'
<1>0. /\ Counts /\ Stores /\ Queues /\ cq \in Seq(Cqe) /\ Places
      /\ Typed /\ HeadFree
  BY ShapeParts DEF Shape
<1>1. /\ \/ loc[t].fsync /\ Goto(t, "freset") /\ UNCHANGED loc
         \/ Goto(t, "idle") /\ loc' = [loc EXCEPT ![t] = NoLocals]
      /\ UNCHANGED <<setup, bufVars, sq, kernel, cq, fileVars, got, calls>>
  BY DEF SyncReturn
<1>2. Places'
  <2>1. CASE loc[t].fsync /\ Goto(t, "freset") /\ UNCHANGED loc
    <3>1. "freset" \in Labels
      BY DEF Labels
    <3> QED BY <1>0, <1>1, <2>1, <3>1, PlacesGoto
  <2>2. CASE Goto(t, "idle") /\ loc' = [loc EXCEPT ![t] = NoLocals]
    BY <1>0, <1>1, <2>2, PlacesReset
  <2> QED BY <1>1, <2>1, <2>2
<1>3. Queues' /\ Stores' /\ Counts' /\ cq' \in Seq(Cqe)
  BY <1>0, <1>1, QueuesKept, StoresKept DEF setup, Counts
<1> QED BY <1>2, <1>3, ShapePartsPrime

LEMMA ShapeFSyncReset ==
  ASSUME Shape, NEW t \in Threads, FSyncReset(t)
  PROVE  Shape'
<1>0. /\ Counts /\ Stores /\ Queues /\ cq \in Seq(Cqe) /\ Places
      /\ Typed /\ HeadFree
  BY ShapeParts DEF Shape
<1>1. /\ busy' = busy \ {loc[t].b}
      /\ loc' = [loc EXCEPT ![t] = NoLocals]
      /\ Goto(t, "idle")
      /\ UNCHANGED <<setup, mem, sqe, sq, kernel, cq, fileVars, got, calls>>
  BY DEF FSyncReset
<1>2. Places'
  BY <1>0, <1>1, PlacesReset
<1>3. Stores'
  BY <1>0, <1>1 DEF Stores, StoredWrites, fileVars
<1>4. Queues'
  BY <1>0, <1>1, QueuesKept DEF setup
<1>5. Counts' /\ cq' \in Seq(Cqe)
  BY <1>0, <1>1 DEF setup, Counts
<1> QED BY <1>2, <1>3, <1>4, <1>5, ShapePartsPrime

LEMMA WaitReturnPlaces ==
  ASSUME Places, NEW t \in Threads, WaitReturn(t), UNCHANGED <<got, loc>>
  PROVE  Places'
<1>1. PICK label \in {"fsync", "idle"} : /\ Goto(t, label)
                                         /\ label = "idle" => ~loc[t].fsync
  BY DEF WaitReturn
<1> QED BY <1>1, PlacesGoto DEF Labels

LEMMA DropEffect ==
  ASSUME Shape, NEW t \in Threads, DropAll(t), calls' \in Nat
  PROVE  Shape'
<1>0. /\ Counts /\ Stores /\ Queues /\ cq \in Seq(Cqe) /\ Places
      /\ Typed /\ HeadFree
  BY ShapeParts DEF Shape
<1>1. /\ cq' = <<>>
      /\ Goto(t, "check") \/ WaitReturn(t)
      /\ UNCHANGED <<setup, bufVars, sq, kernel, fileVars, loc, got>>
  BY DEF DropAll
<1>2. Places'
  <2>1. CASE Goto(t, "check")
    BY <1>0, <1>1, <2>1, PlacesGoto DEF Labels
  <2>2. CASE WaitReturn(t)
    BY <1>0, <1>1, <2>2, WaitReturnPlaces
  <2> QED BY <1>1, <2>1, <2>2
<1>3. Queues' /\ Stores' /\ Counts'
  BY <1>0, <1>1, QueuesKept, StoresKept DEF setup, Counts
<1>4. cq' \in Seq(Cqe)
  BY <1>1, EmptySeq
<1> QED BY <1>2, <1>3, <1>4, ShapePartsPrime

LEMMA ShapeWait ==
  ASSUME Shape, NEW t \in Threads, StartWait(t) \/ WaitDrain(t)
  PROVE  Shape'
<1>0. calls \in Nat
  BY DEF Shape, Typed
<1>1. DropAll(t) /\ calls' \in Nat
  BY <1>0 DEF StartWait, WaitDrain, Call
<1> QED BY <1>1, DropEffect

LEMMA ShapeWaitCheck ==
  ASSUME Shape, NEW t \in Threads, WaitCheck(t)
  PROVE  Shape'
<1>0. /\ Counts /\ Stores /\ Queues /\ cq \in Seq(Cqe) /\ Places
      /\ Typed /\ HeadFree
  BY ShapeParts DEF Shape
<1>1. /\ Goto(t, "drain") \/ WaitReturn(t)
      /\ UNCHANGED <<setup, bufVars, sq, kernel, cq, fileVars, loc, got, calls>>
  BY DEF WaitCheck
<1>2. Places'
  <2>1. CASE Goto(t, "drain")
    BY <1>0, <1>1, <2>1, PlacesGoto DEF Labels
  <2>2. CASE WaitReturn(t)
    BY <1>0, <1>1, <2>2, WaitReturnPlaces
  <2> QED BY <1>1, <2>1, <2>2
<1>3. Queues' /\ Stores' /\ Counts' /\ cq' \in Seq(Cqe)
  BY <1>0, <1>1, QueuesKept, StoresKept DEF setup, Counts
<1> QED BY <1>2, <1>3, ShapePartsPrime

LEMMA ShapeStartFSync ==
  ASSUME Shape, NEW t \in Threads, StartFSync(t)
  PROVE  Shape'
<1>0. /\ Counts /\ Stores /\ Queues /\ cq \in Seq(Cqe) /\ Places
      /\ Typed /\ HeadFree
  BY ShapeParts DEF Shape
<1>1. PICK b \in Buffers :
        /\ SubmitBuffer(b)
        /\ loc' = [loc EXCEPT ![t].b = b, ![t].fsync = TRUE, ![t].id = calls + 1]
  BY DEF StartFSync
<1>2. /\ UNCHANGED <<setup, cq, fileVars, got>> /\ calls' = calls + 1
      /\ Goto(t, "drain")
  BY DEF StartFSync, Call
<1>3. Stores' /\ Queues'
  BY <1>1, <1>2, SubmitEffect
<1>4. loc' \in [Threads -> Locals] /\ \A u \in Threads \ {t} : loc'[u] = loc[u]
  <2>1. [loc[t] EXCEPT !.b = b, !.fsync = TRUE, !.id = calls + 1] \in Locals
    <3>1. loc[t] \in Locals /\ calls + 1 \in Nat
      BY <1>0 DEF Places, Counts
    <3> QED BY <3>1 DEF Locals
  <2> QED BY <1>0, <1>1, <2>1 DEF Places
<1>5. Places'
  <2>1. Moves(t, "drain") /\ "drain" \in Labels
    BY <1>0, <1>2, GotoMoves DEF Labels
  <2>2. got' \in [Threads -> Seq(Cqe)] /\ \A u \in Threads \ {t} : got'[u] = got[u]
    BY <1>0, <1>2 DEF Places
  <2> QED BY <1>0, <1>4, <2>1, <2>2, PlacesMoved
<1>6. Counts' /\ cq' \in Seq(Cqe)
  BY <1>0, <1>2 DEF setup, Counts
<1> QED BY <1>3, <1>5, <1>6, ShapePartsPrime

\* The aligned window starts at or below the offset.
LEMMA WindowType ==
  ASSUME NEW offset \in Nat, NEW len \in Nat \ {0}
  PROVE  AlignedOffset(offset) \in Nat /\ AlignedLen(offset, len) \in Nat
<1>1. offset % Page \in Nat /\ offset % Page <= offset
  OBVIOUS
<1>2. AlignedOffset(offset) \in Nat
  BY <1>1 DEF AlignedOffset
<1>3. PICK n \in Nat : n = (len + (offset % Page)) + Page - 1
  BY <1>1
<1>4. (n \div Page) \in Nat
  OBVIOUS
<1>5. (n \div Page) * Page \in Nat
  BY <1>4
<1> QED BY <1>2, <1>3, <1>5 DEF AlignedLen, NextMultipleOf

LEMMA ReadOfType ==
  ASSUME Typed, NEW t \in Threads, NEW a \in Reads
  PROVE  /\ ReadOf(t, a.offset, a.len) \in Request
         /\ ReadOf(t, a.offset, a.len).op = "read"
         /\ ReadOf(t, a.offset, a.len).of = t
         /\ ReadOf(t, a.offset, a.len).id = calls + 1
<1>1. a.offset \in Nat /\ a.len \in Nat \ {0} /\ calls \in Nat
  BY DEF Typed
<1>2. AlignedOffset(a.offset) \in Nat /\ AlignedLen(a.offset, a.len) \in Nat
  BY <1>1, WindowType
<1> QED BY <1>1, <1>2 DEF ReadOf, Request, Ours

LEMMA ShapeStartRead ==
  ASSUME Shape, NEW t \in Threads, StartRead(t)
  PROVE  Shape'
<1>0. /\ Counts /\ Stores /\ Queues /\ cq \in Seq(Cqe) /\ Places
      /\ Typed /\ HeadFree
  BY ShapeParts DEF Shape
<1>1. /\ Unlocked /\ pc[t] = "idle" /\ calls' = calls + 1
      /\ UNCHANGED <<setup, bufVars, cq, fileVars, got>>
  BY DEF StartRead, Call
<1>2. PICK a \in Reads :
        LET r == ReadOf(t, a.offset, a.len) IN
        \/ /\ HasRoom
           /\ EnterOk(Append(sq, r))
           /\ loc' = [loc EXCEPT ![t].id = r.id, ![t].quiet = Quiet(t),
                                 ![t].before = Accepted, ![t].offset = a.offset,
                                 ![t].len = a.len]
           /\ Goto(t, "read")
        \/ /\ HasRoom
           /\ EnterFails(Append(sq, r))
           /\ UNCHANGED <<loc, pc>>
        \/ /\ ~HasRoom
           /\ UNCHANGED <<sq, kernel, loc, pc>>
  BY DEF StartRead
<1>3. PICK r \in Request : r = ReadOf(t, a.offset, a.len)
  BY <1>0, ReadOfType
<1>4. Queues'
  <2>1. CASE HasRoom
    <3>1. Append(sq, r) \in Seq(Request) /\ Len(Append(sq, r)) <= depth
      BY <1>0, <2>1, AppendRoom
    <3>2. EnterOk(Append(sq, r)) \/ EnterFails(Append(sq, r))
      BY <1>2, <1>3, <2>1
    <3> QED BY <1>0, <1>1, <3>1, <3>2, EnterQueues DEF setup
  <2>2. CASE ~HasRoom
    BY <1>0, <1>1, <1>2, <2>2, QueuesKept DEF setup
  <2> QED BY <2>1, <2>2
<1>5. Places'
  <2>1. CASE UNCHANGED <<loc, pc>>
    BY <1>0, <1>1, <2>1, PlacesKept
  <2>2. CASE /\ loc' = [loc EXCEPT ![t].id = r.id, ![t].quiet = Quiet(t),
                                   ![t].before = Accepted, ![t].offset = a.offset,
                                   ![t].len = a.len]
             /\ Goto(t, "read")
    <3>1. Moves(t, "read") /\ "read" \in Labels
      BY <1>0, <2>2, GotoMoves DEF Labels
    <3>2. /\ loc' \in [Threads -> Locals] /\ loc'[t].fsync = loc[t].fsync
          /\ \A u \in Threads \ {t} : loc'[u] = loc[u]
      <4>1. Accepted \in [Buffers -> Nat] /\ Quiet(t) \in BOOLEAN /\ loc[t] \in Locals
        BY <1>0, AcceptedType DEF Quiet, Places
      <4>2. r.id \in Nat /\ a.offset \in Nat /\ a.len \in Nat
        BY DEF Request
      <4>3. PICK v : v = [loc[t] EXCEPT !.id = r.id, !.quiet = Quiet(t),
                                        !.before = Accepted, !.offset = a.offset,
                                        !.len = a.len]
        OBVIOUS
      <4>4. v \in Locals /\ v.fsync = loc[t].fsync
        BY <4>1, <4>2, <4>3 DEF Locals
      <4>5. loc' = [loc EXCEPT ![t] = v]
        BY <2>2, <4>3
      <4> QED BY <1>0, <4>4, <4>5 DEF Places
    <3>3. got' \in [Threads -> Seq(Cqe)] /\ \A u \in Threads \ {t} : got'[u] = got[u]
      BY <1>0, <1>1 DEF Places
    <3>4. ~loc'[t].fsync
      BY <1>0, <1>1, <3>2 DEF Places, NoFSync
    <3> QED BY <1>0, <1>1, <3>1, <3>2, <3>3, <3>4, PlacesMoved
  <2> QED BY <1>2, <1>3, <2>1, <2>2
<1>6. Counts' /\ cq' \in Seq(Cqe) /\ Stores'
  BY <1>0, <1>1, StoresKept DEF setup, Counts
<1> QED BY <1>4, <1>5, <1>6, ShapePartsPrime

LEMMA ShapeReadTake ==
  ASSUME Shape, NEW t \in Threads, ReadTake(t)
  PROVE  Shape'
<1>0. /\ Counts /\ Stores /\ Queues /\ cq \in Seq(Cqe) /\ Places
      /\ Typed /\ HeadFree
  BY ShapeParts DEF Shape
<1>1. /\ pc[t] = "read" /\ Awaited /\ cq' = Tail(cq)
      /\ \/ Goto(t, "copy") /\ UNCHANGED loc
         \/ loc' = [loc EXCEPT ![t] = NoLocals] /\ Goto(t, "idle")
      /\ UNCHANGED <<setup, bufVars, sq, kernel, fileVars, got, calls>>
  BY DEF ReadTake
<1>2. cq' \in Seq(Cqe)
  <2>1. cq # <<>>
    BY <1>0, <1>1, EmptySeq DEF Awaited
  <2> QED BY <1>0, <1>1, <2>1, HeadTailProperties
<1>3. Places'
  <2>1. CASE Goto(t, "copy") /\ UNCHANGED loc
    <3>1. ~loc[t].fsync /\ "copy" \in Labels
      BY <1>0, <1>1 DEF Places, NoFSync, Labels
    <3> QED BY <1>0, <1>1, <2>1, <3>1, PlacesGoto
  <2>2. CASE loc' = [loc EXCEPT ![t] = NoLocals] /\ Goto(t, "idle")
    BY <1>0, <1>1, <2>2, PlacesReset
  <2> QED BY <1>1, <2>1, <2>2
<1>4. Queues' /\ Stores' /\ Counts'
  BY <1>0, <1>1, QueuesKept, StoresKept DEF setup, Counts
<1> QED BY <1>2, <1>3, <1>4, ShapePartsPrime

LEMMA ShapeReadCopy ==
  ASSUME Shape, NEW t \in Threads, ReadCopy(t)
  PROVE  Shape'
<1>0. /\ Counts /\ Stores /\ Queues /\ cq \in Seq(Cqe) /\ Places
      /\ Typed /\ HeadFree
  BY ShapeParts DEF Shape
<1>1. /\ loc' = [loc EXCEPT ![t] = NoLocals] /\ Goto(t, "idle")
      /\ UNCHANGED <<setup, bufVars, sq, kernel, cq, fileVars, got, calls>>
  BY DEF ReadCopy
<1>2. Places'
  BY <1>0, <1>1, PlacesReset
<1>3. Queues' /\ Stores' /\ Counts' /\ cq' \in Seq(Cqe)
  BY <1>0, <1>1, QueuesKept, StoresKept DEF setup, Counts
<1> QED BY <1>2, <1>3, ShapePartsPrime

\* What a completed request does to the file.
LEMMA EffectType ==
  ASSUME Stores, NEW r \in Request, Effect(r)
  PROVE  disk' \in [Buffers -> Nat] /\ durable' \in [Buffers -> Nat]
<1>1. r.op = "write" => r.of \in Buffers
  BY DEF Request, Ours
<1> QED BY <1>1 DEF Stores, Effect

LEMMA ShapeComplete ==
  ASSUME Shape, KernelComplete
  PROVE  Shape'
<1>0. /\ Counts /\ Stores /\ Queues /\ cq \in Seq(Cqe) /\ Places
      /\ Typed /\ HeadFree
  BY ShapeParts DEF Shape
<1>1. PICK i \in DOMAIN kernel :
        /\ Effect(kernel[i])
        /\ kernel' = SubSeq(kernel, 1, i - 1)
                       \o Unlink(SubSeq(kernel, i + 1, Len(kernel)))
        /\ cq' = Append(cq, Completion(kernel[i], TRUE))
        /\ UNCHANGED <<setup, bufVars, sq, pc, loc, got, calls>>
  BY DEF KernelComplete
<1>2. i \in 1 .. Len(kernel) /\ kernel[i] \in Request
  BY <1>0, LenProperties, ElementOfSeq DEF Typed
<1>3. kernel' \in Seq(Request) /\ HeadFree'
  BY <1>0, <1>1, <1>2, CompleteEffect
<1>4. Queues'
  BY <1>0, <1>1, <1>3 DEF Queues, setup
<1>5. cq' \in Seq(Cqe)
  BY <1>0, <1>1, <1>2, CompletionType, AppendProperties
<1>6. Stores'
  BY <1>0, <1>1, <1>2, EffectType DEF Stores, StoredWrites, bufVars
<1>7. Places' /\ Counts'
  BY <1>0, <1>1, PlacesKept DEF Counts, setup
<1> QED BY <1>4, <1>5, <1>6, <1>7, ShapePartsPrime

\* The failed request and its chain complete with an error.
LEMMA FailedType ==
  ASSUME Typed, NEW i \in 1 .. Len(kernel), NEW last \in i .. Len(kernel)
  PROVE  LET f == [n \in 1 .. last - i + 1 |-> Completion(kernel[i + n - 1], FALSE)]
         IN  f \in Seq(Cqe) /\ Len(f) = last - i + 1 /\ last - i + 1 \in Nat \ {0}
<1>1. PICK m \in Nat \ {0} : m = last - i + 1
  BY LenProperties DEF Typed
<1>2. ASSUME NEW n \in 1 .. m PROVE Completion(kernel[i + n - 1], FALSE) \in Cqe
  <2>1. i + n - 1 \in 1 .. Len(kernel)
    BY <1>1, LenProperties DEF Typed
  <2>2. kernel[i + n - 1] \in Request
    BY <2>1, ElementOfSeq DEF Typed
  <2> QED BY <2>2, CompletionType
<1>3. [n \in 1 .. m |-> Completion(kernel[i + n - 1], FALSE)] \in [1 .. m -> Cqe]
  BY <1>2
<1>4. /\ [n \in 1 .. m |-> Completion(kernel[i + n - 1], FALSE)] \in Seq(Cqe)
      /\ Len([n \in 1 .. m |-> Completion(kernel[i + n - 1], FALSE)]) = m
  BY <1>3, FunctionIsSeq
<1> QED BY <1>1, <1>4

\* KernelFail, with the chain's end named.
LEMMA FailStep ==
  ASSUME Shape, KernelFail
  PROVE  \E i \in 1 .. Len(kernel), last \in 1 .. Len(kernel), f \in Seq(Cqe) :
           /\ Ready(i) /\ last >= i
           /\ kernel' \in Seq(Request) /\ HeadFree'
           /\ Len(kernel') = (i - 1) + (Len(kernel) - last)
           /\ \A j \in 1 .. Len(kernel') :
                \E h \in 1 .. Len(kernel) : h # i /\ Alike(kernel'[j], kernel[h])
           /\ cq' = cq \o f /\ Len(f) = last - i + 1 /\ Len(f) > 0
           /\ f[1] = Completion(kernel[i], FALSE)
<1>0. Typed /\ HeadFree
  BY DEF Shape
<1>1. PICK i \in DOMAIN kernel :
        LET chain == {j \in i + 1 .. Len(kernel) :
                        \A k \in i + 1 .. j : kernel[k].linked}
            last  == i + Cardinality(chain)
        IN  /\ Ready(i)
            /\ kernel' = SubSeq(kernel, 1, i - 1) \o SubSeq(kernel, last + 1, Len(kernel))
            /\ cq' = cq \o [n \in 1 .. last - i + 1 |->
                              Completion(kernel[i + n - 1], FALSE)]
  BY DEF KernelFail
<1>2. i \in 1 .. Len(kernel)
  BY <1>0, LenProperties DEF Typed
<1>3. PICK chain : chain = {j \in i + 1 .. Len(kernel) :
                              \A k \in i + 1 .. j : kernel[k].linked}
  OBVIOUS
<1>4. PICK last : last = i + Cardinality(chain)
  OBVIOUS
<1>5. /\ last \in i .. Len(kernel)
      /\ last < Len(kernel) => ~kernel[last + 1].linked
  BY <1>0, <1>2, <1>3, <1>4, ChainEnd
<1>6. PICK f : f = [n \in 1 .. last - i + 1 |-> Completion(kernel[i + n - 1], FALSE)]
  OBVIOUS
<1>7. /\ Ready(i)
      /\ kernel' = SubSeq(kernel, 1, i - 1) \o SubSeq(kernel, last + 1, Len(kernel))
      /\ cq' = cq \o f
  BY <1>1, <1>3, <1>4, <1>6
<1>8. f \in Seq(Cqe) /\ Len(f) = last - i + 1 /\ last - i + 1 \in Nat \ {0}
  BY <1>0, <1>2, <1>5, <1>6, FailedType
<1>9. f[1] = Completion(kernel[i], FALSE)
  <2>1. 1 \in 1 .. last - i + 1 /\ i + 1 - 1 = i
    BY <1>2, <1>8
  <2> QED BY <1>6, <2>1
<1>10. /\ kernel' \in Seq(Request) /\ HeadFree'
       /\ Len(kernel') = (i - 1) + (Len(kernel) - last)
       /\ \A j \in 1 .. Len(kernel') :
            \E h \in 1 .. Len(kernel) : h # i /\ Alike(kernel'[j], kernel[h])
  BY <1>0, <1>2, <1>5, <1>7, FailEffect
<1>11. last \in 1 .. Len(kernel) /\ last >= i /\ Len(f) > 0
  BY <1>2, <1>5, <1>8
<1> QED BY <1>2, <1>7, <1>8, <1>9, <1>10, <1>11

LEMMA ShapeFail ==
  ASSUME Shape, KernelFail
  PROVE  Shape'
<1>0. /\ Counts /\ Stores /\ Queues /\ cq \in Seq(Cqe) /\ Places
  BY ShapeParts
<1>1. UNCHANGED <<setup, bufVars, sq, fileVars, pc, loc, got, calls>>
  BY DEF KernelFail
<1>2. PICK f \in Seq(Cqe) : cq' = cq \o f
  BY FailStep
<1>3. kernel' \in Seq(Request) /\ HeadFree'
  BY FailStep
<1>4. Queues'
  BY <1>0, <1>1, <1>3 DEF Queues, setup
<1>5. cq' \in Seq(Cqe)
  BY <1>0, <1>2, ConcatProperties
<1>6. Stores' /\ Places' /\ Counts'
  BY <1>0, <1>1, StoresKept, PlacesKept DEF Counts, setup
<1> QED BY <1>4, <1>5, <1>6, ShapePartsPrime

LEMMA ShapeNext == Shape /\ [Next]_vars => Shape'
<1> SUFFICES ASSUME Shape, [Next]_vars PROVE Shape'
    OBVIOUS
<1>1. CASE UNCHANGED vars
  <2>1. UNCHANGED <<setup, bufVars, sq, kernel, cq, fileVars, pc, loc, got, calls>>
    BY <1>1 DEF vars
  <2>2. Stores' /\ Places'
    BY <2>1, ShapeParts, StoresKept, PlacesKept
  <2>3. Queues' /\ Counts' /\ cq' \in Seq(Cqe)
    BY <2>1, ShapeParts, QueuesKept DEF setup, Counts, Shape
  <2> QED BY <2>2, <2>3, ShapePartsPrime
<1>2. ASSUME NEW t \in Threads,
             \/ Submit(t)    \/ StartPoll(t)  \/ StartSync(t) \/ StartWait(t)
             \/ StartFSync(t) \/ StartRead(t)
      PROVE  Shape'
  BY <1>2, ShapeSubmit, ShapePoll, ShapeSyncData, ShapeWait, ShapeStartFSync,
     ShapeStartRead
<1>3. ASSUME NEW t \in Threads, Step(t)
      PROVE  Shape'
  BY <1>3, ShapePoll, ShapeHandle, ShapeSyncReturn, ShapeWait, ShapeWaitCheck,
     ShapeSyncData, ShapeFSyncReset, ShapeReadTake, ShapeReadCopy DEF Step
<1>4. CASE KernelComplete
  BY <1>4, ShapeComplete
<1>5. CASE KernelFail
  BY <1>5, ShapeFail
<1> QED BY <1>1, <1>2, <1>3, <1>4, <1>5 DEF Next

-----------------------------------------------------------------------------
(* A thread that blocks holds the mutex *)

\* Nothing happens to t, nor to the queues and the file.
Undisturbed(t) == /\ UNCHANGED <<sq, kernel, cq, disk, durable>>
                  /\ pc'[t] = pc[t] /\ loc'[t] = loc[t]

LEMMA LockedOthers ==
  ASSUME Shape, NEW t \in Threads, Holds(t), NEW u \in Threads, u # t,
         \/ Submit(u)    \/ StartPoll(u)  \/ StartSync(u) \/ StartWait(u)
         \/ StartFSync(u) \/ StartRead(u) \/ Step(u)
  PROVE  Undisturbed(t)
<1>1. ~Unlocked
  BY DEF Holds, Unlocked
<1>2. ~Holds(u)
  BY DEF Shape, OneHolder
<1>3. Handle(u) \/ FSyncReset(u) \/ ReadCopy(u)
  <2>1. ~Submit(u) /\ ~StartFSync(u)
    BY <1>1 DEF Submit, StartFSync, SubmitBuffer
  <2>2. ~StartPoll(u) /\ ~Poll(u)
    BY <1>1 DEF StartPoll, Poll, TakeAll
  <2>3. ~StartSync(u) /\ ~FSyncData(u)
    BY <1>1 DEF StartSync, FSyncData, SyncData
  <2>4. ~StartWait(u) /\ ~WaitDrain(u)
    BY <1>1 DEF StartWait, WaitDrain, DropAll
  <2>5. ~StartRead(u) /\ ~WaitCheck(u)
    BY <1>1 DEF StartRead, WaitCheck
  <2>6. ~SyncReturn(u) /\ ~ReadTake(u)
    BY <1>2 DEF SyncReturn, ReadTake, Holds
  <2> QED BY <2>1, <2>2, <2>3, <2>4, <2>5, <2>6 DEF Step
<1>4. pc \in [Threads -> Labels] /\ loc \in [Threads -> Locals]
  BY DEF Shape, Typed
<1>5. CASE Handle(u)
  <2>1. ~Resubmit(Head(got[u]).of)
    BY <1>1 DEF Resubmit
  <2>2. UNCHANGED <<sq, kernel, cq, disk, durable, loc>>
    BY <1>5, <2>1 DEF Handle, fileVars
  <2>3. pc'[t] = pc[t]
    BY <1>4, <1>5 DEF Handle, Goto
  <2> QED BY <2>2, <2>3 DEF Undisturbed
<1>6. CASE ReadCopy(u)
  BY <1>4, <1>6 DEF ReadCopy, Goto, Undisturbed, fileVars
<1>7. CASE FSyncReset(u)
  BY <1>4, <1>7 DEF FSyncReset, Goto, Undisturbed, fileVars
<1> QED BY <1>3, <1>5, <1>6, <1>7

\* All that can happen while t holds the mutex.
LEMMA LockedStep ==
  ASSUME Shape, NEW t \in Threads, Holds(t), [Next]_vars
  PROVE  \/ Undisturbed(t)
         \/ pc[t] = "sync" /\ SyncReturn(t)
         \/ pc[t] = "read" /\ ReadTake(t)
         \/ KernelComplete \/ KernelFail
<1>1. CASE UNCHANGED vars
  BY <1>1 DEF vars, Undisturbed, fileVars
<1>2. ASSUME NEW u \in Threads, u # t,
             \/ Submit(u)    \/ StartPoll(u)  \/ StartSync(u) \/ StartWait(u)
             \/ StartFSync(u) \/ StartRead(u) \/ Step(u)
      PROVE  Undisturbed(t)
  BY <1>2, LockedOthers
<1>3. CASE \/ Submit(t)    \/ StartPoll(t)  \/ StartSync(t) \/ StartWait(t)
           \/ StartFSync(t) \/ StartRead(t)
  BY <1>3 DEF Submit, StartPoll, StartSync, StartWait, StartFSync, StartRead, Call,
              Holds
<1>4. CASE Step(t)
  <2>1. \/ pc[t] = "sync" /\ SyncReturn(t)
        \/ pc[t] = "read" /\ ReadTake(t)
    BY <1>4 DEF Step, Poll, Handle, SyncReturn, WaitDrain, WaitCheck, FSyncData,
                FSyncReset, ReadTake, ReadCopy, Holds
  <2> QED BY <2>1
<1> QED BY <1>1, <1>2, <1>3, <1>4 DEF Next

\* Only sync_data and read take the mutex and keep it.
LEMMA LockTaken ==
  ASSUME Shape, NEW t \in Threads, ~Holds(t), Holds(t)', [Next]_vars
  PROVE  \/ pc'[t] = "sync" /\ (StartSync(t) \/ FSyncData(t))
         \/ pc'[t] = "read" /\ StartRead(t)
<1>0. pc \in [Threads -> Labels]
  BY DEF Shape, Typed
<1>1. CASE UNCHANGED vars
  BY <1>1 DEF vars, Holds
<1>2. CASE KernelComplete \/ KernelFail
  BY <1>2 DEF KernelComplete, KernelFail, Holds
<1>3. ASSUME NEW u \in Threads, Submit(u) PROVE FALSE
  BY <1>3 DEF Submit, Holds
<1>4. ASSUME NEW u \in Threads, StartPoll(u) \/ Poll(u) PROVE FALSE
  BY <1>0, <1>4 DEF StartPoll, Poll, TakeAll, Goto, Holds
<1>5. ASSUME NEW u \in Threads, StartWait(u) \/ WaitDrain(u) \/ WaitCheck(u) PROVE FALSE
  BY <1>0, <1>5 DEF StartWait, WaitDrain, WaitCheck, DropAll, WaitReturn, Goto, Holds
<1>6. ASSUME NEW u \in Threads, StartFSync(u) PROVE FALSE
  BY <1>0, <1>6 DEF StartFSync, Goto, Holds
<1>7. ASSUME NEW u \in Threads, Handle(u) PROVE FALSE
  BY <1>0, <1>7 DEF Handle, Goto, Holds
<1>8. ASSUME NEW u \in Threads, SyncReturn(u) \/ FSyncReset(u) PROVE FALSE
  BY <1>0, <1>8 DEF SyncReturn, FSyncReset, Goto, Holds
<1>9. ASSUME NEW u \in Threads, ReadTake(u) \/ ReadCopy(u) PROVE FALSE
  BY <1>0, <1>9 DEF ReadTake, ReadCopy, Goto, Holds
<1>10. ASSUME NEW u \in Threads, StartSync(u) \/ FSyncData(u)
       PROVE  u = t /\ pc'[t] = "sync"
  BY <1>0, <1>10 DEF StartSync, FSyncData, SyncData, SyncErr, Goto, Holds
<1>11. ASSUME NEW u \in Threads, StartRead(u)
       PROVE  u = t /\ pc'[t] = "read"
  BY <1>0, <1>11 DEF StartRead, Goto, Holds
<1> QED BY <1>1, <1>2, <1>3, <1>4, <1>5, <1>6, <1>7, <1>8, <1>9, <1>10, <1>11
        DEF Next, Step

-----------------------------------------------------------------------------
(* What a blocked thread waits for *)

\* Its own request, unless there is a completion to wake it.
Served(t) ==
  Holds(t) => \/ cq # <<>>
              \/ \E k \in 1 .. Len(kernel) :
                   kernel[k].of = t /\ kernel[k].id = loc[t].id

\* sync_data that found nothing outstanding: its fsync alone, then the
\* completion of that fsync alone.
SyncAlone(t) ==
  pc[t] = "sync" /\ loc[t].quiet /\ ~loc[t].fsync =>
    \/ /\ cq = <<>> /\ Len(kernel) = 1
       /\ kernel[1].op = "fsync" /\ kernel[1].id = loc[t].id
       /\ disk = loc[t].before
    \/ /\ kernel = <<>> /\ Len(cq) = 1
       /\ cq[1].op = "fsync" /\ cq[1].id = loc[t].id
       /\ cq[1].ok => durable = loc[t].before

\* f_sync that found at most its own write: that write and the drained fsync
\* behind it, then no write.
ResetAlone(t) ==
  pc[t] = "sync" /\ loc[t].quiet /\ loc[t].fsync =>
    /\ sq = <<>>
    /\ \/ /\ cq = <<>> /\ Len(kernel) = 2
          /\ kernel[2].op = "fsync" /\ kernel[2].drain
       \/ \A k \in 1 .. Len(kernel) : kernel[k].op # "write"

Blocked == \A t \in Threads : Served(t) /\ SyncAlone(t) /\ ResetAlone(t)

LEMMA BlockedInit == Init => Blocked
BY DEF Init, Blocked, Served, SyncAlone, ResetAlone, Holds

\* The pushed request is the last of the kernel's.
LEMMA Pushed ==
  ASSUME Shape, HasRoom, NEW r \in Request, EnterOk(Append(sq, r))
  PROVE  /\ sq' = <<>> /\ kernel' \in Seq(Request)
         /\ Len(kernel') = Len(kernel) + Len(sq) + 1
         /\ Alike(kernel'[Len(kernel) + Len(sq) + 1], r)
<1>0. Typed /\ HeadFree
  BY DEF Shape
<1>1. PICK n \in Nat, m \in Nat : n = Len(kernel) /\ m = Len(sq)
  BY <1>0, LenProperties DEF Typed
<1>2. PICK q \in Seq(Request) : /\ q = Append(sq, r) /\ Len(q) = m + 1
                                /\ q[m + 1] = r
  BY <1>0, <1>1, AppendRoom
<1>3. /\ sq' = <<>> /\ kernel' \in Seq(Request)
      /\ Len(kernel') = n + Len(q)
      /\ \A i \in 1 .. Len(q) : Alike(kernel'[n + i], q[i])
  BY <1>0, <1>1, <1>2, EnterOkEffect
<1>4. Alike(kernel'[n + (m + 1)], r)
  BY <1>2, <1>3
<1>5. n + (m + 1) = n + m + 1
  OBVIOUS
<1> QED BY <1>1, <1>2, <1>3, <1>4, <1>5

\* What is outstanding, by where it is.
LEMMA OutstandingLen ==
  ASSUME Shape
  PROVE  /\ Len(Outstanding) = Len(sq) + Len(kernel) + Len(cq)
         /\ Outstanding = <<>> => sq = <<>> /\ kernel = <<>> /\ cq = <<>>
<1>1. PICK S : S = Request \cup Cqe
  OBVIOUS
<1>2. sq \in Seq(S) /\ kernel \in Seq(S) /\ cq \in Seq(S)
  BY <1>1 DEF Shape, Typed
<1>3. sq \o kernel \in Seq(S) /\ Len(sq \o kernel) = Len(sq) + Len(kernel)
  BY <1>2, ConcatProperties
<1>4. /\ Outstanding \in Seq(S)
      /\ Len(Outstanding) = Len(sq) + Len(kernel) + Len(cq)
  BY <1>2, <1>3, ConcatProperties DEF Outstanding
<1>5. ASSUME Outstanding = <<>> PROVE sq = <<>> /\ kernel = <<>> /\ cq = <<>>
  <2>1. Len(sq) \in Nat /\ Len(kernel) \in Nat /\ Len(cq) \in Nat
    BY <1>2, LenProperties
  <2>2. Len(sq) + Len(kernel) + Len(cq) = 0
    BY <1>4, <1>5, EmptySeq
  <2>3. Len(sq) = 0 /\ Len(kernel) = 0 /\ Len(cq) = 0
    BY <2>1, <2>2
  <2> QED BY <1>2, <2>3, EmptySeq
<1> QED BY <1>4, <1>5

\* With nothing submitted, the file is what it will be.
LEMMA AcceptedQuiet ==
  ASSUME Shape, sq = <<>>, kernel = <<>>
  PROVE  Accepted = disk
<1>1. Range(sq) = {} /\ Range(kernel) = {}
  BY EmptyRange
<1>2. disk \in [Buffers -> Nat]
  BY DEF Shape, Typed
<1> QED BY <1>1, <1>2 DEF Accepted

LEMMA BlockedSync ==
  ASSUME Shape, NEW t \in Threads, StartSync(t) \/ FSyncData(t), pc'[t] = "sync"
  PROVE  Served(t)' /\ SyncAlone(t)' /\ ResetAlone(t)'
<1>0. calls \in Nat /\ loc[t] \in Locals /\ pc \in [Threads -> Labels]
      /\ loc \in [Threads -> Locals]
  BY DEF Shape, Typed
<1>1. PICK id \in Nat : /\ SyncData(t, id)
                        /\ pc[t] \in {"idle", "fsync"}
                        /\ UNCHANGED <<cq, disk, durable>>
  BY <1>0 DEF StartSync, FSyncData, Call, Locals, fileVars
<1>2. PICK r \in Request : /\ r = FsyncOf(t, id)
                           /\ r.op = "fsync" /\ r.of = t /\ r.id = id /\ r.drain
  BY FsyncOfType
<1>3. /\ HasRoom /\ EnterOk(Append(sq, r))
      /\ loc' = [loc EXCEPT ![t].quiet = Quiet(t), ![t].id = id,
                            ![t].before = Accepted]
  BY <1>0, <1>1, <1>2 DEF SyncData, SyncErr, Goto
<1>4. /\ loc'[t].quiet = Quiet(t) /\ loc'[t].id = id /\ loc'[t].before = Accepted
      /\ loc'[t].fsync = loc[t].fsync
  <2>1. loc'[t] = [loc[t] EXCEPT !.quiet = Quiet(t), !.id = id, !.before = Accepted]
    BY <1>0, <1>3
  <2> QED BY <1>0, <2>1 DEF Locals
<1>5. PICK n \in Nat, m \in Nat, c \in Nat :
        n = Len(kernel) /\ m = Len(sq) /\ c = Len(cq)
  BY LenProperties DEF Shape, Typed
<1>6. /\ sq' = <<>> /\ kernel' \in Seq(Request) /\ Len(kernel') = n + m + 1
      /\ Alike(kernel'[n + m + 1], r)
  BY <1>3, <1>5, Pushed
<1>7. PICK k \in Nat : k = n + m + 1 /\ k \in 1 .. Len(kernel')
  BY <1>6
<1>8. /\ kernel'[k].op = "fsync" /\ kernel'[k].of = t /\ kernel'[k].id = id
      /\ kernel'[k].drain
  BY <1>2, <1>6, <1>7 DEF Alike
<1>9. Served(t)'
  BY <1>4, <1>7, <1>8 DEF Served
<1>10. SyncAlone(t)'
  <2> SUFFICES ASSUME loc'[t].quiet, ~loc'[t].fsync
               PROVE  /\ cq' = <<>> /\ Len(kernel') = 1
                      /\ kernel'[1].op = "fsync" /\ kernel'[1].id = loc'[t].id
                      /\ disk' = loc'[t].before
      BY DEF SyncAlone
  <2>1. Outstanding = <<>>
    BY <1>4 DEF Quiet
  <2>2. sq = <<>> /\ kernel = <<>> /\ cq = <<>>
    BY <2>1, OutstandingLen
  <2>3. n = 0 /\ m = 0
    BY <1>5, <2>2, EmptySeq
  <2>4. k = 1 /\ Len(kernel') = 1
    BY <1>6, <1>7, <2>3
  <2>5. disk' = loc'[t].before
    BY <1>1, <1>4, <2>2, AcceptedQuiet
  <2> QED BY <1>1, <1>4, <1>8, <2>2, <2>4, <2>5
<1>11. ResetAlone(t)'
  <2> SUFFICES ASSUME loc'[t].quiet, loc'[t].fsync
               PROVE  /\ sq' = <<>>
                      /\ \/ /\ cq' = <<>> /\ Len(kernel') = 2
                            /\ kernel'[2].op = "fsync" /\ kernel'[2].drain
                         \/ \A j \in 1 .. Len(kernel') : kernel'[j].op # "write"
      BY DEF ResetAlone
  <2>1. Outstanding = <<>> \/ Len(Outstanding) = 1
    BY <1>4 DEF Quiet
  <2>2. m + n + c = 0 \/ m + n + c = 1
    BY <1>5, <2>1, OutstandingLen, EmptySeq
  <2>3. CASE m + n = 0
    <3>1. Len(kernel') = 1 /\ k = 1
      BY <1>6, <1>7, <2>3
    <3>2. \A j \in 1 .. Len(kernel') : j = k
      BY <3>1
    <3> QED BY <1>6, <1>8, <3>2
  <2>4. CASE m + n = 1
    <3>1. Len(kernel') = 2 /\ k = 2 /\ c = 0
      BY <1>6, <1>7, <2>2, <2>4
    <3>2. cq' = <<>>
      BY <1>1, <1>5, <3>1, EmptySeq DEF Shape, Typed
    <3> QED BY <1>6, <1>8, <3>1, <3>2
  <2> QED BY <2>2, <2>3, <2>4
<1> QED BY <1>9, <1>10, <1>11

\* A read that starts has its request with the kernel.
LEMMA BlockedRead ==
  ASSUME Shape, NEW t \in Threads, StartRead(t), pc'[t] = "read"
  PROVE  Served(t)' /\ SyncAlone(t)' /\ ResetAlone(t)'
<1>0. Typed /\ calls \in Nat /\ loc[t] \in Locals /\ pc \in [Threads -> Labels]
      /\ loc \in [Threads -> Locals]
  BY DEF Shape, Typed
<1>1. PICK a \in Reads :
        LET r == ReadOf(t, a.offset, a.len) IN
        /\ HasRoom
        /\ EnterOk(Append(sq, r))
        /\ loc' = [loc EXCEPT ![t].id = r.id, ![t].quiet = Quiet(t),
                              ![t].before = Accepted, ![t].offset = a.offset,
                              ![t].len = a.len]
  BY <1>0 DEF StartRead, Call
<1>2. PICK r \in Request : r = ReadOf(t, a.offset, a.len) /\ r.of = t
  BY <1>0, ReadOfType
<1>3. loc'[t].id = r.id
  <2>1. loc'[t] = [loc[t] EXCEPT !.id = r.id, !.quiet = Quiet(t), !.before = Accepted,
                                 !.offset = a.offset, !.len = a.len]
    BY <1>0, <1>1, <1>2
  <2> QED BY <1>0, <2>1 DEF Locals
<1>4. PICK n \in Nat, m \in Nat : n = Len(kernel) /\ m = Len(sq)
  BY LenProperties DEF Shape, Typed
<1>5. /\ Len(kernel') = n + m + 1
      /\ Alike(kernel'[n + m + 1], r)
  BY <1>1, <1>2, <1>4, Pushed
<1>6. PICK k \in 1 .. Len(kernel') : kernel'[k].of = t /\ kernel'[k].id = r.id
  <2>1. n + m + 1 \in 1 .. Len(kernel')
    BY <1>5
  <2> QED BY <1>2, <1>5, <2>1 DEF Alike
<1>7. Served(t)'
  BY <1>3, <1>6 DEF Served
<1>8. SyncAlone(t)' /\ ResetAlone(t)'
  BY DEF SyncAlone, ResetAlone
<1> QED BY <1>7, <1>8

LEMMA CompleteStep ==
  ASSUME Shape, KernelComplete
  PROVE  \E i \in 1 .. Len(kernel) :
           /\ Ready(i) /\ Effect(kernel[i])
           /\ kernel' \in Seq(Request)
           /\ Len(kernel') = (i - 1) + (Len(kernel) - i)
           /\ \A j \in 1 .. Len(kernel') :
                \E h \in 1 .. Len(kernel) : h # i /\ Alike(kernel'[j], kernel[h])
           /\ Len(cq') = Len(cq) + 1
           /\ cq'[Len(cq) + 1] = Completion(kernel[i], TRUE)
<1>0. Typed /\ HeadFree
  BY DEF Shape
<1>1. PICK i \in DOMAIN kernel :
        /\ Ready(i) /\ Effect(kernel[i])
        /\ kernel' = SubSeq(kernel, 1, i - 1)
                       \o Unlink(SubSeq(kernel, i + 1, Len(kernel)))
        /\ cq' = Append(cq, Completion(kernel[i], TRUE))
  BY DEF KernelComplete
<1>2. i \in 1 .. Len(kernel) /\ kernel[i] \in Request
  BY <1>0, LenProperties, ElementOfSeq DEF Typed
<1>3. /\ kernel' \in Seq(Request)
      /\ Len(kernel') = (i - 1) + (Len(kernel) - i)
      /\ \A j \in 1 .. Len(kernel') :
           \E h \in 1 .. Len(kernel) : h # i /\ Alike(kernel'[j], kernel[h])
  BY <1>0, <1>1, <1>2, CompleteEffect
<1>4. Completion(kernel[i], TRUE) \in Cqe /\ cq \in Seq(Cqe)
  BY <1>0, <1>2, CompletionType DEF Typed
<1>5. Len(cq') = Len(cq) + 1 /\ cq'[Len(cq) + 1] = Completion(kernel[i], TRUE)
  <2>1. PICK e \in Cqe : e = Completion(kernel[i], TRUE)
    BY <1>4
  <2>2. cq' = Append(cq, e)
    BY <1>1, <2>1
  <2>3. Len(cq') = Len(cq) + 1 /\ cq'[Len(cq) + 1] = e
    BY <1>4, <2>2, AppendProperties
  <2> QED BY <2>1, <2>3
<1> QED BY <1>1, <1>2, <1>3, <1>5

\* Whatever the kernel does, a request leaves it and is completed; the others
\* are those that were there.
LEMMA KernelStep ==
  ASSUME Shape, KernelComplete \/ KernelFail
  PROVE  \E i \in 1 .. Len(kernel), ok \in BOOLEAN :
           /\ Ready(i)
           /\ ok => Effect(kernel[i])
           /\ ~ok => UNCHANGED <<fileVars, rd>>
           /\ Len(kernel) = 1 => kernel' = <<>> /\ Len(cq') = Len(cq) + 1
           /\ \A j \in 1 .. Len(kernel') :
                \E h \in 1 .. Len(kernel) : h # i /\ Alike(kernel'[j], kernel[h])
           /\ cq' # <<>>
           /\ cq'[Len(cq) + 1] = Completion(kernel[i], ok)
<1>0. cq \in Seq(Cqe) /\ Len(cq) \in Nat /\ Len(kernel) \in Nat
  BY LenProperties DEF Shape, Typed
<1>1. CASE KernelComplete
  <2>1. PICK i \in 1 .. Len(kernel) :
           /\ Ready(i) /\ Effect(kernel[i])
           /\ kernel' \in Seq(Request)
           /\ Len(kernel') = (i - 1) + (Len(kernel) - i)
           /\ \A j \in 1 .. Len(kernel') :
                \E h \in 1 .. Len(kernel) : h # i /\ Alike(kernel'[j], kernel[h])
           /\ Len(cq') = Len(cq) + 1
           /\ cq'[Len(cq) + 1] = Completion(kernel[i], TRUE)
    BY <1>1, CompleteStep
  <2>2. ASSUME Len(kernel) = 1 PROVE kernel' = <<>>
    <3>1. (i - 1) + (Len(kernel) - i) = 0
      BY <2>2
    <3> QED BY <2>1, <3>1, EmptySeq
  <2>3. cq' # <<>>
    <3>1. Len(cq) + 1 # 0 /\ Len(<<>>) = 0
      BY <1>0, EmptySeq
    <3> QED BY <2>1, <3>1
  <2> QED BY <2>1, <2>2, <2>3
<1>2. CASE KernelFail
  <2>1. PICK i \in 1 .. Len(kernel), last \in 1 .. Len(kernel), f \in Seq(Cqe) :
           /\ Ready(i) /\ last >= i
           /\ kernel' \in Seq(Request)
           /\ Len(kernel') = (i - 1) + (Len(kernel) - last)
           /\ \A j \in 1 .. Len(kernel') :
                \E h \in 1 .. Len(kernel) : h # i /\ Alike(kernel'[j], kernel[h])
           /\ cq' = cq \o f /\ Len(f) = last - i + 1 /\ Len(f) > 0
           /\ f[1] = Completion(kernel[i], FALSE)
    BY <1>2, FailStep
  <2>2. PICK n \in Nat, d \in Nat \ {0} : n = Len(cq) /\ d = Len(f)
    BY <1>0, <2>1, LenProperties
  <2>3. /\ Len(cq') = n + d
        /\ \A j \in 1 .. n + d : cq'[j] = IF j <= n THEN cq[j] ELSE f[j - n]
    BY <1>0, <2>1, <2>2, ConcatProperties
  <2>4. n + 1 \in 1 .. n + d /\ ~(n + 1 <= n) /\ (n + 1) - n = 1 /\ n + d # 0
    OBVIOUS
  <2>5. cq'[Len(cq) + 1] = Completion(kernel[i], FALSE)
    BY <2>1, <2>2, <2>3, <2>4
  <2>6. ASSUME Len(kernel) = 1 PROVE kernel' = <<>> /\ Len(cq') = Len(cq) + 1
    <3>1. i = 1 /\ last = 1
      BY <2>6
    <3>2. (i - 1) + (Len(kernel) - last) = 0 /\ last - i + 1 = 1
      BY <2>6, <3>1
    <3>3. d = 1 /\ Len(kernel') = 0
      BY <2>1, <2>2, <3>2
    <3> QED BY <2>1, <2>2, <2>3, <3>3, EmptySeq
  <2>7. cq' # <<>>
    <3>1. Len(<<>>) = 0
      BY EmptySeq
    <3> QED BY <2>3, <2>4, <3>1
  <2>8. UNCHANGED <<fileVars, rd>>
    BY <1>2 DEF KernelFail
  <2> QED BY <2>1, <2>5, <2>6, <2>7, <2>8
<1> QED BY <1>1, <1>2

LEMMA BlockedKernel ==
  ASSUME Shape, KernelComplete \/ KernelFail, NEW t \in Threads,
         SyncAlone(t), ResetAlone(t)
  PROVE  Served(t)' /\ SyncAlone(t)' /\ ResetAlone(t)'
<1>1. PICK i \in 1 .. Len(kernel), ok \in BOOLEAN :
        /\ Ready(i)
        /\ ok => Effect(kernel[i])
        /\ Len(kernel) = 1 => kernel' = <<>> /\ Len(cq') = Len(cq) + 1
        /\ \A j \in 1 .. Len(kernel') :
             \E h \in 1 .. Len(kernel) : h # i /\ Alike(kernel'[j], kernel[h])
        /\ cq' # <<>>
        /\ cq'[Len(cq) + 1] = Completion(kernel[i], ok)
  BY KernelStep
<1>2. pc' = pc /\ loc' = loc /\ sq' = sq
  BY DEF KernelComplete, KernelFail
<1>3. Served(t)'
  BY <1>1 DEF Served
<1>4. SyncAlone(t)'
  <2> SUFFICES ASSUME pc[t] = "sync", loc[t].quiet, ~loc[t].fsync
               PROVE  /\ kernel' = <<>> /\ Len(cq') = 1
                      /\ cq'[1].op = "fsync" /\ cq'[1].id = loc[t].id
                      /\ cq'[1].ok => durable' = loc[t].before
      BY <1>2 DEF SyncAlone
  <2>1. kernel # <<>>
    <3>1. Len(kernel) # 0
      BY LenProperties DEF Shape, Typed
    <3> QED BY <3>1, EmptySeq
  <2>2. /\ cq = <<>> /\ Len(kernel) = 1
        /\ kernel[1].op = "fsync" /\ kernel[1].id = loc[t].id
        /\ disk = loc[t].before
    BY <2>1 DEF SyncAlone
  <2>3. i = 1 /\ Len(cq) = 0
    BY <2>2, EmptySeq
  <2>4. /\ kernel' = <<>> /\ Len(cq') = 1
        /\ cq'[1] = Completion(kernel[1], ok)
    BY <1>1, <2>2, <2>3
  <2>5. cq'[1].op = "fsync" /\ cq'[1].id = loc[t].id /\ cq'[1].ok = ok
    BY <2>2, <2>4 DEF Completion
  <2>6. ok => durable' = loc[t].before
    BY <1>1, <2>2, <2>3 DEF Effect
  <2> QED BY <2>4, <2>5, <2>6
<1>5. ResetAlone(t)'
  <2> SUFFICES ASSUME pc[t] = "sync", loc[t].quiet, loc[t].fsync
               PROVE  /\ sq' = <<>>
                      /\ \A j \in 1 .. Len(kernel') : kernel'[j].op # "write"
      BY <1>2 DEF ResetAlone
  <2>1. \A h \in 1 .. Len(kernel) : h # i => kernel[h].op # "write"
    <3>1. CASE Len(kernel) = 2 /\ kernel[2].op = "fsync" /\ kernel[2].drain
      <4>1. i # 2
        BY <1>1, <3>1 DEF Ready
      <4> QED BY <3>1, <4>1
    <3>2. CASE \A k \in 1 .. Len(kernel) : kernel[k].op # "write"
      BY <3>2
    <3> QED BY <3>1, <3>2 DEF ResetAlone
  <2>2. ASSUME NEW j \in 1 .. Len(kernel') PROVE kernel'[j].op # "write"
    <3>1. PICK h \in 1 .. Len(kernel) : h # i /\ Alike(kernel'[j], kernel[h])
      BY <1>1
    <3> QED BY <2>1, <3>1 DEF Alike
  <2>3. sq' = <<>>
    BY <1>2 DEF ResetAlone
  <2> QED BY <2>2, <2>3
<1> QED BY <1>3, <1>4, <1>5

LEMMA BlockedNext == Shape /\ Blocked /\ [Next]_vars => Blocked'
<1> SUFFICES ASSUME Shape, Blocked, [Next]_vars, NEW t \in Threads
             PROVE  Served(t)' /\ SyncAlone(t)' /\ ResetAlone(t)'
    BY DEF Blocked
<1>0. Served(t) /\ SyncAlone(t) /\ ResetAlone(t)
  BY DEF Blocked
<1>1. CASE ~Holds(t)'
  BY <1>1 DEF Holds, Served, SyncAlone, ResetAlone
<1>2. CASE ~Holds(t) /\ Holds(t)'
  <2>1. \/ pc'[t] = "sync" /\ (StartSync(t) \/ FSyncData(t))
        \/ pc'[t] = "read" /\ StartRead(t)
    BY <1>2, LockTaken
  <2> QED BY <2>1, BlockedSync, BlockedRead
<1>3. CASE Holds(t) /\ Holds(t)'
  <2>1. CASE Undisturbed(t)
    BY <1>0, <2>1 DEF Undisturbed, Served, SyncAlone, ResetAlone, Holds
  <2>2. CASE SyncReturn(t) \/ ReadTake(t)
    <3>1. pc \in [Threads -> Labels]
      BY DEF Shape, Typed
    <3>2. ~Holds(t)'
      BY <2>2, <3>1 DEF SyncReturn, ReadTake, Goto, Holds
    <3> QED BY <1>3, <3>2
  <2>3. CASE KernelComplete \/ KernelFail
    BY <1>0, <2>3, BlockedKernel
  <2> QED BY <1>3, <2>1, <2>2, <2>3, LockedStep
<1> QED BY <1>1, <1>2, <1>3

-----------------------------------------------------------------------------
(* Theorems *)

\* The inductive invariant: the types, what a stored entry and a thread's locals
\* are, and what a thread that blocks in submit_and_wait is waiting for.
THEOREM InvCorrect == Spec => [](Shape /\ Blocked)
<1>1. Init => Shape /\ Blocked
  BY ShapeInit, BlockedInit
<1>2. Shape /\ Blocked /\ [Next]_vars => (Shape /\ Blocked)'
  BY ShapeNext, BlockedNext
<1> QED BY <1>1, <1>2, PTL DEF Spec

\* Types hold, a write belongs to a buffer and any other request to a thread, at
\* most one thread holds the mutex of the ring, and the first request of the
\* kernel waits for none: every link that KernelFail cancels has a head.
THEOREM TypeCorrect == Spec => []TypeOK
<1>1. Shape => TypeOK
  <2> SUFFICES ASSUME Shape PROVE TypeOK
      OBVIOUS
  <2>1. /\ Range(sq) \subseteq Request /\ Range(kernel) \subseteq Request
        /\ Range(cq) \subseteq Cqe
    <3>1. sq \in Seq(Request) /\ kernel \in Seq(Request) /\ cq \in Seq(Cqe)
      BY DEF Shape, Typed
    <3>2. Range(sq) \subseteq Request
      BY <3>1, RangeOf, ElementOfSeq
    <3>3. Range(kernel) \subseteq Request
      BY <3>1, RangeOf, ElementOfSeq
    <3>4. Range(cq) \subseteq Cqe
      BY <3>1, RangeOf, ElementOfSeq
    <3> QED BY <3>2, <3>3, <3>4
  <2>2. \A t \in Threads : Range(got[t]) \subseteq Cqe
    <3> SUFFICES ASSUME NEW t \in Threads PROVE Range(got[t]) \subseteq Cqe
        OBVIOUS
    <3>1. got[t] \in Seq(Cqe)
      BY DEF Shape, Typed
    <3> QED BY <3>1, RangeOf, ElementOfSeq
  <2>3. \A t, u \in Threads : {pc[t], pc[u]} \subseteq {"sync", "read"} => t = u
    BY DEF Shape, OneHolder, Holds
  <2>4. \A b \in Buffers : sqe[b] \subseteq Request
    BY DEF Shape, Typed
  <2> QED BY <2>1, <2>2, <2>3, <2>4 DEF TypeOK, Shape, Typed, HeadFree, Labels
<1> QED BY <1>1, InvCorrect, PTL

\* A thread blocked in submit_and_wait has its own request with the kernel or a
\* completion to take, whoever else uses the ring and whatever fails.
THEOREM ServedCorrect == Spec => []BlockedIsServed
<1>1. Shape /\ Blocked => BlockedIsServed
  <2> SUFFICES ASSUME Shape, Blocked, NEW t \in Threads, Holds(t)
               PROVE  \/ cq # <<>>
                      \/ \E r \in Range(kernel) : r.of = t /\ r.id = loc[t].id
      BY DEF BlockedIsServed, Holds
  <2>1. kernel \in Seq(Request)
    BY DEF Shape, Typed
  <2>2. \A k \in 1 .. Len(kernel) : kernel[k] \in Range(kernel)
    BY <2>1, RangeOf
  <2> QED BY <2>2 DEF Blocked, Served
<1> QED BY <1>1, InvCorrect, PTL

\* A thread leaves sync_data only by SyncReturn.
LEMMA LeavesSync ==
  ASSUME Shape, [Next]_vars, NEW t \in Threads, Leaves(t, "sync")
  PROVE  SyncReturn(t)
<1>1. Holds(t)
  BY DEF Leaves, Holds
<1>2. ~Undisturbed(t)
  BY DEF Leaves, Undisturbed
<1>3. ~(KernelComplete \/ KernelFail)
  BY DEF KernelComplete, KernelFail, Leaves
<1>4. pc[t] = "sync"
  BY DEF Leaves
<1> QED BY <1>1, <1>2, <1>3, <1>4, LockedStep

\* sync_data called with nothing outstanding returns when its own fsync has
\* completed, and unless that failed all that was written before is durable.
THEOREM SyncDurableCorrect == Spec => QuietSyncDurable
<1>1. Shape /\ Blocked /\ [Next]_vars =>
        [\A t \in Threads :
           Leaves(t, "sync") /\ loc[t].quiet /\ ~loc[t].fsync =>
             \E c \in Range(cq) :
               /\ c.op = "fsync" /\ c.id = loc[t].id
               /\ c.ok => \A b \in Buffers : durable[b] >= loc[t].before[b]]_vars
  <2> SUFFICES ASSUME Shape, Blocked, [Next]_vars, NEW t \in Threads,
                      Leaves(t, "sync"), loc[t].quiet, ~loc[t].fsync
               PROVE  \E c \in Range(cq) :
                        /\ c.op = "fsync" /\ c.id = loc[t].id
                        /\ c.ok => \A b \in Buffers : durable[b] >= loc[t].before[b]
      OBVIOUS
  <2>1. pc[t] = "sync" /\ Len(cq) >= 1
    BY LeavesSync DEF SyncReturn, Awaited
  <2>2. cq # <<>>
    BY <2>1, EmptySeq
  <2>3. /\ Len(cq) = 1
        /\ cq[1].op = "fsync" /\ cq[1].id = loc[t].id
        /\ cq[1].ok => durable = loc[t].before
    BY <2>1, <2>2 DEF Blocked, SyncAlone
  <2>4. cq[1] \in Range(cq)
    <3>1. cq \in Seq(Cqe)
      BY DEF Shape, Typed
    <3>2. 1 \in 1 .. Len(cq)
      BY <2>3
    <3> QED BY <3>1, <3>2, RangeOf
  <2>5. \A b \in Buffers : durable[b] \in Nat
    BY DEF Shape, Typed
  <2> QED BY <2>3, <2>4, <2>5
<1> QED BY <1>1, InvCorrect, PTL DEF Spec, QuietSyncDurable

-----------------------------------------------------------------------------
(* A thread's step, seen by the others *)

\* A call made by u.
Calls(u) == \/ Submit(u)    \/ StartPoll(u)  \/ StartSync(u) \/ StartWait(u)
            \/ StartFSync(u) \/ StartRead(u)

\* A step of u leaves the others alone.
LEMMA OthersMoved ==
  ASSUME Shape, NEW u \in Threads, Calls(u) \/ Step(u)
  PROVE  \A t \in Threads \ {u} : pc'[t] = pc[t] /\ loc'[t] = loc[t]
<1>0. pc \in [Threads -> Labels] /\ loc \in [Threads -> Locals]
  BY DEF Shape, Typed
<1>1. CASE Submit(u)
  BY <1>1 DEF Submit, Call
<1>2. CASE StartPoll(u) \/ Poll(u)
  BY <1>0, <1>2 DEF StartPoll, Poll, TakeAll, Goto, Call
<1>3. CASE StartSync(u) \/ FSyncData(u)
  BY <1>0, <1>3 DEF StartSync, FSyncData, SyncData, SyncErr, Goto, Call
<1>4. CASE StartWait(u) \/ WaitDrain(u) \/ WaitCheck(u)
  BY <1>0, <1>4 DEF StartWait, WaitDrain, WaitCheck, DropAll, WaitReturn, Goto, Call
<1>5. CASE StartFSync(u)
  BY <1>0, <1>5 DEF StartFSync, Goto, Call
<1>6. CASE StartRead(u)
  BY <1>0, <1>6 DEF StartRead, Goto, Call
<1>7. CASE Handle(u)
  BY <1>0, <1>7 DEF Handle, Goto
<1>8. CASE SyncReturn(u) \/ FSyncReset(u)
  BY <1>0, <1>8 DEF SyncReturn, FSyncReset, Goto
<1>9. CASE ReadTake(u) \/ ReadCopy(u)
  BY <1>0, <1>9 DEF ReadTake, ReadCopy, Goto
<1> QED BY <1>1, <1>2, <1>3, <1>4, <1>5, <1>6, <1>7, <1>8, <1>9 DEF Calls, Step

LEMMA OthersKept ==
  ASSUME Shape, DOMAIN rd = Threads, NEW u \in Threads, Calls(u) \/ Step(u)
  PROVE  /\ \A t \in Threads \ {u} :
              pc'[t] = pc[t] /\ loc'[t] = loc[t] /\ rd'[t] = rd[t]
         /\ DOMAIN rd' = Threads
         /\ calls' \in {calls, calls + 1}
<1>0. pc \in [Threads -> Labels] /\ loc \in [Threads -> Locals] /\ calls \in Nat
  BY DEF Shape, Typed
<1>1. CASE Submit(u)
  BY <1>1 DEF Submit, Call
<1>2. CASE StartPoll(u) \/ Poll(u)
  BY <1>0, <1>2 DEF StartPoll, Poll, TakeAll, Goto, Call
<1>3. CASE StartSync(u) \/ FSyncData(u)
  BY <1>0, <1>3 DEF StartSync, FSyncData, SyncData, SyncErr, Goto, Call
<1>4. CASE StartWait(u) \/ WaitDrain(u) \/ WaitCheck(u)
  BY <1>0, <1>4 DEF StartWait, WaitDrain, WaitCheck, DropAll, WaitReturn, Goto, Call
<1>5. CASE StartFSync(u)
  BY <1>0, <1>5 DEF StartFSync, Goto, Call
<1>6. CASE StartRead(u)
  BY <1>0, <1>6 DEF StartRead, Goto, Call
<1>7. CASE Handle(u)
  BY <1>0, <1>7 DEF Handle, Goto
<1>8. CASE SyncReturn(u) \/ FSyncReset(u)
  BY <1>0, <1>8 DEF SyncReturn, FSyncReset, Goto
<1>9. CASE ReadTake(u) \/ ReadCopy(u)
  BY <1>0, <1>9 DEF ReadTake, ReadCopy, Goto
<1> QED BY <1>1, <1>2, <1>3, <1>4, <1>5, <1>6, <1>7, <1>8, <1>9 DEF Calls, Step

\* A request that waits after a step of u waited before, is of u's new call, is an
\* fsync, or is the stored write that a failed completion makes u push again.
Pushes(u, x) ==
  \/ x.op = "write" /\ x.id = calls + 1
  \/ x.op = "fsync"
  \/ x.op = "read" /\ x.of = u /\ x.id = calls + 1
  \/ x.op = "write" /\ Handle(u) /\ ~Head(got[u]).ok

LEMMA NewRequest ==
  ASSUME Shape, NEW u \in Threads, Calls(u) \/ Step(u), NEW x \in Requests'
  PROVE  (\E y \in Requests : Alike(x, y)) \/ Pushes(u, x)
<1>0. /\ Typed /\ HeadFree /\ calls \in Nat
      /\ sq \in Seq(Request) /\ kernel \in Seq(Request)
  BY DEF Shape, Typed
<1>1. CASE UNCHANGED <<sq, kernel>>
  <2>1. x \in Requests
    BY <1>1 DEF Requests
  <2> QED BY <2>1 DEF Alike
<1>2. ASSUME NEW r \in Request, HasRoom,
             EnterOk(Append(sq, r)) \/ EnterFails(Append(sq, r))
      PROVE  (\E y \in Requests : Alike(x, y)) \/ Alike(x, r)
  <2>1. PICK q \in Seq(Request) :
          /\ q = Append(sq, r) /\ Len(q) = Len(sq) + 1
          /\ \A i \in 1 .. Len(sq) : q[i] = sq[i]
          /\ q[Len(sq) + 1] = r
    BY <1>0, <1>2, AppendRoom
  <2>2. \/ \E i \in 1 .. Len(kernel) : x = kernel[i]
        \/ \E i \in 1 .. Len(q) : Alike(x, q[i])
    BY <1>0, <1>2, <2>1, EnterFrom
  <2>3. CASE \E i \in 1 .. Len(kernel) : x = kernel[i]
    <3>1. x \in Requests
      BY <1>0, <2>3, InRequests
    <3> QED BY <3>1 DEF Alike
  <2>4. ASSUME NEW i \in 1 .. Len(q), Alike(x, q[i])
        PROVE  (\E y \in Requests : Alike(x, y)) \/ Alike(x, r)
    <3>1. Len(sq) \in Nat
      BY <1>0, LenProperties
    <3>2. CASE i = Len(sq) + 1
      BY <2>1, <2>4, <3>2
    <3>3. CASE i # Len(sq) + 1
      <4>1. i \in 1 .. Len(sq)
        BY <2>1, <3>1, <3>3
      <4>2. sq[i] \in Requests /\ q[i] = sq[i]
        BY <1>0, <2>1, <4>1, InRequests
      <4> QED BY <2>4, <4>2
    <3> QED BY <3>2, <3>3
  <2> QED BY <2>2, <2>3, <2>4
<1>3. ASSUME EnterOk(sq) \/ EnterFails(sq)
      PROVE  \E y \in Requests : Alike(x, y)
  <2>1. \/ \E i \in 1 .. Len(kernel) : x = kernel[i]
        \/ \E i \in 1 .. Len(sq) : Alike(x, sq[i])
    BY <1>0, <1>3, EnterFrom
  <2>2. \/ x \in Requests
        \/ \E y \in Requests : Alike(x, y)
    BY <1>0, <2>1, InRequests
  <2> QED BY <2>2 DEF Alike
<1>4. ASSUME NEW b \in Buffers, SubmitBuffer(b)
      PROVE  (\E y \in Requests : Alike(x, y)) \/ Pushes(u, x)
  <2>1. PICK r \in Request : /\ r = WriteOf(b, calls + 1) /\ r.op = "write"
                             /\ r.id = calls + 1
    <3>1. WriteOf(b, calls + 1).id = calls + 1
      BY DEF WriteOf
    <3> QED BY <1>0, <3>1, WriteOfType
  <2>2. CASE HasRoom
    <3>1. EnterOk(Append(sq, r)) \/ EnterFails(Append(sq, r))
      BY <1>4, <2>1, <2>2 DEF SubmitBuffer
    <3>2. Alike(x, r) => Pushes(u, x)
      BY <2>1 DEF Alike, Pushes
    <3> QED BY <1>2, <2>2, <3>1, <3>2
  <2>3. CASE ~HasRoom
    <3>1. x \in Requests
      BY <1>4, <2>3 DEF SubmitBuffer, Requests
    <3> QED BY <3>1 DEF Alike
  <2> QED BY <2>2, <2>3
<1>5. ASSUME NEW id \in Nat, SyncData(u, id)
      PROVE  (\E y \in Requests : Alike(x, y)) \/ Pushes(u, x)
  <2>1. PICK r \in Request : r = FsyncOf(u, id) /\ r.op = "fsync"
    BY FsyncOfType
  <2>2. CASE HasRoom
    <3>1. EnterOk(Append(sq, r)) \/ EnterFails(Append(sq, r))
      BY <1>5, <2>1, <2>2 DEF SyncData
    <3>2. Alike(x, r) => Pushes(u, x)
      BY <2>1 DEF Alike, Pushes
    <3> QED BY <1>2, <2>2, <3>1, <3>2
  <2>3. CASE ~HasRoom
    <3>1. x \in Requests
      BY <1>5, <2>3 DEF SyncData, Requests
    <3> QED BY <3>1 DEF Alike
  <2> QED BY <2>2, <2>3
<1>6. CASE Submit(u) \/ StartFSync(u)
  BY <1>4, <1>6 DEF Submit, StartFSync
<1>7. CASE StartSync(u) \/ FSyncData(u)
  <2>1. calls + 1 \in Nat /\ loc[u].id \in Nat
    BY <1>0 DEF Typed, Locals
  <2> QED BY <1>5, <1>7, <2>1 DEF StartSync, FSyncData
<1>8. CASE StartRead(u)
  <2>1. PICK a \in Reads :
          LET r == ReadOf(u, a.offset, a.len) IN
          \/ /\ HasRoom
             /\ EnterOk(Append(sq, r)) \/ EnterFails(Append(sq, r))
          \/ UNCHANGED <<sq, kernel>>
    BY <1>8 DEF StartRead
  <2>2. PICK r \in Request : /\ r = ReadOf(u, a.offset, a.len)
                             /\ r.op = "read" /\ r.of = u /\ r.id = calls + 1
    <3>1. /\ ReadOf(u, a.offset, a.len).op = "read"
          /\ ReadOf(u, a.offset, a.len).id = calls + 1
      BY DEF ReadOf
    <3> QED BY <1>0, <3>1, ReadOfType
  <2>3. CASE HasRoom /\ (EnterOk(Append(sq, r)) \/ EnterFails(Append(sq, r)))
    <3>1. (\E y \in Requests : Alike(x, y)) \/ Alike(x, r)
      BY <1>2, <2>3
    <3> QED BY <2>2, <3>1 DEF Alike, Pushes
  <2> QED BY <1>1, <2>1, <2>2, <2>3
<1>9. CASE Handle(u)
  <2>1. CASE UNCHANGED <<sq, kernel>>
    BY <1>1, <2>1
  <2>2. CASE /\ Head(got[u]).op = "write" /\ ~Head(got[u]).ok
             /\ Resubmit(Head(got[u]).of)
    <3>1. got[u] \in Seq(Cqe) /\ got[u] # <<>>
      BY <1>9 DEF Handle, Shape, Typed, HandleHas
    <3>2. PICK b \in Buffers : b = Head(got[u]).of
      BY <2>2, <3>1, TailLeft DEF Cqe, Ours
    <3>3. PICK r \in sqe[b] :
            \/ /\ HasRoom
               /\ EnterOk(Append(sq, r)) \/ EnterFails(Append(sq, r))
            \/ EnterOk(sq) \/ EnterFails(sq)
            \/ UNCHANGED <<sq, kernel>>
      BY <2>2, <3>2 DEF Resubmit
    <3>4. r \in Request /\ r.op = "write"
      BY DEF Shape, Typed, StoredWrites
    <3>5. Alike(x, r) => Pushes(u, x)
      BY <1>9, <2>2, <3>4 DEF Alike, Pushes
    <3> QED BY <1>1, <1>2, <1>3, <3>3, <3>4, <3>5
  <2> QED BY <1>9, <2>1, <2>2 DEF Handle
<1>10. CASE \/ StartPoll(u) \/ Poll(u) \/ StartWait(u) \/ WaitDrain(u) \/ WaitCheck(u)
            \/ SyncReturn(u) \/ FSyncReset(u) \/ ReadTake(u) \/ ReadCopy(u)
  <2>1. UNCHANGED <<sq, kernel>>
    BY <1>10 DEF StartPoll, Poll, TakeAll, StartWait, WaitDrain, DropAll, WaitCheck,
                 SyncReturn, FSyncReset, ReadTake, ReadCopy
  <2> QED BY <1>1, <2>1
<1> QED BY <1>6, <1>7, <1>8, <1>9, <1>10 DEF Calls, Step

LEMMA NewRead ==
  ASSUME Shape, NEW u \in Threads, Calls(u) \/ Step(u), NEW x \in Requests',
         x.op = "read"
  PROVE  \/ \E y \in Requests : Alike(x, y)
         \/ x.of = u /\ x.id = calls + 1
BY NewRequest DEF Pushes

-----------------------------------------------------------------------------
(* The reset of f_sync *)

\* No completion of s is of a failed request.
AllOk(s) == \A i \in 1 .. Len(s) : s[i].ok

\* As long as no request has failed, check_cque has nothing to push again.
NoneFailed == /\ ioFaults \in Nat
              /\ ioFaults = 0 => AllOk(cq) /\ \A t \in Threads : AllOk(got[t])

\* The number of a call was given out.
Numbered(t) == loc[t].id <= calls

\* From the return of sync_data to the reset the write of f_sync is over.
ResetOver(t) ==
  pc[t] = "freset" /\ loc[t].quiet /\ ioFaults = 0 =>
    \A r \in Requests : ~(r.op = "write" /\ r.id = loc[t].id)

Resetting == NoneFailed /\ \A t \in Threads : Numbered(t) /\ ResetOver(t)

LEMMA ResettingInit == Init => Resetting
<1> SUFFICES ASSUME Init PROVE Resetting
    OBVIOUS
<1>1. cq = <<>> /\ ioFaults = 0 /\ calls = 0 /\ \A t \in Threads : got[t] = <<>>
  BY DEF Init
<1>2. NoneFailed
  BY <1>1, EmptySeq DEF NoneFailed, AllOk
<1>3. \A t \in Threads : pc[t] = "idle" /\ loc[t] = NoLocals
  BY DEF Init
<1>4. NoLocals.id = 0
  BY DEF NoLocals
<1> QED BY <1>1, <1>2, <1>3, <1>4 DEF Resetting, Numbered, ResetOver

\* The rest of a sequence of good completions, and one more.
LEMMA TailOk ==
  ASSUME NEW s \in Seq(Cqe), s # <<>>, AllOk(s)
  PROVE  Head(s).ok /\ AllOk(Tail(s))
<1>1. PICK n \in Nat : n = Len(s) /\ n >= 1
  BY LenProperties, EmptySeq
<1>2. /\ Head(s) = s[1] /\ Len(Tail(s)) = n - 1
      /\ \A i \in 1 .. n - 1 : Tail(s)[i] = s[i + 1]
  BY <1>1, HeadTailProperties
<1>3. Head(s).ok
  BY <1>1, <1>2 DEF AllOk
<1>4. ASSUME NEW i \in 1 .. n - 1 PROVE Tail(s)[i].ok
  <2>1. i + 1 \in 1 .. Len(s)
    BY <1>1
  <2> QED BY <1>2, <2>1 DEF AllOk
<1> QED BY <1>2, <1>3, <1>4 DEF AllOk

LEMMA AppendOk ==
  ASSUME NEW s \in Seq(Cqe), NEW c \in Cqe, AllOk(s), c.ok
  PROVE  AllOk(Append(s, c))
<1>1. PICK n \in Nat : n = Len(s)
  BY LenProperties
<1>2. /\ Len(Append(s, c)) = n + 1 /\ Append(s, c)[n + 1] = c
      /\ \A i \in 1 .. n : Append(s, c)[i] = s[i]
  BY <1>1, AppendProperties
<1>3. ASSUME NEW i \in 1 .. n + 1 PROVE Append(s, c)[i].ok
  <2>1. CASE i = n + 1
    BY <1>2, <2>1
  <2>2. CASE i # n + 1
    <3>1. i \in 1 .. n
      BY <2>2
    <3> QED BY <1>1, <1>2, <3>1 DEF AllOk
  <2> QED BY <2>1, <2>2
<1> QED BY <1>2, <1>3 DEF AllOk

LEMMA EmptyOk == AllOk(<<>>)
BY EmptySeq DEF AllOk

\* Only the kernel's failure is counted as a failed request.
LEMMA FaultStep ==
  ASSUME [Next]_vars
  PROVE  \/ KernelFail
         \/ ioFaults' = ioFaults /\ (KernelComplete \/ UNCHANGED vars)
         \/ ioFaults' = ioFaults /\ \E u \in Threads : Calls(u) \/ Step(u)
<1>1. CASE UNCHANGED vars
  BY <1>1 DEF vars
<1>2. CASE KernelComplete
  BY <1>2 DEF KernelComplete
<1>3. ASSUME NEW u \in Threads, Calls(u) PROVE ioFaults' = ioFaults
  BY <1>3 DEF Calls, Submit, StartPoll, TakeAll, StartSync, StartWait, DropAll,
              StartFSync, StartRead
<1>4. ASSUME NEW u \in Threads, Step(u) PROVE ioFaults' = ioFaults
  BY <1>4 DEF Step, Poll, TakeAll, Handle, SyncReturn, WaitDrain, DropAll, WaitCheck,
              FSyncData, FSyncReset, ReadTake, ReadCopy
<1> QED BY <1>1, <1>2, <1>3, <1>4 DEF Next, Calls

LEMMA NoneFailedNext == Shape /\ NoneFailed /\ [Next]_vars => NoneFailed'
<1> SUFFICES ASSUME Shape, NoneFailed, [Next]_vars PROVE NoneFailed'
    OBVIOUS
<1>0. /\ ioFaults \in Nat /\ cq \in Seq(Cqe) /\ got \in [Threads -> Seq(Cqe)]
      /\ kernel \in Seq(Request)
  BY DEF NoneFailed, Shape, Typed
<1>1. CASE KernelFail
  <2>1. ioFaults' = ioFaults + 1
    BY <1>1 DEF KernelFail
  <2> QED BY <1>0, <2>1 DEF NoneFailed
<1>2. CASE ioFaults' = ioFaults
  <2> SUFFICES ASSUME ioFaults = 0
               PROVE  AllOk(cq') /\ \A t \in Threads : AllOk(got'[t])
      BY <1>0, <1>2 DEF NoneFailed, AllOk
  <2>0. AllOk(cq) /\ \A t \in Threads : AllOk(got[t])
    BY DEF NoneFailed
  <2>1. CASE UNCHANGED <<cq, got>>
    BY <2>0, <2>1
  <2>2. ASSUME NEW u \in Threads, TakeAll(u)
        PROVE  AllOk(cq') /\ \A t \in Threads : AllOk(got'[t])
    <3>1. cq' = <<>> /\ got' = [got EXCEPT ![u] = cq]
      BY <2>2 DEF TakeAll
    <3>2. \A t \in Threads : got'[t] = cq \/ got'[t] = got[t]
      BY <1>0, <3>1
    <3> QED BY <2>0, <3>1, <3>2, EmptyOk
  <2>3. ASSUME NEW u \in Threads, Handle(u)
        PROVE  AllOk(cq') /\ \A t \in Threads : AllOk(got'[t])
    <3>1. cq' = cq /\ got' = [got EXCEPT ![u] = Tail(got[u])] /\ got[u] # <<>>
      BY <2>3 DEF Handle, Shape, HandleHas
    <3>2. AllOk(Tail(got[u]))
      BY <1>0, <2>0, <3>1, TailOk
    <3>3. \A t \in Threads : got'[t] = Tail(got[u]) \/ got'[t] = got[t]
      BY <1>0, <3>1
    <3> QED BY <2>0, <3>1, <3>2, <3>3
  <2>4. ASSUME NEW u \in Threads, DropAll(u)
        PROVE  AllOk(cq') /\ \A t \in Threads : AllOk(got'[t])
    BY <2>0, <2>4, EmptyOk DEF DropAll
  <2>5. ASSUME NEW u \in Threads, ReadTake(u)
        PROVE  AllOk(cq') /\ \A t \in Threads : AllOk(got'[t])
    <3>1. cq' = Tail(cq) /\ got' = got /\ Len(cq) >= 1
      BY <2>5 DEF ReadTake, Awaited
    <3>2. cq # <<>>
      BY <3>1, EmptySeq
    <3> QED BY <1>0, <2>0, <3>1, <3>2, TailOk
  <2>6. CASE KernelComplete
    <3>1. PICK i \in DOMAIN kernel : cq' = Append(cq, Completion(kernel[i], TRUE))
      BY <2>6 DEF KernelComplete
    <3>2. kernel[i] \in Request
      BY <1>0, <3>1, ElementOfSeq, LenProperties
    <3>3. Completion(kernel[i], TRUE) \in Cqe /\ Completion(kernel[i], TRUE).ok
      BY <3>2, CompletionType DEF Completion
    <3>4. got' = got
      BY <2>6 DEF KernelComplete
    <3> QED BY <1>0, <2>0, <3>1, <3>3, <3>4, AppendOk
  <2>7. ASSUME NEW u \in Threads, Calls(u) \/ Step(u)
        PROVE  AllOk(cq') /\ \A t \in Threads : AllOk(got'[t])
    <3>1. CASE Submit(u) \/ StartFSync(u) \/ StartRead(u) \/ SyncReturn(u)
               \/ FSyncReset(u) \/ ReadCopy(u) \/ WaitCheck(u)
      BY <2>1, <3>1 DEF Submit, StartFSync, StartRead, SyncReturn, FSyncReset,
                        ReadCopy, WaitCheck
    <3>2. CASE StartSync(u) \/ FSyncData(u)
      BY <2>1, <3>2 DEF StartSync, FSyncData
    <3>3. CASE StartPoll(u) \/ Poll(u) \/ StartWait(u) \/ WaitDrain(u)
      BY <2>2, <2>4, <3>3 DEF StartPoll, Poll, StartWait, WaitDrain
    <3> QED BY <2>3, <2>5, <2>7, <3>1, <3>2, <3>3 DEF Calls, Step
  <2>8. CASE UNCHANGED vars
    BY <2>1, <2>8 DEF vars
  <2>9. ~KernelFail
    <3>1. KernelFail => ioFaults' = ioFaults + 1
      BY DEF KernelFail
    <3> QED BY <1>0, <1>2, <3>1
  <2> QED BY <2>6, <2>7, <2>8, <2>9, FaultStep
<1> QED BY <1>1, <1>2, FaultStep

\* What the kernel has after its step it had before.
LEMMA KernelKeeps ==
  ASSUME Shape, KernelComplete \/ KernelFail, NEW x \in Requests'
  PROVE  \E y \in Requests : Alike(x, y)
<1>1. PICK i \in 1 .. Len(kernel) :
        \A j \in 1 .. Len(kernel') :
          \E h \in 1 .. Len(kernel) : h # i /\ Alike(kernel'[j], kernel[h])
  BY KernelStep
<1>2. sq' = sq /\ kernel \in Seq(Request) /\ sq \in Seq(Request)
  BY DEF KernelComplete, KernelFail, Shape, Typed
<1>3. kernel' \in Seq(Request)
  <2>1. Shape'
    BY ShapeComplete, ShapeFail
  <2> QED BY <2>1 DEF Shape, Typed
<1>4. CASE x \in Range(sq')
  <2>1. x \in Requests
    BY <1>2, <1>4 DEF Requests
  <2> QED BY <2>1 DEF Alike
<1>5. CASE x \in Range(kernel')
  <2>1. PICK j \in 1 .. Len(kernel') : x = kernel'[j]
    BY <1>3, <1>5, RangeOf
  <2>2. PICK h \in 1 .. Len(kernel) : Alike(x, kernel[h])
    BY <1>1, <2>1
  <2>3. kernel[h] \in Requests
    BY <1>2, InRequests
  <2> QED BY <2>2, <2>3
<1> QED BY <1>4, <1>5 DEF Requests

\* A call's number is given out when the call is made.
LEMMA NumberedNext ==
  ASSUME Shape, [Next]_vars, NEW t \in Threads, Numbered(t)
  PROVE  Numbered(t)'
<1>0. /\ calls \in Nat /\ loc \in [Threads -> Locals] /\ loc[t].id \in Nat
      /\ loc[t] \in Locals /\ loc[t].id <= calls
  BY DEF Shape, Typed, Locals, Numbered
<1>1. CASE loc' = loc /\ calls' \in {calls, calls + 1}
  BY <1>0, <1>1 DEF Numbered
<1>2. ASSUME NEW u \in Threads, loc' = [loc EXCEPT ![u] = NoLocals], calls' = calls
      PROVE  Numbered(t)'
  <2>1. loc'[t] = NoLocals \/ loc'[t] = loc[t]
    BY <1>0, <1>2
  <2>2. NoLocals.id = 0
    BY DEF NoLocals
  <2> QED BY <1>0, <1>2, <2>1, <2>2 DEF Numbered
<1>3. ASSUME NEW u \in Threads, loc'[u].id \in {loc[u].id, calls'},
             \A v \in Threads \ {u} : loc'[v] = loc[v],
             calls' \in {calls, calls + 1}
      PROVE  Numbered(t)'
  BY <1>0, <1>3 DEF Numbered
<1>4. ASSUME NEW u \in Threads, NEW id \in Nat, SyncData(u, id),
             id \in {loc[u].id, calls'}, calls' \in {calls, calls + 1}
      PROVE  Numbered(t)'
  <2>1. CASE loc' = loc
    BY <1>1, <1>4, <2>1
  <2>2. CASE loc' = [loc EXCEPT ![u].quiet = Quiet(u), ![u].id = id,
                                ![u].before = Accepted]
    <3>1. /\ loc'[u] = [loc[u] EXCEPT !.quiet = Quiet(u), !.id = id,
                                      !.before = Accepted]
          /\ \A v \in Threads \ {u} : loc'[v] = loc[v]
      BY <1>0, <2>2
    <3>2. loc[u] \in Locals
      BY <1>0
    <3>3. loc'[u].id = id
      BY <3>1, <3>2 DEF Locals
    <3> QED BY <1>3, <1>4, <3>1, <3>3
  <2> QED BY <1>4, <2>1, <2>2 DEF SyncData, SyncErr
<1>5. ASSUME NEW u \in Threads, Calls(u) PROVE Numbered(t)'
  <2>0. calls' = calls + 1
    BY <1>5 DEF Calls, Submit, StartPoll, StartSync, StartWait, StartFSync, StartRead,
                Call
  <2>1. CASE Submit(u) \/ StartPoll(u) \/ StartWait(u)
    BY <1>1, <2>0, <2>1 DEF Submit, StartPoll, TakeAll, StartWait, DropAll
  <2>2. CASE StartSync(u)
    BY <1>0, <1>4, <2>0, <2>2 DEF StartSync
  <2>3. CASE StartFSync(u)
    <3>1. PICK b \in Buffers : loc' = [loc EXCEPT ![u].b = b, ![u].fsync = TRUE,
                                                  ![u].id = calls + 1]
      BY <2>3 DEF StartFSync
    <3>2. /\ loc'[u] = [loc[u] EXCEPT !.b = b, !.fsync = TRUE, !.id = calls + 1]
          /\ \A v \in Threads \ {u} : loc'[v] = loc[v]
      BY <1>0, <3>1
    <3>3. loc[u] \in Locals
      BY <1>0
    <3>4. loc'[u].id = calls + 1
      BY <3>2, <3>3 DEF Locals
    <3> QED BY <1>3, <2>0, <3>2, <3>4
  <2>4. CASE StartRead(u)
    <3>1. CASE loc' = loc
      BY <1>1, <2>0, <3>1
    <3>2. ASSUME NEW a \in Reads, NEW id, id = calls + 1,
                 loc' = [loc EXCEPT ![u].id = id, ![u].quiet = Quiet(u),
                                    ![u].before = Accepted,
                                    ![u].offset = a.offset, ![u].len = a.len]
          PROVE  Numbered(t)'
      <4>1. /\ loc'[u] = [loc[u] EXCEPT !.id = id, !.quiet = Quiet(u),
                                        !.before = Accepted, !.offset = a.offset,
                                        !.len = a.len]
            /\ \A v \in Threads \ {u} : loc'[v] = loc[v]
        BY <1>0, <3>2
      <4>2. loc[u] \in Locals
        BY <1>0
      <4>3. loc'[u].id = id
        BY <4>1, <4>2 DEF Locals
      <4> QED BY <1>3, <2>0, <3>2, <4>1, <4>3
    <3>3. \A a \in Reads : ReadOf(u, a.offset, a.len).id = calls + 1
      BY DEF ReadOf
    <3> QED BY <2>4, <3>1, <3>2, <3>3 DEF StartRead
  <2> QED BY <1>5, <2>1, <2>2, <2>3, <2>4 DEF Calls
<1>6. ASSUME NEW u \in Threads, Step(u) PROVE Numbered(t)'
  <2>1. CASE Poll(u) \/ Handle(u) \/ WaitDrain(u) \/ WaitCheck(u)
    BY <1>1, <2>1 DEF Poll, TakeAll, Handle, WaitDrain, DropAll, WaitCheck
  <2>2. CASE SyncReturn(u) \/ FSyncReset(u) \/ ReadTake(u) \/ ReadCopy(u)
    <3>1. (loc' = loc \/ loc' = [loc EXCEPT ![u] = NoLocals]) /\ calls' = calls
      BY <2>2 DEF SyncReturn, FSyncReset, ReadTake, ReadCopy
    <3> QED BY <1>1, <1>2, <3>1
  <2>3. CASE FSyncData(u)
    <3>1. loc[u].id \in Nat
      BY <1>0 DEF Locals
    <3> QED BY <1>4, <2>3, <3>1 DEF FSyncData
  <2> QED BY <1>6, <2>1, <2>2, <2>3 DEF Step
<1>7. CASE KernelComplete \/ KernelFail \/ UNCHANGED vars
  BY <1>1, <1>7 DEF KernelComplete, KernelFail, vars
<1> QED BY <1>5, <1>6, <1>7 DEF Next, Calls

\* f_sync comes to its reset only by the return of sync_data.
LEMMA OwnReset ==
  ASSUME Shape, NEW t \in Threads, Calls(t) \/ Step(t), pc'[t] = "freset"
  PROVE  SyncReturn(t)
<1>0. pc \in [Threads -> Labels]
  BY DEF Shape, Typed
<1>1. ~Submit(t)
  BY DEF Submit, Call
<1>2. ~StartPoll(t) /\ ~Poll(t)
  BY <1>0 DEF StartPoll, Poll, TakeAll, Goto
<1>3. ~StartSync(t) /\ ~FSyncData(t)
  BY <1>0 DEF StartSync, FSyncData, SyncData, SyncErr, Goto
<1>4. ~StartWait(t) /\ ~WaitDrain(t) /\ ~WaitCheck(t)
  BY <1>0 DEF StartWait, WaitDrain, WaitCheck, DropAll, WaitReturn, Goto
<1>5. ~StartFSync(t) /\ ~Handle(t)
  BY <1>0 DEF StartFSync, Handle, Goto
<1>6. ~FSyncReset(t) /\ ~ReadTake(t) /\ ~ReadCopy(t)
  BY <1>0 DEF FSyncReset, ReadTake, ReadCopy, Goto
<1>7. ~StartRead(t)
  BY <1>0 DEF StartRead, Goto, Call
<1> QED BY <1>1, <1>2, <1>3, <1>4, <1>5, <1>6, <1>7 DEF Calls, Step

\* When sync_data returns to f_sync, no write is left at all.
LEMMA ResetEntered ==
  ASSUME Shape, Blocked, NEW t \in Threads, SyncReturn(t)
  PROVE  ResetOver(t)'
<1> SUFFICES ASSUME pc'[t] = "freset", loc'[t].quiet, NEW r \in Requests'
             PROVE  r.op # "write"
    BY DEF ResetOver
<1>0. pc \in [Threads -> Labels]
  BY DEF Shape, Typed
<1>1. /\ pc[t] = "sync" /\ Len(cq) >= 1 /\ loc[t].fsync /\ loc' = loc
      /\ sq' = sq /\ kernel' = kernel
  BY <1>0 DEF SyncReturn, Awaited, Goto
<1>2. cq # <<>>
  BY <1>1, EmptySeq
<1>3. sq = <<>> /\ \A k \in 1 .. Len(kernel) : kernel[k].op # "write"
  BY <1>1, <1>2 DEF Blocked, ResetAlone
<1>4. r \in Range(kernel) /\ kernel \in Seq(Request)
  BY <1>1, <1>3, EmptyRange DEF Requests, Shape, Typed
<1>5. PICK k \in 1 .. Len(kernel) : r = kernel[k]
  BY <1>4, RangeOf
<1> QED BY <1>3, <1>5

\* Until the reset others may submit the buffer again, but not this write.
LEMMA ResetKept ==
  ASSUME Shape, Resetting, NEW t \in Threads, pc'[t] = pc[t], loc'[t] = loc[t],
         ioFaults' = 0 => ioFaults = 0,
         ioFaults = 0 => \A x \in Requests' :
           \/ \E y \in Requests : Alike(x, y)
           \/ x.op # "write" \/ x.id = calls + 1
  PROVE  ResetOver(t)'
<1> SUFFICES ASSUME pc[t] = "freset", loc[t].quiet, ioFaults = 0,
                    NEW x \in Requests', x.op = "write", x.id = loc[t].id
             PROVE  FALSE
    BY DEF ResetOver
<1>1. \A r \in Requests : ~(r.op = "write" /\ r.id = loc[t].id)
  BY DEF Resetting, ResetOver
<1>2. calls + 1 # loc[t].id
  <2>1. calls \in Nat /\ loc[t].id \in Nat /\ loc[t].id <= calls
    BY DEF Resetting, Numbered, Shape, Typed, Locals
  <2> QED BY <2>1
<1>3. PICK y \in Requests : Alike(x, y)
  BY <1>2
<1> QED BY <1>1, <1>3 DEF Alike

LEMMA ResettingNext ==
  Shape /\ Blocked /\ Resetting /\ [Next]_vars => Resetting'
<1> SUFFICES ASSUME Shape, Blocked, Resetting, [Next]_vars PROVE Resetting'
    OBVIOUS
<1>5. NoneFailed'
  BY NoneFailedNext DEF Resetting
<1>6. \A t \in Threads : Numbered(t)'
  BY NumberedNext DEF Resetting
<1> SUFFICES ASSUME NEW t \in Threads PROVE ResetOver(t)'
    BY <1>5, <1>6 DEF Resetting
<1>0. NoneFailed /\ ioFaults \in Nat
  BY DEF Resetting, NoneFailed
<1>1. CASE KernelFail
  <2>1. ioFaults' = ioFaults + 1
    BY <1>1 DEF KernelFail
  <2> QED BY <1>0, <2>1 DEF ResetOver
<1>2. CASE KernelComplete
  <2>1. pc' = pc /\ loc' = loc /\ ioFaults' = ioFaults
    BY <1>2 DEF KernelComplete
  <2> QED BY <1>2, <2>1, KernelKeeps, ResetKept
<1>3. CASE UNCHANGED vars
  <2>1. UNCHANGED <<sq, kernel, pc, loc, ioFaults>>
    BY <1>3 DEF vars
  <2>2. Requests' = Requests
    BY <2>1 DEF Requests
  <2> QED BY <2>1, <2>2, ResetKept DEF Alike
<1>4. ASSUME NEW u \in Threads, Calls(u) \/ Step(u), ioFaults' = ioFaults
      PROVE  ResetOver(t)'
  <2>1. CASE u = t
    <3>1. CASE pc'[t] = "freset"
      BY <1>4, <2>1, <3>1, OwnReset, ResetEntered
    <3>2. CASE pc'[t] # "freset"
      BY <3>2 DEF ResetOver
    <3> QED BY <3>1, <3>2
  <2>2. CASE u # t
    <3>1. pc'[t] = pc[t] /\ loc'[t] = loc[t]
      BY <1>4, <2>2, OthersMoved
    <3>2. ASSUME ioFaults = 0, Handle(u) PROVE Head(got[u]).ok
      <4>1. AllOk(got[u]) /\ got[u] \in Seq(Cqe) /\ got[u] # <<>>
        BY <1>0, <3>2 DEF NoneFailed, Shape, Typed, HandleHas, Handle
      <4> QED BY <4>1, TailOk
    <3>3. ASSUME ioFaults = 0, NEW x \in Requests'
          PROVE  \/ \E y \in Requests : Alike(x, y)
                 \/ x.op # "write" \/ x.id = calls + 1
      BY <1>4, <3>2, <3>3, NewRequest DEF Pushes
    <3> QED BY <1>4, <3>1, <3>3, ResetKept
  <2> QED BY <2>1, <2>2
<1> QED BY <1>1, <1>2, <1>3, <1>4, FaultStep

\* QuietResetSafe, for any number of threads that run between the unlock of
\* sync_data and the reset: as long as no request has failed, f_sync gives its
\* buffer back with its own write over, if nothing else was outstanding when it
\* called sync_data.
THEOREM ResetSafeCorrect == Spec => QuietResetSafe
<1>1. Spec => [](Shape /\ Blocked /\ Resetting)
  <2>1. Init => Shape /\ Blocked /\ Resetting
    BY ShapeInit, BlockedInit, ResettingInit
  <2>2. Shape /\ Blocked /\ Resetting /\ [Next]_vars
          => (Shape /\ Blocked /\ Resetting)'
    BY ShapeNext, BlockedNext, ResettingNext
  <2> QED BY <2>1, <2>2, PTL DEF Spec
<1>2. Resetting /\ [Next]_vars =>
        [\A t \in Threads :
           Leaves(t, "freset") /\ loc[t].quiet /\ ioFaults = 0 =>
             \A r \in Range(sq) \cup Range(kernel) :
               ~(r.op = "write" /\ r.id = loc[t].id)]_vars
  BY DEF Resetting, ResetOver, Leaves, Requests
<1> QED BY <1>1, <1>2, PTL DEF Spec, QuietResetSafe

-----------------------------------------------------------------------------
(* read *)

\* The pages of the aligned window.
Pages(t) == AlignedLen(loc[t].offset, loc[t].len) \div Page

\* The window holds the file as it was when read was called.
WindowFilled(t) ==
  \A p \in 0 .. Pages(t) - 1 :
    rd[t][p] = Before(t, (AlignedOffset(loc[t].offset) + p * Page) \div Page)

\* read that found nothing outstanding: its request alone, then the completion
\* of that request alone.
ReadAlone(t) ==
  pc[t] = "read" /\ loc[t].quiet =>
    /\ sq = <<>>
    /\ \/ /\ cq = <<>> /\ Len(kernel) = 1
          /\ kernel[1].op = "read" /\ kernel[1].of = t /\ kernel[1].id = loc[t].id
          /\ kernel[1].at = AlignedOffset(loc[t].offset)
          /\ kernel[1].len = AlignedLen(loc[t].offset, loc[t].len)
          /\ disk = loc[t].before
          /\ DOMAIN rd[t] = 0 .. Pages(t) - 1
       \/ /\ kernel = <<>> /\ Len(cq) = 1
          /\ cq[1].ok => WindowFilled(t)

\* Then the kernel has no request left that could write to the window.
CopyAlone(t) ==
  pc[t] = "copy" /\ loc[t].quiet =>
    /\ WindowFilled(t)
    /\ \A r \in Requests : r.op = "read" => r.of # t /\ r.id # loc[t].id

\* A read's number was given out.
ReadNumber(t) == pc[t] \in {"read", "copy"} => loc[t].id <= calls

Reading == /\ DOMAIN rd = Threads
           /\ \A t \in Threads : ReadNumber(t) /\ ReadAlone(t) /\ CopyAlone(t)

LEMMA ReadingInit == Init => Reading
BY DEF Init, Reading, ReadNumber, ReadAlone, CopyAlone

\* The window covers the bytes asked for, and every byte is in the page of the
\* window that holds its page of the file.
InWindow(offset, len, i, p) ==
  /\ p \in 0 .. (AlignedLen(offset, len) \div Page) - 1
  /\ (AlignedOffset(offset) + p * Page) \div Page = (offset + i) \div Page

LEMMA ByteInWindow ==
  ASSUME NEW offset \in Nat, NEW len \in Nat, NEW i \in 0 .. len - 1
  PROVE  InWindow(offset, len, i, ((offset % Page) + i) \div Page)
<1>0. PICK p : p = ((offset % Page) + i) \div Page
  OBVIOUS
<1>1. PICK a \in Nat, o \in Nat : /\ a = offset \div Page /\ o = offset % Page
                                  /\ offset = a * Page + o /\ o < Page
  OBVIOUS
<1>2. p \in Nat /\ p = (o + i) \div Page
  BY <1>0, <1>1
<1>3. PICK n \in Nat : n = (len + o + Page - 1) \div Page
  BY <1>1
<1>4. AlignedLen(offset, len) = n * Page
  BY <1>1, <1>3 DEF AlignedLen, NextMultipleOf
<1>5. AlignedLen(offset, len) \div Page = n
  BY <1>4
<1>6. p < n
  BY <1>1, <1>2, <1>3
<1>7. AlignedOffset(offset) = a * Page
  BY <1>1 DEF AlignedOffset
<1>8. (a * Page + p * Page) \div Page = a + p
  BY <1>1, <1>2
<1>9. (offset + i) \div Page = a + p
  <2>1. PICK q \in Nat : q < Page /\ o + i = p * Page + q
    BY <1>1, <1>2
  <2>2. offset + i = (a + p) * Page + q
    <3>1. PICK x \in Nat, y \in Nat : x = a * Page /\ y = p * Page
      BY <1>2
    <3>2. (a + p) * Page = x + y
      BY <1>2, <3>1
    <3>3. offset = x + o /\ o + i = y + q
      BY <1>1, <2>1, <3>1
    <3> QED BY <3>2, <3>3
  <2>3. a + p \in Nat
    BY <1>1, <1>2
  <2> QED BY <2>1, <2>2, <2>3
<1>10. InWindow(offset, len, i, p)
  BY <1>2, <1>5, <1>6, <1>7, <1>8, <1>9 DEF InWindow
<1> QED BY <1>0, <1>10

LEMMA ReadEntered ==
  ASSUME Shape, Reading, NEW t \in Threads, StartRead(t), pc'[t] = "read"
  PROVE  ReadNumber(t)' /\ ReadAlone(t)' /\ CopyAlone(t)'
<1>0. /\ Typed /\ calls \in Nat /\ loc[t] \in Locals /\ pc \in [Threads -> Labels]
      /\ loc \in [Threads -> Locals] /\ DOMAIN rd = Threads
      /\ calls' = calls + 1 /\ UNCHANGED <<cq, disk>> /\ pc[t] = "idle"
  BY DEF Shape, Typed, Reading, StartRead, Call, fileVars
<1>1. PICK a \in Reads :
        LET r == ReadOf(t, a.offset, a.len) IN
        /\ HasRoom
        /\ EnterOk(Append(sq, r))
        /\ rd' = [rd EXCEPT ![t] = [i \in 0 .. r.len \div Page - 1 |-> 0]]
        /\ loc' = [loc EXCEPT ![t].id = r.id, ![t].quiet = Quiet(t),
                              ![t].before = Accepted, ![t].offset = a.offset,
                              ![t].len = a.len]
  BY <1>0 DEF StartRead
<1>2. PICK r \in Request : /\ r = ReadOf(t, a.offset, a.len)
                           /\ r.op = "read" /\ r.of = t /\ r.id = calls + 1
  BY <1>0, ReadOfType
<1>3. r.at = AlignedOffset(a.offset) /\ r.len = AlignedLen(a.offset, a.len)
  BY <1>2 DEF ReadOf
<1>4. /\ loc'[t].id = r.id /\ loc'[t].quiet = Quiet(t) /\ loc'[t].before = Accepted
      /\ loc'[t].offset = a.offset /\ loc'[t].len = a.len
  <2>1. loc'[t] = [loc[t] EXCEPT !.id = r.id, !.quiet = Quiet(t), !.before = Accepted,
                                 !.offset = a.offset, !.len = a.len]
    BY <1>0, <1>1, <1>2
  <2> QED BY <1>0, <2>1 DEF Locals
<1>5. DOMAIN rd'[t] = 0 .. Pages(t)' - 1
  <2>1. rd'[t] = [i \in 0 .. r.len \div Page - 1 |-> 0]
    BY <1>0, <1>1, <1>2
  <2>2. Pages(t)' = r.len \div Page
    BY <1>3, <1>4 DEF Pages
  <2> QED BY <2>1, <2>2
<1>6. ReadNumber(t)'
  BY <1>0, <1>2, <1>4 DEF ReadNumber
<1>7. ReadAlone(t)'
  <2> SUFFICES ASSUME loc'[t].quiet
               PROVE  /\ sq' = <<>>
                      /\ cq' = <<>> /\ Len(kernel') = 1
                      /\ kernel'[1].op = "read" /\ kernel'[1].of = t
                      /\ kernel'[1].id = loc'[t].id
                      /\ kernel'[1].at = AlignedOffset(loc'[t].offset)
                      /\ kernel'[1].len = AlignedLen(loc'[t].offset, loc'[t].len)
                      /\ disk' = loc'[t].before
      BY <1>5 DEF ReadAlone
  <2>1. ~loc[t].fsync
    BY <1>0 DEF Shape, NoFSync
  <2>2. Outstanding = <<>>
    BY <1>4, <2>1 DEF Quiet
  <2>3. sq = <<>> /\ kernel = <<>> /\ cq = <<>>
    BY <2>2, OutstandingLen
  <2>4. Len(kernel) = 0 /\ Len(sq) = 0
    BY <2>3, EmptySeq
  <2>5. /\ sq' = <<>> /\ Len(kernel') = Len(kernel) + Len(sq) + 1
        /\ Alike(kernel'[Len(kernel) + Len(sq) + 1], r)
    BY <1>1, <1>2, Pushed
  <2>6. Len(kernel) + Len(sq) + 1 = 1
    BY <2>4
  <2>7. Len(kernel') = 1 /\ Alike(kernel'[1], r)
    BY <2>5, <2>6
  <2>8. disk' = loc'[t].before
    BY <1>0, <1>4, <2>3, AcceptedQuiet
  <2> QED BY <1>0, <1>2, <1>3, <1>4, <2>3, <2>5, <2>7, <2>8 DEF Alike
<1>8. CopyAlone(t)'
  BY DEF CopyAlone
<1> QED BY <1>6, <1>7, <1>8

\* The completion read takes is its own, and nothing is left behind.
LEMMA ReadTaken ==
  ASSUME Shape, Reading, NEW t \in Threads, ReadTake(t)
  PROVE  ReadNumber(t)' /\ ReadAlone(t)' /\ CopyAlone(t)'
<1>0. /\ pc \in [Threads -> Labels] /\ ReadNumber(t) /\ ReadAlone(t)
      /\ cq \in Seq(Cqe)
  BY DEF Shape, Typed, Reading
<1>1. /\ pc[t] = "read" /\ Len(cq) >= 1
      /\ \/ Head(cq).ok /\ Goto(t, "copy") /\ UNCHANGED <<loc, rd>>
         \/ Goto(t, "idle")
      /\ UNCHANGED <<sq, kernel, calls>>
  BY DEF ReadTake, Awaited
<1>2. CASE Goto(t, "idle")
  <2>1. pc'[t] = "idle"
    BY <1>0, <1>2 DEF Goto
  <2> QED BY <2>1 DEF ReadNumber, ReadAlone, CopyAlone
<1>3. CASE Head(cq).ok /\ Goto(t, "copy") /\ UNCHANGED <<loc, rd>>
  <2>1. pc'[t] = "copy"
    BY <1>0, <1>3 DEF Goto
  <2>2. cq # <<>>
    BY <1>1, EmptySeq
  <2>3. Head(cq) = cq[1]
    BY <1>0, <2>2, HeadTailProperties
  <2>4. ASSUME loc[t].quiet
        PROVE  WindowFilled(t) /\ Requests = {}
    <3>1. sq = <<>> /\ kernel = <<>> /\ WindowFilled(t)
      BY <1>0, <1>1, <1>3, <2>2, <2>3, <2>4 DEF ReadAlone
    <3> QED BY <3>1, EmptyRange DEF Requests
  <2>5. WindowFilled(t)' <=> WindowFilled(t)
    BY <1>3 DEF WindowFilled, Pages, Before
  <2>6. Requests' = Requests
    BY <1>1 DEF Requests
  <2>7. CopyAlone(t)'
    BY <1>3, <2>4, <2>5, <2>6 DEF CopyAlone
  <2>8. ReadNumber(t)' /\ ReadAlone(t)'
    BY <1>0, <1>1, <1>3, <2>1 DEF ReadNumber, ReadAlone
  <2> QED BY <2>7, <2>8
<1> QED BY <1>1, <1>2, <1>3

\* What a step of another thread, or nothing at all, does to a read.
LEMMA ReadKept ==
  ASSUME Shape, Reading, NEW t \in Threads,
         pc'[t] = pc[t], loc'[t] = loc[t], rd'[t] = rd[t],
         calls' \in {calls, calls + 1},
         Holds(t) => UNCHANGED <<sq, kernel, cq, disk>>,
         \A x \in Requests' : x.op = "read" =>
           \/ \E y \in Requests : Alike(x, y)
           \/ x.of # t /\ x.id = calls + 1
  PROVE  ReadNumber(t)' /\ ReadAlone(t)' /\ CopyAlone(t)'
<1>0. /\ ReadNumber(t) /\ ReadAlone(t) /\ CopyAlone(t)
      /\ calls \in Nat /\ loc[t].id \in Nat
  BY DEF Reading, Shape, Typed, Locals
<1>1. WindowFilled(t)' <=> WindowFilled(t)
  BY DEF WindowFilled, Pages, Before
<1>2. Pages(t)' = Pages(t)
  BY DEF Pages
<1>3. ReadNumber(t)'
  BY <1>0 DEF ReadNumber
<1>4. ReadAlone(t)'
  BY <1>0, <1>1, <1>2 DEF ReadAlone, Holds
<1>5. CopyAlone(t)'
  <2> SUFFICES ASSUME pc[t] = "copy", loc[t].quiet
               PROVE  /\ WindowFilled(t)'
                      /\ \A x \in Requests' :
                           x.op = "read" => x.of # t /\ x.id # loc[t].id
      BY DEF CopyAlone
  <2>1. /\ WindowFilled(t) /\ loc[t].id <= calls
        /\ \A r \in Requests : r.op = "read" => r.of # t /\ r.id # loc[t].id
    BY <1>0 DEF CopyAlone, ReadNumber
  <2>2. ASSUME NEW x \in Requests', x.op = "read"
        PROVE  x.of # t /\ x.id # loc[t].id
    <3>1. CASE \E y \in Requests : Alike(x, y)
      BY <2>1, <2>2, <3>1 DEF Alike
    <3>2. CASE x.of # t /\ x.id = calls + 1
      <4>1. calls + 1 # loc[t].id
        BY <1>0, <2>1
      <4> QED BY <3>2, <4>1
    <3> QED BY <2>2, <3>1, <3>2
  <2> QED BY <1>1, <2>1, <2>2
<1> QED BY <1>3, <1>4, <1>5

\* A completed request writes to no other thread's window.
LEMMA EffectOnWindow ==
  ASSUME DOMAIN rd = Threads, NEW r \in Request, Effect(r)
  PROVE  /\ DOMAIN rd' = Threads
         /\ \A t \in Threads : r.op # "read" \/ r.of # t => rd'[t] = rd[t]
<1>1. CASE r.op # "read"
  BY <1>1 DEF Effect
<1>2. CASE r.op = "read"
  <2>1. r.of \in Threads
    BY <1>2 DEF Request, Ours
  <2>2. rd' \in Filled(r)
    BY <1>2 DEF Effect
  <2>3. PICK w : rd' \in {rd, [rd EXCEPT ![r.of] = w]}
    BY <2>2 DEF Filled
  <2> QED BY <1>2, <2>1, <2>3
<1> QED BY <1>1, <1>2

\* The read fills the whole window with the file's pages.
LEMMA WindowRead ==
  ASSUME DOMAIN rd = Threads, NEW t \in Threads, NEW r \in Request, Effect(r),
         r.op = "read", r.of = t, r.id = loc[t].id, loc' = loc,
         r.at = AlignedOffset(loc[t].offset),
         r.len = AlignedLen(loc[t].offset, loc[t].len),
         disk = loc[t].before, DOMAIN rd[t] = 0 .. Pages(t) - 1, Pages(t) \in Int
  PROVE  WindowFilled(t)'
<1>1. rd' \in Filled(r)
  BY DEF Effect
<1>2. r.len \div Page = Pages(t)
  BY DEF Pages
<1>3. rd' = [rd EXCEPT ![t] = [i \in DOMAIN rd[t] |->
               IF i < Pages(t) THEN PageAt(r.at + i * Page) ELSE rd[t][i]]]
  BY <1>1, <1>2 DEF Filled
<1>4. rd'[t] = [i \in 0 .. Pages(t) - 1 |->
                  IF i < Pages(t) THEN PageAt(r.at + i * Page) ELSE rd[t][i]]
  BY <1>3
<1>5. ASSUME NEW p \in 0 .. Pages(t) - 1
      PROVE  rd'[t][p] = Before(t, (r.at + p * Page) \div Page)
  <2>1. p < Pages(t)
    OBVIOUS
  <2>2. rd'[t][p] = PageAt(r.at + p * Page)
    BY <1>4, <2>1
  <2>3. PageAt(r.at + p * Page) = Before(t, (r.at + p * Page) \div Page)
    BY DEF PageAt, Before
  <2> QED BY <2>2, <2>3
<1>6. Pages(t)' = Pages(t) /\ \A q : Before(t, q)' = Before(t, q)
  BY DEF Pages, Before
<1> QED BY <1>5, <1>6 DEF WindowFilled

LEMMA PagesType == Shape => \A t \in Threads : Pages(t) \in Int
<1> SUFFICES ASSUME Shape, NEW t \in Threads PROVE Pages(t) \in Int
    OBVIOUS
<1>1. PICK offset \in Nat, len \in Nat : offset = loc[t].offset /\ len = loc[t].len
  BY DEF Shape, Typed, Locals
<1>2. PICK o \in Nat : o = offset % Page
  OBVIOUS
<1>3. PICK n \in Nat : n = (len + o) + Page - 1
  OBVIOUS
<1>4. PICK m \in Nat : m = n \div Page
  OBVIOUS
<1>5. AlignedLen(offset, len) = m * Page
  BY <1>2, <1>3, <1>4 DEF AlignedLen, NextMultipleOf
<1>6. (m * Page) \div Page \in Int
  OBVIOUS
<1> QED BY <1>1, <1>5, <1>6 DEF Pages

LEMMA ReadKernel ==
  ASSUME Shape, Reading, KernelComplete \/ KernelFail
  PROVE  Reading'
<1>1. PICK i \in 1 .. Len(kernel), ok \in BOOLEAN :
        /\ Ready(i)
        /\ ok => Effect(kernel[i])
        /\ ~ok => UNCHANGED <<fileVars, rd>>
        /\ Len(kernel) = 1 => kernel' = <<>> /\ Len(cq') = Len(cq) + 1
        /\ \A j \in 1 .. Len(kernel') :
             \E h \in 1 .. Len(kernel) : h # i /\ Alike(kernel'[j], kernel[h])
        /\ cq' # <<>>
        /\ cq'[Len(cq) + 1] = Completion(kernel[i], ok)
  BY KernelStep
<1>2. pc' = pc /\ loc' = loc /\ sq' = sq /\ calls' = calls
  BY DEF KernelComplete, KernelFail
<1>3. /\ kernel \in Seq(Request) /\ sq \in Seq(Request) /\ Len(kernel) \in Nat
      /\ kernel[i] \in Request /\ DOMAIN rd = Threads
  BY LenProperties, ElementOfSeq DEF Shape, Typed, Reading
<1>5. /\ DOMAIN rd' = Threads
      /\ \A t \in Threads :
           kernel[i].op # "read" \/ kernel[i].of # t => rd'[t] = rd[t]
  BY <1>1, <1>3, EffectOnWindow
<1>6. \A x \in Requests' : \E y \in Requests : Alike(x, y)
  BY KernelKeeps
<1>7. ASSUME NEW t \in Threads
      PROVE  ReadNumber(t)' /\ ReadAlone(t)' /\ CopyAlone(t)'
  <2>0. ReadNumber(t) /\ ReadAlone(t) /\ CopyAlone(t)
    BY DEF Reading
  <2>1. CASE pc[t] = "copy" /\ loc[t].quiet
    <3>1. kernel[i] \in Requests
      BY <1>3, InRequests
    <3>2. kernel[i].op # "read" \/ kernel[i].of # t
      BY <2>0, <2>1, <3>1 DEF CopyAlone
    <3>3. rd'[t] = rd[t] /\ pc'[t] = pc[t] /\ loc'[t] = loc[t]
      BY <1>2, <1>5, <3>2
    <3>4. ~Holds(t)
      BY <2>1 DEF Holds
    <3> QED BY <1>2, <1>6, <3>3, <3>4, ReadKept
  <2>2. CASE pc[t] = "read" /\ loc[t].quiet
    <3>1. kernel # <<>>
      <4>1. Len(kernel) # 0
        BY <1>3
      <4> QED BY <4>1, EmptySeq
    <3>2. /\ sq = <<>> /\ cq = <<>> /\ Len(kernel) = 1
          /\ kernel[1].op = "read" /\ kernel[1].of = t /\ kernel[1].id = loc[t].id
          /\ kernel[1].at = AlignedOffset(loc[t].offset)
          /\ kernel[1].len = AlignedLen(loc[t].offset, loc[t].len)
          /\ disk = loc[t].before
          /\ DOMAIN rd[t] = 0 .. Pages(t) - 1
      BY <2>0, <2>2, <3>1 DEF ReadAlone
    <3>3. i = 1 /\ Len(cq) = 0
      BY <3>2, EmptySeq
    <3>4. /\ kernel' = <<>> /\ Len(cq') = 1
          /\ cq'[1] = Completion(kernel[1], ok)
      BY <1>1, <3>2, <3>3
    <3>5. cq'[1].ok = ok
      BY <3>4 DEF Completion
    <3>6. ok => WindowFilled(t)'
      BY <1>1, <1>2, <1>3, <3>2, <3>3, PagesType, WindowRead
    <3>7. ReadAlone(t)'
      BY <1>2, <3>2, <3>4, <3>5, <3>6 DEF ReadAlone
    <3> QED BY <1>2, <2>0, <2>2, <3>7 DEF ReadNumber, CopyAlone
  <2>3. CASE ~loc[t].quiet \/ pc[t] \notin {"read", "copy"}
    BY <1>2, <2>0, <2>3 DEF ReadNumber, ReadAlone, CopyAlone
  <2> QED BY <2>1, <2>2, <2>3
<1> QED BY <1>5, <1>7 DEF Reading

\* A thread is in read only by its own steps.
LEMMA OwnRead ==
  ASSUME Shape, NEW t \in Threads, Calls(t) \/ Step(t), pc'[t] \in {"read", "copy"}
  PROVE  (StartRead(t) /\ pc'[t] = "read") \/ ReadTake(t)
<1>0. pc \in [Threads -> Labels]
  BY DEF Shape, Typed
<1>1. ~Submit(t)
  BY DEF Submit, Call
<1>2. ~StartPoll(t) /\ ~Poll(t)
  BY <1>0 DEF StartPoll, Poll, TakeAll, Goto
<1>3. ~StartSync(t) /\ ~FSyncData(t)
  BY <1>0 DEF StartSync, FSyncData, SyncData, SyncErr, Goto
<1>4. ~StartWait(t) /\ ~WaitDrain(t) /\ ~WaitCheck(t)
  BY <1>0 DEF StartWait, WaitDrain, WaitCheck, DropAll, WaitReturn, Goto
<1>5. ~StartFSync(t) /\ ~Handle(t)
  BY <1>0 DEF StartFSync, Handle, Goto
<1>6. ~SyncReturn(t) /\ ~FSyncReset(t) /\ ~ReadCopy(t)
  BY <1>0 DEF SyncReturn, FSyncReset, ReadCopy, Goto
<1>7. StartRead(t) => pc'[t] = "read"
  BY <1>0 DEF StartRead, Goto, Call
<1> QED BY <1>1, <1>2, <1>3, <1>4, <1>5, <1>6, <1>7 DEF Calls, Step

LEMMA ReadingNext == Shape /\ Reading /\ [Next]_vars => Reading'
<1> SUFFICES ASSUME Shape, Reading, [Next]_vars PROVE Reading'
    OBVIOUS
<1>0. DOMAIN rd = Threads
  BY DEF Reading
<1>1. CASE UNCHANGED vars
  <2>1. UNCHANGED <<sq, kernel, cq, disk, durable, pc, loc, rd, calls>>
    BY <1>1 DEF vars, fileVars
  <2>2. Requests' = Requests
    BY <2>1 DEF Requests
  <2>3. ASSUME NEW t \in Threads
        PROVE  ReadNumber(t)' /\ ReadAlone(t)' /\ CopyAlone(t)'
    BY <2>1, <2>2, ReadKept DEF Alike
  <2> QED BY <1>0, <2>1, <2>3 DEF Reading
<1>2. CASE KernelComplete \/ KernelFail
  BY <1>2, ReadKernel
<1>3. ASSUME NEW u \in Threads, Calls(u) \/ Step(u) PROVE Reading'
  <2>1. /\ \A t \in Threads \ {u} :
             pc'[t] = pc[t] /\ loc'[t] = loc[t] /\ rd'[t] = rd[t]
        /\ DOMAIN rd' = Threads
        /\ calls' \in {calls, calls + 1}
    BY <1>0, <1>3, OthersKept
  <2>2. ASSUME NEW t \in Threads, t # u
        PROVE  ReadNumber(t)' /\ ReadAlone(t)' /\ CopyAlone(t)'
    <3>1. Holds(t) => UNCHANGED <<sq, kernel, cq, disk>>
      BY <1>3, <2>2, LockedOthers DEF Calls, Undisturbed
    <3>2. \A x \in Requests' : x.op = "read" =>
            \/ \E y \in Requests : Alike(x, y)
            \/ x.of # t /\ x.id = calls + 1
      BY <1>3, <2>2, NewRead
    <3> QED BY <2>1, <2>2, <3>1, <3>2, ReadKept
  <2>3. ReadNumber(u)' /\ ReadAlone(u)' /\ CopyAlone(u)'
    <3>1. CASE pc'[u] \in {"read", "copy"}
      BY <1>3, <3>1, OwnRead, ReadEntered, ReadTaken
    <3>2. CASE pc'[u] \notin {"read", "copy"}
      BY <3>2 DEF ReadNumber, ReadAlone, CopyAlone
    <3> QED BY <3>1, <3>2
  <2> QED BY <2>1, <2>2, <2>3 DEF Reading
<1> QED BY <1>1, <1>2, <1>3 DEF Next, Calls

\* QuietReadCorrect, for every offset, length and page size: read called with
\* nothing outstanding returns the bytes that the file held then, from every page
\* the range touches, and its window is freed with no request of the kernel's left
\* that could write to it.
THEOREM ReadCorrect == Spec => QuietReadCorrect
<1>1. Spec => [](Shape /\ Reading)
  <2>1. Init => Shape /\ Reading
    BY ShapeInit, ReadingInit
  <2>2. Shape /\ Reading /\ [Next]_vars => (Shape /\ Reading)'
    BY ShapeNext, ReadingNext
  <2> QED BY <2>1, <2>2, PTL DEF Spec
<1>2. Shape /\ Reading /\ [Next]_vars =>
        [\A t \in Threads :
           Leaves(t, "copy") /\ loc[t].quiet =>
             /\ \A i \in 0 .. loc[t].len - 1 :
                  Copied(t, i) = Before(t, (loc[t].offset + i) \div Page)
             /\ \A r \in Range(sq) \cup Range(kernel) :
                  ~(r.op = "read" /\ r.id = loc[t].id)]_vars
  <2> SUFFICES ASSUME Shape, Reading, NEW t \in Threads,
                      Leaves(t, "copy"), loc[t].quiet
               PROVE  /\ \A i \in 0 .. loc[t].len - 1 :
                           Copied(t, i) = Before(t, (loc[t].offset + i) \div Page)
                      /\ \A r \in Range(sq) \cup Range(kernel) :
                           ~(r.op = "read" /\ r.id = loc[t].id)
      OBVIOUS
  <2>1. /\ WindowFilled(t)
        /\ \A r \in Requests : r.op = "read" => r.of # t /\ r.id # loc[t].id
    BY DEF Reading, CopyAlone, Leaves
  <2>2. loc[t].offset \in Nat /\ loc[t].len \in Nat
    BY DEF Shape, Typed, Locals
  <2>3. ASSUME NEW i \in 0 .. loc[t].len - 1
        PROVE  Copied(t, i) = Before(t, (loc[t].offset + i) \div Page)
    <3>1. PICK p : p = ((loc[t].offset % Page) + i) \div Page
      OBVIOUS
    <3>2. /\ p \in 0 .. Pages(t) - 1
          /\ (AlignedOffset(loc[t].offset) + p * Page) \div Page
               = (loc[t].offset + i) \div Page
      <4>1. InWindow(loc[t].offset, loc[t].len, i, p)
        BY <2>2, <3>1, ByteInWindow
      <4> QED BY <4>1 DEF InWindow, Pages
    <3>3. rd[t][p] = Before(t, (AlignedOffset(loc[t].offset) + p * Page) \div Page)
      BY <2>1, <3>2 DEF WindowFilled
    <3> QED BY <3>1, <3>2, <3>3 DEF Copied
  <2> QED BY <2>1, <2>3 DEF Requests
<1> QED BY <1>1, <1>2, PTL DEF Spec, QuietReadCorrect

=============================================================================
