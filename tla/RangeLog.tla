------------------------------ MODULE RangeLog ------------------------------
(***************************************************************************)
(* What a writer of a log-structured file promises about file positions:   *)
(* ranges are claimed one after the other without gaps, writes finish in   *)
(* any order, and a range is reported only after its write has finished.   *)
(***************************************************************************)
EXTENDS Integers, TLAPS

VARIABLES
  end,        \* the next position to be claimed
  claimed,    \* ranges handed out so far
  finished,   \* ranges the kernel is done with
  reported    \* ranges returned to the caller

vars == <<end, claimed, finished, reported>>

Init == end = 0 /\ claimed = {} /\ finished = {} /\ reported = {}

Claim ==
  /\ end' \in Nat /\ end' > end
  /\ claimed' = claimed \cup {[at |-> end, len |-> end' - end]}
  /\ UNCHANGED <<finished, reported>>

Finish ==
  /\ \E r \in claimed \ finished : finished' = finished \cup {r}
  /\ UNCHANGED <<end, claimed, reported>>

Report ==
  /\ reported \subseteq reported' /\ reported' \subseteq finished
  /\ UNCHANGED <<end, claimed, finished>>

Next == Claim \/ Finish \/ Report

Spec == Init /\ [][Next]_vars

\* The claimed ranges lie apart and fill the file from its start to its end.
Tiled ==
  /\ \A r, s \in claimed : r # s => r.at + r.len <= s.at \/ s.at + s.len <= r.at
  /\ \A a \in 0 .. end - 1 : \E r \in claimed : r.at <= a /\ a < r.at + r.len

-----------------------------------------------------------------------------
(* The promise follows from the actions.  A new range starts where all the   *)
(* others end, so the invariant adds that no range reaches past the end.     *)

\* Every range lies before the end of the file.
Claims ==
  /\ end \in Nat
  /\ \A r \in claimed : r.at \in Nat /\ r.len \in Nat /\ r.at + r.len <= end

LEMMA TiledStep == Claims /\ Tiled /\ [Next]_vars => Claims' /\ Tiled'
<1> SUFFICES ASSUME Claims, Tiled, [Next]_vars
             PROVE  Claims' /\ Tiled'
    OBVIOUS
<1>1. CASE Claim
  <2>1. PICK e \in Nat : /\ end' = e /\ e > end
                         /\ claimed' = claimed \cup {[at |-> end, len |-> e - end]}
    BY <1>1 DEF Claim
  <2> DEFINE new == [at |-> end, len |-> e - end]
  <2>2. /\ end \in Nat /\ new \in claimed'
        /\ new.at = end /\ new.len \in Nat /\ new.at + new.len = e
    BY <2>1 DEF Claims
  <2>3. claimed' = claimed \cup {new}
    BY <2>1
  <2> HIDE DEF new
  <2>4. Claims'
    BY <2>1, <2>2, <2>3 DEF Claims
  <2>5. ASSUME NEW r \in claimed', NEW s \in claimed', r # s
        PROVE  r.at + r.len <= s.at \/ s.at + s.len <= r.at
    BY <2>2, <2>3, <2>5 DEF Claims, Tiled
  <2>6. ASSUME NEW a \in 0 .. end' - 1
        PROVE  \E r \in claimed' : r.at <= a /\ a < r.at + r.len
    <3>1. CASE a < end
      BY <3>1, <2>1, <2>2, <2>3 DEF Tiled
    <3>2. CASE a >= end
      BY <3>2, <2>1, <2>2
    <3> QED BY <3>1, <3>2, <2>1, <2>2
  <2> QED BY <2>4, <2>5, <2>6 DEF Tiled
<1>2. CASE Finish
  BY <1>2 DEF Finish, Claims, Tiled
<1>3. CASE Report
  BY <1>3 DEF Report, Claims, Tiled
<1>4. CASE UNCHANGED vars
  BY <1>4 DEF vars, Claims, Tiled
<1> QED BY <1>1, <1>2, <1>3, <1>4 DEF Next

\* The claimed ranges always lie apart and fill the file: what fetch_add on one
\* shared counter promises to every writer that claims through it.
THEOREM TiledCorrect == Spec => []Tiled
<1>1. Init => Claims /\ Tiled
  BY DEF Init, Claims, Tiled
<1> QED BY <1>1, TiledStep, PTL DEF Spec
=============================================================================
