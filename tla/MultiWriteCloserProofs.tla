------------------------ MODULE MultiWriteCloserProofs ------------------------
(***************************************************************************)
(* Proofs about MultiWriteCloser, for every number of writers, length of  *)
(* p and number of calls: Write keeps the writers consistent while it     *)
(* succeeds, never lets a later writer get ahead of an earlier one, and   *)
(* returns nil only when every writer took all of p; Close reaches every  *)
(* writer.                                                                *)
(***************************************************************************)
EXTENDS MultiWriteCloser, TLAPS

TypeOK ==
    /\ n \in 0..MaxWriters
    /\ recv \in [Slots -> Nat]
    /\ since \in [Slots -> Nat]
    /\ written \in Nat
    /\ failed \in BOOLEAN
    /\ closes \in [Slots -> Nat]
    /\ closedN \in 0..MaxWriters
    /\ closeRes \in {"none", "nil", "error"}
    /\ calls \in Nat

\* A slot no writer has been added to yet has received nothing.
Unused == \A i \in Slots : i > n => recv[i] = 0

\* The inductive invariant: the three properties need only the types and
\* Unused (Add's new writer starts from zero bytes).
IInv == TypeOK /\ Unused /\ WriteConsistent /\ EarlierWritersAhead
        /\ CloseReachesAll

\* One outcome of Write's loop, as Write states it.
WriteWith(len, got, errs, stop) ==
    /\ LoopStops(got, errs, len, stop)
    /\ recv' = [i \in Slots |->
                  IF i \in Reached(n, stop) THEN recv[i] + got[i]
                  ELSE recv[i]]
    /\ written' = IF stop = 0 THEN written + len ELSE written
    /\ failed' = (failed \/ stop # 0)

-----------------------------------------------------------------------------
LEMMA InitIInv == Init => IInv
<1> SUFFICES ASSUME Init PROVE IInv
  OBVIOUS
<1>1. TypeOK
  <2>1. n \in 0..MaxWriters /\ closedN \in 0..MaxWriters
    BY BoundsAssumption DEF Init
  <2>2. /\ recv \in [Slots -> Nat] /\ since \in [Slots -> Nat]
        /\ closes \in [Slots -> Nat]
    BY DEF Init
  <2>3. written \in Nat /\ calls \in Nat
    BY DEF Init
  <2>4. failed \in BOOLEAN /\ closeRes \in {"none", "nil", "error"}
    BY Zenon DEF Init
  <2>5. QED
    BY <2>1, <2>2, <2>3, <2>4 DEF TypeOK
<1>2. Unused /\ EarlierWritersAhead /\ CloseReachesAll
  BY DEF Init, Unused, EarlierWritersAhead, CloseReachesAll
<1>3. WriteConsistent
  BY DEF Init, WriteConsistent
<1>4. QED
  BY <1>1, <1>2, <1>3 DEF IInv

(* Add: the new writer n+1 has received nothing, and it is told that the  *)
(* bytes written so far are not its own.                                  *)
LEMMA AddIInv == IInv /\ Add => IInv'
<1> SUFFICES ASSUME IInv, Add PROVE IInv'
  OBVIOUS
<1>1. TypeOK'
  BY SMTT(30), BoundsAssumption DEF IInv, TypeOK, Add, Slots
<1>2. recv[n + 1] = 0
  BY BoundsAssumption DEF IInv, TypeOK, Unused, Add, Slots
<1>3. Unused'
  BY DEF IInv, TypeOK, Unused, Add, Slots
<1>4. WriteConsistent'
  BY <1>2, BoundsAssumption DEF IInv, TypeOK, WriteConsistent, Add, Slots
<1>5. EarlierWritersAhead'
  <2>1. n < MaxWriters /\ n' = n + 1 /\ recv' = recv
    BY DEF Add
  <2>2. \A i \in 1..n : recv[i] \in Nat
    BY BoundsAssumption DEF IInv, TypeOK, Slots
  <2>3. QED
    BY <1>2, <2>1, <2>2 DEF IInv, TypeOK, EarlierWritersAhead
<1>6. CloseReachesAll'
  BY DEF IInv, CloseReachesAll, Add
<1>7. QED
  BY <1>1, <1>3, <1>4, <1>5, <1>6 DEF IInv

(* Write: when the loop passes every writer each takes all of p and the    *)
(* caller is told len(p) was written; when it stops at writer stop, the   *)
(* writers before it took all of p and writer stop took at most len(p).   *)
LEMMA WriteIInv == IInv /\ Write => IInv'
<1> SUFFICES ASSUME IInv, Write PROVE IInv'
  OBVIOUS
<1>1. PICK len \in 1..MaxLen :
        \E got \in [1..n -> 0..len], errs \in SUBSET (1..n), stop \in 0..n :
          WriteWith(len, got, errs, stop)
  BY Zenon DEF Write, WriteWith
<1>11. PICK got \in [1..n -> 0..len], errs \in SUBSET (1..n), stop \in 0..n :
         WriteWith(len, got, errs, stop)
  BY <1>1
<1>12. /\ LoopStops(got, errs, len, stop)
       /\ recv' = [i \in Slots |->
                     IF i \in Reached(n, stop) THEN recv[i] + got[i]
                     ELSE recv[i]]
       /\ written' = IF stop = 0 THEN written + len ELSE written
       /\ failed' = (failed \/ stop # 0)
  BY <1>11 DEF WriteWith
<1>2. n \in 0..MaxWriters /\ 1..n \subseteq Slots
  BY BoundsAssumption DEF IInv, TypeOK, Slots
<1>3. \A i \in 1..n : stop = 0 \/ i < stop => got[i] = len
  BY <1>12 DEF LoopStops, Passes
<1>4. \A i \in Slots : recv'[i] =
         IF i \in 1..n /\ (stop = 0 \/ i <= stop) THEN recv[i] + got[i]
         ELSE recv[i]
  BY BoundsAssumption, <1>12, <1>2 DEF Reached
<1>5. TypeOK'
  <2>1. recv' \in [Slots -> Nat]
    <3>1. \A i \in 1..n : got[i] \in Nat
      BY <1>2
    <3>2. QED
      BY SMTT(30), <1>2, <1>4, <1>12, <3>1 DEF IInv, TypeOK
  <2>2. written' \in Nat /\ calls' \in Nat
    BY BoundsAssumption, <1>12 DEF IInv, TypeOK, Write
  <2>3. failed' \in BOOLEAN
    BY <1>12, Zenon
  <2>4. UNCHANGED <<n, since, closes, closedN, closeRes>>
    BY DEF Write
  <2>5. QED
    BY <2>1, <2>2, <2>3, <2>4 DEF IInv, TypeOK
<1>6. Unused'
  BY BoundsAssumption, <1>2, <1>4 DEF IInv, TypeOK, Unused, Write
<1>13. n' = n /\ since' = since
  BY DEF Write
<1>14. \A i \in 1..n : recv[i] \in Nat /\ got[i] \in 0..len
  BY <1>2 DEF IInv, TypeOK
<1>7. WriteConsistent'
  <2>1. CASE stop = 0
    <3>1. written' = written + len /\ failed' = failed
      BY <2>1, <1>12 DEF IInv, TypeOK
    <3>2. \A i \in 1..n : recv'[i] = recv[i] + len
      BY <2>1, <1>2, <1>3, <1>4
    <3>3. QED
      BY <3>1, <3>2, <1>2, <1>13, <1>14 DEF IInv, TypeOK, WriteConsistent
  <2>2. CASE stop # 0
    <3>1. failed' = TRUE
      BY <2>2, <1>12, Zenon
    <3>2. QED
      BY <3>1, Zenon DEF WriteConsistent
  <2>3. QED
    BY <2>1, <2>2
<1>8. EarlierWritersAhead'
  <2> SUFFICES ASSUME NEW i \in 1..n, NEW j \in 1..n, i < j
               PROVE  recv'[i] >= recv'[j]
    BY <1>13 DEF EarlierWritersAhead
  <2>1. recv[i] >= recv[j]
    BY DEF IInv, EarlierWritersAhead
  <2>2. CASE stop = 0 \/ j <= stop
    <3>1. got[i] = len /\ got[j] <= len
      BY <2>2, <1>3, <1>14
    <3>2. recv'[i] = recv[i] + got[i] /\ recv'[j] = recv[j] + got[j]
      BY <2>2, <1>2, <1>4
    <3>3. QED
      BY <2>1, <3>1, <3>2, <1>14
  <2>3. CASE stop # 0 /\ i <= stop /\ stop < j
    <3>1. recv'[i] = recv[i] + got[i] /\ recv'[j] = recv[j]
      BY <2>3, <1>2, <1>4
    <3>2. QED
      BY <2>1, <3>1, <1>14
  <2>4. CASE stop # 0 /\ stop < i
    <3>1. recv'[i] = recv[i] /\ recv'[j] = recv[j]
      BY <2>4, <1>2, <1>4
    <3>2. QED
      BY <2>1, <3>1
  <2>5. QED
    BY <2>2, <2>3, <2>4
<1>9. CloseReachesAll'
  BY DEF IInv, CloseReachesAll, Write
<1>10. QED
  BY <1>5, <1>6, <1>7, <1>8, <1>9 DEF IInv

(* Close: every writer present is closed once more, whatever fails. *)
LEMMA CloseIInv == IInv /\ Close => IInv'
<1> SUFFICES ASSUME IInv, Close PROVE IInv'
  OBVIOUS
<1>1. PICK errs \in SUBSET (1..n) :
        /\ closes' = [i \in Slots |->
                        IF i <= n THEN closes[i] + 1 ELSE closes[i]]
        /\ closeRes' = IF errs = {} THEN "nil" ELSE "error"
  BY DEF Close
<1>2. TypeOK'
  BY BoundsAssumption, <1>1 DEF IInv, TypeOK, Close
<1>3. CloseReachesAll'
  BY BoundsAssumption, <1>1 DEF IInv, TypeOK, CloseReachesAll, Close, Slots
<1>4. QED
  BY <1>2, <1>3 DEF IInv, Unused, WriteConsistent, EarlierWritersAhead, Close

LEMMA StepIInv == IInv /\ [Next]_vars => IInv'
<1> SUFFICES ASSUME IInv, [Next]_vars PROVE IInv'
  OBVIOUS
<1>1. CASE Add
  BY <1>1, AddIInv
<1>2. CASE Write
  BY <1>2, WriteIInv
<1>3. CASE Close
  BY <1>3, CloseIInv
<1>4. CASE UNCHANGED vars
  BY <1>4 DEF vars, IInv, TypeOK, Unused, WriteConsistent,
     EarlierWritersAhead, CloseReachesAll
<1>5. QED
  BY <1>1, <1>2, <1>3, <1>4 DEF Next

-----------------------------------------------------------------------------
(* While no Write has failed, every writer holds exactly the bytes        *)
(* reported written since its Add, even when a wrapped writer reports a  *)
(* short count with a nil error (part_000:209-211).                      *)
THEOREM WriteConsistentHolds == Spec => []WriteConsistent
<1>1. IInv => WriteConsistent
  BY DEF IInv
<1>2. QED
  BY <1>1, InitIInv, StepIInv, PTL DEF Spec

(* Whatever the wrapped writers return, an earlier writer never holds     *)
(* fewer bytes than a later one: Write stops at the first failing writer  *)
(* (part_000:204-212).                                                    *)
THEOREM EarlierWritersAheadHolds == Spec => []EarlierWritersAhead
<1>1. IInv => EarlierWritersAhead
  BY DEF IInv
<1>2. QED
  BY <1>1, InitIInv, StepIInv, PTL DEF Spec

(* Close reaches every writer present when it runs, even after some of   *)
(* their Close calls failed (part_000:221-225).                          *)
THEOREM CloseReachesAllHolds == Spec => []CloseReachesAll
<1>1. IInv => CloseReachesAll
  BY DEF IInv
<1>2. QED
  BY <1>1, InitIInv, StepIInv, PTL DEF Spec
-----------------------------------------------------------------------------
\* The step SuccessReachesAll allows.
SuccessStep ==
    written' # written =>
        \A i \in 1..n : recv'[i] = recv[i] + (written' - written)

(* A Write that returns nil went through every writer with all of p:      *)
(* its loop stopped nowhere, so each writer's count was len(p).           *)
LEMMA WriteSuccess == IInv /\ Write => SuccessStep
<1> SUFFICES ASSUME IInv, Write, written' # written
             PROVE  \A i \in 1..n : recv'[i] = recv[i] + (written' - written)
  BY DEF SuccessStep
<1>1. PICK len \in 1..MaxLen :
        \E got \in [1..n -> 0..len], errs \in SUBSET (1..n), stop \in 0..n :
          WriteWith(len, got, errs, stop)
  BY Zenon DEF Write, WriteWith
<1>2. PICK got \in [1..n -> 0..len], errs \in SUBSET (1..n), stop \in 0..n :
         WriteWith(len, got, errs, stop)
  BY <1>1
<1>3. /\ LoopStops(got, errs, len, stop)
      /\ recv' = [i \in Slots |->
                    IF i \in Reached(n, stop) THEN recv[i] + got[i]
                    ELSE recv[i]]
      /\ written' = IF stop = 0 THEN written + len ELSE written
  BY <1>2 DEF WriteWith
<1>4. stop = 0 /\ written' = written + len
  BY <1>3
<1>5. \A i \in 1..n : got[i] = len
  BY <1>3, <1>4 DEF LoopStops, Passes
<1>6. n \in 0..MaxWriters /\ 1..n \subseteq Slots /\ written \in Nat
  BY BoundsAssumption DEF IInv, TypeOK, Slots
<1>7. \A i \in 1..n : recv'[i] = recv[i] + got[i]
  BY <1>3, <1>4, <1>6 DEF Reached
<1>. QED  BY <1>4, <1>5, <1>6, <1>7

(* A Write that returns nil has given all of p to every writer in the     *)
(* list, also after an earlier Write failed, where WriteConsistent says   *)
(* nothing: a short count with a nil error fails the call                 *)
(* (part_000:203-214).  Add and Close leave written as it is.             *)
THEOREM SuccessReachesAllHolds == Spec => SuccessReachesAll
<1>1. IInv /\ [Next]_vars => [SuccessStep]_vars
  <2> SUFFICES ASSUME IInv, [Next]_vars PROVE [SuccessStep]_vars
    OBVIOUS
  <2>1. CASE Write
    BY <2>1, WriteSuccess
  <2>2. CASE Add \/ Close \/ UNCHANGED vars
    <3>1. written' = written
      BY <2>2 DEF Add, Close, vars
    <3>. QED  BY <3>1 DEF SuccessStep
  <2>. QED  BY <2>1, <2>2 DEF Next
<1>. QED
  BY <1>1, InitIInv, StepIInv, PTL DEF Spec, SuccessReachesAll, SuccessStep
=============================================================================
