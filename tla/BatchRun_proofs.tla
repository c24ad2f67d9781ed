-------------------------- MODULE BatchRun_proofs ---------------------------
(***************************************************************************)
(* Theorems about BatchRun for every set of records and every bound: the   *)
(* types, that results stand and the books of a completed batch agree,     *)
(* whatever fails, and, while the batch's own sessions work, that no       *)
(* closed batch has an open record, that a failing record fails alone and  *)
(* that the semaphore bounds the running rows.                             *)
(***************************************************************************)
EXTENDS BatchRun, FiniteSetTheorems, TLAPS

Resting == {"idle", "done", "raised"}

(* Where the task is, the parent's row and the coroutines agree.           *)
DriverFits ==
    /\ driver = "none" <=> parent = "absent"
    /\ driver = "none" => \A r \in Records : child[r] = "absent"
    /\ driver = "created" => parent = "queued"
    /\ driver = "gather" => parent = "running"
    /\ driver # "gather" => \A r \in Records : worker[r].phase \in Resting
    /\ driver = "created" => \A r \in Records : child[r] = "queued"

(* Where a coroutine is, its row and the result it carries agree.          *)
WorkerFits ==
    \A r \in Records :
        /\ worker[r].phase \in {"waiting", "start"} => child[r] = "queued"
        /\ worker[r].phase \in {"work", "refused", "store"} => child[r] \in Open
        /\ worker[r].phase \in {"store", "count"} => worker[r].res \in Settled
        /\ worker[r].phase \in {"count", "done"} => child[r] \in Settled \cup {Gone}

BInv == TypeOK /\ DriverFits /\ WorkerFits

-----------------------------------------------------------------------------
LEMMA FinitePart == ASSUME NEW S \in SUBSET Records
                      PROVE  IsFiniteSet(S) /\ Cardinality(S) \in Nat
  BY BatchAssumption, FS_Subset, FS_CardinalityType

LEMMA InitBInv == Init => BInv
  BY DEF Init, BInv, TypeOK, DriverFits, WorkerFits, DriverPhase, WorkerPhase,
         Counts, NoCounts, Open, Settled, Gone, Resting

LEMMA NextBInv == BInv /\ [Next]_vars => BInv'
<1> SUFFICES ASSUME BInv, [Next]_vars PROVE BInv'
  OBVIOUS
<1> USE BatchAssumption
       DEF BInv, TypeOK, DriverFits, WorkerFits, DriverPhase, WorkerPhase, Counts,
           Open, Settled, Gone, Resting, Inside, WorkerGoes, SetChild
<1>1. CASE StartBatch
  BY <1>1 DEF StartBatch
<1>2. CASE Gather
  BY <1>2 DEF Gather
<1>3. CASE Gathered
  BY <1>3 DEF Gathered
<1>4. CASE FailEscaped
  BY <1>4 DEF FailEscaped
<1>5. CASE ReadSummary
  <2>1. summary' \in [complete : Nat, failed : Nat, awaiting_review : Nat, open : Nat]
    BY <1>5, FinitePart DEF ReadSummary, RecordsIn, OpenRecords
  <2> QED
    BY <2>1, <1>5 DEF ReadSummary
<1>6. CASE Complete
  BY <1>6 DEF Complete
<1>7. CASE Finish
  BY <1>7 DEF Finish
<1>8. CASE CloseChildren
  BY <1>8 DEF CloseChildren
<1>9. CASE FailParent
  BY <1>9 DEF FailParent
<1>10. CASE ParentFault
  BY <1>10 DEF ParentFault
<1>11. CASE CancelBatch
  BY <1>11 DEF CancelBatch
<1>12. CASE Restart
  BY <1>12 DEF Restart
<1>13. ASSUME NEW r \in Records, WorkerStep(r) PROVE BInv'
  <2>1. CASE Acquire(r)
    BY <2>1 DEF Acquire
  <2>2. CASE MarkChildRunning(r)
    BY <2>2 DEF MarkChildRunning
  <2>3. CASE Refuse(r)
    BY <2>3 DEF Refuse
  <2>4. CASE FailChild(r)
    BY <2>4 DEF FailChild
  <2>5. ASSUME NEW res \in Settled, Assess(r, res) PROVE BInv'
    BY <2>5 DEF Assess
  <2>6. CASE StoreChild(r)
    BY <2>6 DEF StoreChild
  <2>7. CASE Count(r)
    BY <2>7 DEF Count
  <2> QED
    BY <1>13, <2>1, <2>2, <2>3, <2>4, <2>5, <2>6, <2>7 DEF WorkerStep
<1>14. ASSUME NEW r \in Records, ChildFault(r) PROVE BInv'
  BY <1>14 DEF ChildFault
<1>15. ASSUME NEW r \in Records, DecideChild(r) PROVE BInv'
  BY <1>15 DEF DecideChild
<1>16. ASSUME NEW r \in Records, DeleteChild(r) PROVE BInv'
  BY <1>16 DEF DeleteChild
<1>17. CASE UNCHANGED vars
  BY <1>17 DEF vars
<1> QED
  BY <1>1, <1>2, <1>3, <1>4, <1>5, <1>6, <1>7, <1>8, <1>9, <1>10, <1>11, <1>12,
     <1>13, <1>14, <1>15, <1>16, <1>17 DEF Next, DriverStep

THEOREM BatchInvariant == Spec => []BInv
  BY InitBInv, NextBInv, PTL DEF Spec

(* TypeOK: every variable keeps its type, whatever faults, cancellations   *)
(* and restarts there are.                                                 *)
THEOREM TypeCorrect == Spec => []TypeOK
<1>1. BInv => TypeOK
  BY DEF BInv
<1> QED
  BY <1>1, BatchInvariant, PTL

-----------------------------------------------------------------------------
(* ResultsStand.                                                           *)

StandStep == \A r \in Records :
                /\ child[r] \in {"complete", "failed"} => child'[r] \in {child[r], Gone}
                /\ child[r] = "awaiting_review" =>
                      child'[r] \in {"awaiting_review", "complete", Gone}

LEMMA NextStands == BInv /\ [Next]_vars => StandStep
<1> SUFFICES ASSUME BInv, [Next]_vars PROVE StandStep
  OBVIOUS
<1> USE DEF BInv, TypeOK, DriverFits, WorkerFits, StandStep, Open, Settled, Gone, SetChild
<1>1. CASE StartBatch
  BY <1>1 DEF StartBatch
<1>2. CASE CloseChildren
  BY <1>2 DEF CloseChildren
<1>3. CASE Restart
  BY <1>3 DEF Restart
<1>4. CASE UNCHANGED child
  BY <1>4
<1>5. ASSUME NEW r \in Records, MarkChildRunning(r) PROVE StandStep
  BY <1>5 DEF MarkChildRunning
<1>6. ASSUME NEW r \in Records, FailChild(r) PROVE StandStep
  BY <1>6 DEF FailChild
<1>7. ASSUME NEW r \in Records, StoreChild(r) PROVE StandStep
  BY <1>7 DEF StoreChild
<1>8. ASSUME NEW r \in Records, DecideChild(r) PROVE StandStep
  BY <1>8 DEF DecideChild
<1>9. ASSUME NEW r \in Records, DeleteChild(r) PROVE StandStep
  BY <1>9 DEF DeleteChild
<1>10. CASE Gather \/ Gathered \/ FailEscaped \/ ReadSummary \/ Complete \/ Finish
            \/ FailParent \/ ParentFault \/ CancelBatch
  BY <1>10, <1>4 DEF Gather, Gathered, FailEscaped, ReadSummary, Complete, Finish,
     FailParent, ParentFault, CancelBatch
<1>11. ASSUME NEW r \in Records, NEW res \in Settled,
              Acquire(r) \/ Refuse(r) \/ Assess(r, res) \/ Count(r) \/ ChildFault(r)
       PROVE  StandStep
  BY <1>11, <1>4 DEF Acquire, Refuse, Assess, Count, ChildFault
<1> QED
  BY <1>1, <1>2, <1>3, <1>4, <1>5, <1>6, <1>7, <1>8, <1>9, <1>10, <1>11
     DEF Next, DriverStep, WorkerStep, vars

(* ResultsStand: no cancellation, restart, failing session or late         *)
(* coroutine overwrites the result of a record, for any number of records. *)
THEOREM ResultsAreKept == Spec => ResultsStand
<1>1. BInv /\ BInv' /\ [Next]_vars => [StandStep]_vars
  BY NextStands
<1> QED
  BY <1>1, BatchInvariant, PTL DEF Spec, ResultsStand, StandStep

-----------------------------------------------------------------------------
(* Until a session of the batch or of its records raises.                  *)

(* Nothing escapes into the gather: it ends with every record counted, and *)
(* whatever fails the parent was preceded by closing its records.          *)
NothingEscapes ==
    /\ driver # "escaped"
    /\ driver = "gather" => \A r \in Records : worker[r].phase \notin {"idle", "raised"}
    /\ driver \in {"metrics", "summary", "tail"} =>
          \A r \in Records : worker[r].phase = "done"
    /\ driver \in {"cancelled", "failing"} => cancels > 0
    /\ driver = "failing" => OpenRecords = {}

GInv == faults = 0 => NothingEscapes /\ NoOrphanRecord /\ FailsAlone

LEMMA InitGInv == Init => GInv
  BY DEF Init, GInv, NothingEscapes, NoOrphanRecord, FailsAlone

LEMMA NextGInv == BInv /\ BInv' /\ GInv /\ [Next]_vars => GInv'
<1> SUFFICES ASSUME BInv, BInv', GInv, [Next]_vars PROVE GInv'
  OBVIOUS
<1> USE BatchAssumption
       DEF GInv, NothingEscapes, NoOrphanRecord, FailsAlone, OpenRecords, BInv,
           TypeOK, DriverFits, WorkerFits, Open, Settled, Gone, Resting, Inside,
           WorkerGoes, SetChild
<1>1. CASE StartBatch
  BY <1>1 DEF StartBatch
<1>2. CASE Gather
  BY <1>2 DEF Gather
<1>3. CASE Gathered
  BY <1>3 DEF Gathered
<1>4. CASE FailEscaped
  BY <1>4 DEF FailEscaped
<1>5. CASE ReadSummary
  BY <1>5 DEF ReadSummary
<1>6. CASE Complete
  BY <1>6 DEF Complete
<1>7. CASE Finish
  BY <1>7 DEF Finish
<1>8. CASE CloseChildren
  BY <1>8 DEF CloseChildren
<1>9. CASE FailParent
  BY <1>9 DEF FailParent
<1>10. CASE ParentFault
  BY <1>10 DEF ParentFault
<1>11. CASE CancelBatch
  BY <1>11 DEF CancelBatch
<1>12. CASE Restart
  BY <1>12 DEF Restart
<1>13. ASSUME NEW r \in Records, WorkerStep(r) PROVE GInv'
  <2>1. CASE Acquire(r)
    BY <2>1 DEF Acquire
  <2>2. CASE MarkChildRunning(r)
    BY <2>2 DEF MarkChildRunning
  <2>3. CASE Refuse(r)
    BY <2>3 DEF Refuse
  <2>4. CASE FailChild(r)
    BY <2>4 DEF FailChild
  <2>5. ASSUME NEW res \in Settled, Assess(r, res) PROVE GInv'
    BY <2>5 DEF Assess
  <2>6. CASE StoreChild(r)
    BY <2>6 DEF StoreChild
  <2>7. CASE Count(r)
    BY <2>7 DEF Count
  <2> QED
    BY <1>13, <2>1, <2>2, <2>3, <2>4, <2>5, <2>6, <2>7 DEF WorkerStep
<1>14. ASSUME NEW r \in Records, ChildFault(r) PROVE GInv'
  BY <1>14 DEF ChildFault
<1>15. ASSUME NEW r \in Records, DecideChild(r) PROVE GInv'
  BY <1>15 DEF DecideChild
<1>16. ASSUME NEW r \in Records, DeleteChild(r) PROVE GInv'
  BY <1>16 DEF DeleteChild
<1>17. CASE UNCHANGED vars
  BY <1>17 DEF vars
<1> QED
  BY <1>1, <1>2, <1>3, <1>4, <1>5, <1>6, <1>7, <1>8, <1>9, <1>10, <1>11, <1>12,
     <1>13, <1>14, <1>15, <1>16, <1>17 DEF Next, DriverStep

LEMMA FaultFreeInvariant == Spec => []GInv
<1>1. BInv /\ BInv' /\ GInv /\ [Next]_vars => GInv'
  BY NextGInv
<1> QED
  BY <1>1, InitGInv, BatchInvariant, PTL DEF Spec

(* NoOrphanRecord: while the sessions work, no closed batch leaves an open *)
(* record, whatever is cancelled, decided, deleted or restarted.           *)
THEOREM NoOrphans == Spec => []NoOrphanRecord
<1>1. GInv => NoOrphanRecord
  BY DEF GInv, NoOrphanRecord
<1> QED
  BY <1>1, FaultFreeInvariant, PTL

(* FailsAlone: while the sessions work, only a cancellation or a restart   *)
(* fails a batch, however many of its records fail.                        *)
THEOREM RecordsFailAlone == Spec => []FailsAlone
<1>1. BInv /\ GInv => FailsAlone
  BY DEF BInv, TypeOK, GInv, FailsAlone
<1> QED
  BY <1>1, BatchInvariant, FaultFreeInvariant, PTL

-----------------------------------------------------------------------------
(* The semaphore.                                                          *)

(* No more coroutines are inside than the semaphore admits, and while the  *)
(* batch gathers, a running row belongs to one of them.                    *)
SlotInv ==
    /\ Cardinality(Holders) <= Concurrency
    /\ faults = 0 /\ driver = "gather" => RecordsIn("running") \subseteq Holders

LEMMA HoldersShrink == ASSUME BInv, Cardinality(Holders) <= Concurrency,
                              Holders' \subseteq Holders
                       PROVE  Cardinality(Holders') <= Concurrency
<1>1. IsFiniteSet(Holders) /\ Cardinality(Holders) \in Nat
  BY FinitePart DEF Holders
<1>2. Cardinality(Holders') <= Cardinality(Holders) /\ Cardinality(Holders') \in Nat
  BY <1>1, FS_Subset, FS_CardinalityType
<1> QED
  BY <1>1, <1>2, BatchAssumption

LEMMA InitSlotInv == Init => SlotInv
<1> SUFFICES ASSUME Init PROVE SlotInv
  OBVIOUS
<1>1. Holders = {} /\ driver # "gather"
  BY DEF Init, Holders, Inside
<1> QED
  BY <1>1, FS_EmptySet, BatchAssumption DEF SlotInv

LEMMA NextSlotInv == BInv /\ BInv' /\ SlotInv /\ [Next]_vars => SlotInv'
<1> SUFFICES ASSUME BInv, BInv', SlotInv, [Next]_vars PROVE SlotInv'
  OBVIOUS
<1> DEFINE RowsHeld == faults' = 0 /\ driver' = "gather" => RecordsIn("running")' \subseteq Holders'
           HeldOnly == Holders' \subseteq Holders
<1> USE DEF BInv, TypeOK, DriverFits, WorkerFits, Open, Settled, Gone, Resting, Inside,
            Holders, RecordsIn, WorkerGoes, SetChild
<1>1. ASSUME NEW r \in Records, Acquire(r) PROVE SlotInv'
  <2>1. r \notin Holders /\ Holders' = Holders \cup {r}
    BY <1>1 DEF Acquire
  <2>2. IsFiniteSet(Holders) /\ Cardinality(Holders) \in Nat
    BY FinitePart
  <2>3. Cardinality(Holders') = Cardinality(Holders) + 1
    <3> HIDE DEF Holders
    <3> QED BY ZenonT(40), <2>1, <2>2, FS_AddElement
  <2>4. Cardinality(Holders) < Concurrency
    BY <1>1 DEF Acquire
  <2>5. RowsHeld
    BY <1>1 DEF Acquire, SlotInv
  <2> QED
    BY <2>2, <2>3, <2>4, <2>5, BatchAssumption DEF SlotInv
<1>2. ASSUME HeldOnly, RowsHeld PROVE SlotInv'
  BY <1>2, HoldersShrink DEF SlotInv
<1>3. CASE StartBatch
  BY <1>2, <1>3 DEF StartBatch, SlotInv
<1>4. CASE Gather
  BY <1>2, <1>4 DEF Gather, SlotInv
<1>5. CASE Gathered \/ FailEscaped \/ ReadSummary \/ Complete \/ Finish \/ FailParent
           \/ ParentFault
  BY <1>2, <1>5 DEF Gathered, FailEscaped, ReadSummary, Complete, Finish, FailParent,
     ParentFault
<1>6. CASE CloseChildren
  BY <1>2, <1>6 DEF CloseChildren
<1>7. CASE CancelBatch
  BY <1>2, <1>7 DEF CancelBatch
<1>8. CASE Restart
  BY <1>2, <1>8 DEF Restart
<1>9. ASSUME NEW r \in Records, MarkChildRunning(r) PROVE SlotInv'
  BY <1>2, <1>9 DEF MarkChildRunning, SlotInv
<1>10. ASSUME NEW r \in Records, NEW res \in Settled, Refuse(r) \/ Assess(r, res)
       PROVE  SlotInv'
  BY <1>2, <1>10 DEF Refuse, Assess, SlotInv
<1>11. ASSUME NEW r \in Records, FailChild(r) \/ StoreChild(r) PROVE SlotInv'
  BY <1>2, <1>11 DEF FailChild, StoreChild, SlotInv
<1>12. ASSUME NEW r \in Records, Count(r) \/ ChildFault(r) PROVE SlotInv'
  <2>1. CASE Count(r)
    <3>1. HeldOnly
      BY <2>1 DEF Count
    <3>2. child[r] # "running" /\ child' = child /\ driver' = driver /\ faults' = faults
      BY <2>1 DEF Count
    <3>3. \A s \in Records \ {r} : worker'[s] = worker[s]
      BY <2>1 DEF Count
    <3>4. RowsHeld
      BY <3>2, <3>3 DEF SlotInv
    <3> QED
      BY <1>2, <3>1, <3>4
  <2>2. CASE ChildFault(r)
    BY <1>2, <2>2 DEF ChildFault
  <2> QED
    BY <1>12, <2>1, <2>2
<1>13. ASSUME NEW r \in Records, DecideChild(r) \/ DeleteChild(r) PROVE SlotInv'
  BY <1>2, <1>13 DEF DecideChild, DeleteChild, SlotInv
<1>14. CASE UNCHANGED vars
  BY <1>2, <1>14 DEF vars, SlotInv
<1> QED
  BY <1>1, <1>3, <1>4, <1>5, <1>6, <1>7, <1>8, <1>9, <1>10, <1>11, <1>12, <1>13, <1>14
     DEF Next, DriverStep, WorkerStep

(* RunningBounded: while the sessions work, no more rows of a batch are    *)
(* running than the semaphore admits.                                      *)
THEOREM RunningIsBounded == Spec => []RunningBounded
<1>1. BInv /\ BInv' /\ SlotInv /\ [Next]_vars => SlotInv'
  BY NextSlotInv
<1>2. BInv /\ SlotInv => RunningBounded
  <2> SUFFICES ASSUME BInv, SlotInv, faults = 0, driver = "gather"
               PROVE  Cardinality(RecordsIn("running")) <= Concurrency
    BY DEF RunningBounded
  <2>1. IsFiniteSet(Holders) /\ Cardinality(Holders) \in Nat
    BY FinitePart DEF Holders
  <2>2. Cardinality(RecordsIn("running")) <= Cardinality(Holders)
    BY <2>1, FS_Subset DEF SlotInv
  <2>3. Cardinality(RecordsIn("running")) \in Nat
    BY FinitePart DEF RecordsIn
  <2> QED
    BY <2>1, <2>2, <2>3, BatchAssumption DEF SlotInv
<1> QED
  BY <1>1, <1>2, InitSlotInv, BatchInvariant, PTL DEF Spec
-----------------------------------------------------------------------------
(* The books.                                                              *)

Counted(s) == {r \in Records : worker[r].phase = "done" /\ worker[r].res = s}

(* The row of a record counted with result s: it may have been decided or  *)
(* deleted since.                                                          *)
Outcome(s) == {s, Gone} \cup (IF s = "awaiting_review" THEN {"complete"} ELSE {})

(* The progress counts the coroutines that are done, until the task ends;  *)
(* the row of each still tells what it was counted as; and the books agree *)
(* as soon as the summary is read.                                         *)
TallyInv ==
    /\ driver # "ended" => \A s \in Settled : progress[s] = Cardinality(Counted(s))
    /\ driver \in {"none", "created"} => \A r \in Records : worker[r].phase = "idle"
    /\ driver \in {"metrics", "summary"} => \A r \in Records : worker[r].phase = "done"
    /\ \A r \in Records :
          worker[r].phase \in {"count", "done"} =>
              worker[r].res \in Settled /\ child[r] \in Outcome(worker[r].res)
    /\ driver = "summary" => Books
    /\ BooksAgree

LEMMA UnionBound == ASSUME NEW A \in SUBSET Records, NEW B \in SUBSET Records,
                           NEW C \in SUBSET Records, A \subseteq B \cup C
                    PROVE  Cardinality(A) <= Cardinality(B) + Cardinality(C)
<1>1. Cardinality(B \cup C) = Cardinality(B) + Cardinality(C) - Cardinality(B \cap C)
  BY FinitePart, FS_Union
<1>2. Cardinality(A) <= Cardinality(B \cup C)
  BY FinitePart, FS_Subset
<1>3. /\ Cardinality(A) \in Nat /\ Cardinality(B) \in Nat /\ Cardinality(C) \in Nat
      /\ Cardinality(B \cup C) \in Nat /\ Cardinality(B \cap C) \in Nat
  BY FinitePart
<1> QED
  BY <1>1, <1>2, <1>3

LEMMA Partition == ASSUME NEW A \in SUBSET Records, NEW B \in SUBSET Records,
                          NEW C \in SUBSET Records, A \cup B \cup C = Records,
                          A \cap B = {}, A \cap C = {}, B \cap C = {}
                   PROVE  Cardinality(A) + Cardinality(B) + Cardinality(C)
                              = Cardinality(Records)
<1>1. Cardinality(A \cup B) = Cardinality(A) + Cardinality(B) - Cardinality(A \cap B)
  BY FinitePart, FS_Union
<1>2. (A \cup B) \cap C = {}
  OBVIOUS
<1>3. Cardinality((A \cup B) \cup C)
          = Cardinality(A \cup B) + Cardinality(C) - Cardinality((A \cup B) \cap C)
  BY FinitePart, FS_Union
<1>4. Cardinality(A) \in Nat /\ Cardinality(B) \in Nat /\ Cardinality(C) \in Nat
  BY FinitePart
<1>5. Cardinality(A \cup B) + Cardinality(C) = Cardinality(Records)
  <2>1. (A \cup B) \cup C = Records
    OBVIOUS
  <2>2. Cardinality((A \cup B) \cap C) = 0
    BY <1>2, FS_EmptySet, Zenon
  <2>3. Cardinality(A \cup B) \in Nat
    BY FinitePart
  <2>4. Cardinality(Records) = Cardinality(A \cup B) + Cardinality(C) - 0
    BY <1>3, <2>1, <2>2, Zenon
  <2> QED
    BY <1>4, <2>3, <2>4
<1>6. Cardinality(A \cup B) = Cardinality(A) + Cardinality(B)
  <2>1. Cardinality(A \cap B) = 0
    BY FS_EmptySet, Zenon
  <2> QED
    BY <1>1, <1>4, <2>1
<1> QED
  BY <1>5, <1>6

LEMMA OneMore == ASSUME NEW S, NEW T, NEW x, IsFiniteSet(S), x \notin S, T = S \cup {x}
                 PROVE  Cardinality(T) = Cardinality(S) + 1
  BY FS_AddElement

LEMMA TallySizes == ASSUME NEW s
                    PROVE  /\ Counted(s) \in SUBSET Records
                           /\ Cardinality(Counted(s)) \in Nat
                           /\ RecordsIn(s) \in SUBSET Records
                           /\ Cardinality(RecordsIn(s)) \in Nat
  BY FinitePart DEF Counted, RecordsIn

(* What the rows say when every coroutine is done.                         *)
LEMMA BooksWhenRead == BInv /\ BInv' /\ TallyInv /\ ReadSummary => Books'
<1> SUFFICES ASSUME BInv, BInv', TallyInv, ReadSummary PROVE Books'
  OBVIOUS
<1> DEFINE C == Counted("complete")
           F == Counted("failed")
           A == Counted("awaiting_review")
           G == RecordsIn(Gone)
<1>1. \A r \in Records : /\ worker[r].phase = "done" /\ worker[r].res \in Settled
                         /\ child[r] \in Outcome(worker[r].res)
  BY DEF TallyInv, ReadSummary
<1>2. /\ C \in SUBSET Records /\ F \in SUBSET Records /\ A \in SUBSET Records
      /\ G \in SUBSET Records
      /\ Cardinality(C) \in Nat /\ Cardinality(F) \in Nat /\ Cardinality(A) \in Nat
      /\ Cardinality(G) \in Nat
  BY TallySizes
<1>3. /\ progress["complete"] = Cardinality(C) /\ progress["failed"] = Cardinality(F)
      /\ progress["awaiting_review"] = Cardinality(A)
  BY DEF TallyInv, ReadSummary, Settled
<1>4. Cardinality(C) + Cardinality(F) + Cardinality(A) = Cardinality(Records)
  <2>1. C \cup F \cup A = Records /\ C \cap F = {} /\ C \cap A = {} /\ F \cap A = {}
    BY <1>1 DEF Counted, Settled
  <2> HIDE DEF C, F, A
  <2> QED
    BY <1>2, <2>1, Partition
<1>5. OpenRecords = {}
  BY <1>1 DEF OpenRecords, Outcome, Settled, Open, Gone
<1>6. Cardinality(C) <= Cardinality(RecordsIn("complete")) + Cardinality(G)
  <2>1. C \subseteq RecordsIn("complete") \cup G
    BY <1>1 DEF Counted, RecordsIn, Outcome
  <2> QED
    BY <2>1, UnionBound, TallySizes
<1>7. Cardinality(F) <= Cardinality(RecordsIn("failed")) + Cardinality(G)
  <2>1. F \subseteq RecordsIn("failed") \cup G
    BY <1>1 DEF Counted, RecordsIn, Outcome
  <2> QED
    BY <2>1, UnionBound, TallySizes
<1>8. Cardinality(RecordsIn("failed")) <= Cardinality(F)
  <2>1. RecordsIn("failed") \subseteq F
    BY <1>1 DEF Counted, RecordsIn, Outcome, Settled, Gone
  <2> QED
    BY <2>1, <1>2, FinitePart, FS_Subset
<1>9. Cardinality(Records) <= Cardinality(RecordsIn("complete"))
          + Cardinality(RecordsIn("failed")) + Cardinality(RecordsIn("awaiting_review"))
          + Cardinality(G)
  <2> DEFINE P == RecordsIn("complete") \cup RecordsIn("failed")
             Q == RecordsIn("awaiting_review") \cup G
  <2>1. Records \subseteq P \cup Q
    BY <1>1 DEF RecordsIn, Outcome, Settled
  <2>2. P \in SUBSET Records /\ Q \in SUBSET Records
    BY TallySizes
  <2>3. Cardinality(P) <= Cardinality(RecordsIn("complete")) + Cardinality(RecordsIn("failed"))
    BY <2>2, TallySizes, UnionBound
  <2>4. Cardinality(Q) <= Cardinality(RecordsIn("awaiting_review")) + Cardinality(G)
    BY <2>2, TallySizes, UnionBound
  <2>5. Cardinality(Records) <= Cardinality(P) + Cardinality(Q)
    <3> HIDE DEF P, Q
    <3> QED BY <2>1, <2>2, UnionBound
  <2>6. Cardinality(P) \in Nat /\ Cardinality(Q) \in Nat /\ Cardinality(Records) \in Nat
    BY <2>2, FinitePart
  <2> HIDE DEF P, Q
  <2> QED
    BY <2>3, <2>4, <2>5, <2>6, TallySizes
<1>10. /\ summary' = [complete        |-> Cardinality(RecordsIn("complete")),
                      failed          |-> Cardinality(RecordsIn("failed")),
                      awaiting_review |-> Cardinality(RecordsIn("awaiting_review")),
                      open            |-> Cardinality(OpenRecords)]
       /\ progress' = progress /\ RecordsIn(Gone)' = G
  BY DEF ReadSummary, RecordsIn
<1> HIDE DEF C, F, A, G
<1> QED
  BY <1>2, <1>3, <1>4, <1>5, <1>6, <1>7, <1>8, <1>9, <1>10, FS_EmptySet, TallySizes
     DEF Books

(* Books that agree go on agreeing while reviewers delete records.         *)
LEMMA BooksKept == ASSUME BInv, Books, progress' = progress, summary' = summary,
                          RecordsIn(Gone) \subseteq RecordsIn(Gone)'
                   PROVE  Books'
<1>1. /\ Cardinality(RecordsIn(Gone)) \in Nat /\ Cardinality(RecordsIn(Gone)') \in Nat
      /\ Cardinality(RecordsIn(Gone)) <= Cardinality(RecordsIn(Gone)')
  BY FinitePart, FS_Subset DEF RecordsIn
<1>2. /\ progress.complete \in Nat /\ progress.failed \in Nat
      /\ progress.awaiting_review \in Nat /\ summary.complete \in Nat
      /\ summary.failed \in Nat /\ summary.awaiting_review \in Nat
  BY DEF BInv, TypeOK, Counts
<1>3. Cardinality(Records) \in Nat
  BY FinitePart
<1> QED
  BY <1>1, <1>2, <1>3 DEF Books

(* A step that counts nothing, and reads no summary, keeps the tallies.    *)
LEMMA TalliesKept ==
    ASSUME BInv, TallyInv, progress' = progress, summary' = summary,
           driver' # "ended" => driver # "ended",
           driver' # "ended" => \A r \in Records :
               /\ worker'[r].phase = "done" <=> worker[r].phase = "done"
               /\ worker[r].phase = "done" => worker'[r].res = worker[r].res,
           RecordsIn(Gone) \subseteq RecordsIn(Gone)',
           driver' = "summary" => driver = "summary",
           parent' = "complete" => parent = "complete" \/ driver = "summary"
    PROVE  /\ driver' # "ended" =>
                  \A s \in Settled : progress'[s] = Cardinality(Counted(s))'
           /\ driver' = "summary" => Books'
           /\ BooksAgree'
<1>1. driver' # "ended" => \A s \in Settled : Counted(s)' = Counted(s)
  BY DEF Counted
<1>2. Books => Books'
  BY BooksKept
<1> QED
  BY <1>1, <1>2 DEF TallyInv, BooksAgree

LEMMA InitTallyInv == Init => TallyInv
<1> SUFFICES ASSUME Init PROVE TallyInv
  OBVIOUS
<1>1. \A s \in Settled : Counted(s) = {} /\ progress[s] = 0
  BY DEF Init, Counted, Settled, NoCounts
<1> QED
  BY <1>1, FS_EmptySet DEF Init, TallyInv, BooksAgree

LEMMA NextTallyInv == BInv /\ BInv' /\ TallyInv /\ [Next]_vars => TallyInv'
<1> SUFFICES ASSUME BInv, BInv', TallyInv, [Next]_vars PROVE TallyInv'
  OBVIOUS
<1> DEFINE Fits ==
             /\ driver \in {"none", "created"} => \A r \in Records : worker[r].phase = "idle"
             /\ driver \in {"metrics", "summary"} => \A r \in Records : worker[r].phase = "done"
             /\ \A r \in Records :
                   worker[r].phase \in {"count", "done"} =>
                       worker[r].res \in Settled /\ child[r] \in Outcome(worker[r].res)
           Tallied ==
             /\ driver' # "ended" =>
                    \A s \in Settled : progress'[s] = Cardinality(Counted(s))'
             /\ driver' = "summary" => Books'
             /\ BooksAgree'
<1> SUFFICES Fits' /\ Tallied
  BY DEF TallyInv
<1>a. Fits
  BY DEF TallyInv
<1> USE DEF BInv, TypeOK, DriverFits, WorkerFits, Open, Settled, Gone, Resting, Inside,
            WorkerGoes, SetChild, RecordsIn, Outcome
<1> HIDE DEF Tallied
<1>1. CASE StartBatch
  <2>1. Fits'
    BY <1>1, <1>a DEF StartBatch
  <2>2. Tallied
    BY <1>1, TalliesKept DEF StartBatch, Tallied
  <2> QED
    BY <2>1, <2>2
<1>2. CASE Gather
  <2>1. Fits'
    BY <1>2, <1>a DEF Gather
  <2>2. Tallied
    BY <1>2, <1>a, TalliesKept DEF Gather, Tallied
  <2> QED
    BY <2>1, <2>2
<1>3. CASE Gathered
  <2>1. Fits'
    BY <1>3, <1>a DEF Gathered
  <2>2. Tallied
    BY <1>3, TalliesKept DEF Gathered, Tallied
  <2> QED
    BY <2>1, <2>2
<1>4. CASE FailEscaped \/ Complete \/ Finish \/ FailParent \/ ParentFault
  <2>1. Fits'
    BY <1>4, <1>a DEF FailEscaped, Complete, Finish, FailParent, ParentFault
  <2>2. Tallied
    BY <1>4, TalliesKept DEF FailEscaped, Complete, Finish, FailParent, ParentFault, Tallied
  <2> QED
    BY <2>1, <2>2
<1>5. CASE ReadSummary
  <2>1. Fits'
    BY <1>5, <1>a DEF ReadSummary
  <2>2. \A s \in Settled : Counted(s)' = Counted(s)
    BY <1>5 DEF ReadSummary, Counted
  <2>3. parent' # "complete" \/ BooksAgree'
    BY <1>5, BooksWhenRead DEF BooksAgree
  <2>4. Tallied
    BY <1>5, <2>2, <2>3, BooksWhenRead DEF ReadSummary, TallyInv, BooksAgree, Tallied
  <2> QED
    BY <2>1, <2>4
<1>6. CASE CloseChildren
  <2>1. Fits'
    BY <1>6, <1>a DEF CloseChildren
  <2>2. Tallied
    BY <1>6, TalliesKept DEF CloseChildren, Tallied
  <2> QED
    BY <2>1, <2>2
<1>7. CASE CancelBatch
  <2>1. Fits'
    BY <1>7, <1>a DEF CancelBatch
  <2>2. Tallied
    BY <1>7, TalliesKept DEF CancelBatch, Tallied
  <2> QED
    BY <2>1, <2>2
<1>8. CASE Restart
  <2>1. Fits'
    BY <1>8, <1>a DEF Restart
  <2>2. Tallied
    BY <1>8, TalliesKept DEF Restart, Tallied
  <2> QED
    BY <2>1, <2>2
<1>9. ASSUME NEW r \in Records, NEW res \in Settled,
             \/ Acquire(r) \/ MarkChildRunning(r) \/ Refuse(r) \/ FailChild(r)
             \/ Assess(r, res) \/ StoreChild(r) \/ ChildFault(r)
      PROVE  Fits' /\ Tallied
  <2>1. Fits'
    <3>1. CASE Acquire(r) \/ Refuse(r) \/ Assess(r, res) \/ ChildFault(r)
      BY <3>1, <1>a DEF Acquire, Refuse, Assess, ChildFault
    <3>2. CASE MarkChildRunning(r)
      BY <3>2, <1>a DEF MarkChildRunning
    <3>3. CASE FailChild(r)
      BY <3>3, <1>a DEF FailChild
    <3>4. CASE StoreChild(r)
      BY <3>4, <1>a DEF StoreChild
    <3> QED
      BY <1>9, <3>1, <3>2, <3>3, <3>4
  <2>2. /\ driver = "gather" /\ UNCHANGED <<parent, driver, progress, summary>>
        /\ \A s \in Records : /\ worker'[s].phase = "done" <=> worker[s].phase = "done"
                              /\ worker[s].phase = "done" => worker'[s].res = worker[s].res
    BY <1>9 DEF Acquire, MarkChildRunning, Refuse, FailChild, Assess, StoreChild, ChildFault
  <2>3. RecordsIn(Gone) \subseteq RecordsIn(Gone)'
    BY <1>9 DEF Acquire, MarkChildRunning, Refuse, FailChild, Assess, StoreChild, ChildFault
  <2>4. Tallied
    BY <2>2, <2>3, TalliesKept DEF Tallied
  <2> QED
    BY <2>1, <2>4
<1>10. ASSUME NEW r \in Records, Count(r) PROVE Fits' /\ Tallied
  <2>1. Fits'
    BY <1>10, <1>a DEF Count
  <2>a. PICK q \in Settled : q = worker[r].res
    BY <1>10, <1>a DEF Count
  <2>2. /\ r \notin Counted(q) /\ Counted(q)' = Counted(q) \cup {r}
        /\ \A s \in Settled \ {q} : Counted(s)' = Counted(s)
    BY <1>10, <1>a, <2>a DEF Count, Counted
  <2>3. /\ driver = "gather" /\ driver' = "gather" /\ parent' = parent
        /\ progress' = [progress EXCEPT ![q] = @ + 1]
    BY <1>10, <2>a DEF Count
  <2>4. \A s \in Settled : progress[s] = Cardinality(Counted(s))
    BY <2>3 DEF TallyInv
  <2>5. Cardinality(Counted(q)') = Cardinality(Counted(q)) + 1
    BY <2>2, FinitePart, TallySizes, OneMore
  <2>6. progress'[q] = progress[q] + 1 /\ \A s \in Settled \ {q} : progress'[s] = progress[s]
    BY <2>3 DEF Counts
  <2>7. ASSUME NEW s \in Settled PROVE progress'[s] = Cardinality(Counted(s)')
    <3>1. CASE s = q
      BY <2>4, <2>5, <2>6, <3>1
    <3>2. CASE s # q
      <4>1. Counted(s)' = Counted(s)
        BY <2>2, <3>2
      <4> QED
        BY <2>4, <2>6, <3>2, <4>1
    <3> QED
      BY <3>1, <3>2
  <2>8. parent' # "complete"
    BY <2>3
  <2> QED
    BY <2>1, <2>3, <2>7, <2>8 DEF Tallied, BooksAgree
<1>11. ASSUME NEW r \in Records, DecideChild(r) \/ DeleteChild(r) PROVE Fits' /\ Tallied
  <2>1. Fits'
    BY <1>11, <1>a DEF DecideChild, DeleteChild
  <2>2. Tallied
    BY <1>11, TalliesKept DEF DecideChild, DeleteChild, Tallied
  <2> QED
    BY <2>1, <2>2
<1>12. CASE UNCHANGED vars
  <2>1. Fits'
    BY <1>12, <1>a DEF vars
  <2>2. Tallied
    BY <1>12, TalliesKept DEF vars, Tallied
  <2> QED
    BY <2>1, <2>2
<1> QED
  BY <1>1, <1>2, <1>3, <1>4, <1>5, <1>6, <1>7, <1>8, <1>9, <1>10, <1>11, <1>12
     DEF Next, DriverStep, WorkerStep

(* BooksAgree: when a batch completes, its live progress and the summary   *)
(* read from the rows account for every record, for any number of records, *)
(* whatever was decided or deleted meanwhile and whichever session raised. *)
THEOREM BooksAlwaysAgree == Spec => []BooksAgree
<1>1. BInv /\ BInv' /\ TallyInv /\ [Next]_vars => TallyInv'
  BY NextTallyInv
<1>2. TallyInv => BooksAgree
  BY DEF TallyInv
<1> QED
  BY <1>1, <1>2, InitTallyInv, BatchInvariant, PTL DEF Spec
=============================================================================
