--------------------------- MODULE EvidenceProofs ---------------------------
(***************************************************************************)
(* Safety of the receipt chain and what it is worth to those who read it,  *)
(* for every number of events, replicas, attempts, crashes, readers and    *)
(* edits: no run's chain breaks, ReceiptChain implements ReceiptLog, one    *)
(* reply of the read API is coherent although its reads are not one         *)
(* transaction, and an exported file that verifies is what the store holds. *)
(*                                                                         *)
(* The first rests on IInv, which adds to the invariants what makes them    *)
(* inductive: who may still have an INSERT on the wire, who already owns a  *)
(* row, that a built receipt links a row that is still there, and that      *)
(* whoever took a slot under a task's feet was out of append_guard's reach. *)
(* The others rest on HeightInv too: the seqs of a run are exactly those    *)
(* below the number of its rows, so that "the row number i" is a function.  *)
(***************************************************************************)
EXTENDS ReceiptChain, ReceiptRefinement, ChainAudit, FiniteSetTheorems, TLAPS

-----------------------------------------------------------------------------
\* The receipt of the current attempt is still waiting to be stored.
Pending(e) == e \in wire \/ pc[e] \in {"append", "insert"}

\* append_guard could not keep the writer of q from a slot that e wanted.
OutOfReach(q, e) ==
    /\ q.event # e
    /\ \/ ReplicaOf[q.event] # ReplicaOf[e]
       \/ pc[q.event] \in {"lost", "gone"}

Blame(e, n) ==
    \E q \in rows : q.run = RunId(e) /\ q.seq + 1 >= n /\ OutOfReach(q, e)

PendingTyped ==
    \A e \in Events : Pending(e) =>
        /\ built[e].run = RunId(e)
        /\ built[e].event = e
        /\ built[e].seq \in Nat

PendingLinked ==
    \A e \in Events : Pending(e) =>
        \/ LinksEmpty(built[e])
        \/ \E q \in rows : q.run = RunId(e) /\ LinksHead(built[e], q)

WireOwner == \A e \in wire : pc[e] \in {"insert", "lost", "gone"}

RowOwner ==
    \A r \in rows :
        /\ r.event \notin wire
        /\ pc[r.event] \in {"committed", "done", "lost", "gone"}
        /\ r.run = RunId(r.event)

CommittedHasRow ==
    \A e \in Events : pc[e] \in {"committed", "done"} => \E r \in rows : r.event = e

AttemptsLeft ==
    \A e \in Events : pc[e] \in Running \cup {"idle"} => attempt[e] < MaxAttempts

GuardHeld == \A e \in Events : pc[e] \in Holding => guard[ReplicaOf[e]] = e

BuiltAbove ==
    \A e \in Events : pc[e] \in {"append", "insert"} => built[e].seq >= attempt[e]

RivalsOutOfReach ==
    \A e \in Events : pc[e] \in {"append", "insert"} =>
        \A q \in rows : (q.run = RunId(e) /\ q.seq >= built[e].seq) => OutOfReach(q, e)

BackoffBlame ==
    \A e \in Events : pc[e] = "backoff" => Blame(e, attempt[e] + 1)

\* The part about the table.
ChainInv ==
    /\ TypeOK
    /\ PendingTyped
    /\ AttemptsLeft
    /\ PendingLinked
    /\ WireOwner
    /\ RowOwner
    /\ ChainIntact
    /\ AtMostOnce
    /\ CommittedHasRow

\* The part about lost races.
RaceInv ==
    /\ GuardHeld
    /\ BuiltAbove
    /\ RivalsOutOfReach
    /\ BackoffBlame
    /\ RetryBlame

IInv == ChainInv /\ RaceInv

-----------------------------------------------------------------------------
\* RunId is total on Events.
LEMMA RunIdType == \A e \in Events : RunId(e) \in Runs
BY DEF Runs

\* The initial state, with an empty table, satisfies the invariant.
LEMMA InitInv == Init => IInv
<1> SUFFICES ASSUME Init PROVE IInv
  OBVIOUS
<1> USE DEF Init
<1>1. ChainInv
  BY AttemptsAssumption DEF ChainInv, TypeOK, PendingTyped, AttemptsLeft, PendingLinked,
     WireOwner, RowOwner, ChainIntact, AtMostOnce, CommittedHasRow, Pending, Phases, Running,
     Holding, Ended
<1>2. RaceInv
  BY DEF RaceInv, GuardHeld, BuiltAbove, RivalsOutOfReach, BackoffBlame, RetryBlame, Holding
<1> QED
  BY <1>1, <1>2 DEF IInv

-----------------------------------------------------------------------------
\* Type correctness is preserved by every step of record(), of the database and
\* by a crash.
LEMMA TypeStep == ChainInv /\ [Next]_vars => TypeOK'
<1> SUFFICES ASSUME ChainInv, [Next]_vars PROVE TypeOK'
  OBVIOUS
<1> USE RunIdType, ReplicaAssumption, AttemptsAssumption
    DEF ChainInv, TypeOK, Phases, Running, Holding, Ended, Goto, Release
<1>1. ASSUME NEW e \in Events, Record(e) PROVE TypeOK'
  BY <1>1 DEF Record
<1>2. ASSUME NEW e \in Events, Lock(e) PROVE TypeOK'
  BY <1>2 DEF Lock
<1>3. ASSUME NEW e \in Events, BuildReceipt(e) PROVE TypeOK'
  BY <1>3 DEF BuildReceipt
<1>4. ASSUME NEW e \in Events, SendInsert(e) PROVE TypeOK'
  BY <1>4 DEF SendInsert
<1>5. ASSUME NEW e \in Events, ChainViolation(e) PROVE TypeOK'
  BY <1>5 DEF ChainViolation
<1>6. ASSUME NEW e \in Events, ExecInsert(e) PROVE TypeOK'
  <2>1. \A r \in rows' : r.run \in Runs /\ r.seq \in Nat /\ r.event \in Events
    BY <1>6 DEF ExecInsert, PendingTyped, Pending
  <2> QED
    BY <1>6, <2>1 DEF ExecInsert
<1>7. ASSUME NEW e \in Events, DuplicateSeq(e) PROVE TypeOK'
  BY <1>7 DEF DuplicateSeq
<1>8. ASSUME NEW e \in Events, LoseInsert(e) PROVE TypeOK'
  BY <1>8 DEF LoseInsert
<1>9. ASSUME NEW e \in Events, Return(e) PROVE TypeOK'
  BY <1>9 DEF Return
<1>10. ASSUME NEW e \in Events, Drop(e)
       PROVE  /\ pc' \in [Events -> Phases]
              /\ guard' \in [Replicas -> Events \cup {Free}]
              /\ dropped' \in [Replicas -> [Runs -> Nat]]
  BY <1>10 DEF Drop
<1>11. ASSUME NEW e \in Events, Retry(e) PROVE TypeOK'
  <2>1. attempt[e] \in Nat /\ attempt[e] < MaxAttempts
    BY <1>11 DEF Retry, AttemptsLeft
  <2>2. attempt' \in [Events -> 0..MaxAttempts]
    BY <1>11, <2>1 DEF Retry
  <2> QED
    BY <1>10, <1>11, <2>2 DEF Retry
<1>12. ASSUME NEW e \in Events, TerminalError(e) PROVE TypeOK'
  BY <1>10, <1>12 DEF TerminalError
<1>13. ASSUME NEW e \in Events, Cancel(e) PROVE TypeOK'
  BY <1>13 DEF Cancel
<1>14. ASSUME NEW p \in Replicas, Crash(p) PROVE TypeOK'
  BY <1>14 DEF Crash
<1>15. CASE UNCHANGED vars
  BY <1>15 DEF vars
<1> QED
  BY <1>1, <1>2, <1>3, <1>4, <1>5, <1>6, <1>7, <1>8, <1>9, <1>11, <1>12, <1>13, <1>14, <1>15
  DEF Next, TaskNext, Step

-----------------------------------------------------------------------------
\* No step but ExecInsert touches the table, so the invariants about the table
\* alone carry over.
LEMMA TableStable ==
    ChainInv /\ UNCHANGED rows => ChainIntact' /\ AtMostOnce'
BY DEF ChainInv, ChainIntact, AtMostOnce, LinksEmpty, LinksHead, BodyHash

\* A committed INSERT keeps every chain intact: the link was checked against a
\* row that is still there, and the primary key was free.
LEMMA InsertKeepsChain ==
    ASSUME ChainInv, NEW e \in Events, ExecInsert(e)
    PROVE  ChainIntact' /\ AtMostOnce'
<1> DEFINE new == built[e]
<1>1. /\ rows' = rows \cup {new}
      /\ new.run = RunId(e) /\ new.event = e /\ new.seq \in Nat
      /\ \A q \in rows : ~(q.run = new.run /\ q.seq = new.seq)
      /\ \A q \in rows : q.event # e
  BY DEF ChainInv, ExecInsert, PendingTyped, Pending, KeyTaken, RowOwner
<1>2. \/ LinksEmpty(new)
      \/ \E q \in rows : q.run = new.run /\ LinksHead(new, q)
  BY <1>1 DEF ChainInv, PendingLinked, Pending, ExecInsert
<1>3. \A k \in 0..new.seq : \E q \in rows' : q.run = new.run /\ q.seq = k
  <2> SUFFICES ASSUME NEW k \in 0..new.seq
               PROVE  \E q \in rows' : q.run = new.run /\ q.seq = k
    OBVIOUS
  <2>1. CASE k = new.seq
    BY <1>1, <2>1
  <2>2. CASE k # new.seq
    <3>1. PICK q \in rows : q.run = new.run /\ new.seq = q.seq + 1
      BY <1>1, <1>2, <2>2 DEF LinksEmpty, LinksHead
    <3>2. q.seq \in Nat /\ k \in 0..q.seq
      BY <1>1, <2>2, <3>1 DEF ChainInv, TypeOK
    <3>3. \E x \in rows : x.run = q.run /\ x.seq = k
      BY <3>2 DEF ChainInv, ChainIntact
    <3> QED
      BY <1>1, <3>1, <3>3
  <2> QED
    BY <2>1, <2>2
<1>4. ChainIntact'
  <2> SUFFICES ASSUME NEW r \in rows'
               PROVE  /\ \A q \in rows' : (q.run = r.run /\ q.seq = r.seq) => q = r
                      /\ \A k \in 0..r.seq : \E q \in rows' : q.run = r.run /\ q.seq = k
                      /\ \/ LinksEmpty(r)
                         \/ \E q \in rows' : q.run = r.run /\ LinksHead(r, q)
    BY DEF ChainIntact, LinksEmpty, LinksHead, BodyHash
  <2>1. CASE r \in rows
    BY <1>1, <2>1 DEF ChainInv, ChainIntact
  <2>2. CASE r = new
    BY <1>1, <1>2, <1>3, <2>2
  <2> QED
    BY <1>1, <2>1, <2>2
<1>5. AtMostOnce'
  BY <1>1 DEF ChainInv, AtMostOnce
<1> QED
  BY <1>4, <1>5

-----------------------------------------------------------------------------
\* The rest of ChainInv relates a task to the table.
TaskInv ==
    /\ PendingTyped
    /\ AttemptsLeft
    /\ PendingLinked
    /\ WireOwner
    /\ RowOwner
    /\ CommittedHasRow

\* Every step keeps each task's relation to the table and to the wire.
LEMMA TaskStep == ChainInv /\ [Next]_vars => TaskInv'
<1> SUFFICES ASSUME ChainInv, [Next]_vars PROVE TaskInv'
  OBVIOUS
<1> USE ReplicaAssumption, AttemptsAssumption
    DEF ChainInv, TypeOK, TaskInv, PendingTyped, AttemptsLeft, PendingLinked, WireOwner,
        RowOwner, CommittedHasRow, Pending, Running, Holding, Goto, Release
<1>1. ASSUME NEW e \in Events, Record(e) PROVE TaskInv'
  BY <1>1 DEF Record
<1>2. ASSUME NEW e \in Events, Lock(e) PROVE TaskInv'
  BY <1>2 DEF Lock
<1>3. ASSUME NEW e \in Events, BuildReceipt(e) PROVE TaskInv'
  <2>1. /\ UNCHANGED <<rows, wire, attempt>>
        /\ pc[e] = "head" /\ pc' = [pc EXCEPT ![e] = "append"]
        /\ \A f \in Events \ {e} : built'[f] = built[f]
    BY <1>3 DEF BuildReceipt
  <2>2. /\ built'[e].run = RunId(e) /\ built'[e].event = e /\ built'[e].seq \in Nat
        /\ \/ LinksEmpty(built'[e])
           \/ \E q \in rows : q.run = RunId(e) /\ LinksHead(built'[e], q)
    <3>1. CASE built' = [built EXCEPT ![e] = Genesis(e)]
      BY <3>1 DEF Genesis, LinksEmpty
    <3>2. ASSUME NEW h \in rows, IsHead(h, RunId(e)), built' = [built EXCEPT ![e] = Extend(e, h)]
          PROVE  <2>2!1 /\ <2>2!2
      BY <3>2 DEF Extend, IsHead, LinksHead
    <3> QED
      BY <1>3, <3>1, <3>2 DEF BuildReceipt
  <2> QED
    BY <2>1, <2>2
<1>4. ASSUME NEW e \in Events, SendInsert(e) PROVE TaskInv'
  BY <1>4 DEF SendInsert
<1>5. ASSUME NEW e \in Events, ChainViolation(e) PROVE TaskInv'
  BY <1>5 DEF ChainViolation
<1>6. ASSUME NEW e \in Events, ExecInsert(e) PROVE TaskInv'
  BY <1>6 DEF ExecInsert, AtMostOnce
<1>7. ASSUME NEW e \in Events, DuplicateSeq(e) PROVE TaskInv'
  BY <1>7 DEF DuplicateSeq
<1>8. ASSUME NEW e \in Events, LoseInsert(e) PROVE TaskInv'
  BY <1>8 DEF LoseInsert
<1>9. ASSUME NEW e \in Events, Return(e) PROVE TaskInv'
  BY <1>9 DEF Return
<1>10. ASSUME NEW e \in Events, Retry(e) PROVE TaskInv'
  <2>1. /\ UNCHANGED <<rows, wire, built>>
        /\ pc[e] = "backoff"
        /\ attempt' = [attempt EXCEPT ![e] = @ + 1]
        /\ \/ attempt[e] + 1 < MaxAttempts /\ pc' = [pc EXCEPT ![e] = "head"]
           \/ pc' = [pc EXCEPT ![e] = "lost"]
    BY <1>10 DEF Retry, Drop
  <2>2. CASE attempt[e] + 1 < MaxAttempts /\ pc' = [pc EXCEPT ![e] = "head"]
    BY <2>1, <2>2
  <2>3. CASE pc' = [pc EXCEPT ![e] = "lost"]
    BY <2>1, <2>3
  <2> QED
    BY <2>1, <2>2, <2>3
<1>11. ASSUME NEW e \in Events, TerminalError(e) PROVE TaskInv'
  BY <1>11 DEF TerminalError, Drop
<1>12. ASSUME NEW e \in Events, Cancel(e) PROVE TaskInv'
  BY <1>12 DEF Cancel
<1>13. ASSUME NEW p \in Replicas, Crash(p) PROVE TaskInv'
  BY <1>13 DEF Crash
<1>14. CASE UNCHANGED vars
  BY <1>14 DEF vars
<1> QED
  BY <1>1, <1>2, <1>3, <1>4, <1>5, <1>6, <1>7, <1>8, <1>9, <1>10, <1>11, <1>12, <1>13, <1>14
  DEF Next, TaskNext, Step

\* The invariant about the table is inductive.
LEMMA ChainStep == ChainInv /\ [Next]_vars => ChainInv'
<1> SUFFICES ASSUME ChainInv, [Next]_vars PROVE ChainInv'
  OBVIOUS
<1>1. ChainIntact' /\ AtMostOnce'
  <2>1. CASE UNCHANGED rows
    BY <2>1, TableStable
  <2>2. CASE \E e \in Events : ExecInsert(e)
    BY <2>2, InsertKeepsChain
  <2> QED
    BY <2>1, <2>2 DEF Next, TaskNext, Step, Record, Lock, BuildReceipt, SendInsert,
       ChainViolation, DuplicateSeq, LoseInsert, Return, Retry, TerminalError, Cancel,
       Crash, vars
<1> QED
  BY <1>1, TypeStep, TaskStep DEF ChainInv, TaskInv

-----------------------------------------------------------------------------
\* A writer that append_guard could not keep out stays one: a lost or gone task
\* never runs again.
LEMMA OutOfReachStable ==
    ASSUME ChainInv, [Next]_vars, NEW q \in rows, NEW e \in Events, OutOfReach(q, e)
    PROVE  q \in rows' /\ OutOfReach(q, e)'
<1> USE DEF ChainInv, TypeOK, OutOfReach, Goto, Release, Running, Holding
<1>1. rows \subseteq rows'
  BY DEF Next, TaskNext, Step, Record, Lock, BuildReceipt, SendInsert, ChainViolation,
     ExecInsert, DuplicateSeq, LoseInsert, Return, Retry, TerminalError, Cancel, Crash, vars
<1>2. pc[q.event] \in {"lost", "gone"} => pc'[q.event] \in {"lost", "gone"}
  <2>1. ASSUME NEW f \in Events, TaskNext(f) PROVE <1>2
    <3>1. CASE Record(f) \/ Lock(f) \/ BuildReceipt(f) \/ SendInsert(f) \/ ChainViolation(f)
      BY <3>1 DEF Record, Lock, BuildReceipt, SendInsert, ChainViolation
    <3>2. CASE ExecInsert(f) \/ DuplicateSeq(f) \/ LoseInsert(f)
      BY <3>2 DEF ExecInsert, DuplicateSeq, LoseInsert
    <3>3. CASE Return(f) \/ Retry(f) \/ TerminalError(f) \/ Cancel(f)
      BY <3>3 DEF Return, Retry, TerminalError, Cancel, Drop
    <3> QED
      BY <2>1, <3>1, <3>2, <3>3 DEF TaskNext, Step
  <2>2. ASSUME NEW p \in Replicas, Crash(p) PROVE <1>2
    BY <2>2 DEF Crash
  <2>3. CASE UNCHANGED vars
    BY <2>3 DEF vars
  <2> QED
    BY <2>1, <2>2, <2>3 DEF Next
<1> QED
  BY <1>1, <1>2

\* At most one task per process is between lock and release.
LEMMA GuardStep == ChainInv /\ GuardHeld /\ [Next]_vars => GuardHeld'
<1> SUFFICES ASSUME ChainInv, GuardHeld, [Next]_vars PROVE GuardHeld'
  OBVIOUS
<1> USE ReplicaAssumption, FreeAssumption
    DEF ChainInv, TypeOK, GuardHeld, Goto, Release, Running, Holding
<1>1. ASSUME NEW f \in Events, TaskNext(f) PROVE GuardHeld'
  <2>1. CASE Record(f) \/ BuildReceipt(f) \/ SendInsert(f) \/ ChainViolation(f)
    BY <2>1 DEF Record, BuildReceipt, SendInsert, ChainViolation
  <2>2. CASE Lock(f)
    BY <2>2 DEF Lock
  <2>3. CASE ExecInsert(f) \/ DuplicateSeq(f) \/ LoseInsert(f)
    BY <2>3 DEF ExecInsert, DuplicateSeq, LoseInsert
  <2>4. CASE Return(f) \/ TerminalError(f) \/ Cancel(f)
    BY <2>4 DEF Return, TerminalError, Cancel, Drop
  <2>5. CASE Retry(f)
    BY <2>5 DEF Retry, Drop
  <2> QED
    BY <1>1, <2>1, <2>2, <2>3, <2>4, <2>5 DEF TaskNext, Step
<1>2. ASSUME NEW p \in Replicas, Crash(p) PROVE GuardHeld'
  BY <1>2 DEF Crash
<1>3. CASE UNCHANGED vars
  BY <1>3 DEF vars
<1> QED
  BY <1>1, <1>2, <1>3 DEF Next

-----------------------------------------------------------------------------
\* RetryBlame in the words of the proof.
LEMMA RetryBlameIsBlame ==
    RetryBlame <=> \A e \in Events : attempt[e] > 0 => Blame(e, attempt[e])
BY DEF RetryBlame, Blame, OutOfReach

\* A receipt freshly built on the head is above every row of its run, and above
\* the rows that cost the task its earlier attempts.
LEMMA FreshBuild ==
    ASSUME IInv, NEW e \in Events, BuildReceipt(e)
    PROVE  /\ built'[e].seq >= attempt[e]
           /\ \A q \in rows : q.run = RunId(e) => q.seq < built'[e].seq
<1>1. attempt[e] \in Nat /\ \A q \in rows : q.seq \in Nat
  BY DEF IInv, ChainInv, TypeOK
<1>2. attempt[e] > 0 => \E q \in rows : q.run = RunId(e) /\ q.seq + 1 >= attempt[e]
  BY RetryBlameIsBlame DEF IInv, RaceInv, Blame
<1>3. CASE EmptyRun(RunId(e)) /\ built' = [built EXCEPT ![e] = Genesis(e)]
  <2>1. built'[e].seq = 0
    BY <1>3 DEF Genesis, IInv, ChainInv, TypeOK
  <2> QED
    BY <1>1, <1>2, <1>3, <2>1 DEF EmptyRun
<1>4. ASSUME NEW h \in rows, IsHead(h, RunId(e)), built' = [built EXCEPT ![e] = Extend(e, h)]
      PROVE  /\ built'[e].seq >= attempt[e]
             /\ \A q \in rows : q.run = RunId(e) => q.seq < built'[e].seq
  <2>1. built'[e].seq = h.seq + 1
    BY <1>4 DEF Extend, IInv, ChainInv, TypeOK
  <2> QED
    BY <1>1, <1>2, <1>4, <2>1 DEF IsHead
<1> QED
  BY <1>3, <1>4 DEF BuildReceipt

\* Nothing but BuildReceipt changes a built receipt.
LEMMA BuiltStable ==
    ASSUME ChainInv, [Next]_vars, NEW e \in Events, ~BuildReceipt(e)
    PROVE  built'[e] = built[e]
<1> USE DEF ChainInv, TypeOK
<1>1. ASSUME NEW f \in Events, BuildReceipt(f) PROVE built'[e] = built[e]
  BY <1>1 DEF BuildReceipt
<1> QED
  BY <1>1 DEF Next, TaskNext, Step, Record, Lock, SendInsert, ChainViolation, ExecInsert,
     DuplicateSeq, LoseInsert, Return, Retry, TerminalError, Cancel, Crash, vars

\* A task is about to store its receipt after a step only if it was before the
\* step, or has just built it; in both cases its attempt count is unchanged.
LEMMA StoringStable ==
    ASSUME ChainInv, [Next]_vars, NEW e \in Events, pc'[e] \in {"append", "insert"},
           ~BuildReceipt(e)
    PROVE  pc[e] \in {"append", "insert"} /\ attempt'[e] = attempt[e]
<1> USE DEF ChainInv, TypeOK, Goto
<1>1. ASSUME NEW f \in Events, TaskNext(f)
      PROVE  pc[e] \in {"append", "insert"} /\ attempt'[e] = attempt[e]
  <2>1. CASE Record(f) \/ Lock(f) \/ BuildReceipt(f) \/ SendInsert(f) \/ ChainViolation(f)
    BY <2>1 DEF Record, Lock, BuildReceipt, SendInsert, ChainViolation
  <2>2. CASE ExecInsert(f) \/ DuplicateSeq(f) \/ LoseInsert(f)
    BY <2>2 DEF ExecInsert, DuplicateSeq, LoseInsert
  <2>3. CASE Return(f) \/ TerminalError(f) \/ Cancel(f)
    BY <2>3 DEF Return, TerminalError, Cancel, Drop
  <2>4. CASE Retry(f)
    BY <2>4 DEF Retry, Drop
  <2> QED
    BY <1>1, <2>1, <2>2, <2>3, <2>4 DEF TaskNext, Step
<1>2. ASSUME NEW p \in Replicas, Crash(p)
      PROVE  pc[e] \in {"append", "insert"} /\ attempt'[e] = attempt[e]
  BY <1>2 DEF Crash
<1>3. CASE UNCHANGED vars
  BY <1>3 DEF vars
<1> QED
  BY <1>1, <1>2, <1>3 DEF Next

\* Whoever commits at or above the slot a task is about to take runs in another
\* process, or had released append_guard with its INSERT still on the wire.
LEMMA RivalStep == IInv /\ [Next]_vars => RivalsOutOfReach' /\ BuiltAbove'
<1> SUFFICES ASSUME IInv, [Next]_vars, NEW e \in Events, pc'[e] \in {"append", "insert"}
             PROVE  /\ built'[e].seq >= attempt'[e]
                    /\ \A q \in rows' : (q.run = RunId(e) /\ q.seq >= built'[e].seq)
                                            => OutOfReach(q, e)'
  BY DEF RivalsOutOfReach, BuiltAbove
<1> USE DEF IInv
<1>1. CASE BuildReceipt(e)
  <2>1. rows' = rows /\ attempt' = attempt
    BY <1>1 DEF BuildReceipt
  <2>2. \A q \in rows : q.run = RunId(e) => ~(q.seq >= built'[e].seq)
    <3>1. built'[e].seq \in Nat
      BY <1>1, ChainStep DEF ChainInv, PendingTyped, Pending
    <3> QED
      BY <1>1, <3>1, FreshBuild DEF ChainInv, TypeOK
  <2> QED
    BY <1>1, <2>1, <2>2, FreshBuild
<1>2. CASE ~BuildReceipt(e)
  <2>1. /\ pc[e] \in {"append", "insert"}
        /\ attempt'[e] = attempt[e]
        /\ built'[e] = built[e]
    BY <1>2, StoringStable, BuiltStable
  <2>2. ASSUME NEW q \in rows', q.run = RunId(e), q.seq >= built'[e].seq
        PROVE  OutOfReach(q, e)'
    <3>1. CASE q \in rows
      BY <2>1, <2>2, <3>1, OutOfReachStable DEF RaceInv, RivalsOutOfReach
    <3>2. CASE q \notin rows
      <4>1. PICK f \in Events : ExecInsert(f)
        BY <3>2, <2>2 DEF Next, TaskNext, Step, Record, Lock, BuildReceipt, SendInsert,
           ChainViolation, DuplicateSeq, LoseInsert, Return, Retry, TerminalError, Cancel,
           Crash, vars
      <4>2. q = built[f] /\ q.event = f /\ f \in wire
        BY <3>2, <2>2, <4>1 DEF ExecInsert, ChainInv, PendingTyped, Pending
      <4>3. f # e
        <5>1. SUFFICES ASSUME f = e PROVE FALSE
          OBVIOUS
        <5> QED
          BY <2>1, <4>1, <4>2, <5>1 DEF ExecInsert, ChainInv, TypeOK, WireOwner
      <4>4. CASE ReplicaOf[f] = ReplicaOf[e]
        <5>1. pc[f] # "insert"
          BY <2>1, <4>3, <4>4 DEF RaceInv, GuardHeld, Holding
        <5>2. pc'[f] = pc[f] /\ pc[f] \in {"lost", "gone"}
          BY <4>1, <4>2, <5>1 DEF ExecInsert, ChainInv, WireOwner, TypeOK
        <5> QED
          BY <4>2, <4>3, <5>2 DEF OutOfReach
      <4>5. CASE ReplicaOf[f] # ReplicaOf[e]
        BY <4>2, <4>3, <4>5 DEF OutOfReach
      <4> QED
        BY <4>4, <4>5
    <3> QED
      BY <3>1, <3>2
  <2> QED
    BY <2>1, <2>2 DEF RaceInv, BuiltAbove
<1> QED
  BY <1>1, <1>2

\* check_append_link refuses a built receipt only when the run has grown past it.
LEMMA ViolationMeansGrowth ==
    ASSUME ChainInv, NEW e \in Events, pc[e] = "append", ~LinkOk(e)
    PROVE  \E q \in rows : q.run = RunId(e) /\ q.seq >= built[e].seq
<1> SUFFICES ASSUME \A q \in rows : q.run = RunId(e) => q.seq < built[e].seq
             PROVE  FALSE
  BY DEF ChainInv, TypeOK, PendingTyped, Pending
<1>1. \A q \in rows : q.seq \in Nat
  BY DEF ChainInv, TypeOK
<1>2. CASE LinksEmpty(built[e])
  <2>1. EmptyRun(RunId(e))
    BY <1>1, <1>2 DEF EmptyRun, LinksEmpty
  <2> QED
    BY <1>2, <2>1 DEF LinkOk
<1>3. CASE \E q \in rows : q.run = RunId(e) /\ LinksHead(built[e], q)
  <2>1. PICK q \in rows : q.run = RunId(e) /\ LinksHead(built[e], q)
    BY <1>3
  <2>2. built[e].seq = q.seq + 1
    BY <2>1 DEF LinksHead
  <2>3. IsHead(q, RunId(e))
    BY <1>1, <2>1, <2>2 DEF IsHead
  <2> QED
    BY <2>1, <2>3 DEF LinkOk
<1> QED
  BY <1>2, <1>3 DEF ChainInv, PendingLinked, Pending

\* A task backs off only with a rival to blame.
LEMMA BackoffStep == IInv /\ [Next]_vars => BackoffBlame'
<1> SUFFICES ASSUME IInv, [Next]_vars, NEW e \in Events, pc'[e] = "backoff"
             PROVE  Blame(e, attempt[e] + 1)' /\ attempt'[e] = attempt[e]
  BY DEF BackoffBlame, Blame
<1> USE DEF IInv
<1>1. ChainInv' /\ attempt[e] \in Nat
  BY ChainStep DEF ChainInv, TypeOK
<1>2. CASE pc[e] = "backoff"
  <2>1. attempt'[e] = attempt[e]
    <3> USE DEF ChainInv, TypeOK, Goto
    <3>1. ASSUME NEW f \in Events, Retry(f) PROVE attempt'[e] = attempt[e]
      BY <1>2, <3>1 DEF Retry, Drop
    <3> QED
      BY <3>1 DEF Next, TaskNext, Step, Record, Lock, BuildReceipt, SendInsert,
         ChainViolation, ExecInsert, DuplicateSeq, LoseInsert, Return, TerminalError, Cancel,
         Crash, vars
  <2>2. Blame(e, attempt[e] + 1)
    BY <1>2 DEF RaceInv, BackoffBlame
  <2>3. \E q \in rows : q.run = RunId(e) /\ q.seq + 1 >= attempt[e] + 1 /\ OutOfReach(q, e)
    BY <2>2 DEF Blame
  <2> QED
    BY <2>1, <2>3, OutOfReachStable DEF Blame
<1>3. CASE pc[e] # "backoff"
  <2>1. /\ ChainViolation(e) \/ (DuplicateSeq(e) /\ pc[e] = "insert")
        /\ rows' = rows /\ attempt' = attempt
    <3> USE DEF ChainInv, TypeOK, Goto
    <3>1. ASSUME NEW f \in Events, TaskNext(f) PROVE <2>1
      <4>1. CASE Record(f) \/ Lock(f) \/ BuildReceipt(f) \/ SendInsert(f) \/ ChainViolation(f)
        BY <1>3, <4>1 DEF Record, Lock, BuildReceipt, SendInsert, ChainViolation
      <4>2. CASE ExecInsert(f) \/ DuplicateSeq(f) \/ LoseInsert(f)
        BY <1>3, <4>2 DEF ExecInsert, DuplicateSeq, LoseInsert
      <4>3. CASE Return(f) \/ Retry(f) \/ TerminalError(f) \/ Cancel(f)
        BY <1>3, <4>3 DEF Return, Retry, TerminalError, Cancel, Drop
      <4> QED
        BY <3>1, <4>1, <4>2, <4>3 DEF TaskNext, Step
    <3>2. ASSUME NEW p \in Replicas, Crash(p) PROVE <2>1
      BY <1>3, <3>2 DEF Crash
    <3>3. CASE UNCHANGED vars
      BY <1>3, <3>3 DEF vars
    <3> QED
      BY <3>1, <3>2, <3>3 DEF Next
  <2>2. pc[e] \in {"append", "insert"}
    BY <2>1 DEF ChainViolation
  <2>3. \E q \in rows : q.run = RunId(e) /\ q.seq >= built[e].seq
    <3>1. CASE ChainViolation(e)
      BY <3>1, ViolationMeansGrowth DEF ChainViolation
    <3>2. CASE DuplicateSeq(e)
      <4>1. PICK q \in rows : q.run = built[e].run /\ q.seq = built[e].seq
        BY <3>2 DEF DuplicateSeq, KeyTaken
      <4> QED
        BY <2>2, <4>1 DEF ChainInv, TypeOK, PendingTyped, Pending
    <3> QED
      BY <2>1, <3>1, <3>2
  <2>4. PICK q \in rows : q.run = RunId(e) /\ q.seq >= built[e].seq
    BY <2>3
  <2>5. OutOfReach(q, e)
    BY <2>2, <2>4 DEF RaceInv, RivalsOutOfReach
  <2>6. q.seq + 1 >= attempt[e] + 1
    BY <1>1, <2>2, <2>4 DEF RaceInv, BuiltAbove, ChainInv, TypeOK, PendingTyped, Pending
  <2>7. q \in rows' /\ OutOfReach(q, e)'
    BY <2>5, OutOfReachStable
  <2> QED
    BY <2>1, <2>4, <2>6, <2>7 DEF Blame
<1> QED
  BY <1>2, <1>3

\* Every lost attempt stays explained.
LEMMA RetryStep == IInv /\ [Next]_vars => RetryBlame'
<1> SUFFICES ASSUME IInv, [Next]_vars, NEW e \in Events, attempt'[e] > 0
             PROVE  \E q \in rows' : /\ q.run = RunId(e)
                                     /\ q.seq + 1 >= attempt'[e]
                                     /\ OutOfReach(q, e)'
  BY DEF RetryBlame, OutOfReach
<1> USE DEF IInv
<1>1. \/ attempt'[e] = attempt[e]
      \/ pc[e] = "backoff" /\ attempt'[e] = attempt[e] + 1
  <2> USE DEF ChainInv, TypeOK
  <2>1. ASSUME NEW f \in Events, Retry(f) PROVE <1>1
    BY <2>1 DEF Retry
  <2> QED
    BY <2>1 DEF Next, TaskNext, Step, Record, Lock, BuildReceipt, SendInsert, ChainViolation,
       ExecInsert, DuplicateSeq, LoseInsert, Return, TerminalError, Cancel, Crash, vars
<1>2. \E q \in rows : q.run = RunId(e) /\ q.seq + 1 >= attempt'[e] /\ OutOfReach(q, e)
  <2>1. CASE attempt'[e] = attempt[e]
    BY <2>1, RetryBlameIsBlame DEF RaceInv, Blame
  <2>2. CASE pc[e] = "backoff" /\ attempt'[e] = attempt[e] + 1
    BY <2>2 DEF RaceInv, BackoffBlame, Blame
  <2> QED
    BY <1>1, <2>1, <2>2
<1> QED
  BY <1>2, OutOfReachStable

-----------------------------------------------------------------------------
\* The invariant is inductive.
LEMMA Inductive == IInv /\ [Next]_vars => IInv'
BY ChainStep, GuardStep, RivalStep, BackoffStep, RetryStep DEF IInv, RaceInv

\* The inductive invariant holds throughout.
LEMMA Invariance == Spec => []IInv
BY InitInv, Inductive, PTL DEF Spec

\* Type correctness: every variable keeps its type under any mix of record()
\* calls, database answers, disconnects and crashes.
THEOREM TypeCorrect == Spec => []TypeOK
<1>1. IInv => TypeOK
  BY DEF IInv, ChainInv
<1> QED
  BY <1>1, Invariance, PTL

\* Whatever the number of replicas, every run is a chain that verify_chain
\* accepts, gap-free and linked, although append() is not a transaction.
THEOREM ChainsStayIntact == Spec => []ChainIntact
<1>1. IInv => ChainIntact
  BY DEF IInv, ChainInv
<1> QED
  BY <1>1, Invariance, PTL

\* No event is ever receipted twice, and only in its own run: the retry loop and
\* INSERTs that commit after they were given up are harmless.
THEOREM NoDoubleReceipt == Spec => []AtMostOnce
<1>1. IInv => AtMostOnce
  BY DEF IInv, ChainInv
<1> QED
  BY <1>1, Invariance, PTL

\* A record() that returned out of the append loop left a durable receipt.
THEOREM AcksAreDurable == Spec => []AckedIsDurable
<1>1. IInv => AckedIsDurable
  BY DEF IInv, ChainInv, CommittedHasRow, AckedIsDurable
<1> QED
  BY <1>1, Invariance, PTL

\* A run that no other process writes and that nobody abandoned mid-INSERT never
\* costs an attempt; and n lost attempts need n receipts of such writers.
THEOREM LostRacesHaveARival == Spec => []RetryBlame
<1>1. IInv => RetryBlame
  BY DEF IInv, RaceInv
<1> QED
  BY <1>1, Invariance, PTL

\* The table is append-only and every commit is at the tail of its run.
THEOREM CommitsAtTheTail == Spec => TailOnly
<1> DEFINE AtTail == /\ rows \subseteq rows'
                     /\ \A r \in rows' \ rows, q \in rows : q.run = r.run => q.seq < r.seq
<1>1. IInv /\ [Next]_vars => [AtTail]_vars
  <2> SUFFICES ASSUME IInv, Next PROVE AtTail
    OBVIOUS
  <2>1. CASE UNCHANGED rows
    BY <2>1
  <2>2. ASSUME NEW e \in Events, ExecInsert(e) PROVE AtTail
    <3>1. /\ rows' = rows \cup {built[e]}
          /\ \A q \in rows : ~(q.run = built[e].run /\ q.seq = built[e].seq)
          /\ built[e].seq \in Nat
          /\ \A q \in rows : q.seq \in Nat
      BY <2>2 DEF IInv, ChainInv, TypeOK, ExecInsert, KeyTaken, PendingTyped, Pending
    <3>2. ASSUME NEW q \in rows, q.run = built[e].run PROVE q.seq < built[e].seq
      <4>1. SUFFICES ASSUME built[e].seq < q.seq PROVE FALSE
        BY <3>1, <3>2
      <4>2. built[e].seq \in 0..q.seq
        BY <3>1, <4>1
      <4>3. \E x \in rows : x.run = q.run /\ x.seq = built[e].seq
        BY <4>2 DEF IInv, ChainInv, ChainIntact
      <4> QED
        BY <3>1, <3>2, <4>3
    <3> QED
      BY <3>1, <3>2
  <2> QED
    BY <2>1, <2>2 DEF Next, TaskNext, Step, Record, Lock, BuildReceipt, SendInsert,
       ChainViolation, DuplicateSeq, LoseInsert, Return, Retry, TerminalError, Cancel, Crash
<1> QED
  BY <1>1, Invariance, PTL DEF Spec, TailOnly

-----------------------------------------------------------------------------
(* The rows of a run, by number. *)

HeightInv ==
    /\ IsFiniteSet(rows)
    /\ \A run \in Runs : \A k \in Nat :
         (\E r \in RowsOf(run) : r.seq = k) <=> k < Height(run)

\* The height of a run is the number of its rows, whoever counts them.
LEMMA HeightOfRows ==
    ASSUME IsFiniteSet(rows), NEW run
    PROVE  /\ Height(run) = Cardinality(RowsOf(run))
           /\ IsFiniteSet(RowsOf(run))
           /\ Height(run) \in Nat
<1>1. RowsOf(run) \in SUBSET rows
  BY DEF RowsOf
<1>2. IsFiniteSet(RowsOf(run))
  BY <1>1, FS_Subset
<1> QED
  BY <1>2, FS_CardinalityType DEF Height, RowsOf

\* HeightInv speaks of any run id, recorded or not.
LEMMA RowNumbers ==
    ASSUME ChainInv, HeightInv, NEW run, NEW k \in Nat
    PROVE  (\E r \in RowsOf(run) : r.seq = k) <=> k < Height(run)
<1>1. CASE run \in Runs
  BY <1>1 DEF HeightInv
<1>2. CASE run \notin Runs
  <2>1. RowsOf(run) = {}
    BY <1>2 DEF RowsOf, ChainInv, TypeOK
  <2>2. Height(run) = 0
    BY <2>1, HeightOfRows, FS_EmptySet DEF HeightInv
  <2> QED
    BY <2>1, <2>2
<1> QED
  BY <1>1, <1>2

\* The row that an INSERT adds is the next one of its run, and no row of its
\* event was there.
LEMMA InsertIsNext ==
    ASSUME ChainInv, HeightInv, NEW e \in Events, ExecInsert(e)
    PROVE  /\ rows' = rows \cup {built[e]}
           /\ built[e] \notin rows
           /\ built[e].run = RunId(e)
           /\ built[e].event = e
           /\ built[e].seq = Height(RunId(e))
           /\ \A q \in rows : q.event # e
<1>1. /\ rows' = rows \cup {built[e]}
      /\ built[e].run = RunId(e) /\ built[e].event = e /\ built[e].seq \in Nat
      /\ ~ \E q \in RowsOf(RunId(e)) : q.seq = built[e].seq
      /\ \A q \in rows : q.event # e
  BY DEF ChainInv, ExecInsert, PendingTyped, Pending, KeyTaken, RowOwner, RowsOf
<1>2. Height(RunId(e)) \in Nat
  BY HeightOfRows DEF HeightInv
<1>3. ~(built[e].seq < Height(RunId(e)))
  BY <1>1, RowNumbers
<1>4. \/ built[e].seq = 0
      \/ \E q \in RowsOf(RunId(e)) : built[e].seq = q.seq + 1
  BY DEF ChainInv, PendingLinked, Pending, ExecInsert, LinksEmpty, LinksHead, RowsOf
<1>5. ASSUME NEW q \in RowsOf(RunId(e)), built[e].seq = q.seq + 1
      PROVE  built[e].seq <= Height(RunId(e))
  <2>1. q.seq \in Nat
    BY DEF ChainInv, TypeOK, RowsOf
  <2>2. q.seq < Height(RunId(e))
    BY <2>1, RowNumbers
  <2> QED
    BY <1>2, <1>5, <2>1, <2>2
<1>6. built[e].seq = Height(RunId(e))
  BY <1>1, <1>2, <1>3, <1>4, <1>5
<1> QED
  BY <1>1, <1>6

\* An INSERT makes its run one row higher and leaves the others alone.
LEMMA InsertGrows ==
    ASSUME ChainInv, HeightInv, NEW e \in Events, ExecInsert(e)
    PROVE  /\ IsFiniteSet(rows')
           /\ \A run \in Runs : /\ RowsOf(run)' = IF run = RunId(e) THEN RowsOf(run) \cup {built[e]}
                                                                   ELSE RowsOf(run)
                                /\ Height(run)' = IF run = RunId(e) THEN Height(run) + 1
                                                                   ELSE Height(run)
<1>1. PICK new : new = built[e]
  OBVIOUS
<1>2. rows' = rows \cup {new} /\ new \notin rows /\ new.run = RunId(e)
  BY <1>1, InsertIsNext
<1>3. IsFiniteSet(rows) /\ IsFiniteSet(rows \cup {new})
  BY FS_AddElement DEF HeightInv
<1>4. ASSUME NEW run \in Runs
      PROVE  /\ RowsOf(run)' = IF run = RunId(e) THEN RowsOf(run) \cup {new} ELSE RowsOf(run)
             /\ Height(run)' = IF run = RunId(e) THEN Height(run) + 1 ELSE Height(run)
  <2>1. RowsOf(run)' = IF run = RunId(e) THEN RowsOf(run) \cup {new} ELSE RowsOf(run)
    BY <1>2 DEF RowsOf
  <2>2. Height(run)' = Cardinality(RowsOf(run)')
    BY DEF Height, RowsOf
  <2>3. new \notin RowsOf(run)
    BY <1>2 DEF RowsOf
  <2>4. Height(run) = Cardinality(RowsOf(run)) /\ IsFiniteSet(RowsOf(run))
    BY <1>3, HeightOfRows
  <2>5. Cardinality(RowsOf(run) \cup {new}) = Cardinality(RowsOf(run)) + 1
    BY <2>3, <2>4, FS_AddElement
  <2> QED
    BY <2>1, <2>2, <2>4, <2>5
<1> QED
  BY <1>1, <1>2, <1>3, <1>4

\* HeightInv holds in the empty table.
LEMMA HeightInit == Init => HeightInv
<1> SUFFICES ASSUME Init PROVE HeightInv
  OBVIOUS
<1>1. rows = {}
  BY DEF Init
<1>2. IsFiniteSet(rows)
  BY <1>1, FS_EmptySet
<1>3. \A run : RowsOf(run) = {} /\ Height(run) = 0
  BY <1>1, <1>2, HeightOfRows, FS_EmptySet DEF RowsOf
<1> QED
  BY <1>2, <1>3 DEF HeightInv

\* HeightInv is preserved: only a committed INSERT changes the table.
LEMMA HeightStep == ChainInv /\ HeightInv /\ [Next]_vars => HeightInv'
<1> SUFFICES ASSUME ChainInv, HeightInv, [Next]_vars PROVE HeightInv'
  OBVIOUS
<1>1. CASE UNCHANGED rows
  BY <1>1 DEF HeightInv, RowsOf, Height
<1>2. ASSUME NEW e \in Events, ExecInsert(e) PROVE HeightInv'
  <2>1. PICK new : new = built[e]
    OBVIOUS
  <2>2. new.seq = Height(RunId(e)) /\ Height(RunId(e)) \in Nat
    BY <1>2, <2>1, InsertIsNext, HeightOfRows DEF HeightInv
  <2>3. /\ IsFiniteSet(rows')
        /\ \A run \in Runs : /\ RowsOf(run)' = IF run = RunId(e) THEN RowsOf(run) \cup {new}
                                                                ELSE RowsOf(run)
                             /\ Height(run)' = IF run = RunId(e) THEN Height(run) + 1
                                                                ELSE Height(run)
    BY <1>2, <2>1, InsertGrows
  <2>4. ASSUME NEW run \in Runs, NEW k \in Nat
        PROVE  (\E r \in RowsOf(run)' : r.seq = k) <=> k < Height(run)'
    <3>1. (\E r \in RowsOf(run) : r.seq = k) <=> k < Height(run)
      BY RowNumbers
    <3>2. CASE run = RunId(e)
      BY <2>2, <2>3, <3>1, <3>2
    <3>3. CASE run # RunId(e)
      BY <2>3, <3>1, <3>3
    <3> QED
      BY <3>2, <3>3
  <2> QED
    BY <2>3, <2>4 DEF HeightInv
<1> QED
  BY <1>1, <1>2 DEF Next, TaskNext, Step, Record, Lock, BuildReceipt, SendInsert,
     ChainViolation, DuplicateSeq, LoseInsert, Return, Retry, TerminalError, Cancel, Crash, vars

-----------------------------------------------------------------------------
(* ReceiptChain implements ReceiptLog. *)

LogInv == IInv /\ HeightInv

\* The row number k of a run is one row.
LEMMA OneRow ==
    ASSUME ChainInv, HeightInv, NEW run, NEW k \in Nat, k < Height(run)
    PROVE  \E r \in rows :
             /\ r.run = run /\ r.seq = k /\ r.event \in Events
             /\ r = CHOOSE q \in rows : q.run = run /\ q.seq = k
<1>1. PICK r \in rows : r.run = run /\ r.seq = k
  BY RowNumbers DEF RowsOf
<1>2. \A q \in rows : q.run = run /\ q.seq = k => q = r
  BY <1>1 DEF ChainInv, ChainIntact
<1> QED
  BY <1>1, <1>2 DEF ChainInv, TypeOK

\* The abstract chain of a run is a sequence of events, as long as the run is high.
LEMMA ChainOfType ==
    ASSUME ChainInv, HeightInv, NEW run
    PROVE  /\ ChainOf(run) \in Seq(Events)
           /\ Len(ChainOf(run)) = Height(run)
           /\ Height(run) \in Nat
<1>1. Height(run) \in Nat
  BY HeightOfRows DEF HeightInv
<1>2. ASSUME NEW i \in 1..Height(run) PROVE ChainOf(run)[i] \in Events
  <2>1. i - 1 \in Nat /\ i - 1 < Height(run)
    BY <1>1
  <2>2. PICK k \in Nat : k = i - 1
    BY <2>1
  <2>3. PICK r \in rows : r.event \in Events /\ r = CHOOSE q \in rows : q.run = run /\ q.seq = k
    BY <2>1, <2>2, OneRow
  <2> QED
    BY <2>2, <2>3 DEF ChainOf
<1>3. ChainOf(run) \in [1..Height(run) -> Events]
  BY <1>2 DEF ChainOf
<1> QED
  BY <1>1, <1>3

\* An event is in the abstract chain of its run exactly when it has a row.
LEMMA InChainIsRow ==
    ASSUME ChainInv, HeightInv, NEW e \in Events
    PROVE  Log!InChain(e) <=> \E r \in rows : r.event = e
<1>0. RunId(e) \in Runs
  BY RunIdType
<1>1. [r \in Runs |-> ChainOf(r)][[x \in Events |-> RunId(x)][e]] = ChainOf(RunId(e))
  BY <1>0
<1>2. Len(ChainOf(RunId(e))) = Height(RunId(e)) /\ Height(RunId(e)) \in Nat
  BY ChainOfType
<1>3. Log!InChain(e) <=> \E i \in 1..Height(RunId(e)) : ChainOf(RunId(e))[i] = e
  BY <1>1, <1>2 DEF Log!InChain
<1>4. ASSUME NEW i \in 1..Height(RunId(e)), ChainOf(RunId(e))[i] = e
      PROVE  \E r \in rows : r.event = e
  <2>1. i - 1 \in Nat /\ i - 1 < Height(RunId(e))
    BY <1>2
  <2>2. PICK r \in rows : r = CHOOSE q \in rows : q.run = RunId(e) /\ q.seq = i - 1
    BY <2>1, OneRow
  <2> QED
    BY <1>4, <2>2 DEF ChainOf
<1>5. ASSUME NEW r \in rows, r.event = e
      PROVE  \E i \in 1..Height(RunId(e)) : ChainOf(RunId(e))[i] = e
  <2>1. r.run = RunId(e) /\ r.seq \in Nat
    BY <1>5 DEF ChainInv, TypeOK, RowOwner
  <2>2. r.seq < Height(RunId(e))
    BY <2>1, RowNumbers DEF RowsOf
  <2>3. PICK q \in rows : /\ q.run = RunId(e) /\ q.seq = r.seq
                          /\ q = CHOOSE x \in rows : x.run = RunId(e) /\ x.seq = r.seq
    BY <2>1, <2>2, OneRow
  <2>4. q = r
    BY <2>1, <2>3 DEF ChainInv, ChainIntact
  <2>5. r.seq + 1 \in 1..Height(RunId(e)) /\ (r.seq + 1) - 1 = r.seq
    BY <1>2, <2>1, <2>2
  <2>6. ChainOf(RunId(e))[r.seq + 1] = e
    BY <1>5, <2>3, <2>4, <2>5 DEF ChainOf
  <2> QED
    BY <2>5, <2>6
<1> QED
  BY <1>3, <1>4, <1>5

\* How a sequence that is one longer than another is recognised.
LEMMA IsAppend ==
    ASSUME NEW S, NEW s \in Seq(S), NEW x \in S, NEW t \in Seq(S),
           Len(t) = Len(s) + 1,
           \A i \in 1..Len(s) : t[i] = s[i],
           t[Len(s) + 1] = x
    PROVE  t = Append(s, x)
<1>1. Append(s, x) \in Seq(S) /\ Len(Append(s, x)) = Len(s) + 1
  OBVIOUS
<1>2. \A i \in 1..(Len(s) + 1) : Append(s, x)[i] = t[i]
  OBVIOUS
<1> QED
  BY <1>1, <1>2

\* A committed INSERT appends its event to the abstract chain of its run.
LEMMA InsertAppends ==
    ASSUME ChainInv, ChainInv', HeightInv, HeightInv', NEW e \in Events, ExecInsert(e),
           NEW run \in Runs
    PROVE  ChainOf(run)' = IF run = RunId(e) THEN Append(ChainOf(run), e) ELSE ChainOf(run)
<1>1. PICK new : new = built[e]
  OBVIOUS
<1>2. /\ rows' = rows \cup {new} /\ new \notin rows
      /\ new.run = RunId(e) /\ new.event = e /\ new.seq = Height(RunId(e))
  BY <1>1, InsertIsNext
<1>3. Height(run)' = IF run = RunId(e) THEN Height(run) + 1 ELSE Height(run)
  BY InsertGrows
<1>4. /\ ChainOf(run) \in Seq(Events) /\ Len(ChainOf(run)) = Height(run) /\ Height(run) \in Nat
      /\ ChainOf(run)' \in Seq(Events) /\ Len(ChainOf(run)') = Height(run)' /\ Height(run)' \in Nat
  <2>1. /\ ChainOf(run) \in Seq(Events) /\ Len(ChainOf(run)) = Height(run) /\ Height(run) \in Nat
    BY ChainOfType
  <2>2. (ChainOf(run) \in Seq(Events) /\ Len(ChainOf(run)) = Height(run) /\ Height(run) \in Nat)'
    BY ChainOfType, PTL
  <2> QED
    BY <2>1, <2>2
<1>5. ASSUME NEW i \in 1..Height(run) PROVE ChainOf(run)'[i] = ChainOf(run)[i]
  <2>1. i - 1 \in Nat /\ i - 1 < Height(run)
    BY <1>4
  <2>2. PICK r \in rows : /\ r.run = run /\ r.seq = i - 1
                          /\ r = CHOOSE q \in rows : q.run = run /\ q.seq = i - 1
    BY <2>1, OneRow
  <2>3. \A q \in rows' : q.run = run /\ q.seq = i - 1 => q = r
    BY <1>2, <2>1, <2>2 DEF ChainInv, ChainIntact
  <2>4. r = CHOOSE q \in rows' : q.run = run /\ q.seq = i - 1
    BY <1>2, <2>2, <2>3
  <2>5. i \in 1..Height(run)'
    BY <1>3, <1>4
  <2>6. ChainOf(run)[i] = r.event
    BY <2>2 DEF ChainOf
  <2>7. ChainOf(run)'[i] = r.event
    BY <2>4, <2>5 DEF ChainOf
  <2> QED
    BY <2>6, <2>7
<1>6. CASE run = RunId(e)
  <2>1. (Height(run) + 1) - 1 = Height(run) /\ Height(run) + 1 \in 1..Height(run)'
    BY <1>3, <1>4, <1>6
  <2>2. \A q \in rows' : q.run = run /\ q.seq = Height(run) => q = new
    <3>1. \A q \in rows : ~(q.run = run /\ q.seq = Height(run))
      BY <1>4, RowNumbers DEF RowsOf
    <3> QED
      BY <1>2, <3>1
  <2>3. new = CHOOSE q \in rows' : q.run = run /\ q.seq = Height(run)
    BY <1>2, <1>6, <2>2
  <2>4. ChainOf(run)'[Height(run) + 1] = e
    BY <1>2, <2>1, <2>3 DEF ChainOf
  <2> QED
    BY <1>3, <1>4, <1>5, <1>6, <2>4, IsAppend
<1>7. CASE run # RunId(e)
  BY <1>3, <1>4, <1>5, <1>7
<1> QED
  BY <1>6, <1>7

\* No step but a committed INSERT changes the chains, no step but Return the
\* acknowledged events.
LEMMA QuietStep ==
    ASSUME LogInv, [Next]_vars
    PROVE  \/ \E e \in Events : ExecInsert(e)
           \/ \E e \in Events : Return(e)
           \/ /\ UNCHANGED rows
              /\ \A e \in Events : pc'[e] = "done" <=> pc[e] = "done"
<1> DEFINE Quiet == /\ UNCHANGED rows
                    /\ \A e \in Events : pc'[e] = "done" <=> pc[e] = "done"
<1> USE DEF LogInv, IInv, ChainInv, TypeOK, Goto, Running, Holding
<1>1. ASSUME NEW f \in Events, TaskNext(f), ~ExecInsert(f), ~Return(f) PROVE Quiet
  <2>1. CASE Record(f) \/ Lock(f) \/ BuildReceipt(f) \/ SendInsert(f) \/ ChainViolation(f)
    BY <2>1 DEF Record, Lock, BuildReceipt, SendInsert, ChainViolation
  <2>2. CASE DuplicateSeq(f) \/ LoseInsert(f)
    BY <2>2 DEF DuplicateSeq, LoseInsert
  <2>3. CASE Retry(f) \/ TerminalError(f) \/ Cancel(f)
    BY <2>3 DEF Retry, TerminalError, Cancel, Drop
  <2> QED
    BY <1>1, <2>1, <2>2, <2>3 DEF TaskNext, Step
<1>2. ASSUME NEW p \in Replicas, Crash(p) PROVE Quiet
  BY <1>2 DEF Crash
<1>3. CASE UNCHANGED vars
  BY <1>3 DEF vars
<1> QED
  BY <1>1, <1>2, <1>3 DEF Next

\* LogInv holds throughout.
LEMMA LogInvariance == Spec => []LogInv
<1>1. Init => LogInv
  BY InitInv, HeightInit DEF LogInv
<1>2. LogInv /\ [Next]_vars => LogInv'
  BY Inductive, HeightStep DEF LogInv, IInv
<1> QED
  BY <1>1, <1>2, PTL DEF Spec

\* Every step of the logger, the database, a disconnect or a crash is a step of
\* the log or leaves it alone.
LEMMA StepRefines ==
    ASSUME LogInv, LogInv', [Next]_vars
    PROVE  [Log!LogNext]_(Log!logVars)
<1> DEFINE chains == [r \in Runs |-> ChainOf(r)]
           acks == {e \in Events : pc[e] = "done"}
           runOf == [e \in Events |-> RunId(e)]
<1>0. ChainInv /\ ChainInv' /\ HeightInv /\ HeightInv'
  BY DEF LogInv, IInv
<1>1. ASSUME NEW e \in Events, ExecInsert(e) PROVE Log!LogAppend(e)
  <2>1. ~Log!InChain(e)
    BY <1>0, <1>1, InsertIsNext, InChainIsRow
  <2>2. RunId(e) \in Runs /\ runOf[e] = RunId(e)
    BY RunIdType
  <2>3. \A run \in Runs :
          ChainOf(run)' = IF run = RunId(e) THEN Append(ChainOf(run), e) ELSE ChainOf(run)
    BY <1>0, <1>1, InsertAppends
  <2>4. chains' = [chains EXCEPT ![runOf[e]] = Append(@, e)]
    BY <2>2, <2>3
  <2>5. acks' = acks
    BY <1>0, <1>1 DEF ExecInsert, ChainInv, TypeOK
  <2> QED
    BY <2>1, <2>4, <2>5 DEF Log!LogAppend
<1>2. ASSUME NEW e \in Events, Return(e) PROVE Log!LogAck(e)
  <2>1. Log!InChain(e)
    BY <1>0, <1>2, InChainIsRow DEF Return, ChainInv, CommittedHasRow
  <2>2. acks' = acks \cup {e}
    BY <1>0, <1>2 DEF Return, Goto, ChainInv, TypeOK
  <2>3. chains' = chains
    BY <1>2 DEF Return, ChainOf, Height
  <2> QED
    BY <2>1, <2>2, <2>3 DEF Log!LogAck
<1>3. CASE UNCHANGED rows /\ \A e \in Events : pc'[e] = "done" <=> pc[e] = "done"
  <2>1. acks' = acks
    BY <1>3
  <2>2. chains' = chains
    BY <1>3 DEF ChainOf, Height
  <2> QED
    BY <2>1, <2>2 DEF Log!logVars
<1> QED
  BY <1>1, <1>2, <1>3, QuietStep DEF Log!LogNext

\* The replicated, failing logger implements the log: whatever interleaves,
\* fails or crashes, an event enters the chain of its run once, at the tail,
\* and no caller hears Ok before it did.
THEOREM LoggerImplementsLog == Spec => ImplementsLog
<1>1. Init => Log!LogInit
  <2> SUFFICES ASSUME Init PROVE Log!LogInit
    OBVIOUS
  <2>1. rows = {} /\ HeightInv
    BY HeightInit DEF Init
  <2>2. \A run : Height(run) = 0
    BY <2>1, FS_EmptySet DEF Height
  <2>3. \A run : ChainOf(run) = <<>>
    BY <2>2 DEF ChainOf
  <2>4. {e \in Events : pc[e] = "done"} = {}
    BY DEF Init
  <2> QED
    BY <2>3, <2>4 DEF Log!LogInit
<1>2. LogInv /\ LogInv' /\ [Next]_vars => [Log!LogNext]_(Log!logVars)
  BY StepRefines
<1> QED
  BY <1>1, <1>2, LogInvariance, PTL DEF Spec, ImplementsLog, Log!LogSpec

-----------------------------------------------------------------------------
(* The read API. *)

\* A row has as many rows of its run below it as its seq says.
LEMMA RankIsSeq ==
    ASSUME ChainInv, HeightInv, NEW run, NEW r \in RowsOf(run)
    PROVE  Cardinality({q \in RowsOf(run) : q.seq < r.seq}) = r.seq
<1> DEFINE below == {q \in RowsOf(run) : q.seq < r.seq}
           number == [q \in below |-> q.seq]
<1>1. r.seq \in Nat /\ \A q \in below : q.seq \in Nat
  BY DEF ChainInv, TypeOK, RowsOf
<1>2. IsFiniteSet(below)
  <2>1. below \in SUBSET rows
    BY DEF RowsOf
  <2> QED
    BY <2>1, FS_Subset DEF HeightInv
<1>3. number \in [below -> 0..(r.seq - 1)]
  BY <1>1
<1>4. \A q1, q2 \in below : number[q1] = number[q2] => q1 = q2
  BY DEF ChainInv, ChainIntact, RowsOf
<1>5. \A k \in 0..(r.seq - 1) : \E q \in below : number[q] = k
  <2> SUFFICES ASSUME NEW k \in 0..(r.seq - 1) PROVE \E q \in below : number[q] = k
    OBVIOUS
  <2>1. k \in 0..r.seq /\ k < r.seq
    BY <1>1
  <2>2. PICK q \in rows : q.run = r.run /\ q.seq = k
    BY <2>1 DEF ChainInv, ChainIntact, RowsOf
  <2>3. q \in below
    BY <2>1, <2>2 DEF RowsOf
  <2> QED
    BY <2>2, <2>3
<1>6. ExistsBijection(below, 0..(r.seq - 1))
  BY <1>3, <1>4, <1>5 DEF ExistsBijection, Bijection, Injection, Surjection, IsInjective
<1>7. Cardinality(0..(r.seq - 1)) = Cardinality(below)
  BY <1>2, <1>6, FS_Bijection
<1>8. Cardinality(0..(r.seq - 1)) = r.seq
  BY <1>1, FS_Interval
<1> QED
  BY <1>7, <1>8

\* get_run returns the rows of the run, the one with seq i - 1 at place i.
LEMMA GetRunRows ==
    ASSUME ChainInv, HeightInv, NEW run
    PROVE  /\ GetRun(run) \in Seq(RowsOf(run))
           /\ Len(GetRun(run)) = Height(run)
           /\ Height(run) \in Nat
           /\ \A i \in 1..Height(run) : GetRun(run)[i] \in RowsOf(run) /\ GetRun(run)[i].seq = i - 1
           /\ \A r \in RowsOf(run) : r.seq + 1 \in 1..Height(run) /\ GetRun(run)[r.seq + 1] = r
<1>1. Height(run) \in Nat /\ Height(run) = Cardinality(RowsOf(run))
  BY HeightOfRows DEF HeightInv
<1>2. ASSUME NEW r \in RowsOf(run), NEW i \in 1..Height(run), r.seq = i - 1
      PROVE  GetRun(run)[i] = r
  <2>1. \A q \in RowsOf(run) : Cardinality({x \in RowsOf(run) : x.seq < q.seq}) = q.seq
    BY RankIsSeq
  <2>2. \A q \in RowsOf(run) : q.seq = i - 1 => q = r
    BY <1>2 DEF ChainInv, ChainIntact, RowsOf
  <2>3. r = CHOOSE q \in RowsOf(run) : Cardinality({x \in RowsOf(run) : x.seq < q.seq}) = i - 1
    BY <1>2, <2>1, <2>2
  <2> QED
    BY <1>1, <2>3 DEF GetRun
<1>3. ASSUME NEW i \in 1..Height(run)
      PROVE  GetRun(run)[i] \in RowsOf(run) /\ GetRun(run)[i].seq = i - 1
  <2>1. i - 1 \in Nat /\ i - 1 < Height(run)
    BY <1>1
  <2>2. PICK r \in RowsOf(run) : r.seq = i - 1
    BY <2>1, RowNumbers
  <2> QED
    BY <1>2, <2>2
<1>4. ASSUME NEW r \in RowsOf(run)
      PROVE  r.seq + 1 \in 1..Height(run) /\ GetRun(run)[r.seq + 1] = r
  <2>1. r.seq \in Nat
    BY DEF ChainInv, TypeOK, RowsOf
  <2>2. r.seq < Height(run)
    BY <2>1, RowNumbers
  <2>3. r.seq + 1 \in 1..Height(run) /\ r.seq = (r.seq + 1) - 1
    BY <1>1, <2>1, <2>2
  <2> QED
    BY <1>2, <2>3
<1>5. GetRun(run) \in [1..Height(run) -> RowsOf(run)]
  BY <1>1, <1>3 DEF GetRun
<1> QED
  BY <1>1, <1>3, <1>4, <1>5

\* The links of the stored rows are all good, so only a signature can break the
\* chain that the store verifies.
LEMMA StoredLinks ==
    ASSUME ChainInv, HeightInv, NEW run, NEW i \in 1..Height(run)
    PROVE  /\ GetRun(run)[i].run = run
           /\ GetRun(run)[i].seq = i - 1
           /\ GetRun(run)[i].parent = IF i = 1 THEN NoParent ELSE BodyHash(GetRun(run)[i - 1])
<1>1. PICK s : s = GetRun(run)
  OBVIOUS
<1>2. /\ Height(run) \in Nat
      /\ \A j \in 1..Height(run) : s[j] \in RowsOf(run) /\ s[j].seq = j - 1
      /\ \A r \in RowsOf(run) : r.seq + 1 \in 1..Height(run) /\ s[r.seq + 1] = r
  BY <1>1, GetRunRows
<1>3. s[i] \in rows /\ s[i].run = run /\ s[i].seq = i - 1
  BY <1>2 DEF RowsOf
<1>4. \/ LinksEmpty(s[i])
      \/ \E q \in RowsOf(run) : LinksHead(s[i], q)
  BY <1>3 DEF ChainInv, ChainIntact, RowsOf
<1>5. CASE i = 1
  <2>1. \A q \in RowsOf(run) : ~LinksHead(s[i], q)
    BY <1>3, <1>5 DEF LinksHead, RowsOf, ChainInv, TypeOK
  <2> QED
    BY <1>1, <1>3, <1>4, <1>5, <2>1 DEF LinksEmpty
<1>6. CASE i # 1
  <2>1. ~LinksEmpty(s[i])
    BY <1>2, <1>3, <1>6 DEF LinksEmpty
  <2>2. PICK q \in RowsOf(run) : LinksHead(s[i], q)
    BY <1>4, <2>1
  <2>3. q.seq \in Nat /\ i - 1 = q.seq + 1
    BY <1>3, <2>2 DEF LinksHead, RowsOf, ChainInv, TypeOK
  <2>4. q.seq + 1 = i - 1
    BY <2>3
  <2>5. s[i - 1] = q
    BY <1>2, <2>4
  <2> QED
    BY <1>1, <1>3, <1>6, <2>2, <2>5 DEF LinksHead
<1> QED
  BY <1>5, <1>6

\* What store.verify_chain answers: an error for no rows, valid when the key of
\* this process signed them all, broken when another one signed one of them.
LEMMA StoredVerify ==
    ASSUME ChainInv, HeightInv, NEW run, NEW vk
    PROVE  \/ /\ RowsOf(run) = {}
              /\ VerifyChain(GetRun(run), vk).status = "error"
           \/ /\ RowsOf(run) # {}
              /\ \A r \in RowsOf(run) : r.key = vk
              /\ VerifyChain(GetRun(run), vk) = [status |-> "valid", count |-> Height(run)]
           \/ /\ \E r \in RowsOf(run) : r.key # vk
              /\ VerifyChain(GetRun(run), vk).status = "broken"
<1>1. PICK s : s = GetRun(run)
  OBVIOUS
<1>2. PICK n \in Nat : n = Height(run)
  BY GetRunRows
<1>3. /\ s \in Seq(RowsOf(run)) /\ Len(s) = n
      /\ \A i \in 1..n : s[i] \in RowsOf(run)
      /\ \A r \in RowsOf(run) : \E i \in 1..n : s[i] = r
  BY <1>1, <1>2, GetRunRows
<1>4. \A i \in 1..n :
        /\ s[i].run = run
        /\ s[i].seq = i - 1
        /\ s[i].parent = IF i = 1 THEN NoParent ELSE BodyHash(s[i - 1])
  BY <1>1, <1>2, StoredLinks
<1> DEFINE signed == {i \in 1..n : s[i].key = vk}
           broken == {i \in 1..n :
                        \/ s[i].run # s[1].run
                        \/ s[i].seq # i - 1
                        \/ s[i].parent # IF i = 1 THEN NoParent ELSE BodyHash(s[i - 1])
                        \/ i \notin signed}
<1>5. broken = {i \in 1..n : s[i].key # vk}
  BY <1>4
<1>6. CASE s = <<>>
  <2>1. RowsOf(run) = {}
    BY <1>3, <1>6
  <2> QED
    BY <1>1, <1>6, <2>1 DEF VerifyChain
<1>7. CASE s # <<>>
  <2>1. n # 0 /\ RowsOf(run) # {}
    BY <1>3, <1>7
  <2>2. VerifyChain(s, vk) = IF broken = {} THEN [status |-> "valid", count |-> n]
                                            ELSE [status |-> "broken", at |-> Min(broken)]
    BY <1>3, <1>7 DEF VerifyChain, VerifyLinks
  <2>3. CASE broken = {}
    <3>1. \A r \in RowsOf(run) : r.key = vk
      BY <1>3, <1>5, <2>3
    <3>2. VerifyChain(GetRun(run), vk) = [status |-> "valid", count |-> Height(run)]
      BY <1>1, <1>2, <2>2, <2>3
    <3> QED
      BY <2>1, <3>1, <3>2
  <2>4. CASE broken # {}
    <3>1. VerifyChain(s, vk).status = "broken"
      BY <2>2, <2>4
    <3> QED
      BY <1>1, <1>3, <1>5, <2>4, <3>1
  <2> QED
    BY <2>3, <2>4
<1> QED
  BY <1>6, <1>7

-----------------------------------------------------------------------------
\* A receipt that this process gave up on is counted until the process dies.
LostCounted == \A e \in Events : pc[e] = "lost" => dropped[ReplicaOf[e]][RunId(e)] > 0

\* What the first read of p brought back is still in the table, and explains
\* every event that p had finished by then.
FirstRead(p) ==
    /\ view[p].run \in Runs
    /\ view[p].receipts \in Seq(RowsOf(view[p].run))
    /\ \A i \in 1..Len(view[p].receipts) : view[p].receipts[i].seq = i - 1
    /\ \A e \in view[p].ended :
         \/ dropped[p][view[p].run] > 0
         \/ \E i \in 1..Len(view[p].receipts) : view[p].receipts[i].event = e

\* A step beside the readers is a step of ReceiptChain.
LEMMA ReadNextIsNext == [ReadNext]_readVars => [Next]_vars
BY DEF ReadNext, ReadCrash, ReadRun, ReadVerify, Next, readVars

\* No task lowers a counter of dropped receipts; a crash resets those of its
\* process only.
LEMMA DroppedGrows ==
    ASSUME LogInv, NEW p \in Replicas, NEW run \in Runs, dropped[p][run] > 0
    PROVE  /\ \A e \in Events : TaskNext(e) => dropped'[p][run] > 0
           /\ \A q \in Replicas \ {p} : Crash(q) => dropped'[p][run] > 0
<1>0. dropped \in [Replicas -> [Runs -> Nat]]
  BY DEF LogInv, IInv, ChainInv, TypeOK
<1>1. ASSUME NEW e \in Events, Drop(e) PROVE dropped'[p][run] > 0
  <2>1. ReplicaOf[e] \in Replicas /\ RunId(e) \in Runs
    BY ReplicaAssumption, RunIdType
  <2>2. dropped' = [dropped EXCEPT ![ReplicaOf[e]][RunId(e)] = @ + 1]
    BY <1>1 DEF Drop
  <2>3. dropped[p][run] \in Nat
    BY <1>0
  <2>4. dropped'[p][run] \in {dropped[p][run], dropped[p][run] + 1}
    BY <1>0, <2>1, <2>2
  <2> QED
    BY <2>3, <2>4
<1>2. ASSUME NEW e \in Events, TaskNext(e) PROVE UNCHANGED dropped \/ Drop(e)
  BY <1>2 DEF TaskNext, Step, Record, Lock, BuildReceipt, SendInsert, ChainViolation,
     ExecInsert, DuplicateSeq, LoseInsert, Return, Retry, TerminalError, Cancel
<1>3. ASSUME NEW q \in Replicas \ {p}, Crash(q) PROVE dropped'[p] = dropped[p]
  BY <1>0, <1>3 DEF Crash
<1> QED
  BY <1>1, <1>2, <1>3

\* A task becomes lost only by being counted, and a crash that resets the
\* counters forgets the lost tasks too.
LEMMA LostStep == LogInv /\ LostCounted /\ [Next]_vars => LostCounted'
<1> SUFFICES ASSUME LogInv, LostCounted, [Next]_vars, NEW e \in Events, pc'[e] = "lost"
             PROVE  dropped'[ReplicaOf[e]][RunId(e)] > 0
  BY DEF LostCounted
<1>0. /\ dropped \in [Replicas -> [Runs -> Nat]] /\ pc \in [Events -> Phases]
      /\ ReplicaOf[e] \in Replicas /\ RunId(e) \in Runs
  BY ReplicaAssumption, RunIdType DEF LogInv, IInv, ChainInv, TypeOK
<1>1. CASE UNCHANGED vars
  BY <1>1 DEF vars, LostCounted
<1>2. ASSUME NEW f \in Events, TaskNext(f) PROVE dropped'[ReplicaOf[e]][RunId(e)] > 0
  <2>1. CASE pc[e] = "lost"
    BY <1>0, <1>2, <2>1, DroppedGrows DEF LostCounted
  <2>2. CASE pc[e] # "lost"
    <3> USE DEF Goto
    <3>1. Drop(f) /\ f = e
      <4>1. CASE Record(f) \/ Lock(f) \/ BuildReceipt(f) \/ SendInsert(f) \/ ChainViolation(f)
        BY <1>0, <2>2, <4>1 DEF Record, Lock, BuildReceipt, SendInsert, ChainViolation
      <4>2. CASE ExecInsert(f) \/ DuplicateSeq(f) \/ LoseInsert(f)
        BY <1>0, <2>2, <4>2 DEF ExecInsert, DuplicateSeq, LoseInsert
      <4>3. CASE Return(f) \/ Retry(f) \/ TerminalError(f) \/ Cancel(f)
        BY <1>0, <2>2, <4>3 DEF Return, Retry, TerminalError, Cancel, Drop
      <4> QED
        BY <1>2, <4>1, <4>2, <4>3 DEF TaskNext, Step
    <3>2. dropped' = [dropped EXCEPT ![ReplicaOf[e]][RunId(e)] = @ + 1]
      BY <3>1 DEF Drop
    <3>3. dropped'[ReplicaOf[e]][RunId(e)] = dropped[ReplicaOf[e]][RunId(e)] + 1
      BY <1>0, <3>2
    <3>4. dropped[ReplicaOf[e]][RunId(e)] \in Nat
      BY <1>0
    <3> QED
      BY <3>3, <3>4
  <2> QED
    BY <2>1, <2>2
<1>3. ASSUME NEW p \in Replicas, Crash(p) PROVE dropped'[ReplicaOf[e]][RunId(e)] > 0
  <2>1. ReplicaOf[e] # p /\ pc[e] = "lost"
    BY <1>0, <1>3 DEF Crash
  <2> QED
    BY <1>0, <1>3, <2>1, DroppedGrows DEF LostCounted
<1> QED
  BY <1>1, <1>2, <1>3 DEF Next

\* Rows are never removed.
LEMMA RowsGrow == [Next]_vars => rows \subseteq rows'
BY DEF Next, TaskNext, Step, Record, Lock, BuildReceipt, SendInsert, ChainViolation,
   ExecInsert, DuplicateSeq, LoseInsert, Return, Retry, TerminalError, Cancel, Crash, vars

\* A sequence over a set is one over any larger set.
LEMMA LongerAlphabet ==
    ASSUME NEW S, NEW T, S \subseteq T, NEW s \in Seq(S)
    PROVE  s \in Seq(T)
OBVIOUS

\* What the first read brought back outlives the steps of the writers and the
\* crashes of other processes.
LEMMA FirstReadStable ==
    ASSUME LogInv, NEW p \in Readers, FirstRead(p), view'[p] = view[p], rows \subseteq rows',
           dropped[p][view[p].run] > 0 => dropped'[p][view[p].run] > 0
    PROVE  FirstRead(p)'
<1>1. PICK v : v = view[p]
  OBVIOUS
<1>2. RowsOf(v.run) \subseteq RowsOf(v.run)'
  BY DEF RowsOf
<1>3. v.receipts \in Seq(RowsOf(v.run)')
  BY <1>1, <1>2, LongerAlphabet DEF FirstRead
<1> QED
  BY <1>1, <1>3 DEF FirstRead

\* The two properties of a reply, for one reply.
CoherentReply(v, p) ==
    \/ /\ v.verify.status = "valid"
       /\ v.verify.count >= Len(v.receipts)
       /\ \A i \in 1..Len(v.receipts) : v.receipts[i].key = KeyOf[p]
    \/ /\ v.verify.status = "broken"
       /\ \E r \in rows : r.run = v.run /\ r.key # KeyOf[p]
    \/ v.verify.status = "error" /\ v.receipts = <<>>
    \/ v.verify.status = "unread"

FlaggedReply(v) ==
    \A e \in v.ended :
        \/ v.droppedReceipts > 0
        \/ \E i \in 1..Len(v.receipts) : v.receipts[i].event = e

\* They are those of the model.
LEMMA ReplyParts ==
    /\ ReplyCoherent <=> \A p \in Readers : Replied(p) => CoherentReply(view[p], p)
    /\ GapFlagged <=> \A p \in Readers : Replied(p) => FlaggedReply(view[p])
BY DEF ReplyCoherent, GapFlagged, CoherentReply, FlaggedReply

\* The part of the invariant about one reader, and the invariant.
ReaderOk(p) ==
    /\ view[p] # NoView => FirstRead(p)
    /\ Replied(p) => CoherentReply(view[p], p) /\ FlaggedReply(view[p])

ReadInv ==
    /\ LogInv
    /\ LostCounted
    /\ DOMAIN view = Readers
    /\ \A p \in Readers : ReaderOk(p)

\* A reader that takes no step keeps its part, unless its counter is reset.
LEMMA ReaderStable ==
    ASSUME LogInv, NEW p \in Readers, ReaderOk(p), view'[p] = view[p], rows \subseteq rows',
           view[p] # NoView /\ dropped[p][view[p].run] > 0 => dropped'[p][view[p].run] > 0
    PROVE  ReaderOk(p)'
<1>1. view'[p] # NoView => FirstRead(p)'
  BY FirstReadStable DEF ReaderOk
<1>2. Replied(p)' => Replied(p)
  BY DEF Replied
<1>3. CoherentReply(view[p], p) => CoherentReply(view[p], p)'
  BY DEF CoherentReply
<1>4. FlaggedReply(view[p]) => FlaggedReply(view[p])'
  BY DEF FlaggedReply
<1> QED
  BY <1>1, <1>2, <1>3, <1>4 DEF ReaderOk

\* The first read: whoever finished before it has a row or was counted.
LEMMA ReadRunOk ==
    ASSUME LogInv, LostCounted, DOMAIN view = Readers, NEW p \in Readers, NEW run \in Runs,
           ReadRun(p, run)
    PROVE  ReaderOk(p)'
<1>0. UNCHANGED <<rows, dropped>> /\ ChainInv /\ HeightInv
  BY DEF ReadRun, vars, LogInv, IInv
<1>1. PICK v : v = [run |-> run, receipts |-> GetRun(run),
                    ended |-> {e \in Events : /\ ReplicaOf[e] = p
                                              /\ RunId(e) = run
                                              /\ pc[e] \in {"done", "lost"}}]
  OBVIOUS
<1>2. view'[p] = v
  BY <1>1 DEF ReadRun
<1>3. v.run = run /\ v.receipts = GetRun(run) /\ "verify" \notin DOMAIN v
  BY <1>1
<1>4. /\ v.receipts \in Seq(RowsOf(run))
      /\ \A i \in 1..Len(v.receipts) : v.receipts[i].seq = i - 1
      /\ \A r \in RowsOf(run) : \E i \in 1..Len(v.receipts) : v.receipts[i] = r
  BY <1>0, <1>3, GetRunRows
<1>5. ASSUME NEW e \in v.ended
      PROVE  dropped[p][run] > 0 \/ \E i \in 1..Len(v.receipts) : v.receipts[i].event = e
  <2>1. e \in Events /\ ReplicaOf[e] = p /\ RunId(e) = run /\ pc[e] \in {"done", "lost"}
    BY <1>1
  <2>2. CASE pc[e] = "lost"
    BY <2>1, <2>2 DEF LostCounted
  <2>3. CASE pc[e] = "done"
    <3>1. PICK r \in rows : r.event = e
      BY <1>0, <2>1, <2>3 DEF ChainInv, CommittedHasRow
    <3>2. r \in RowsOf(run)
      BY <1>0, <2>1, <3>1 DEF ChainInv, RowOwner, RowsOf
    <3> QED
      BY <1>4, <3>1, <3>2
  <2> QED
    BY <2>1, <2>2, <2>3
<1>6. FirstRead(p)'
  <2>1. \A x : RowsOf(x)' = RowsOf(x)
    BY <1>0 DEF RowsOf
  <2>2. dropped' = dropped
    BY <1>0
  <2> QED
    BY <1>2, <1>3, <1>4, <1>5, <2>1, <2>2 DEF FirstRead
<1>7. ~Replied(p)'
  BY <1>2, <1>3 DEF Replied
<1> QED
  BY <1>6, <1>7 DEF ReaderOk

\* The second read and the counter: the run may have grown since the first.
LEMMA ReadVerifyOk ==
    ASSUME LogInv, DOMAIN view = Readers, NEW p \in Readers, ReaderOk(p), ReadVerify(p)
    PROVE  ReaderOk(p)'
<1>0. UNCHANGED <<rows, dropped>> /\ ChainInv /\ HeightInv /\ FirstRead(p)
  BY DEF ReadVerify, vars, LogInv, IInv, ReaderOk
<1>1. PICK old : old = view[p]
  OBVIOUS
<1>2. PICK run : run = old.run
  OBVIOUS
<1>3. PICK verify \in {VerifyChain(GetRun(run), KeyOf[p]), [status |-> "unread"]} :
        view'[p] = [run |-> run, receipts |-> old.receipts, ended |-> old.ended,
                    verify |-> verify, droppedReceipts |-> dropped[p][run]]
  BY <1>1, <1>2 DEF ReadVerify
<1>4. PICK v : v = view'[p]
  OBVIOUS
<1>5. /\ v.run = run /\ v.receipts = old.receipts /\ v.ended = old.ended
      /\ v.verify = verify /\ v.droppedReceipts = dropped[p][run]
  BY <1>3, <1>4
<1>6. /\ run \in Runs
      /\ old.receipts \in Seq(RowsOf(run))
      /\ \A i \in 1..Len(old.receipts) : old.receipts[i].seq = i - 1
      /\ \A e \in old.ended :
           \/ dropped[p][run] > 0
           \/ \E i \in 1..Len(old.receipts) : old.receipts[i].event = e
  BY <1>0, <1>1, <1>2 DEF FirstRead
<1>7. FirstRead(p)'
  <2>1. \A x : RowsOf(x)' = RowsOf(x)
    BY <1>0 DEF RowsOf
  <2> QED
    BY <1>0, <1>4, <1>5, <1>6, <2>1 DEF FirstRead
<1>8. FlaggedReply(v)
  BY <1>5, <1>6 DEF FlaggedReply
<1>9. Height(run) \in Nat /\ Len(old.receipts) <= Height(run)
  <2>1. Height(run) \in Nat /\ \A r \in RowsOf(run) : r.seq + 1 \in 1..Height(run)
    BY <1>0, GetRunRows
  <2>2. CASE Len(old.receipts) = 0
    BY <2>1, <2>2
  <2>3. CASE Len(old.receipts) # 0
    <3>1. PICK n \in Nat : n = Len(old.receipts) /\ n \in 1..n
      BY <1>6, <2>3
    <3>2. PICK r \in RowsOf(run) : r.seq = n - 1
      <4>1. old.receipts[n] \in RowsOf(run) /\ old.receipts[n].seq = n - 1
        BY <1>6, <3>1
      <4> QED
        BY <4>1
    <3>3. (n - 1) + 1 \in 1..Height(run)
      BY <2>1, <3>2
    <3> QED
      BY <2>1, <3>1, <3>3
  <2> QED
    BY <2>2, <2>3
<1>10. CoherentReply(v, p)
  <2>1. CASE verify = [status |-> "unread"]
    BY <1>5, <2>1 DEF CoherentReply
  <2>2. CASE RowsOf(run) = {} /\ verify.status = "error"
    <3>1. old.receipts = <<>>
      BY <1>6, <2>2
    <3> QED
      BY <1>5, <2>2, <3>1 DEF CoherentReply
  <2>3. CASE /\ \A r \in RowsOf(run) : r.key = KeyOf[p]
             /\ verify = [status |-> "valid", count |-> Height(run)]
    <3>1. v.verify.status = "valid" /\ v.verify.count = Height(run)
      BY <1>5, <2>3
    <3>2. v.verify.count >= Len(v.receipts)
      BY <1>5, <1>6, <1>9, <3>1
    <3>3. \A i \in 1..Len(v.receipts) : v.receipts[i].key = KeyOf[p]
      BY <1>5, <1>6, <2>3
    <3> QED
      BY <3>1, <3>2, <3>3 DEF CoherentReply
  <2>4. CASE (\E r \in RowsOf(run) : r.key # KeyOf[p]) /\ verify.status = "broken"
    BY <1>5, <2>4 DEF CoherentReply, RowsOf
  <2> QED
    BY <1>0, <1>3, <2>1, <2>2, <2>3, <2>4, StoredVerify
<1>11. CoherentReply(v, p)'
  BY <1>0, <1>4, <1>10 DEF CoherentReply
<1>12. FlaggedReply(v)'
  BY <1>4, <1>8 DEF FlaggedReply
<1> QED
  BY <1>4, <1>7, <1>11, <1>12 DEF ReaderOk

\* ReadInv is preserved by every step of the writers, the readers and the
\* crashes.
LEMMA ReadStep == ReadInv /\ [ReadNext]_readVars => ReadInv'
<1> SUFFICES ASSUME ReadInv, [ReadNext]_readVars PROVE ReadInv'
  OBVIOUS
<1>0. LogInv /\ LostCounted /\ DOMAIN view = Readers /\ \A p \in Readers : ReaderOk(p)
  BY DEF ReadInv
<1>1. [Next]_vars
  BY ReadNextIsNext
<1>2. LogInv' /\ LostCounted' /\ rows \subseteq rows'
  BY <1>0, <1>1, Inductive, HeightStep, LostStep, RowsGrow DEF LogInv, IInv
<1>3. ASSUME NEW p \in Readers, view[p] # NoView
      PROVE  p \in Replicas /\ view[p].run \in Runs
  BY <1>0, <1>3, ReaderAssumption DEF ReaderOk, FirstRead
<1>4. DOMAIN view' = Readers /\ \A p \in Readers : ReaderOk(p)'
  <2>1. ASSUME NEW e \in Events, TaskNext(e), UNCHANGED view PROVE <1>4
    BY <1>0, <1>2, <1>3, <2>1, DroppedGrows, ReaderStable
  <2>2. ASSUME NEW q \in Replicas, ReadCrash(q) PROVE <1>4
    <3>1. view' = [p \in Readers |-> IF p = q THEN NoView ELSE view[p]] /\ Crash(q)
      BY <2>2 DEF ReadCrash
    <3>2. ASSUME NEW p \in Readers PROVE ReaderOk(p)'
      <4>1. CASE p = q
        BY <3>1, <4>1 DEF ReaderOk, Replied
      <4>2. CASE p # q
        BY <1>0, <1>2, <1>3, <3>1, <4>2, DroppedGrows, ReaderStable
      <4> QED
        BY <4>1, <4>2
    <3> QED
      BY <3>1, <3>2
  <2>3. ASSUME NEW q \in Readers, NEW run \in Runs, ReadRun(q, run) PROVE <1>4
    <3>1. UNCHANGED dropped /\ DOMAIN view' = Readers /\ \A p \in Readers \ {q} : view'[p] = view[p]
      BY <1>0, <2>3 DEF ReadRun, vars
    <3> QED
      BY <1>0, <1>2, <2>3, <3>1, ReadRunOk, ReaderStable
  <2>4. ASSUME NEW q \in Readers, ReadVerify(q) PROVE <1>4
    <3>1. UNCHANGED dropped /\ DOMAIN view' = Readers /\ \A p \in Readers \ {q} : view'[p] = view[p]
      BY <1>0, <2>4 DEF ReadVerify, vars
    <3> QED
      BY <1>0, <1>2, <2>4, <3>1, ReadVerifyOk, ReaderStable
  <2>5. CASE UNCHANGED readVars
    BY <1>0, <1>2, <2>5, ReaderStable DEF readVars, vars
  <2> QED
    BY <2>1, <2>2, <2>3, <2>4, <2>5 DEF ReadNext
<1> QED
  BY <1>2, <1>4 DEF ReadInv

\* ReadInv holds before anything is recorded or read.
LEMMA ReadInitInv == ReadInit => ReadInv
<1> SUFFICES ASSUME ReadInit PROVE ReadInv
  OBVIOUS
<1>1. LogInv
  BY InitInv, HeightInit DEF ReadInit, LogInv
<1>2. LostCounted
  BY DEF ReadInit, Init, LostCounted
<1>3. DOMAIN view = Readers /\ \A p \in Readers : ReaderOk(p)
  BY DEF ReadInit, ReaderOk, Replied
<1> QED
  BY <1>1, <1>2, <1>3 DEF ReadInv

\* The inductive invariant of the read API holds throughout.
LEMMA ReadInvariance == ReadSpec => []ReadInv
BY ReadInitInv, ReadStep, PTL DEF ReadSpec

\* However the writers interleave with its reads, a reply that says "valid"
\* covers the receipts it shows, one that says "broken" has a foreign signature
\* to show for it, and an unknown run comes with no receipts.
THEOREM RepliesCohere == ReadSpec => []ReplyCoherent
<1>1. ReadInv => ReplyCoherent
  BY ReplyParts DEF ReadInv, ReaderOk
<1> QED
  BY <1>1, ReadInvariance, PTL

\* No event that a process finished before the read is missing from its reply
\* without the reply counting drops for the run.
THEOREM GapsAreFlagged == ReadSpec => []GapFlagged
<1>1. ReadInv => GapFlagged
  BY ReplyParts DEF ReadInv, ReaderOk
<1> QED
  BY <1>1, ReadInvariance, PTL

-----------------------------------------------------------------------------
(* The auditor's commands. *)

\* A receipt of the file whose signature was made with a key of the system
\* signs a row of the store, whatever its body has become.
Authentic(x) ==
    /\ x = [body |-> x.body, signedBy |-> x.signedBy, signed |-> x.signed]
    /\ x.signedBy # Stranger => x.signed \in rows

WellFormed(f) ==
    /\ f = [run |-> f.run, signer |-> f.signer, key |-> f.key, receipts |-> f.receipts]
    /\ f.receipts \in Seq(Range(f.receipts))
    /\ \A x \in Range(f.receipts) : Authentic(x)

\* A file as `iaga replay --export` wrote it.
Untouched(f) ==
    /\ f.signer = f.key
    /\ f.key # NotHex
    /\ \A i \in 1..Len(f.receipts) :
         /\ f.receipts[i] = Exported(f.receipts[i].body)
         /\ f.receipts[i].body.run = f.run

FileInv ==
    /\ edits \in Nat
    /\ file \notin {NoFile, Garbage} =>
         WellFormed(file) /\ (edits = 0 => Untouched(file))

\* CHAIN OK, in a form that survives the growth of the table.
VerifiedInv ==
    Answered("verify") =>
        /\ file.signer = report.key
        /\ report.expect \in {None, Len(file.receipts)}
        /\ Len(file.receipts) \in Nat
        /\ report.key # Stranger =>
             \A i \in 1..Len(file.receipts) :
                /\ file.receipts[i].body \in RowsOf(file.run)
                /\ file.receipts[i].body.seq = i - 1

ReplayedInv ==
    Answered("replay") =>
        /\ report.count \in Nat \ {0}
        /\ \A n \in 0..(report.count - 1) :
             \E r \in RowsOf(report.run) : r.seq = n /\ r.key = report.key

AuditInv == ReadInv /\ FileInv /\ VerifiedInv /\ ReplayedInv

\* A file is well formed when its receipts come from a set of authentic ones.
LEMMA MakeFile ==
    ASSUME NEW S, \A x \in S : Authentic(x), NEW rs \in Seq(S), NEW run, NEW signer, NEW key
    PROVE  WellFormed([run |-> run, signer |-> signer, key |-> key, receipts |-> rs])
<1>1. PICK f : f = [run |-> run, signer |-> signer, key |-> key, receipts |-> rs]
  OBVIOUS
<1>2. f.run = run /\ f.signer = signer /\ f.key = key /\ f.receipts = rs
  BY <1>1
<1>3. Range(rs) \subseteq S /\ rs \in Seq(Range(rs))
  BY DEF Range
<1> QED
  BY <1>1, <1>2, <1>3 DEF WellFormed

\* What a well-formed file becomes when only its envelope or its receipts change.
LEMMA FileFields ==
    ASSUME NEW f, WellFormed(f), NEW x
    PROVE  /\ [f EXCEPT !.receipts = x] =
                 [run |-> f.run, signer |-> f.signer, key |-> f.key, receipts |-> x]
           /\ [f EXCEPT !.run = x] =
                 [run |-> x, signer |-> f.signer, key |-> f.key, receipts |-> f.receipts]
           /\ [f EXCEPT !.key = x] =
                 [run |-> f.run, signer |-> f.signer, key |-> x, receipts |-> f.receipts]
BY DEF WellFormed

\* Taking one element out of a sequence adds none.
LEMMA RemoveAtType ==
    ASSUME NEW S, NEW s \in Seq(S), NEW i \in 1..Len(s)
    PROVE  RemoveAt(s, i) \in Seq(S)
<1>1. SubSeq(s, 1, i - 1) \in Seq(S) /\ SubSeq(s, i + 1, Len(s)) \in Seq(S)
  OBVIOUS
<1> QED
  BY <1>1 DEF RemoveAt

\* A stored row is authentic when it is exported.
LEMMA ExportedAuthentic == \A r \in rows : Authentic(Exported(r))
BY DEF Authentic, Exported

\* No edit makes a signature: a receipt of an edited file is one that was there,
\* with its body changed perhaps, a stored one, or signed by a stranger.
LEMMA EditedWellFormed ==
    ASSUME NEW f, WellFormed(f), NEW g \in Edited(f)
    PROVE  WellFormed(g)
<1> DEFINE S == Range(f.receipts)
           n == Len(f.receipts)
<1>0. /\ f.receipts \in Seq(S) /\ n \in Nat
      /\ \A x \in S : Authentic(x)
      /\ \A i \in 1..n : f.receipts[i] \in S
  BY DEF WellFormed
<1>1. ASSUME NEW i \in 1..n, g = [f EXCEPT !.receipts = RemoveAt(@, i)] PROVE WellFormed(g)
  <2>1. RemoveAt(f.receipts, i) \in Seq(S)
    BY <1>0, RemoveAtType
  <2>2. g = [run |-> f.run, signer |-> f.signer, key |-> f.key, receipts |-> RemoveAt(f.receipts, i)]
    BY <1>1, FileFields
  <2> QED
    BY <1>0, <2>1, <2>2, MakeFile
<1>2. ASSUME NEW i \in 1..(n - 1),
             g = [f EXCEPT !.receipts = [@ EXCEPT ![i] = f.receipts[i + 1],
                                                  ![i + 1] = f.receipts[i]]]
      PROVE  WellFormed(g)
  <2>1. PICK rs : rs = [f.receipts EXCEPT ![i] = f.receipts[i + 1], ![i + 1] = f.receipts[i]]
    OBVIOUS
  <2>2. rs \in Seq(S)
    BY <1>0, <2>1
  <2>3. g = [run |-> f.run, signer |-> f.signer, key |-> f.key, receipts |-> rs]
    BY <1>2, <2>1, FileFields
  <2> QED
    BY <1>0, <2>2, <2>3, MakeFile
<1>3. ASSUME NEW r \in rows, g = [f EXCEPT !.receipts = Append(@, Exported(r))]
      PROVE  WellFormed(g)
  <2>1. PICK T : T = S \cup {Exported(r)}
    OBVIOUS
  <2>2. \A x \in T : Authentic(x)
    BY <1>0, <2>1, ExportedAuthentic
  <2>3. f.receipts \in Seq(T) /\ Exported(r) \in T
    BY <1>0, <2>1, LongerAlphabet
  <2>4. Append(f.receipts, Exported(r)) \in Seq(T)
    BY <2>3
  <2>5. g = [run |-> f.run, signer |-> f.signer, key |-> f.key,
             receipts |-> Append(f.receipts, Exported(r))]
    BY <1>3, FileFields
  <2> QED
    BY <2>2, <2>4, <2>5, MakeFile
<1>4. ASSUME NEW i \in 1..n, NEW e \in Events, g = [f EXCEPT !.receipts[i].body.event = e]
      PROVE  WellFormed(g)
  <2>1. PICK old : old = f.receipts[i]
    OBVIOUS
  <2>2. PICK new : new = [old EXCEPT !.body.event = e]
    OBVIOUS
  <2>3. Authentic(old)
    BY <1>0, <2>1
  <2>4. Authentic(new)
    <3>1. old = [body |-> old.body, signedBy |-> old.signedBy, signed |-> old.signed]
      BY <2>3 DEF Authentic
    <3>2. PICK b : new = [body |-> b, signedBy |-> old.signedBy, signed |-> old.signed]
      BY <2>2, <3>1
    <3>3. new.body = b /\ new.signedBy = old.signedBy /\ new.signed = old.signed
      BY <3>2
    <3> QED
      BY <2>3, <3>2, <3>3 DEF Authentic
  <2>5. PICK T : T = S \cup {new}
    OBVIOUS
  <2>6. \A x \in T : Authentic(x)
    BY <1>0, <2>4, <2>5
  <2>7. [f.receipts EXCEPT ![i] = new] \in Seq(T)
    BY <1>0, <2>5
  <2>8. g = [run |-> f.run, signer |-> f.signer, key |-> f.key,
             receipts |-> [f.receipts EXCEPT ![i] = new]]
    BY <1>4, <2>1, <2>2, FileFields
  <2> QED
    BY <2>6, <2>7, <2>8, MakeFile
<1>5. ASSUME NEW run, g = [f EXCEPT !.run = run] PROVE WellFormed(g)
  <2>1. g = [run |-> run, signer |-> f.signer, key |-> f.key, receipts |-> f.receipts]
    BY <1>5, FileFields
  <2>2. PICK T : T = S
    OBVIOUS
  <2>3. f.receipts \in Seq(T) /\ \A x \in T : Authentic(x)
    BY <1>0, <2>2
  <2> QED
    BY <2>1, <2>3, MakeFile
<1>6. ASSUME NEW k, g = [f EXCEPT !.key = k] PROVE WellFormed(g)
  <2>1. g = [run |-> f.run, signer |-> f.signer, key |-> k, receipts |-> f.receipts]
    BY <1>6, FileFields
  <2>2. PICK T : T = S
    OBVIOUS
  <2>3. f.receipts \in Seq(T) /\ \A x \in T : Authentic(x)
    BY <1>0, <2>2
  <2> QED
    BY <2>1, <2>3, MakeFile
<1>7. ASSUME NEW claim, g = Rewritten(f, claim) PROVE WellFormed(g)
  <2>1. PICK body : g = [f EXCEPT !.signer = claim, !.key = Stranger,
                           !.receipts = [i \in 1..n |-> [body |-> body[i], signedBy |-> Stranger,
                                                         signed |-> body[i]]]]
    BY <1>7 DEF Rewritten
  <2>2. PICK rs : rs = [i \in 1..n |-> [body |-> body[i], signedBy |-> Stranger, signed |-> body[i]]]
    OBVIOUS
  <2>3. g = [run |-> f.run, signer |-> claim, key |-> Stranger, receipts |-> rs]
    BY <2>1, <2>2 DEF WellFormed
  <2>4. PICK T : T = {[body |-> body[i], signedBy |-> Stranger, signed |-> body[i]] : i \in 1..n}
    OBVIOUS
  <2>5. rs \in Seq(T)
    BY <1>0, <2>2, <2>4
  <2>6. \A x \in T : Authentic(x)
    BY <2>4 DEF Authentic
  <2> QED
    BY <2>3, <2>5, <2>6, MakeFile
<1> QED
  BY <1>1, <1>2, <1>3, <1>4, <1>5, <1>6, <1>7 DEF Edited

\* What the verifier has checked when it says "valid".
LEMMA ValidLinks ==
    ASSUME NEW s, NEW signed, VerifyLinks(s, signed).status = "valid"
    PROVE  /\ VerifyLinks(s, signed).count = Len(s)
           /\ \A i \in 1..Len(s) : s[i].seq = i - 1 /\ i \in signed
<1> DEFINE broken == {i \in 1..Len(s) :
                        \/ s[i].run # s[1].run
                        \/ s[i].seq # i - 1
                        \/ s[i].parent # IF i = 1 THEN NoParent ELSE BodyHash(s[i - 1])
                        \/ i \notin signed}
<1>1. VerifyLinks(s, signed) =
        IF s = <<>> THEN [status |-> "empty"]
        ELSE IF broken = {} THEN [status |-> "valid", count |-> Len(s)]
                            ELSE [status |-> "broken", at |-> Min(broken)]
  BY DEF VerifyLinks
<1>2. broken = {} /\ VerifyLinks(s, signed) = [status |-> "valid", count |-> Len(s)]
  BY <1>1
<1> QED
  BY <1>2

\* The bodies of a well-formed file, by number.
LEMMA BodiesOf ==
    ASSUME NEW f, WellFormed(f)
    PROVE  /\ Len(f.receipts) \in Nat
           /\ Bodies(f) \in Seq(Range(Bodies(f)))
           /\ Len(Bodies(f)) = Len(f.receipts)
           /\ \A i \in 1..Len(f.receipts) : Bodies(f)[i] = f.receipts[i].body
<1>1. PICK n \in Nat : n = Len(f.receipts)
  BY DEF WellFormed
<1>2. PICK T : T = {f.receipts[i].body : i \in 1..n}
  OBVIOUS
<1>3. Bodies(f) \in [1..n -> T] /\ \A i \in 1..n : Bodies(f)[i] = f.receipts[i].body
  BY <1>1, <1>2 DEF Bodies
<1>4. Bodies(f) \in Seq(T) /\ Len(Bodies(f)) = n
  BY <1>3
<1>5. Bodies(f) \in Seq(Range(Bodies(f)))
  BY <1>4 DEF Range
<1> QED
  BY <1>1, <1>3, <1>4, <1>5

\* An export that verifies with a key holds, when the key is not a stranger's,
\* the receipts of the run it names, each at its place.
LEMMA ExportSound ==
    ASSUME NEW f, WellFormed(f), NEW vk, VerifyExport(f, vk).status = "valid"
    PROVE  /\ f.signer = vk
           /\ VerifyExport(f, vk).count = Len(f.receipts)
           /\ vk # Stranger => \A i \in 1..Len(f.receipts) :
                /\ f.receipts[i].body \in RowsOf(f.run)
                /\ f.receipts[i].body.seq = i - 1
<1> DEFINE signed == {i \in 1..Len(f.receipts) : GoodSignature(f.receipts[i], vk)}
<1>1. /\ f.signer = vk
      /\ \A i \in 1..Len(f.receipts) : f.receipts[i].body.run = f.run
      /\ VerifyExport(f, vk) = VerifyLinks(Bodies(f), signed)
  BY DEF VerifyExport
<1>2. /\ VerifyExport(f, vk).count = Len(f.receipts)
      /\ \A i \in 1..Len(f.receipts) : f.receipts[i].body.seq = i - 1 /\ i \in signed
  BY <1>1, ValidLinks, BodiesOf
<1>3. ASSUME vk # Stranger, NEW i \in 1..Len(f.receipts)
      PROVE  f.receipts[i].body \in RowsOf(f.run)
  <2>1. PICK x : x = f.receipts[i]
    OBVIOUS
  <2>2. x.signedBy = vk /\ x.signed = x.body /\ x.body.run = f.run
    BY <1>1, <1>2, <2>1 DEF GoodSignature
  <2>3. Authentic(x)
    BY <2>1 DEF WellFormed
  <2> QED
    BY <1>3, <2>1, <2>2, <2>3 DEF Authentic, RowsOf
<1> QED
  BY <1>1, <1>2, <1>3

\* The standalone verifier and the runtime give an untouched file the same answer.
LEMMA SameAnswer ==
    ASSUME NEW f, WellFormed(f), Untouched(f), f # Garbage
    PROVE  ExitCode(f, None, None) = 0 <=> VerifyChain(Bodies(f), f.key).status = "valid"
<1> DEFINE n == Len(f.receipts)
           good == {i \in 1..n : GoodSignature(f.receipts[i], f.key)}
           own == {i \in 1..Len(Bodies(f)) : Bodies(f)[i].key = f.key}
<1>1. /\ n \in Nat /\ Len(Bodies(f)) = n
      /\ \A i \in 1..n : Bodies(f)[i] = f.receipts[i].body
      /\ Bodies(f) \in Seq(Range(Bodies(f)))
  BY BodiesOf
<1>2. \A i \in 1..n : GoodSignature(f.receipts[i], f.key) <=> f.receipts[i].body.key = f.key
  <2> SUFFICES ASSUME NEW i \in 1..n
               PROVE  GoodSignature(f.receipts[i], f.key) <=> f.receipts[i].body.key = f.key
    OBVIOUS
  <2>1. PICK x : x = f.receipts[i]
    OBVIOUS
  <2>2. x = Exported(x.body)
    BY <2>1 DEF Untouched
  <2>3. x.signedBy = x.body.key /\ x.signed = x.body
    BY <2>2 DEF Exported
  <2> QED
    BY <2>1, <2>3 DEF GoodSignature
<1>3. good = own
  BY <1>1, <1>2
<1>4. ExitCode(f, None, None) = 0 <=> VerifyExport(f, f.key).status = "valid"
  BY DEF ExitCode, Untouched
<1>5. VerifyExport(f, f.key) =
        IF \E i \in 1..n : f.receipts[i].body.key # f.key
        THEN [status |-> "broken"] ELSE VerifyLinks(Bodies(f), own)
  BY <1>3 DEF VerifyExport, Untouched
<1>6. VerifyChain(Bodies(f), f.key) =
        IF Bodies(f) = <<>> THEN [status |-> "error"] ELSE VerifyLinks(Bodies(f), own)
  BY DEF VerifyChain
<1>7. CASE \E i \in 1..n : f.receipts[i].body.key # f.key
  <2>1. VerifyExport(f, f.key).status # "valid"
    BY <1>5, <1>7
  <2>2. PICK i \in 1..Len(Bodies(f)) : i \notin own
    BY <1>1, <1>7
  <2>3. VerifyLinks(Bodies(f), own).status # "valid"
    BY <2>2, ValidLinks
  <2>4. VerifyChain(Bodies(f), f.key).status # "valid"
    BY <1>6, <2>3
  <2> QED
    BY <1>4, <2>1, <2>4
<1>8. CASE Bodies(f) = <<>>
  <2>1. VerifyLinks(Bodies(f), own).status # "valid"
    BY <1>8 DEF VerifyLinks
  <2>2. VerifyExport(f, f.key).status # "valid"
    BY <1>5, <2>1
  <2>3. VerifyChain(Bodies(f), f.key).status # "valid"
    BY <1>6, <1>8
  <2> QED
    BY <1>4, <2>2, <2>3
<1> QED
  BY <1>4, <1>5, <1>6, <1>7, <1>8

\* The answers survive the growth of the table.
LEMMA AnswersStable ==
    ASSUME FileInv, VerifiedInv, ReplayedInv, rows \subseteq rows', UNCHANGED <<file, edits, report>>
    PROVE  FileInv' /\ VerifiedInv' /\ ReplayedInv'
<1>1. \A run : RowsOf(run) \subseteq RowsOf(run)'
  BY DEF RowsOf
<1>2. \A x : Authentic(x) => Authentic(x)'
  BY DEF Authentic
<1>3. \A f : WellFormed(f) => WellFormed(f)'
  BY <1>2 DEF WellFormed
<1>4. FileInv'
  BY <1>3 DEF FileInv, Untouched, Exported
<1>5. VerifiedInv'
  BY <1>1 DEF VerifiedInv, Answered
<1>6. ReplayedInv'
  BY <1>1 DEF ReplayedInv, Answered
<1> QED
  BY <1>4, <1>5, <1>6

\* What the three parts need of a command that leaves the file alone.
LEMMA FileStable ==
    ASSUME FileInv, UNCHANGED <<rows, file, edits>>
    PROVE  FileInv'
BY DEF FileInv, WellFormed, Authentic, Untouched, Exported

\* `iaga replay --export` writes the rows of the run it resolved.
LEMMA ExportStep ==
    ASSUME AuditInv, NEW vk \in LoadedKeys, NEW arg, Export(vk, arg)
    PROVE  FileInv' /\ VerifiedInv' /\ ReplayedInv'
<1>0. ChainInv /\ HeightInv /\ UNCHANGED rows /\ UNCHANGED edits /\ edits \in Nat
  BY DEF AuditInv, ReadInv, LogInv, IInv, Export, readVars, vars, FileInv
<1>1. VerifiedInv' /\ ReplayedInv'
  <2>1. ~Answered("verify")' /\ ~Answered("replay")'
    BY DEF Export, Answered
  <2> QED
    BY <2>1 DEF VerifiedInv, ReplayedInv
<1>2. FileInv'
  <2>1. CASE UNCHANGED file
    BY <1>0, <2>1, FileStable DEF AuditInv
  <2>2. ASSUME NEW run,
               file' = [run |-> run, signer |-> vk, key |-> vk,
                        receipts |-> [i \in 1..Len(GetRun(run)) |-> Exported(GetRun(run)[i])]]
        PROVE  FileInv'
    <3>1. PICK s : s = GetRun(run)
      OBVIOUS
    <3>2. s \in Seq(RowsOf(run)) /\ \A i \in 1..Len(s) : s[i] \in RowsOf(run)
      BY <1>0, <3>1, GetRunRows
    <3>3. PICK rs : rs = [i \in 1..Len(s) |-> Exported(s[i])]
      OBVIOUS
    <3>4. file' = [run |-> run, signer |-> vk, key |-> vk, receipts |-> rs]
      BY <2>2, <3>1, <3>3
    <3>5. PICK T : T = {Exported(r) : r \in RowsOf(run)}
      OBVIOUS
    <3>6. rs \in Seq(T) /\ Len(rs) = Len(s)
      BY <3>2, <3>3, <3>5
    <3>7. \A x \in T : Authentic(x)
      BY <3>5, ExportedAuthentic DEF RowsOf
    <3>8. WellFormed(file')
      BY <3>4, <3>6, <3>7, MakeFile
    <3>9. WellFormed(file)'
      BY <1>0, <3>8 DEF WellFormed, Authentic
    <3>10. vk # NotHex
      BY StrangerAssumption DEF LoadedKeys
    <3>11. \A i \in 1..Len(rs) : rs[i] = Exported(rs[i].body) /\ rs[i].body.run = run
      BY <3>2, <3>3, <3>6 DEF Exported, RowsOf
    <3>12. Untouched(file)'
      <4>1. PICK f : f = file'
        OBVIOUS
      <4>2. f.run = run /\ f.signer = vk /\ f.key = vk /\ f.receipts = rs
        BY <3>4, <4>1
      <4>3. Untouched(f)
        BY <3>10, <3>11, <4>2 DEF Untouched
      <4> QED
        BY <4>1, <4>3 DEF Untouched, Exported
    <3> QED
      BY <1>0, <3>9, <3>12 DEF FileInv
  <2> QED
    BY <2>1, <2>2 DEF Export
<1> QED
  BY <1>1, <1>2

\* `iaga replay` says OK for a run whose rows its own key signed.
LEMMA ReplayStep ==
    ASSUME AuditInv, NEW vk, NEW arg, Replay(vk, arg)
    PROVE  FileInv' /\ VerifiedInv' /\ ReplayedInv'
<1>0. ChainInv /\ HeightInv /\ UNCHANGED <<rows, file, edits>>
  BY DEF AuditInv, ReadInv, LogInv, IInv, Replay, readVars, vars
<1>1. PICK run \in Resolutions(arg) :
        report' \in CASE run = None -> {[tool |-> "replay", exit |-> 2]}
                      [] run # None /\ VerifyChain(GetRun(run), vk).status = "valid" ->
                           {[tool |-> "replay", exit |-> 0, run |-> run, key |-> vk,
                             count |-> Len(GetRun(run))], [tool |-> "replay", exit |-> 3]}
                      [] run # None /\ VerifyChain(GetRun(run), vk).status = "broken" ->
                           {[tool |-> "replay", exit |-> x] : x \in {1, 3}}
                      [] OTHER -> {[tool |-> "replay", exit |-> 3]}
  BY DEF Replay
<1>2. PICK status : status = VerifyChain(GetRun(run), vk).status
  OBVIOUS
<1>3. \/ report'.exit # 0
      \/ /\ status = "valid"
         /\ report' = [tool |-> "replay", exit |-> 0, run |-> run, key |-> vk,
                       count |-> Len(GetRun(run))]
  <2>1. CASE run = None
    BY <1>1, <2>1
  <2>2. CASE run # None /\ status = "valid"
    BY <1>1, <1>2, <2>2
  <2>3. CASE run # None /\ status = "broken"
    <3>1. report' \in {[tool |-> "replay", exit |-> x] : x \in {1, 3}}
      BY <1>1, <1>2, <2>3
    <3> QED
      BY <3>1
  <2>4. CASE run # None /\ status \notin {"valid", "broken"}
    BY <1>1, <1>2, <2>4
  <2> QED
    BY <2>1, <2>2, <2>3, <2>4
<1>4. report'.tool = "replay"
  <2>1. CASE run = None
    BY <1>1, <2>1
  <2>2. CASE run # None /\ status = "valid"
    BY <1>1, <1>2, <2>2
  <2>3. CASE run # None /\ status = "broken"
    <3>1. report' \in {[tool |-> "replay", exit |-> x] : x \in {1, 3}}
      BY <1>1, <1>2, <2>3
    <3> QED
      BY <3>1
  <2>4. CASE run # None /\ status \notin {"valid", "broken"}
    BY <1>1, <1>2, <2>4
  <2> QED
    BY <2>1, <2>2, <2>3, <2>4
<1>5. VerifiedInv'
  BY <1>4 DEF VerifiedInv, Answered
<1>6. ReplayedInv'
  <2>1. CASE report'.exit # 0
    BY <2>1 DEF ReplayedInv, Answered
  <2>2. CASE /\ status = "valid"
             /\ report' = [tool |-> "replay", exit |-> 0, run |-> run, key |-> vk,
                           count |-> Len(GetRun(run))]
    <3>1. RowsOf(run) # {} /\ \A r \in RowsOf(run) : r.key = vk
      BY <1>0, <1>2, <2>2, StoredVerify
    <3>2. /\ Len(GetRun(run)) = Height(run) /\ Height(run) \in Nat
          /\ \A r \in RowsOf(run) : r.seq + 1 \in 1..Height(run)
      BY <1>0, GetRunRows
    <3>3. Height(run) # 0
      BY <3>1, <3>2
    <3>4. \A k \in 0..(Height(run) - 1) : \E r \in RowsOf(run) : r.seq = k /\ r.key = vk
      BY <1>0, <3>1, <3>2, RowNumbers
    <3>5. RowsOf(run)' = RowsOf(run)
      BY <1>0 DEF RowsOf
    <3>6. report'.count = Height(run) /\ report'.run = run /\ report'.key = vk
      BY <2>2, <3>2
    <3> QED
      BY <3>2, <3>3, <3>4, <3>5, <3>6 DEF ReplayedInv
  <2> QED
    BY <1>3, <2>1, <2>2
<1> QED
  BY <1>0, <1>5, <1>6, FileStable DEF AuditInv

\* iaga-verify says CHAIN OK only for what VerifyExport accepts.
LEMMA VerifyStep ==
    ASSUME AuditInv, NEW pinned, NEW expect, Verify(pinned, expect)
    PROVE  FileInv' /\ VerifiedInv' /\ ReplayedInv'
<1>0. UNCHANGED <<rows, file, edits>> /\ file # NoFile
  BY DEF Verify, readVars, vars
<1>1. PICK vk : vk = IF pinned = None THEN file.key ELSE pinned
  OBVIOUS
<1>2. report' = IF ExitCode(file, pinned, expect) # 0
                THEN [tool |-> "verify", exit |-> ExitCode(file, pinned, expect)]
                ELSE [tool |-> "verify", exit |-> 0, expect |-> expect, key |-> vk]
  BY <1>1 DEF Verify
<1>3. ReplayedInv'
  <2>1. report'.tool = "verify"
    BY <1>2
  <2> QED
    BY <2>1 DEF ReplayedInv, Answered
<1>4. VerifiedInv'
  <2>1. CASE ExitCode(file, pinned, expect) # 0
    <3>1. report'.exit # 0
      BY <1>2, <2>1
    <3> QED
      BY <3>1 DEF VerifiedInv, Answered
  <2>2. CASE ExitCode(file, pinned, expect) = 0
    <3>1. /\ file # Garbage
          /\ VerifyExport(file, vk).status = "valid"
          /\ expect \in {None, VerifyExport(file, vk).count}
      BY <1>1, <2>2 DEF ExitCode
    <3>2. WellFormed(file)
      BY <1>0, <3>1 DEF AuditInv, FileInv
    <3>3. /\ file.signer = vk
          /\ VerifyExport(file, vk).count = Len(file.receipts)
          /\ vk # Stranger => \A i \in 1..Len(file.receipts) :
               /\ file.receipts[i].body \in RowsOf(file.run)
               /\ file.receipts[i].body.seq = i - 1
      BY <3>1, <3>2, ExportSound
    <3>4. Len(file.receipts) \in Nat
      BY <3>2, BodiesOf
    <3>5. report'.key = vk /\ report'.expect = expect
      BY <1>2, <2>2
    <3>6. RowsOf(file.run)' = RowsOf(file.run)
      BY <1>0 DEF RowsOf
    <3> QED
      BY <1>0, <3>1, <3>3, <3>4, <3>5, <3>6 DEF VerifiedInv
  <2> QED
    BY <2>1, <2>2
<1> QED
  BY <1>0, <1>3, <1>4, FileStable DEF AuditInv

\* A change to the file withdraws the last answer.
LEMMA EditStep ==
    ASSUME AuditInv, Edit
    PROVE  FileInv' /\ VerifiedInv' /\ ReplayedInv'
<1>1. UNCHANGED rows /\ file \notin {NoFile, Garbage} /\ edits \in Nat /\ edits' = edits + 1
  BY DEF Edit, readVars, vars, AuditInv, FileInv
<1>2. VerifiedInv' /\ ReplayedInv'
  BY DEF Edit, VerifiedInv, ReplayedInv, Answered
<1>3. file' # Garbage => WellFormed(file')
  BY <1>1, EditedWellFormed DEF Edit, AuditInv, FileInv
<1>4. file' # Garbage => WellFormed(file)'
  BY <1>1, <1>3 DEF WellFormed, Authentic
<1>5. edits' \in Nat /\ edits' # 0
  BY <1>1
<1> QED
  BY <1>2, <1>4, <1>5 DEF FileInv

\* The invariant of the auditor is inductive.
LEMMA AuditStepInv == AuditInv /\ [AuditNext]_auditVars => AuditInv'
<1> SUFFICES ASSUME AuditInv, [AuditNext]_auditVars PROVE AuditInv'
  OBVIOUS
<1>1. [ReadNext]_readVars
  BY DEF AuditNext, AuditStep, Export, Replay, Edit, Verify, Usage, auditVars
<1>2. ReadInv' /\ rows \subseteq rows'
  BY <1>1, ReadStep, ReadNextIsNext, RowsGrow DEF AuditInv
<1>3. FileInv' /\ VerifiedInv' /\ ReplayedInv'
  <2>1. CASE UNCHANGED <<file, edits, report>>
    BY <1>2, <2>1, AnswersStable DEF AuditInv
  <2>2. CASE Usage
    <3>1. UNCHANGED <<rows, file, edits>> /\ report' = [tool |-> "usage", exit |-> 2]
      BY <2>2 DEF Usage, readVars, vars
    <3>2. ~Answered("verify")' /\ ~Answered("replay")'
      BY <3>1 DEF Answered
    <3> QED
      BY <3>1, <3>2, FileStable DEF AuditInv, VerifiedInv, ReplayedInv
  <2> QED
    BY <2>1, <2>2, ExportStep, ReplayStep, EditStep, VerifyStep DEF AuditNext, AuditStep, auditVars
<1> QED
  BY <1>2, <1>3 DEF AuditInv

\* The invariant of the auditor holds throughout.
LEMMA AuditInvariance == AuditSpec => []AuditInv
<1>1. AuditInit => AuditInv
  <2> SUFFICES ASSUME AuditInit PROVE AuditInv
    OBVIOUS
  <2>1. ReadInv
    BY ReadInitInv DEF AuditInit
  <2>2. FileInv /\ VerifiedInv /\ ReplayedInv
    BY DEF AuditInit, FileInv, VerifiedInv, ReplayedInv, Answered
  <2> QED
    BY <2>1, <2>2 DEF AuditInv
<1> QED
  BY <1>1, AuditStepInv, PTL DEF AuditSpec

\* Whatever happened to the file between export and verification and whatever
\* was recorded since: CHAIN OK with a key of the system means the first
\* receipts of that run as the store holds them, all of them when the expected
\* count is the real one; an untouched file gets the runtime's own answer; and
\* `iaga replay` says OK only for receipts its key signed.
THEOREM EvidenceIsSound == AuditSpec => []AuditSound
<1>1. ASSUME AuditInv PROVE AuditSound
  <2>0. ChainInv /\ HeightInv
    BY <1>1 DEF AuditInv, ReadInv, LogInv, IInv
  <2>1. ASSUME Answered("verify"), report.key # Stranger,
               report.expect = Cardinality(RowsOf(file.run))
        PROVE  RowsOf(file.run) \subseteq Range(Bodies(file))
    <3>1. /\ report.expect \in {None, Len(file.receipts)}
          /\ \A i \in 1..Len(file.receipts) :
               /\ file.receipts[i].body \in RowsOf(file.run)
               /\ file.receipts[i].body.seq = i - 1
      BY <1>1, <2>1 DEF AuditInv, VerifiedInv
    <3>2. Height(file.run) = Cardinality(RowsOf(file.run)) /\ Height(file.run) \in Nat
      BY <2>0, HeightOfRows DEF HeightInv
    <3>3. Len(file.receipts) = Height(file.run)
      BY <2>1, <3>1, <3>2, EditsAssumption
    <3>4. ASSUME NEW r \in RowsOf(file.run) PROVE r \in Range(Bodies(file))
      <4>1. r.seq \in Nat
        BY <2>0 DEF ChainInv, TypeOK, RowsOf
      <4>2. r.seq < Height(file.run)
        BY <2>0, <4>1, RowNumbers
      <4>3. PICK i \in 1..Len(file.receipts) : i = r.seq + 1
        BY <3>2, <3>3, <4>1, <4>2
      <4>4. file.receipts[i].body \in RowsOf(file.run) /\ file.receipts[i].body.seq = i - 1
        BY <3>1
      <4>5. file.receipts[i].body.seq = r.seq
        BY <4>1, <4>3, <4>4
      <4>6. file.receipts[i].body = r
        BY <2>0, <4>4, <4>5 DEF ChainInv, ChainIntact, RowsOf
      <4> QED
        BY <4>6 DEF Bodies, Range
    <3> QED
      BY <3>4
  <2>2. Answered("verify") => file.signer = report.key
    BY <1>1 DEF AuditInv, VerifiedInv
  <2>3. Answered("verify") /\ report.key # Stranger =>
          \A i \in 1..Len(file.receipts) :
             /\ file.receipts[i].body \in RowsOf(file.run)
             /\ file.receipts[i].body.seq = i - 1
    BY <1>1 DEF AuditInv, VerifiedInv
  <2>4. file \notin {NoFile, Garbage} /\ edits = 0 =>
          (ExitCode(file, None, None) = 0 <=> VerifyChain(Bodies(file), file.key).status = "valid")
    BY <1>1, SameAnswer DEF AuditInv, FileInv
  <2>5. Answered("replay") =>
          /\ report.count > 0
          /\ \A n \in 0..(report.count - 1) :
               \E r \in RowsOf(report.run) : r.seq = n /\ r.key = report.key
    BY <1>1 DEF AuditInv, ReplayedInv
  <2> QED
    BY <2>1, <2>2, <2>3, <2>4, <2>5 DEF AuditSound
<1> QED
  BY <1>1, AuditInvariance, PTL
=============================================================================
