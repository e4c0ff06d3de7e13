----------------------- MODULE SessionExecutionProofs -----------------------
(* Type correctness and the safety of module SessionExecution, for any     *)
(* number of processes, captures and sequence numbers, and that it         *)
(* implements module SessionCapability.                                    *)
EXTENDS SessionExecution, TLAPS

\* Send checks the bound that ReceiveAck's increment relies on.
WithinBound == \A p \in Procs : pc[p] = "awaiting" => mem[p].next <= MaxSeq

LEMMA InitialTypes == NoMemory \in Memory /\ NoSession \in Session
<1> 0 \in 0 .. MaxSeq + 1
  BY ConstantsAssumption
<1> QED
  BY DEF NoMemory, Memory, Commands, Outcomes, NoSession, Session, Statuses

LEMMA TypeInvariance == Spec => [](TypeOK /\ WithinBound)
<1> DEFINE TypeInv == TypeOK /\ WithinBound
<1> USE ConstantsAssumption, InitialTypes
<1>1. Init => TypeInv
  BY DEF Init, TypeOK, WithinBound
<1>2. TypeInv /\ [Next]_vars => TypeInv'
  <2> SUFFICES ASSUME TypeInv, [Next]_vars PROVE TypeInv'
    OBVIOUS
  <2> USE DEF Goto, Durably, Volatilely, NotAtAll, disk, dynamics, TypeOK, WithinBound
  <2>1. ASSUME NEW p \in Procs, StartRun(p) PROVE TypeInv'
    BY <2>1 DEF StartRun, Memory, Commands, NoMemory
  <2>2. ASSUME NEW p \in Procs, NEW c \in Captures, StartImport(p, c) PROVE TypeInv'
    BY <2>2 DEF StartImport, Memory, Commands, NoMemory
  <2>3. ASSUME NEW p \in Procs, StartRemove(p) PROVE TypeInv'
    BY <2>3 DEF StartRemove, Memory, Commands, NoMemory
  <2>4. ASSUME NEW p \in Procs, AcquireLock(p) PROVE TypeInv'
    <3>1. pc'[p] \in Owning \cup {"idle"} /\ pc'[p] # "awaiting"
      BY <2>4 DEF AcquireLock, FirstStep, Memory, Commands, Owning
    <3> QED
      BY <2>4, <3>1 DEF AcquireLock
  <2>5. ASSUME NEW p \in Procs, LoadSession(p) PROVE TypeInv'
    <3>1. CASE UNCHANGED mem
      BY <2>5, <3>1 DEF LoadSession, Owning
    <3>2. CASE mem' = [mem EXCEPT ![p].cap = file.cap, ![p].stored = file.next,
                                  ![p].next = file.next]
      BY <2>5, <3>2 DEF LoadSession, Memory, Session, Owning
    <3> QED
      BY <2>5, <3>1, <3>2 DEF LoadSession
  <2>6. ASSUME NEW p \in Procs, MarkInProgress(p) PROVE TypeInv'
    <3>1. Marked(p) \in Session
      BY DEF Marked, Session, Memory, Statuses
    <3> QED
      BY <2>6, <3>1 DEF MarkInProgress, Owning
  <2>7. ASSUME NEW p \in Procs, Send(p) PROVE TypeInv'
    <3> DEFINE c == mem[p].cap  n == mem[p].next
    <3>1. n \in 0 .. MaxSeq
      BY <2>7 DEF Send, Memory
    <3>2. /\ [sent EXCEPT ![c] = @ \cup {n}] \in [Captures -> SUBSET (0 .. MaxSeq)]
          /\ [unsettled EXCEPT ![c] = @ \cup {n}] \in [Captures -> SUBSET (0 .. MaxSeq)]
      BY <3>1
    <3>3. pc' \in [Procs -> Owning \cup {"idle", "locking"}]
      BY <2>7 DEF Send, Owning
    <3> QED
      BY <2>7, <3>1, <3>2, <3>3 DEF Send
  <2>8. ASSUME NEW p \in Procs, ReceiveAck(p) PROVE TypeInv'
    <3>1. mem[p].next + 1 \in 0 .. MaxSeq + 1
      BY <2>8 DEF ReceiveAck, Memory
    <3>2. mem' \in [Procs -> Memory]
      BY <2>8, <3>1 DEF ReceiveAck, Memory, Outcomes
    <3>3. /\ pc' \in [Procs -> Owning \cup {"idle", "locking"}]
          /\ pc'[p] # "awaiting" /\ \A q \in Procs \ {p} : pc'[q] = pc[q] /\ mem'[q] = mem[q]
      BY <2>8 DEF ReceiveAck, Owning
    <3>4. unsettled' \in [Captures -> SUBSET (0 .. MaxSeq)]
      BY <2>8 DEF ReceiveAck
    <3> QED
      BY <2>8, <3>2, <3>3, <3>4 DEF ReceiveAck
  <2>9. ASSUME NEW p \in Procs, ExchangeFails(p) PROVE TypeInv'
    BY <2>9 DEF ExchangeFails, Memory, Outcomes, Owning
  <2>10. ASSUME NEW p \in Procs, EndOperation(p) PROVE TypeInv'
    BY <2>10 DEF EndOperation, Memory, Outcomes, Owning
  <2>11. ASSUME NEW p \in Procs, Finish(p) PROVE TypeInv'
    <3>1. \A b \in BOOLEAN : Checkpoint(p, b) \in Session
      BY DEF Checkpoint, FinalStatus, Session, Memory, Statuses
    <3> QED
      BY <2>11, <3>1 DEF Finish, Owning
  <2>12. ASSUME NEW p \in Procs, Import(p) PROVE TypeInv'
    BY <2>12 DEF Import, Session, Memory, Statuses, Owning
  <2>13. ASSUME NEW p \in Procs, Remove(p) PROVE TypeInv'
    BY <2>13 DEF Remove, NoSession, Session, Statuses, Owning
  <2>14. ASSUME NEW p \in Procs, ReleaseLock(p) PROVE TypeInv'
    BY <2>14 DEF ReleaseLock
  <2>15. ASSUME NEW p \in Procs, Crash(p) PROVE TypeInv'
    BY <2>15 DEF Crash
  <2>16. ASSUME NEW u \in Operators, UnlockInspect(u) \/ UnlockRemove(u) PROVE TypeInv'
    BY <2>16 DEF UnlockInspect, UnlockRemove
  <2>17. CASE PowerLoss
    BY <2>17 DEF PowerLoss
  <2>18. CASE UNCHANGED vars
    BY <2>18 DEF vars
  <2> QED
    BY <2>1, <2>2, <2>3, <2>4, <2>5, <2>6, <2>7, <2>8, <2>9, <2>10, <2>11,
       <2>12, <2>13, <2>14, <2>15, <2>16, <2>17, <2>18 DEF Next, Step
<1> QED
  BY <1>1, <1>2, PTL DEF Spec

(* Every step keeps the variables within their types.                      *)
THEOREM TypeCorrect == Spec => []TypeOK
BY TypeInvariance, PTL

-----------------------------------------------------------------------------
(* The inductive invariant.  Its four parts: who holds the lock, where     *)
(* captures come from, what a capture not yet installed looks like, and    *)
(* what a process in the middle of a command knows.                        *)

\* Two `session unlock' at a time break the lock: see README, finding 2.
OneOperator == \A u, v \in Operators : u = v

LockInv ==
  /\ MutualExclusion
  /\ \A p \in Procs : pc[p] \in Owning => lock
  /\ \A u \in Operators : unlock[u] = "inspected" =>
       lock /\ \A p \in Procs : pc[p] \notin Owning

Known == imported \cup {NoCapture}
Untouched(c) == sent[c] = {} /\ unsettled[c] = {}
CaptureInv ==
  /\ \A s \in onDisk : s.cap \in Known /\ (s.status = "ready" => s.cap \in Captures)
  /\ \A p \in Procs : mem[p].cap \in Known
  /\ \A c \in Captures \ imported : Untouched(c)

\* p has read a capture and not yet tried to install it.
Importing(p) == mem[p].cmd = "import" /\ pc[p] \in {"locking", "importing"}
ImportInv ==
  \A p \in Procs :
    /\ pc[p] = "importing" => Importing(p)
    /\ Importing(p) =>
         /\ mem[p].cap \in Captures /\ Untouched(mem[p].cap)
         /\ \A s \in onDisk : s.cap # mem[p].cap
         /\ \A q \in Procs \ {p} : mem[q].cap # mem[p].cap

\* No request of c is unaccounted for, and none used n or more.
Settled(c, n) == unsettled[c] = {} /\ \A m \in sent[c] : m < n
Running == Active \cup {"marking"}
ProgressInv ==
  \A p \in Procs :
    /\ pc[p] \in Running => mem[p].cap \in Captures
    /\ pc[p] \in Running \cup {"loading"} => mem[p].cmd = "run"
    /\ pc[p] = "marking" =>
         mem[p].next = mem[p].stored /\ Settled(mem[p].cap, mem[p].next)
    /\ pc[p] = "executing" => Settled(mem[p].cap, mem[p].next)
    /\ pc[p] = "awaiting" =>
         /\ unsettled[mem[p].cap] \subseteq {mem[p].next}
         /\ \A m \in sent[mem[p].cap] : m < mem[p].next + 1
    /\ pc[p] = "finishing" /\ mem[p].outcome = "nil" =>
         Settled(mem[p].cap, mem[p].next)

\* What a process is about to mark is still the visible session.
MarkInv == \A p \in Procs : pc[p] = "marking" => file.status = "ready" /\ file.cap = mem[p].cap

IInv == MarkInv /\ LockInv /\ CaptureInv /\ ImportInv /\ ProgressInv /\ ReadyIsFresh

-----------------------------------------------------------------------------
LEMMA InitialInvariant == Init => IInv
<1> SUFFICES ASSUME Init PROVE IInv
  OBVIOUS
<1> USE ConstantsAssumption DEF Init, NoMemory, NoSession
<1>1. LockInv
  BY DEF LockInv, MutualExclusion, Owning
<1>2. CaptureInv
  BY DEF CaptureInv, Known, Untouched
<1>3. ImportInv
  BY DEF ImportInv, Importing
<1>4. ProgressInv
  BY DEF ProgressInv, Running, Active
<1>5. ReadyIsFresh
  BY DEF ReadyIsFresh
<1>6. MarkInv
  BY DEF MarkInv
<1> QED
  BY <1>1, <1>2, <1>3, <1>4, <1>5, <1>6 DEF IInv

LEMMA LockStep == ASSUME OneOperator, TypeOK, LockInv, Next PROVE LockInv'
<1> USE DEF TypeOK, Goto, LockInv, MutualExclusion, Owning
<1>1. ASSUME NEW p \in Procs, StartRun(p) \/ StartRemove(p) PROVE LockInv'
  BY <1>1 DEF StartRun, StartRemove
<1>2. ASSUME NEW p \in Procs, NEW c \in Captures, StartImport(p, c) PROVE LockInv'
  BY <1>2 DEF StartImport
<1>3. ASSUME NEW p \in Procs, AcquireLock(p) PROVE LockInv'
  BY <1>3 DEF AcquireLock, FirstStep, Memory, Commands
<1>4. ASSUME NEW p \in Procs, LoadSession(p) \/ MarkInProgress(p) \/ Send(p) PROVE LockInv'
  BY <1>4 DEF LoadSession, MarkInProgress, Send
<1>5. ASSUME NEW p \in Procs, ReceiveAck(p) \/ ExchangeFails(p) \/ EndOperation(p)
      PROVE LockInv'
  BY <1>5 DEF ReceiveAck, ExchangeFails, EndOperation
<1>6. ASSUME NEW p \in Procs, Finish(p) \/ Import(p) \/ Remove(p) PROVE LockInv'
  BY <1>6 DEF Finish, Import, Remove
<1>7. ASSUME NEW p \in Procs, ReleaseLock(p) PROVE LockInv'
  BY <1>7 DEF ReleaseLock
<1>8. ASSUME NEW p \in Procs, Crash(p) PROVE LockInv'
  BY <1>8 DEF Crash
<1>9. ASSUME NEW u \in Operators, UnlockInspect(u) PROVE LockInv'
  BY <1>9 DEF UnlockInspect
<1>10. ASSUME NEW u \in Operators, UnlockRemove(u) PROVE LockInv'
  BY <1>10 DEF UnlockRemove, OneOperator
<1>11. CASE PowerLoss
  BY <1>11 DEF PowerLoss
<1> QED
  BY <1>1, <1>2, <1>3, <1>4, <1>5, <1>6, <1>7, <1>8, <1>9, <1>10, <1>11
  DEF Next, Step

LEMMA CaptureStep == ASSUME TypeOK, CaptureInv, ImportInv, ProgressInv, Next PROVE CaptureInv'
<1> USE DEF TypeOK, CaptureInv, Known, Untouched, Goto, NotAtAll, Durably, Volatilely
<1> USE DEF disk, dynamics, Session, Memory
<1>1. ASSUME NEW p \in Procs, StartRun(p) \/ StartRemove(p) PROVE CaptureInv'
  <2>1. \A cmd \in Commands : [NoMemory EXCEPT !.cmd = cmd].cap = NoCapture
    BY DEF NoMemory
  <2>2. \E cmd \in Commands : mem' = [mem EXCEPT ![p] = [NoMemory EXCEPT !.cmd = cmd]]
    BY <1>1 DEF StartRun, StartRemove, Commands
  <2> QED
    BY <1>1, <2>1, <2>2 DEF StartRun, StartRemove
<1>2. ASSUME NEW p \in Procs, NEW c \in Captures, StartImport(p, c) PROVE CaptureInv'
  BY <1>2 DEF StartImport, NoMemory
<1>3. ASSUME NEW p \in Procs, AcquireLock(p) \/ ReleaseLock(p) \/ Crash(p) PROVE CaptureInv'
  BY <1>3 DEF AcquireLock, ReleaseLock, Crash, NoMemory
<1>4. ASSUME NEW p \in Procs, LoadSession(p) PROVE CaptureInv'
  BY <1>4 DEF LoadSession
<1>5. ASSUME NEW p \in Procs, MarkInProgress(p) PROVE CaptureInv'
  BY <1>5 DEF MarkInProgress, Marked
<1>6. ASSUME NEW p \in Procs, Send(p) PROVE CaptureInv'
  <2>1. mem[p].cap \in imported /\ pc[p] = "executing"
    BY <1>6, ConstantsAssumption DEF Send, ProgressInv, Running, Active
  <2>2. \A c \in Captures \ imported : sent'[c] = sent[c] /\ unsettled'[c] = unsettled[c]
    BY <1>6, <2>1 DEF Send
  <2> QED
    BY <1>6, <2>2 DEF Send
<1>7. ASSUME NEW p \in Procs, ReceiveAck(p) PROVE CaptureInv'
  BY <1>7 DEF ReceiveAck
<1>8. ASSUME NEW p \in Procs, ExchangeFails(p) \/ EndOperation(p) PROVE CaptureInv'
  BY <1>8 DEF ExchangeFails, EndOperation
<1>9. ASSUME NEW p \in Procs, Finish(p) PROVE CaptureInv'
  BY <1>9 DEF Finish, Checkpoint, ProgressInv, Running, Active
<1>10. ASSUME NEW p \in Procs, Import(p) PROVE CaptureInv'
  BY <1>10 DEF Import, ImportInv, Importing
<1>11. ASSUME NEW p \in Procs, Remove(p) PROVE CaptureInv'
  BY <1>11 DEF Remove, NoSession
<1>12. ASSUME NEW u \in Operators, UnlockInspect(u) \/ UnlockRemove(u) PROVE CaptureInv'
  BY <1>12 DEF UnlockInspect, UnlockRemove
<1>13. CASE PowerLoss
  BY <1>13 DEF PowerLoss, NoMemory
<1> QED
  BY <1>1, <1>2, <1>3, <1>4, <1>5, <1>6, <1>7, <1>8, <1>9, <1>10, <1>11, <1>12, <1>13
  DEF Next, Step

\* Steps that send nothing, install nothing and import nothing.
LEMMA ImportFrame ==
  ASSUME ImportInv, UNCHANGED <<onDisk, sent, unsettled>>,
         \A p \in Procs : Importing(p)' => Importing(p) /\ mem'[p].cap = mem[p].cap,
         \A p \in Procs : mem'[p].cap \in {mem[p].cap, NoCapture},
         \A p \in Procs : pc'[p] = "importing" => Importing(p)'
  PROVE  ImportInv'
BY ConstantsAssumption DEF ImportInv, Untouched

LEMMA ImportStep ==
  ASSUME TypeOK, LockInv, CaptureInv, ImportInv, ProgressInv, Next PROVE ImportInv'
<1> USE DEF TypeOK, ImportInv, Importing, Untouched, Goto, NotAtAll, Durably, Volatilely
<1> USE DEF disk, dynamics, Session, Memory
<1>1. ASSUME NEW p \in Procs, StartRun(p) \/ StartRemove(p) PROVE ImportInv'
  <2>1. \A cmd \in Commands : [NoMemory EXCEPT !.cmd = cmd].cap = NoCapture
                             /\ [NoMemory EXCEPT !.cmd = cmd].cmd = cmd
    BY DEF NoMemory
  <2>2. \E cmd \in {"run", "remove"} :
          mem' = [mem EXCEPT ![p] = [NoMemory EXCEPT !.cmd = cmd]]
    BY <1>1 DEF StartRun, StartRemove
  <2> QED
    BY <1>1, <2>1, <2>2, ConstantsAssumption DEF StartRun, StartRemove, Commands
<1>2. ASSUME NEW p \in Procs, NEW c \in Captures, StartImport(p, c) PROVE ImportInv'
  <2>1. Untouched(c) /\ (\A s \in onDisk : s.cap # c) /\ \A q \in Procs : mem[q].cap # c
    BY <1>2, ConstantsAssumption DEF StartImport, CaptureInv, Known
  <2> QED
    BY <1>2, <2>1 DEF StartImport, NoMemory
<1>3. ASSUME NEW p \in Procs, AcquireLock(p) PROVE ImportInv'
  BY <1>3 DEF AcquireLock, FirstStep, Commands
<1>4. ASSUME NEW p \in Procs, ReleaseLock(p) \/ Crash(p) PROVE ImportInv'
  <2>1. \A q \in Procs :
          /\ Importing(q)' => Importing(q) /\ mem'[q].cap = mem[q].cap
          /\ mem'[q].cap \in {mem[q].cap, NoCapture}
          /\ pc'[q] = "importing" => Importing(q)'
    BY <1>4 DEF ReleaseLock, Crash, NoMemory
  <2> QED
    BY <1>4, <2>1, ImportFrame DEF ReleaseLock, Crash
<1>5. ASSUME NEW p \in Procs, LoadSession(p) PROVE ImportInv'
  BY <1>5 DEF LoadSession
<1>6. ASSUME NEW p \in Procs, MarkInProgress(p) PROVE ImportInv'
  BY <1>6 DEF MarkInProgress, Marked
<1>7. ASSUME NEW p \in Procs, Send(p) PROVE ImportInv'
  BY <1>7 DEF Send, ProgressInv, Running, Active
<1>8. ASSUME NEW p \in Procs, ReceiveAck(p) PROVE ImportInv'
  <2>1. pc[p] = "awaiting" /\ pc'[p] \in {"executing", "finishing"} /\ mem[p].cmd = "run"
    BY <1>8 DEF ReceiveAck, ProgressInv, Running, Active
  <2>2. \A q \in Procs : /\ mem'[q].cap = mem[q].cap /\ mem'[q].cmd = mem[q].cmd
                         /\ q # p => pc'[q] = pc[q]
    BY <1>8 DEF ReceiveAck
  <2>3. \A c \in Captures : Untouched(c) => Untouched(c)'
    BY <1>8 DEF ReceiveAck
  <2> QED
    BY <1>8, <2>1, <2>2, <2>3 DEF ReceiveAck
<1>9. ASSUME NEW p \in Procs, ExchangeFails(p) \/ EndOperation(p) PROVE ImportInv'
  <2>1. \A q \in Procs :
          /\ Importing(q)' => Importing(q) /\ mem'[q].cap = mem[q].cap
          /\ mem'[q].cap \in {mem[q].cap, NoCapture}
          /\ pc'[q] = "importing" => Importing(q)'
    BY <1>9 DEF ExchangeFails, EndOperation
  <2> QED
    BY <1>9, <2>1, ImportFrame DEF ExchangeFails, EndOperation
<1>10. ASSUME NEW p \in Procs, Finish(p) PROVE ImportInv'
  BY <1>10 DEF Finish, Checkpoint
<1>11. ASSUME NEW p \in Procs, Import(p) PROVE ImportInv'
  BY <1>11 DEF Import
<1>12. ASSUME NEW p \in Procs, Remove(p) PROVE ImportInv'
  BY <1>12, ConstantsAssumption DEF Remove, NoSession
<1>13. ASSUME NEW u \in Operators, UnlockInspect(u) \/ UnlockRemove(u) PROVE ImportInv'
  BY <1>13 DEF UnlockInspect, UnlockRemove
<1>14. CASE PowerLoss
  BY <1>14 DEF PowerLoss, NoMemory
<1> QED
  BY <1>1, <1>2, <1>3, <1>4, <1>5, <1>6, <1>7, <1>8, <1>9, <1>10, <1>11, <1>12,
     <1>13, <1>14
  DEF Next, Step

LEMMA ProgressStep ==
  ASSUME TypeOK, LockInv, CaptureInv, ImportInv, ProgressInv, ReadyIsFresh, Next
  PROVE  ProgressInv'
<1> USE DEF TypeOK, ProgressInv, Running, Active, Settled, Goto, disk, dynamics
<1> USE DEF Session, Memory
<1>1. ASSUME NEW p \in Procs, StartRun(p) \/ StartRemove(p) PROVE ProgressInv'
  BY <1>1 DEF StartRun, StartRemove
<1>2. ASSUME NEW p \in Procs, NEW c \in Captures, StartImport(p, c) PROVE ProgressInv'
  BY <1>2 DEF StartImport
<1>3. ASSUME NEW p \in Procs, AcquireLock(p) PROVE ProgressInv'
  BY <1>3 DEF AcquireLock, FirstStep, Commands
<1>4. ASSUME NEW p \in Procs, ReleaseLock(p) \/ Crash(p) PROVE ProgressInv'
  BY <1>4 DEF ReleaseLock, Crash
<1>5. ASSUME NEW p \in Procs, LoadSession(p) PROVE ProgressInv'
  <2>1. CASE UNCHANGED mem /\ Goto(p, "failing")
    BY <1>5, <2>1 DEF LoadSession
  <2>2. CASE /\ Usable(file) /\ Goto(p, "marking")
             /\ mem' = [mem EXCEPT ![p].cap = file.cap, ![p].stored = file.next,
                                   ![p].next = file.next]
    <3>1. file.cap \in Captures /\ Settled(file.cap, file.next)
      BY <2>2 DEF Usable, ReadyIsFresh, CaptureInv
    <3>2. mem[p].cmd = "run"
      BY <1>5 DEF LoadSession
    <3> QED
      BY <1>5, <2>2, <3>1, <3>2 DEF LoadSession
  <2> QED
    BY <1>5, <2>1, <2>2 DEF LoadSession
<1>6. ASSUME NEW p \in Procs, MarkInProgress(p) PROVE ProgressInv'
  BY <1>6 DEF MarkInProgress
<1>7. ASSUME NEW p \in Procs, Send(p) PROVE ProgressInv'
  BY <1>7 DEF Send, LockInv, MutualExclusion, Owning
<1>8. ASSUME NEW p \in Procs, ReceiveAck(p) PROVE ProgressInv'
  BY <1>8 DEF ReceiveAck, LockInv, MutualExclusion, Owning
<1>9. ASSUME NEW p \in Procs, ExchangeFails(p) PROVE ProgressInv'
  BY <1>9 DEF ExchangeFails
<1>10. ASSUME NEW p \in Procs, EndOperation(p) PROVE ProgressInv'
  BY <1>10 DEF EndOperation
<1>11. ASSUME NEW p \in Procs, Finish(p) \/ Import(p) \/ Remove(p) PROVE ProgressInv'
  BY <1>11 DEF Finish, Import, Remove
<1>12. ASSUME NEW u \in Operators, UnlockInspect(u) \/ UnlockRemove(u) PROVE ProgressInv'
  BY <1>12 DEF UnlockInspect, UnlockRemove
<1>13. CASE PowerLoss
  BY <1>13 DEF PowerLoss
<1> QED
  BY <1>1, <1>2, <1>3, <1>4, <1>5, <1>6, <1>7, <1>8, <1>9, <1>10, <1>11, <1>12, <1>13
  DEF Next, Step

LEMMA MarkStep == ASSUME TypeOK, LockInv, MarkInv, Next PROVE MarkInv'
<1> USE DEF TypeOK, MarkInv, Goto, disk
<1>1. ASSUME NEW p \in Procs, StartRun(p) \/ StartRemove(p) PROVE MarkInv'
  BY <1>1 DEF StartRun, StartRemove
<1>2. ASSUME NEW p \in Procs, NEW c \in Captures, StartImport(p, c) PROVE MarkInv'
  BY <1>2 DEF StartImport
<1>3. ASSUME NEW p \in Procs, AcquireLock(p) PROVE MarkInv'
  BY <1>3 DEF AcquireLock, FirstStep, Memory, Commands
<1>4. ASSUME NEW p \in Procs, ReleaseLock(p) \/ Crash(p) PROVE MarkInv'
  BY <1>4 DEF ReleaseLock, Crash
<1>5. ASSUME NEW p \in Procs, LoadSession(p) PROVE MarkInv'
  BY <1>5 DEF LoadSession, Usable, Memory, Session
<1>6. ASSUME NEW p \in Procs, Send(p) \/ ReceiveAck(p) \/ ExchangeFails(p) \/ EndOperation(p)
      PROVE MarkInv'
  <2>1. \A q \in Procs : pc'[q] = "marking" => q # p /\ pc[q] = "marking" /\ mem'[q] = mem[q]
    BY <1>6 DEF Send, ReceiveAck, ExchangeFails, EndOperation
  <2> QED
    BY <1>6, <2>1 DEF Send, ReceiveAck, ExchangeFails, EndOperation
<1>7. ASSUME NEW p \in Procs, MarkInProgress(p) \/ Finish(p) \/ Import(p) \/ Remove(p)
      PROVE MarkInv'
  <2>1. \A q \in Procs : pc'[q] # "marking"
    BY <1>7 DEF MarkInProgress, Finish, Import, Remove, LockInv, MutualExclusion, Owning
  <2> QED
    BY <2>1
<1>8. ASSUME NEW u \in Operators, UnlockInspect(u) \/ UnlockRemove(u) PROVE MarkInv'
  BY <1>8 DEF UnlockInspect, UnlockRemove
<1>9. CASE PowerLoss
  BY <1>9 DEF PowerLoss
<1> QED
  BY <1>1, <1>2, <1>3, <1>4, <1>5, <1>6, <1>7, <1>8, <1>9 DEF Next, Step

\* Steps that send nothing, install nothing and start nobody.
LEMMA FreshFrame ==
  ASSUME ReadyIsFresh, UNCHANGED dynamics, onDisk' \subseteq onDisk,
         \A p \in Procs : pc'[p] \in Active =>
            pc[p] \in Active /\ mem'[p].cap = mem[p].cap
  PROVE  ReadyIsFresh'
BY DEF ReadyIsFresh, dynamics

LEMMA FreshStep ==
  ASSUME TypeOK, LockInv, CaptureInv, ImportInv, ProgressInv, ReadyIsFresh, Next
  PROVE  ReadyIsFresh'
<1> USE DEF TypeOK, ReadyIsFresh, Active, Goto, disk, dynamics, NotAtAll, Durably, Volatilely
<1> USE DEF Session, Memory
<1>1. ASSUME NEW p \in Procs, StartRun(p) \/ StartRemove(p) PROVE ReadyIsFresh'
  <2>1. \A q \in Procs : pc'[q] \in Active =>
          pc[q] \in Active /\ mem'[q].cap = mem[q].cap
    BY <1>1 DEF StartRun, StartRemove
  <2> QED
    BY <1>1, <2>1, FreshFrame DEF StartRun, StartRemove
<1>2. ASSUME NEW p \in Procs, NEW c \in Captures, StartImport(p, c) PROVE ReadyIsFresh'
  BY <1>2 DEF StartImport
<1>3. ASSUME NEW p \in Procs, AcquireLock(p) PROVE ReadyIsFresh'
  BY <1>3 DEF AcquireLock, FirstStep, Commands
<1>4. ASSUME NEW p \in Procs, ReleaseLock(p) \/ Crash(p) PROVE ReadyIsFresh'
  <2>1. \A q \in Procs : pc'[q] \in Active =>
          pc[q] \in Active /\ mem'[q].cap = mem[q].cap
    BY <1>4 DEF ReleaseLock, Crash
  <2> QED
    BY <1>4, <2>1, FreshFrame DEF ReleaseLock, Crash
<1>5. ASSUME NEW p \in Procs, LoadSession(p) PROVE ReadyIsFresh'
  <2>1. \A q \in Procs : pc'[q] \in Active =>
          pc[q] \in Active /\ mem'[q].cap = mem[q].cap
    BY <1>5 DEF LoadSession
  <2> QED
    BY <1>5, <2>1, FreshFrame DEF LoadSession
<1>6. ASSUME NEW p \in Procs, MarkInProgress(p) PROVE ReadyIsFresh'
  BY <1>6 DEF MarkInProgress, Marked
<1>7. ASSUME NEW p \in Procs, Send(p) PROVE ReadyIsFresh'
  BY <1>7 DEF Send
<1>8. ASSUME NEW p \in Procs, ReceiveAck(p) PROVE ReadyIsFresh'
  BY <1>8 DEF ReceiveAck
<1>9. ASSUME NEW p \in Procs, ExchangeFails(p) \/ EndOperation(p) PROVE ReadyIsFresh'
  <2>1. \A q \in Procs : pc'[q] \in Active =>
          pc[q] \in Active /\ mem'[q].cap = mem[q].cap
    BY <1>9 DEF ExchangeFails, EndOperation
  <2> QED
    BY <1>9, <2>1, FreshFrame DEF ExchangeFails, EndOperation
<1>10. ASSUME NEW p \in Procs, Finish(p) PROVE ReadyIsFresh'
  BY <1>10 DEF Finish, Checkpoint, FinalStatus, ProgressInv, Running, Settled,
               LockInv, MutualExclusion, Owning
<1>11. ASSUME NEW p \in Procs, Import(p) PROVE ReadyIsFresh'
  <2> DEFINE s == [status |-> "ready", cap |-> mem[p].cap, next |-> 0]
  <2>1. Untouched(s.cap) /\ \A q \in Procs \ {p} : mem[q].cap # s.cap
    BY <1>11 DEF Import, ImportInv
  <2>2. /\ \A q \in Procs : pc'[q] \in Active => q # p /\ pc[q] \in Active
        /\ UNCHANGED <<mem, sent, unsettled>>
        /\ onDisk' \subseteq onDisk \cup {s}
    BY <1>11 DEF Import
  <2> QED
    BY <2>1, <2>2 DEF Untouched
<1>12. ASSUME NEW p \in Procs, Remove(p) PROVE ReadyIsFresh'
  BY <1>12 DEF Remove, NoSession
<1>13. ASSUME NEW u \in Operators, UnlockInspect(u) \/ UnlockRemove(u) PROVE ReadyIsFresh'
  <2>1. \A q \in Procs : pc'[q] \in Active =>
          pc[q] \in Active /\ mem'[q].cap = mem[q].cap
    BY <1>13 DEF UnlockInspect, UnlockRemove
  <2> QED
    BY <1>13, <2>1, FreshFrame DEF UnlockInspect, UnlockRemove
<1>14. CASE PowerLoss
  BY <1>14 DEF PowerLoss
<1> QED
  BY <1>1, <1>2, <1>3, <1>4, <1>5, <1>6, <1>7, <1>8, <1>9, <1>10, <1>11, <1>12,
     <1>13, <1>14
  DEF Next, Step

-----------------------------------------------------------------------------
LEMMA Stuttering == ASSUME IInv, UNCHANGED vars PROVE IInv'
BY DEF vars, IInv, MarkInv, LockInv, MutualExclusion, CaptureInv, Known, Untouched, ImportInv,
       Importing, ProgressInv, Settled, ReadyIsFresh

(* The invariant holds in every reachable state.                           *)
THEOREM Invariance == ASSUME OneOperator PROVE Spec => []IInv
<1>1. TypeOK /\ IInv /\ [Next]_vars => IInv'
  <2> SUFFICES ASSUME TypeOK, IInv, [Next]_vars PROVE IInv'
    OBVIOUS
  <2>1. CASE Next
    BY <2>1, LockStep, CaptureStep, ImportStep, ProgressStep, FreshStep, MarkStep DEF IInv
  <2>2. CASE UNCHANGED vars
    BY <2>2, Stuttering
  <2> QED
    BY <2>1, <2>2
<1> QED
  BY <1>1, InitialInvariant, TypeCorrect, PTL DEF Spec

(* However many processes run, die and are restarted, one at a time owns   *)
(* the session: lock.go's Mkdir and source.go's order of steps suffice, if *)
(* one operator at a time breaks a lock no process holds.                  *)
THEOREM OneOwner == ASSUME OneOperator PROVE Spec => []MutualExclusion
<1>1. IInv => MutualExclusion
  BY DEF IInv, LockInv
<1> QED
  BY <1>1, Invariance, PTL

(* A ready session, visible or brought back by a power loss, has the true  *)
(* sequence state: every request made from its capture was acknowledged    *)
(* and used a smaller number.                                              *)
THEOREM ReadySessionsAreFresh == ASSUME OneOperator PROVE Spec => []ReadyIsFresh
<1>1. IInv => ReadyIsFresh
  BY DEF IInv
<1> QED
  BY <1>1, Invariance, PTL

(* No request leaves under a sequence number its capture has used before.  *)
THEOREM SequenceNumbersAreUsedOnce == ASSUME OneOperator PROVE Spec => NoSequenceReuse
<1> DEFINE Once == \A p \in Procs : pc[p] = "executing" /\ pc'[p] = "awaiting"
                     => mem[p].next \notin sent[mem[p].cap]
<1>1. TypeOK /\ IInv => Once
  <2> SUFFICES ASSUME TypeOK, IInv, NEW p \in Procs, pc[p] = "executing"
               PROVE  mem[p].next \notin sent[mem[p].cap]
    OBVIOUS
  <2>1. \A m \in sent[mem[p].cap] : m < mem[p].next
    BY DEF IInv, ProgressInv, Settled
  <2>2. mem[p].next \in Nat
    BY ConstantsAssumption DEF TypeOK, Memory
  <2> QED
    BY <2>1, <2>2
<1>2. TypeOK /\ IInv /\ [Next]_vars => [Once]_vars
  BY <1>1
<1> QED
  BY <1>2, Invariance, TypeCorrect, PTL DEF Spec, NoSequenceReuse

-----------------------------------------------------------------------------
(* The lifecycle implements module SessionCapability.                      *)

\* The conditions phaseBar tries in turn.
IsHeld(c) == \E p \in Procs : pc[p] \in Active /\ mem[p].cap = c
IsReady(c) == \E s \in onDisk : s.status = "ready" /\ s.cap = c

LEMMA PhaseCases ==
  ASSUME NEW c \in Captures
  PROVE  phaseBar[c] = IF IsHeld(c) THEN "held" ELSE IF IsReady(c) THEN "available"
                       ELSE IF Pending(c) THEN "fresh" ELSE "spent"
BY DEF phaseBar, IsHeld, IsReady

\* No two of the conditions hold of one capture.
LEMMA Exclusive ==
  ASSUME IInv, NEW c \in Captures
  PROVE  ~(IsHeld(c) /\ IsReady(c)) /\ ~(Pending(c) /\ (IsHeld(c) \/ IsReady(c)))
<1>1. ~(IsHeld(c) /\ IsReady(c))
  BY DEF IsHeld, IsReady, IInv, ReadyIsFresh
<1>2. ASSUME Pending(c) PROVE ~IsReady(c)
  BY <1>2, ConstantsAssumption
  DEF Pending, IsReady, IInv, ImportInv, Importing, CaptureInv, Known
<1>3. ASSUME Pending(c) PROVE ~IsHeld(c)
  BY <1>3, ConstantsAssumption
  DEF Pending, IsHeld, Active, IInv, ImportInv, Importing, CaptureInv, Known
<1> QED
  BY <1>1, <1>2, <1>3

\* At most one capture is held, and it was settled when it was taken.
LEMMA OneHeld ==
  ASSUME IInv, NEW c \in Captures, NEW d \in Captures, IsHeld(c), IsHeld(d) PROVE c = d
BY DEF IsHeld, IInv, LockInv, MutualExclusion, Owning, Active

LEMMA MoveOrStutter ==
  ASSUME IInv, IInv', UNCHANGED dynamics,
         \A c \in Captures : /\ Pending(c)' => Pending(c)
                             /\ IsReady(c)' => IsReady(c) \/ Pending(c) \/ IsHeld(c)
                             /\ IsHeld(c)' => IsHeld(c) \/ IsReady(c)
  PROVE  Capability!Move
<1>1. ASSUME NEW c \in Captures, phaseBar'[c] # phaseBar[c]
      PROVE  /\ <<phaseBar[c], phaseBar'[c]>> \in Capability!Moves
             /\ phaseBar'[c] \in {"available", "held"} => unsettled[c] = {}
  <2>1. phaseBar'[c] = IF IsHeld(c)' THEN "held" ELSE IF IsReady(c)' THEN "available"
                       ELSE IF Pending(c)' THEN "fresh" ELSE "spent"
    BY PhaseCases DEF phaseBar, IsHeld, IsReady, Pending
  <2>2. IsReady(c)' \/ IsReady(c) => unsettled[c] = {}
    BY DEF IsReady, IInv, ReadyIsFresh, dynamics
  <2> QED
    BY <1>1, <2>1, <2>2, PhaseCases, Exclusive DEF Capability!Moves
<1>2. phaseBar' \in [Captures -> Capability!Phases]
  BY DEF phaseBar, Capability!Phases
<1>3. ASSUME NEW c \in Captures, NEW d \in Captures, phaseBar'[c] = "held", phaseBar'[d] = "held"
      PROVE  c = d
  <2>1. \A e \in Captures : phaseBar'[e] = "held" => IsHeld(e)'
    BY DEF phaseBar, IsHeld
  <2> QED
    BY <1>3, <2>1, OneHeld DEF IsHeld, IInv, LockInv, MutualExclusion, Owning, Active
<1> QED
  BY <1>1, <1>2, <1>3 DEF Capability!Move, dynamics

\* What a step may do to the three conditions without more than a Move.
Legal(c) ==
  /\ Pending(c)' => Pending(c)
  /\ IsReady(c)' => IsReady(c) \/ Pending(c) \/ IsHeld(c)
  /\ IsHeld(c)' => IsHeld(c) \/ IsReady(c)

\* Every step but the exchanges leaves Dynamics alone and is legal.
LEMMA QuietSteps ==
  ASSUME TypeOK, IInv, Next,
         \A p \in Procs : ~Send(p) /\ ~ReceiveAck(p)
  PROVE  UNCHANGED dynamics /\ \A c \in Captures : Legal(c)
<1> USE DEF TypeOK, Legal, Pending, IsReady, IsHeld, Active, Goto, disk
<1> USE DEF Durably, Volatilely, NotAtAll, Session, Memory
<1> DEFINE Quiet == UNCHANGED dynamics /\ \A c \in Captures : Legal(c)
<1>1. ASSUME NEW p \in Procs, StartRun(p) \/ StartRemove(p) PROVE Quiet
  <2>1. \A q \in Procs : Importing(q)' => Importing(q) /\ mem'[q].cap = mem[q].cap
    BY <1>1 DEF StartRun, StartRemove, Importing, NoMemory
  <2>2. \A q \in Procs : pc'[q] \in Active => pc[q] \in Active /\ mem'[q].cap = mem[q].cap
    BY <1>1 DEF StartRun, StartRemove
  <2> QED
    BY <1>1, <2>1, <2>2 DEF StartRun, StartRemove, Importing
<1>2. ASSUME NEW p \in Procs, NEW c \in Captures, StartImport(p, c) PROVE Quiet
  BY <1>2 DEF StartImport, NoMemory
<1>3. ASSUME NEW p \in Procs, AcquireLock(p) PROVE Quiet
  BY <1>3 DEF AcquireLock, FirstStep, Commands
<1>4. ASSUME NEW p \in Procs, ReleaseLock(p) \/ Crash(p) PROVE Quiet
  <2>1. \A q \in Procs : pc'[q] # "idle" => q # p /\ pc'[q] = pc[q] /\ mem'[q] = mem[q]
    BY <1>4 DEF ReleaseLock, Crash
  <2> QED
    BY <1>4, <2>1 DEF ReleaseLock, Crash
<1>5. ASSUME NEW p \in Procs, LoadSession(p) PROVE Quiet
  <2>1. \A q \in Procs : pc'[q] \in Active \cup {"locking", "importing"} =>
          q # p /\ pc'[q] = pc[q] /\ mem'[q] = mem[q]
    BY <1>5 DEF LoadSession
  <2> QED
    BY <1>5, <2>1 DEF LoadSession
<1>6. ASSUME NEW p \in Procs, MarkInProgress(p) PROVE Quiet
  BY <1>6 DEF MarkInProgress, Marked, IInv, MarkInv
<1>7. ASSUME NEW p \in Procs, ExchangeFails(p) \/ EndOperation(p) PROVE Quiet
  <2>1. \A q \in Procs : /\ mem'[q].cap = mem[q].cap /\ mem'[q].cmd = mem[q].cmd
                         /\ pc'[q] # pc[q] => pc[q] \in Active /\ pc'[q] \in Active
    BY <1>7 DEF ExchangeFails, EndOperation
  <2> QED
    BY <1>7, <2>1 DEF ExchangeFails, EndOperation
<1>8. ASSUME NEW p \in Procs, Finish(p) PROVE Quiet
  BY <1>8 DEF Finish, Checkpoint
<1>9. ASSUME NEW p \in Procs, Import(p) PROVE Quiet
  BY <1>9 DEF Import, IInv, ImportInv, Importing
<1>10. ASSUME NEW p \in Procs, Remove(p) PROVE Quiet
  BY <1>10 DEF Remove, NoSession
<1>11. ASSUME NEW u \in Operators, UnlockInspect(u) \/ UnlockRemove(u) PROVE Quiet
  BY <1>11 DEF UnlockInspect, UnlockRemove
<1>12. CASE PowerLoss
  BY <1>12 DEF PowerLoss
<1> QED
  BY <1>1, <1>2, <1>3, <1>4, <1>5, <1>6, <1>7, <1>8, <1>9, <1>10, <1>11, <1>12
  DEF Next, Step

\* An exchange uses or settles a number of the capture that is held.
LEMMA ExchangeSteps ==
  ASSUME TypeOK, IInv, NEW p \in Procs, Send(p) \/ ReceiveAck(p)
  PROVE  Capability!Use(mem[p].cap, mem[p].next) \/ Capability!Settle(mem[p].cap, mem[p].next)
<1> DEFINE c == mem[p].cap
<1>1. c \in Captures /\ IsHeld(c)
  BY DEF Send, ReceiveAck, IInv, ProgressInv, Running, Active, IsHeld
<1>2. phaseBar[c] = "held"
  BY <1>1, PhaseCases
<1>3. \A q \in Procs : /\ mem'[q].cap = mem[q].cap /\ mem'[q].cmd = mem[q].cmd
                       /\ pc'[q] # pc[q] => pc[q] \in Active /\ pc'[q] \in Active
  BY DEF Send, ReceiveAck, TypeOK, Memory, Goto, Active
<1>4. UNCHANGED <<onDisk, imported>>
  BY DEF Send, ReceiveAck, disk
<1>5. \A d \in Captures : /\ IsHeld(d)' <=> IsHeld(d)
                          /\ IsReady(d)' <=> IsReady(d)
                          /\ Pending(d)' <=> Pending(d)
  BY <1>3, <1>4 DEF IsHeld, IsReady, Pending, Active
<1>6. phaseBar' = phaseBar
  BY <1>5 DEF phaseBar, IsHeld, IsReady, Pending
<1>7. CASE Send(p)
  <2>1. Settled(c, mem[p].next) /\ mem[p].next \in Nat
    BY <1>7 DEF Send, IInv, ProgressInv, TypeOK, Memory
  <2>2. unsettled[c] = {} /\ mem[p].next \notin sent[c]
    BY <2>1 DEF Settled
  <2> QED
    BY <1>7, <1>2, <1>6, <2>2 DEF Send, Capability!Use
<1>8. CASE ReceiveAck(p)
  BY <1>8, <1>2, <1>6 DEF ReceiveAck, Capability!Settle
<1> QED
  BY <1>7, <1>8

(* Lock, status written ahead and checkpoints together make a capture a    *)
(* capability: held by one process at a time, never used twice under one   *)
(* number, handed on only when all is settled, never back once spent.      *)
THEOREM SessionsAreCapabilities == ASSUME OneOperator PROVE Spec => ImplementsCapability
<1>1. Init => Capability!Init
  BY ConstantsAssumption DEF Init, Capability!Init, phaseBar, Pending, Active, NoSession
<1>2. TypeOK /\ WithinBound /\ IInv /\ IInv' /\ [Next]_vars => [Capability!Next]_(Capability!vars)
  <2> SUFFICES ASSUME TypeOK, WithinBound, IInv, IInv', [Next]_vars
               PROVE  Capability!Next \/ UNCHANGED Capability!vars
    OBVIOUS
  <2>1. CASE UNCHANGED vars
    BY <2>1 DEF vars, Capability!vars, phaseBar, Pending
  <2>2. ASSUME NEW p \in Procs, Send(p) \/ ReceiveAck(p) PROVE Capability!Next
    <3>1. mem[p].cap \in Captures
      BY <2>2 DEF Send, ReceiveAck, IInv, ProgressInv, Running, Active
    <3>2. mem[p].next \in 0 .. MaxSeq
      BY <2>2 DEF Send, ReceiveAck, TypeOK, WithinBound, Memory
    <3> QED
      BY <2>2, <3>1, <3>2, ExchangeSteps DEF Capability!Next
  <2>3. CASE Next /\ \A p \in Procs : ~Send(p) /\ ~ReceiveAck(p)
    BY <2>3, QuietSteps, MoveOrStutter DEF Legal, Capability!Next
  <2> QED
    BY <2>1, <2>2, <2>3
<1> QED
  BY <1>1, <1>2, Invariance, TypeInvariance, PTL
  DEF Spec, ImplementsCapability, Capability!Spec
=============================================================================
