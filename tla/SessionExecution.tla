-------------------------- MODULE SessionExecution --------------------------
(***************************************************************************)
(* How CLI processes share one named session.  A session is the sequence   *)
(* state of one captured browser context: whoever sends with it must be    *)
(* the only one to do so, and must know what every earlier request became. *)
(* The code enforces this with a lock directory and a status written ahead *)
(* of the first request (internal/cli/source.go, internal/session/lock.go).*)
(*                                                                         *)
(* Processes run one command at a time: an operation on reports, `session  *)
(* import' or `session remove'.  They may die at any step, leaving the     *)
(* lock; the machine may lose power; an operator removes a stale lock with *)
(* `session unlock'.  A save is atomic here, with the outcomes the module  *)
(* SessionStore gives it: durable, installed but not durable, or failed.   *)
(***************************************************************************)
EXTENDS Naturals

CONSTANTS
  Procs,      \* CLI processes
  Operators,  \* people who run `session unlock'
  Captures,   \* captured browser contexts a session can be imported from
  NoCapture,  \* the capture of a session that does not exist
  MaxSeq      \* bound on client sequence numbers

ASSUME ConstantsAssumption == NoCapture \notin Captures /\ MaxSeq \in Nat

VARIABLES
  lock,       \* does the lock directory exist
  file,       \* the session in the visible file
  onDisk,     \* the sessions a power loss may leave
  pc,         \* per process: its next step
  mem,        \* per process: its command and its copy of the session
  unlock,     \* per operator: "idle" or "inspected"
  imported,   \* captures imported so far
  sent,       \* per capture: sequence numbers sent to Dynamics
  unsettled   \* per capture: those sent without a trusted acknowledgement

vars == <<lock, file, onDisk, pc, mem, unlock, imported, sent, unsettled>>
dynamics == <<sent, unsettled>>
disk == <<file, onDisk>>

Statuses == {"none", "ready", "in_progress", "uncertain", "expired"}
Session == [status: Statuses, cap: Captures \cup {NoCapture},
            next: 0 .. MaxSeq + 1]
NoSession == [status |-> "none", cap |-> NoCapture, next |-> 0]

Commands == {"run", "import", "remove"}
Outcomes == {"nil", "uncertain", "expired", "other"}
\* Steps at which a process owns the lock it acquired.
Owning == {"loading", "marking", "failing", "executing", "awaiting",
           "finishing", "importing", "removing", "releasing"}
\* Steps between the in_progress checkpoint and the final one.
Active == {"executing", "awaiting", "finishing"}
Memory == [cmd: Commands, cap: Captures \cup {NoCapture},
           stored: 0 .. MaxSeq + 1, next: 0 .. MaxSeq + 1, outcome: Outcomes]
NoMemory == [cmd |-> "run", cap |-> NoCapture, stored |-> 0, next |-> 0,
             outcome |-> "nil"]

TypeOK ==
  /\ lock \in BOOLEAN
  /\ file \in Session /\ onDisk \subseteq Session /\ file \in onDisk
  /\ pc \in [Procs -> Owning \cup {"idle", "locking"}]
  /\ mem \in [Procs -> Memory]
  /\ unlock \in [Operators -> {"idle", "inspected"}]
  /\ imported \subseteq Captures
  /\ sent \in [Captures -> SUBSET (0 .. MaxSeq)]
  /\ unsettled \in [Captures -> SUBSET (0 .. MaxSeq)]

Init ==
  /\ lock = FALSE
  /\ file = NoSession /\ onDisk = {NoSession}
  /\ pc = [p \in Procs |-> "idle"] /\ mem = [p \in Procs |-> NoMemory]
  /\ unlock = [u \in Operators |-> "idle"]
  /\ imported = {}
  /\ sent = [c \in Captures |-> {}] /\ unsettled = [c \in Captures |-> {}]

-----------------------------------------------------------------------------
Goto(p, step) == pc' = [pc EXCEPT ![p] = step]

(* The three ways a save or removal that installs s can end.               *)
Durably(s) == file' = s /\ onDisk' = {s}
Volatilely(s) == file' = s /\ onDisk' = onDisk \cup {s}
NotAtAll == UNCHANGED disk

(* A report command reads the session without a lock first, and stops      *)
(* unless it is ready.  What it read is not used again.                    *)
StartRun(p) ==
  /\ pc[p] = "idle" /\ file.status = "ready"
  /\ Goto(p, "locking")
  /\ mem' = [mem EXCEPT ![p] = [NoMemory EXCEPT !.cmd = "run"]]
  /\ UNCHANGED <<lock, disk, unlock, imported, dynamics>>

(* `session import' reads the capture before it takes the lock.  Captures  *)
(* are fresh: none is imported twice.                                      *)
StartImport(p, c) ==
  /\ pc[p] = "idle" /\ c \notin imported
  /\ imported' = imported \cup {c}
  /\ Goto(p, "locking")
  /\ mem' = [mem EXCEPT ![p] = [NoMemory EXCEPT !.cmd = "import", !.cap = c]]
  /\ UNCHANGED <<lock, disk, unlock, dynamics>>

StartRemove(p) ==
  /\ pc[p] = "idle"
  /\ Goto(p, "locking")
  /\ mem' = [mem EXCEPT ![p] = [NoMemory EXCEPT !.cmd = "remove"]]
  /\ UNCHANGED <<lock, disk, unlock, imported, dynamics>>

(* Mkdir succeeds for one process; the others give up.                     *)
FirstStep == [run |-> "loading", import |-> "importing", remove |-> "removing"]
MutIgnoreLock(p) ==
  /\ pc[p] = "locking"
  /\ lock' = TRUE
  /\ Goto(p, FirstStep[mem[p].cmd])
  /\ UNCHANGED <<disk, mem, unlock, imported, dynamics>>
MutWaitForLock(p) ==
  ~lock /\ MutIgnoreLock(p)
AcquireLock(p) ==
  /\ pc[p] = "locking"
  /\ lock' = TRUE
  /\ Goto(p, IF lock THEN "idle" ELSE FirstStep[mem[p].cmd])
  /\ UNCHANGED <<disk, mem, unlock, imported, dynamics>>

(* beginNamedSessionExecution loads under the lock and insists on ready    *)
(* again; the keyring, a bad profile or a bad client can also stop it.     *)
MutTrustPrecheck(s) == s.status # "none"
Usable(s) == s.status = "ready"
LoadSession(p) ==
  /\ pc[p] = "loading"
  /\ \/ /\ Usable(file)
        /\ mem' = [mem EXCEPT ![p].cap = file.cap, ![p].stored = file.next,
                              ![p].next = file.next]
        /\ Goto(p, "marking")
     \/ Goto(p, "failing") /\ UNCHANGED mem
  /\ UNCHANGED <<lock, disk, unlock, imported, dynamics>>

(* The status is written ahead of the first request; unless that is known  *)
(* to be durable no request is sent.                                       *)
Marked(p) ==
  [status |-> "in_progress", cap |-> mem[p].cap, next |-> mem[p].stored]
MutProceedUnsynced(p) ==
  /\ pc[p] = "marking"
  /\ \/ (Durably(Marked(p)) \/ Volatilely(Marked(p))) /\ Goto(p, "executing")
     \/ NotAtAll /\ Goto(p, "failing")
  /\ UNCHANGED <<lock, mem, unlock, imported, dynamics>>
MarkInProgress(p) ==
  /\ pc[p] = "marking"
  /\ \/ Durably(Marked(p)) /\ Goto(p, "executing")
     \/ (Volatilely(Marked(p)) \/ NotAtAll) /\ Goto(p, "failing")
  /\ UNCHANGED <<lock, mem, unlock, imported, dynamics>>

(* One exchange of the operation: messages leave under the next sequence   *)
(* number ...                                                              *)
MutSendBeyondBound(p) ==
  LET c == mem[p].cap  n == mem[p].next IN
  /\ pc[p] = "executing"
  /\ sent' = [sent EXCEPT ![c] = @ \cup {n}]
  /\ unsettled' = [unsettled EXCEPT ![c] = @ \cup {n}]
  /\ Goto(p, "awaiting")
  /\ UNCHANGED <<lock, disk, mem, unlock, imported>>
Send(p) ==
  LET c == mem[p].cap  n == mem[p].next IN
  /\ pc[p] = "executing" /\ n <= MaxSeq
  /\ sent' = [sent EXCEPT ![c] = @ \cup {n}]
  /\ unsettled' = [unsettled EXCEPT ![c] = @ \cup {n}]
  /\ Goto(p, "awaiting")
  /\ UNCHANGED <<lock, disk, mem, unlock, imported>>

(* ... and are acknowledged, after which sendValidated advances; a business *)
(* message from Dynamics then still fails the operation.                   *)
ReceiveAck(p) ==
  /\ pc[p] = "awaiting"
  /\ unsettled' = [unsettled EXCEPT ![mem[p].cap] = @ \ {mem[p].next}]
  /\ \/ /\ mem' = [mem EXCEPT ![p].next = @ + 1]
        /\ Goto(p, "executing")
     \/ /\ \E o \in {"uncertain", "other"} :
             mem' = [mem EXCEPT ![p].next = @ + 1, ![p].outcome = o]
        /\ Goto(p, "finishing")
  /\ UNCHANGED <<lock, disk, unlock, imported, sent>>

(* Or the request or its response is lost, late, stale, redirected or not  *)
(* understood: the operation stops there.  (The commands on workspace tabs *)
(* send one more request all the same, see module WorkspaceItems.)         *)
ExchangeFails(p) ==
  /\ pc[p] = "awaiting"
  /\ \E o \in {"uncertain", "expired", "other"} :
       mem' = [mem EXCEPT ![p].outcome = o]
  /\ Goto(p, "finishing")
  /\ UNCHANGED <<lock, disk, unlock, imported, dynamics>>

(* The operation ends between exchanges: done, or on a response it rejects.*)
EndOperation(p) ==
  /\ pc[p] = "executing"
  /\ \E o \in {"nil", "uncertain", "other"} :
       mem' = [mem EXCEPT ![p].outcome = o]
  /\ Goto(p, "finishing")
  /\ UNCHANGED <<lock, disk, unlock, imported, dynamics>>

(* finish: the progress is applied unless the snapshot cannot be taken;    *)
(* only a flawless operation and checkpoint give ready.                    *)
MutReadyUnlessUncertain(outcome, snapshot) ==
  CASE outcome = "uncertain" -> "uncertain"
    [] outcome = "expired"   -> "expired"
    [] OTHER                 -> "ready"
FinalStatus(outcome, snapshot) ==
  CASE outcome = "nil" /\ snapshot -> "ready"
    [] outcome = "expired"         -> "expired"
    [] OTHER                       -> "uncertain"
\* Without a snapshot execution.stored keeps the number it was loaded with.
Checkpoint(p, snapshot) ==
  [status |-> FinalStatus(mem[p].outcome, snapshot), cap |-> mem[p].cap,
   next |-> IF snapshot THEN mem[p].next ELSE mem[p].stored]
Finish(p) ==
  /\ pc[p] = "finishing"
  /\ \E snapshot \in BOOLEAN :
       LET s == Checkpoint(p, snapshot) IN
       Durably(s) \/ Volatilely(s) \/ NotAtAll
  /\ Goto(p, "releasing")
  /\ UNCHANGED <<lock, mem, unlock, imported, dynamics>>

(* import: an existing session needs --force; Save or Replace then installs*)
(* a ready session.                                                        *)
Import(p) ==
  LET s == [status |-> "ready", cap |-> mem[p].cap, next |-> 0] IN
  /\ pc[p] = "importing"
  /\ Durably(s) \/ Volatilely(s) \/ NotAtAll
  /\ Goto(p, "releasing")
  /\ UNCHANGED <<lock, mem, unlock, imported, dynamics>>

Remove(p) ==
  /\ pc[p] = "removing"
  /\ \/ file # NoSession /\ (Durably(NoSession) \/ Volatilely(NoSession))
     \/ NotAtAll
  /\ Goto(p, "releasing")
  /\ UNCHANGED <<lock, mem, unlock, imported, dynamics>>

(* Release removes the lock directory, whoever made it.                    *)
ReleaseLock(p) ==
  /\ pc[p] \in {"failing", "releasing"}
  /\ lock' = FALSE
  /\ Goto(p, "idle")
  /\ mem' = [mem EXCEPT ![p] = NoMemory]
  /\ UNCHANGED <<disk, unlock, imported, dynamics>>

-----------------------------------------------------------------------------
(* BreakLock: the operator has ensured no process uses the session; the    *)
(* command inspects the lock directory and then removes it.                *)
UnlockInspect(u) ==
  /\ unlock[u] = "idle" /\ lock
  /\ \A p \in Procs : pc[p] \notin Owning
  /\ unlock' = [unlock EXCEPT ![u] = "inspected"]
  /\ UNCHANGED <<lock, disk, pc, mem, imported, dynamics>>
UnlockRemove(u) ==
  /\ unlock[u] = "inspected"
  /\ lock' = FALSE
  /\ unlock' = [unlock EXCEPT ![u] = "idle"]
  /\ UNCHANGED <<disk, pc, mem, imported, dynamics>>

(* A process dies; a request it sent stays sent, its lock stays behind.    *)
Crash(p) ==
  /\ pc[p] # "idle"
  /\ Goto(p, "idle")
  /\ mem' = [mem EXCEPT ![p] = NoMemory]
  /\ UNCHANGED <<lock, disk, unlock, imported, dynamics>>

(* The machine stops.  The lock directory was never synchronised.          *)
PowerLoss ==
  /\ file' \in onDisk /\ onDisk' = {file'}
  /\ lock' \in {lock, FALSE}
  /\ pc' = [p \in Procs |-> "idle"] /\ mem' = [p \in Procs |-> NoMemory]
  /\ unlock' = [u \in Operators |-> "idle"]
  /\ UNCHANGED <<imported, dynamics>>

\* What a live process does without Dynamics answering.
Step(p) ==
  \/ AcquireLock(p) \/ LoadSession(p) \/ MarkInProgress(p)
  \/ Send(p) \/ ExchangeFails(p) \/ EndOperation(p)
  \/ Finish(p) \/ Import(p) \/ Remove(p) \/ ReleaseLock(p)
Next ==
  \/ \E p \in Procs : \/ StartRun(p) \/ StartRemove(p)
                      \/ Step(p) \/ ReceiveAck(p) \/ Crash(p)
                      \/ \E c \in Captures : StartImport(p, c)
  \/ \E u \in Operators : UnlockInspect(u) \/ UnlockRemove(u)
  \/ PowerLoss

Spec == Init /\ [][Next]_vars

(* A live process runs on, and its requests end: the context carries the   *)
(* command's --timeout, so ExchangeFails is due when no answer comes.      *)
(* Answers, new commands, unlocking, crashes and power losses never are.   *)
FairSpec == Spec /\ \A p \in Procs : WF_vars(Step(p))

-----------------------------------------------------------------------------
(* One process at a time owns the session, provided operators unlock only  *)
(* when none does.                                                         *)
MutualExclusion ==
  \A p, q \in Procs : pc[p] \in Owning /\ pc[q] \in Owning => p = q

(* A session is ready only if its sequence state is the truth: no number   *)
(* from its next one on was ever sent from its capture, no request is      *)
(* unaccounted for, and no process is sending.  This holds for the visible *)
(* file and for any a power loss may bring back.                           *)
ReadyIsFresh ==
  \A s \in onDisk : s.status = "ready" =>
    /\ unsettled[s.cap] = {}
    /\ \A n \in sent[s.cap] : n < s.next
    /\ \A p \in Procs : pc[p] \in Active => mem[p].cap # s.cap

(* No sequence number leaves a capture twice, whatever processes, crashes  *)
(* and re-imports come between.                                            *)
NoSequenceReuse ==
  [][\A p \in Procs : pc[p] = "executing" /\ pc'[p] = "awaiting"
       => mem[p].next \notin sent[mem[p].cap]]_vars

(* Every command ends: nobody waits for the lock, and requests time out.   *)
CommandsEnd == \A p \in Procs : pc[p] # "idle" ~> pc[p] = "idle"

-----------------------------------------------------------------------------
(* What the rest of the system relies on: module SessionCapability.        *)

\* The import of c has not reached the disk.
Pending(c) ==
  \/ c \notin imported
  \/ \E p \in Procs : /\ mem[p].cmd = "import" /\ mem[p].cap = c
                       /\ pc[p] \in {"locking", "importing"}
phaseBar ==
  [c \in Captures |->
     IF \E p \in Procs : pc[p] \in Active /\ mem[p].cap = c THEN "held"
     ELSE IF \E s \in onDisk : s.status = "ready" /\ s.cap = c THEN "available"
     ELSE IF Pending(c) THEN "fresh" ELSE "spent"]

Capability == INSTANCE SessionCapability
                WITH phase <- phaseBar, consumed <- sent, unsettled <- unsettled

(* Together lock, status and checkpoints make each capture a capability    *)
(* one holder at a time uses, that never comes back once it is spent.      *)
ImplementsCapability == Capability!Spec
=============================================================================
