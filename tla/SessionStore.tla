---------------------------- MODULE SessionStore ----------------------------
(***************************************************************************)
(* The named-session store of internal/session: one file per session name, *)
(* holding the session sealed under a data key that only the operating     *)
(* system keyring holds.  File system and keyring cannot be updated        *)
(* together, so Save, Replace and Remove are sequences of steps, each of   *)
(* which can fail, and between any two of which the process can die or the *)
(* machine can lose power.                                                 *)
(*                                                                         *)
(* One operation runs at a time on a name (its caller holds the name's     *)
(* lock; module SessionExecution models the lock), operations on different *)
(* names interleave freely, and `session cleanup-key` takes no lock.       *)
(*                                                                         *)
(* The file system keeps, next to the entry everybody sees, the entries a  *)
(* power loss may bring back: all those installed since the directory was  *)
(* last synchronised.                                                      *)
(***************************************************************************)
EXTENDS Naturals, FiniteSets

CONSTANTS
  Names,    \* session names
  KeyIds,   \* key identifiers newSessionEncryptionMaterial can draw
  Data,     \* session contents worth telling apart
  NoKey,    \* the key of a file that has none
  NoData,   \* the content of a file that is not there
  MaxFaults \* bound on crashes, power losses, damages and copies

ASSUME ConstantsAssumption ==
  NoKey \notin KeyIds /\ NoData \notin Data /\ MaxFaults \in Nat

VARIABLES
  file,      \* the directory entry processes see, per name
  onDisk,    \* the entries a power loss may leave, per name
  keyring,   \* the keys the OS keyring holds
  used,      \* identifiers drawn so far: 16 random bytes never repeat
  op,        \* the Save, Replace or Remove running on a name
  reported,  \* keys an error told the user to clean up
  \* History, read by properties only:
  cleaned,     \* keys `session cleanup-key` deleted
  rolledBack,  \* names whose visible entry a power loss put back
  excused,     \* keys a crash left behind, or whose file was overwritten
               \* without having been authenticated
  acked,       \* content of the last operation that returned nil
  faults       \* crashes, power losses, damages and copies so far

store == <<file, onDisk, keyring>>
history == <<cleaned, rolledBack, excused, acked, faults>>
vars == <<file, onDisk, keyring, used, op, reported,
          cleaned, rolledBack, excused, acked, faults>>

Unknown == "unknown"
Kinds == {"none", "save", "replace", "remove"}
Steps == {"idle", "authenticate", "set", "verify", "rename", "unlink",
          "sync", "retire", "cleanup"}

Entry == [kind: {"absent", "plain", "sealed"}, key: KeyIds \cup {NoKey},
          name: Names, intact: BOOLEAN, data: Data \cup {NoData}]
Operation == [kind: Kinds, pc: Steps, old: KeyIds \cup {NoKey},
              new: KeyIds \cup {NoKey}, fresh: BOOLEAN,
              data: Data \cup {NoData}]

Absent(n) == [kind |-> "absent", key |-> NoKey, name |-> n,
              intact |-> TRUE, data |-> NoData]
Plain(n, d) == [kind |-> "plain", key |-> NoKey, name |-> n,
                intact |-> TRUE, data |-> d]
\* What writeEncrypted installs: GCM binds name and key identifier.
Sealed(n, k, d) == [kind |-> "sealed", key |-> k, name |-> n,
                    intact |-> TRUE, data |-> d]
Idle == [kind |-> "none", pc |-> "idle", old |-> NoKey, new |-> NoKey,
         fresh |-> FALSE, data |-> NoData]

\* openSession authenticates e for the file of name n, given its key.
Openable(n, e) == e.kind = "sealed" /\ e.intact /\ e.name = n
\* The file of n is read, its key fetched, and the ciphertext opens.
Authentic(n) == Openable(n, file[n]) /\ file[n].key \in keyring

KeysOf(S) == {e.key : e \in S} \ {NoKey}

TypeOK ==
  /\ file \in [Names -> Entry]
  /\ onDisk \in [Names -> SUBSET Entry]
  /\ \A n \in Names : file[n] \in onDisk[n]
  /\ keyring \subseteq used /\ used \subseteq KeyIds
  /\ op \in [Names -> Operation]
  /\ reported \subseteq used /\ cleaned \subseteq used
  /\ excused \subseteq used
  /\ rolledBack \subseteq Names
  /\ acked \in [Names -> Data \cup {NoData, Unknown}]
  /\ faults \in 0 .. MaxFaults

(* A store may hold legacy plaintext sessions an earlier version left.     *)
Init ==
  /\ file \in [Names -> Entry]
  /\ \A n \in Names : \/ file[n] = Absent(n)
                      \/ \E d \in Data : file[n] = Plain(n, d)
  /\ onDisk = [n \in Names |-> {file[n]}]
  /\ keyring = {} /\ used = {} /\ reported = {}
  /\ op = [n \in Names |-> Idle]
  /\ cleaned = {} /\ rolledBack = {} /\ excused = {}
  /\ acked = [n \in Names |-> Unknown] /\ faults = 0

-----------------------------------------------------------------------------
(* The steps of Save, Replace and Remove.                                  *)

Goto(n, step) == op' = [op EXCEPT ![n].pc = step]
Return(n) == op' = [op EXCEPT ![n] = Idle]
MutReportNoKey(k) == reported' = reported \cup {k}
Report(k) == reported' = reported \cup ({k} \ {NoKey})

Begin(n, kind, step, d) ==
  /\ op[n] = Idle
  /\ op' = [op EXCEPT ![n] = [Idle EXCEPT !.kind = kind, !.pc = step,
                                          !.data = d]]
  /\ UNCHANGED <<store, used, reported, history>>

(* Save: an encrypted file keeps its key, once the file has been opened    *)
(* with it; a plaintext or missing file gets a new key.                    *)
Save(n, d) ==
  Begin(n, "save",
        IF file[n].kind = "sealed" THEN "authenticate" ELSE "set", d)

(* Replace: with no file to replace it is Save.                            *)
Replace(n, d) ==
  IF file[n].kind = "absent" THEN Save(n, d)
                             ELSE Begin(n, "replace", "authenticate", d)

Remove(n) ==
  /\ file[n].kind # "absent"
  /\ Begin(n, "remove", "authenticate", NoData)

(* The file is read and opened with its key.  The keyring may refuse at    *)
(* any time.  Save stops when the file does not open; Replace and Remove   *)
(* go on, having no old key to retire.                                     *)
Authenticate(n) ==
  /\ op[n].pc = "authenticate"
  /\ \/ /\ op[n].kind = "save"
        /\ \/ /\ Authentic(n)
              /\ op' = [op EXCEPT ![n].pc = "rename", ![n].new = file[n].key]
           \/ Return(n)
     \/ /\ op[n].kind # "save"
        /\ \E k \in {NoKey} \cup {j \in {file[n].key} : Authentic(n)} :
             op' = [op EXCEPT ![n].old = k,
                              ![n].pc = IF op[n].kind = "remove"
                                        THEN "unlink" ELSE "set"]
  /\ UNCHANGED <<store, used, reported, history>>

(* createEncryptionMaterial: the key is stored under a fresh identifier.   *)
SetKey(n) ==
  /\ op[n].pc = "set"
  /\ \/ \E k \in KeyIds \ used :
          /\ used' = used \cup {k}
          /\ keyring' = keyring \cup {k}
          /\ op' = [op EXCEPT ![n].pc = "verify", ![n].new = k,
                              ![n].fresh = TRUE]
     \/ Return(n) /\ UNCHANGED <<used, keyring>>
  /\ UNCHANGED <<file, onDisk, reported, history>>

(* ... and read back: a refusal or another value abandons the new key.     *)
VerifyKey(n) ==
  /\ op[n].pc = "verify"
  /\ Goto(n, "rename") \/ Goto(n, "cleanup")
  /\ UNCHANGED <<store, used, reported, history>>

\* writeEncrypted fails with committed = false.
MutForgetCleanup(o) == "idle"
AfterUncommitted(o) == IF o.fresh THEN "cleanup" ELSE "idle"

\* The entry e becomes the visible one, and a power loss may bring it back.
Install(n, e) ==
  /\ file' = [file EXCEPT ![n] = e]
  /\ onDisk' = [onDisk EXCEPT ![n] = @ \cup {e}]
  /\ rolledBack' = rolledBack \ {n}
  /\ excused' = IF op[n].old = NoKey /\ file[n].key # op[n].new
                THEN excused \cup ({file[n].key} \ {NoKey})
                ELSE excused
  /\ acked' = [acked EXCEPT ![n] = Unknown]
  /\ UNCHANGED <<keyring, used, reported, cleaned, faults>>

(* writePrivateAtomic up to its rename: any step before it may fail.       *)
Rename(n) ==
  /\ op[n].pc = "rename"
  /\ \/ Install(n, Sealed(n, op[n].new, op[n].data)) /\ Goto(n, "sync")
     \/ /\ IF AfterUncommitted(op[n]) = "idle"
           THEN Return(n) ELSE Goto(n, AfterUncommitted(op[n]))
        /\ UNCHANGED <<store, used, reported, history>>

(* Remove's os.Remove.                                                     *)
Unlink(n) ==
  /\ op[n].pc = "unlink"
  /\ \/ Install(n, Absent(n)) /\ Goto(n, "sync")
     \/ Return(n) /\ UNCHANGED <<store, used, reported, history>>

(* The directory is synchronised.  On success the visible entry is the     *)
(* only one left and the old key can go; on failure the old key stays and  *)
(* the error names it.                                                     *)
Synced(n) ==
  /\ onDisk' = [onDisk EXCEPT ![n] = {file[n]}]
  /\ IF op[n].old = NoKey
     THEN Return(n) /\ acked' = [acked EXCEPT ![n] = file[n].data]
     ELSE Goto(n, "retire") /\ UNCHANGED acked
  /\ UNCHANGED reported
MutRetireWithoutSync(n) ==
  /\ IF op[n].old = NoKey THEN Return(n) ELSE Goto(n, "retire")
  /\ UNCHANGED <<onDisk, acked, reported>>
MutAcknowledgeUnsynced(n) ==
  /\ Return(n)
  /\ Report(op[n].old)
  /\ acked' = [acked EXCEPT ![n] = file[n].data]
  /\ UNCHANGED onDisk
NotSynced(n) ==
  /\ Return(n)
  /\ Report(op[n].old)
  /\ UNCHANGED <<onDisk, acked>>

SyncDirectory(n) ==
  /\ op[n].pc = "sync"
  /\ Synced(n) \/ NotSynced(n)
  /\ UNCHANGED <<file, keyring, used, cleaned, rolledBack, excused, faults>>

(* The old key is deleted; if that fails the error names it.  Only without *)
(* such an error does the operation return nil.                            *)
RetireKey(n) ==
  /\ op[n].pc = "retire"
  /\ \/ /\ keyring' = keyring \ {op[n].old}
        /\ acked' = [acked EXCEPT ![n] = file[n].data]
        /\ UNCHANGED reported
     \/ Report(op[n].old) /\ UNCHANGED <<keyring, acked>>
  /\ Return(n)
  /\ UNCHANGED <<file, onDisk, used, cleaned, rolledBack, excused, faults>>

(* joinKeyCleanupError: a new key no file uses is deleted or reported.     *)
CleanupNewKey(n) ==
  /\ op[n].pc = "cleanup"
  /\ \/ keyring' = keyring \ {op[n].new} /\ UNCHANGED reported
     \/ Report(op[n].new) /\ UNCHANGED keyring
  /\ Return(n)
  /\ UNCHANGED <<file, onDisk, used, history>>

-----------------------------------------------------------------------------
(* `session cleanup-key`, run as the error asks: for a key it named, after *)
(* verifying that no session in sight uses it.                             *)
CleanupKey(k) ==
  /\ k \in reported
  /\ \A n \in Names : file[n].key # k
  /\ keyring' = keyring \ {k}
  /\ reported' = reported \ {k}
  /\ cleaned' = cleaned \cup {k}
  /\ UNCHANGED <<file, onDisk, used, op, rolledBack, excused, acked, faults>>

Fault == faults < MaxFaults /\ faults' = faults + 1

\* The keys only a dying operation knows of.
Held(n) == {op[n].old, op[n].new} \ {NoKey}

(* The process dies between two steps.                                     *)
Crash(n) ==
  /\ op[n] # Idle
  /\ Return(n)
  /\ excused' = excused \cup Held(n)
  /\ Fault
  /\ UNCHANGED <<store, used, reported, cleaned, rolledBack, acked>>

(* The machine stops: every directory falls back to one of the entries it  *)
(* may hold, every operation is gone.                                      *)
PowerLoss ==
  /\ file' \in [Names -> UNION {onDisk[n] : n \in Names}]
  /\ \A n \in Names : file'[n] \in onDisk[n]
  /\ onDisk' = [n \in Names |-> {file'[n]}]
  /\ op' = [n \in Names |-> Idle]
  /\ rolledBack' = rolledBack \cup {n \in Names : file'[n] # file[n]}
  /\ excused' = excused \cup UNION {Held(n) \cup KeysOf(onDisk[n]) : n \in Names}
  /\ Fault
  /\ UNCHANGED <<keyring, used, reported, cleaned, acked>>

(* A user copies one session's file to another, unused name.               *)
CopyFile(n, m) ==
  /\ op[m] = Idle /\ file[m] = Absent(m)
  /\ n # m /\ file[n].kind = "sealed" /\ file[n].name = n
  /\ file' = [file EXCEPT ![m] = file[n]]
  /\ onDisk' = [onDisk EXCEPT ![m] = @ \cup {file[n]}]
  /\ acked' = [acked EXCEPT ![m] = Unknown]
  /\ Fault
  /\ UNCHANGED <<keyring, used, op, reported, cleaned, rolledBack, excused>>

(* A session file is damaged in place.                                     *)
Damage(n) ==
  /\ file[n].kind = "sealed" /\ file[n].intact
  /\ file' = [file EXCEPT ![n].intact = FALSE]
  /\ onDisk' = [onDisk EXCEPT ![n] = @ \cup {file'[n]}]
  /\ Fault
  /\ UNCHANGED <<keyring, used, op, reported, cleaned, rolledBack, excused, acked>>

Step(n) ==
  \/ \E d \in Data : Save(n, d) \/ Replace(n, d)
  \/ Remove(n)
  \/ Authenticate(n) \/ SetKey(n) \/ VerifyKey(n)
  \/ Rename(n) \/ Unlink(n) \/ SyncDirectory(n)
  \/ RetireKey(n) \/ CleanupNewKey(n)
Environment ==
  \/ \E k \in KeyIds : CleanupKey(k)
  \/ \E n \in Names : Crash(n) \/ Damage(n)
  \/ PowerLoss
  \/ \E n, m \in Names : CopyFile(n, m)
Next == Environment \/ \E n \in Names : Step(n)

Spec == Init /\ [][Next]_vars

-----------------------------------------------------------------------------
(* No ciphertext loses its key.  Whatever entry is visible or can come     *)
(* back, if it opens for its name then its key is in the keyring, unless   *)
(* the user had it deleted with cleanup-key; and a visible session can     *)
(* only be in that last case after a power loss put it back.  (Replace and *)
(* Remove retire a key only after their change is durable.)                *)
KeysOutliveCiphertext ==
  \A n \in Names :
    /\ \A e \in onDisk[n] : Openable(n, e) => e.key \in keyring \cup cleaned
    /\ Openable(n, file[n]) /\ file[n].key \notin keyring => n \in rolledBack

(* No key is left behind in silence: one that no entry uses and no running *)
(* operation holds has been named in an error, was lost to a crash, or     *)
(* belonged to a file that Replace or Remove could not authenticate.       *)
NoSilentOrphan ==
  keyring \subseteq reported \cup excused
                    \cup UNION {KeysOf(onDisk[n]) \cup Held(n) : n \in Names}

(* An operation that returned nil survives a power loss: every entry that  *)
(* can come back has the content it acknowledged.                          *)
AcknowledgedSurvives ==
  \A n \in Names : acked[n] # Unknown =>
    \A e \in onDisk[n] : e.data = acked[n]

(* What the comment in Remove says: a user whose session was removed is    *)
(* told when its key, and so any copy of the ciphertext, remains usable.   *)
RemovalReportsKey ==
  [][\A n \in Names :
       /\ op[n].kind = "remove" /\ op[n].pc = "unlink"
       /\ op'[n].pc = "sync" /\ Openable(n, file[n])
       => op[n].old = file[n].key]_vars
=============================================================================
