------------------------- MODULE SessionStoreProofs -------------------------
(* Type correctness of module SessionStore, and that no ciphertext loses   *)
(* its key, no key is left behind in silence, and what was acknowledged    *)
(* lasts, for any names, keys, contents and numbers of faults.             *)
EXTENDS SessionStore, TLAPS

\* Every key of an entry or an operation was drawn.
KeysUsed ==
  \A n \in Names : /\ \A e \in onDisk[n] : e.key \in used \cup {NoKey}
                   /\ op[n].old \in used \cup {NoKey}
                   /\ op[n].new \in used \cup {NoKey}
                   /\ op[n].pc \in {"verify", "rename", "cleanup"} => op[n].new \in used

LEMMA EntryTypes ==
  ASSUME NEW n \in Names
  PROVE  /\ Absent(n) \in Entry
         /\ \A d \in Data : Plain(n, d) \in Entry
         /\ \A k \in KeyIds, d \in Data \cup {NoData} : Sealed(n, k, d) \in Entry
         /\ Absent(n).key = NoKey
         /\ \A d \in Data : Plain(n, d).key = NoKey
         /\ \A k \in KeyIds, d \in Data \cup {NoData} : Sealed(n, k, d).key = k
BY DEF Absent, Plain, Sealed, Entry

LEMMA IdleType ==
  Idle \in Operation /\ Idle.pc = "idle" /\ Idle.old = NoKey /\ Idle.new = NoKey
BY DEF Idle, Operation, Kinds, Steps

LEMMA InitialTypes == Init => TypeOK /\ KeysUsed
<1> SUFFICES ASSUME Init PROVE TypeOK /\ KeysUsed
  OBVIOUS
<1>1. \A n \in Names : file[n] \in Entry /\ file[n].key = NoKey
  BY EntryTypes DEF Init
<1>2. TypeOK
  BY <1>1, IdleType, ConstantsAssumption DEF Init, TypeOK
<1>3. KeysUsed
  BY <1>1, IdleType DEF Init, KeysUsed
<1> QED
  BY <1>2, <1>3

\* What a step leaves of the operation records.
LEMMA GotoStep ==
  ASSUME op \in [Names -> Operation], NEW n \in Names, NEW step \in Steps, Goto(n, step)
  PROVE  /\ op' \in [Names -> Operation] /\ op'[n].pc = step
         /\ op'[n].kind = op[n].kind /\ op'[n].fresh = op[n].fresh
         /\ op'[n].old = op[n].old /\ op'[n].new = op[n].new
         /\ op'[n].data = op[n].data
         /\ \A m \in Names \ {n} : op'[m] = op[m]
BY DEF Goto, Operation

LEMMA OldStep ==
  ASSUME op \in [Names -> Operation], NEW n \in Names, NEW step \in Steps,
         NEW k \in KeyIds \cup {NoKey},
         op' = [op EXCEPT ![n].old = k, ![n].pc = step]
  PROVE  /\ op' \in [Names -> Operation] /\ op'[n].pc = step /\ op'[n].old = k
         /\ op'[n].new = op[n].new /\ op'[n].kind = op[n].kind
         /\ op'[n].fresh = op[n].fresh
         /\ \A m \in Names \ {n} : op'[m] = op[m]
BY DEF Operation

LEMMA ReturnStep ==
  ASSUME op \in [Names -> Operation], NEW n \in Names, Return(n)
  PROVE  /\ op' \in [Names -> Operation] /\ op'[n] = Idle
         /\ \A m \in Names \ {n} : op'[m] = op[m]
BY IdleType DEF Return

LEMMA FileKeys ==
  ASSUME TypeOK, KeysUsed, NEW n \in Names
  PROVE  file[n].key \in used \cup {NoKey} /\ used \subseteq KeyIds
BY DEF TypeOK, KeysUsed

\* A step that only changes the operation of n.
LEMMA OperationChange ==
  ASSUME TypeOK, KeysUsed, NEW n \in Names,
         UNCHANGED <<store, used, reported, history>>,
         op' \in [Names -> Operation],
         \A m \in Names \ {n} : op'[m] = op[m],
         op'[n].old \in used \cup {NoKey}, op'[n].new \in used \cup {NoKey},
         op'[n].pc \in {"verify", "rename", "cleanup"} => op'[n].new \in used
  PROVE  TypeOK' /\ KeysUsed'
<1>1. TypeOK'
  BY DEF TypeOK, store, history
<1>2. KeysUsed'
  <2>1. \A m \in Names : /\ op'[m].old \in used \cup {NoKey}
                         /\ op'[m].new \in used \cup {NoKey}
                         /\ op'[m].pc \in {"verify", "rename", "cleanup"}
                              => op'[m].new \in used
    BY DEF KeysUsed
  <2> QED
    BY <2>1 DEF KeysUsed, store
<1> QED
  BY <1>1, <1>2

LEMMA OperationTypes ==
  ASSUME TypeOK, KeysUsed, NEW n \in Names, Step(n) PROVE TypeOK' /\ KeysUsed'
<1> USE ConstantsAssumption, IdleType
<1> USE DEF TypeOK, KeysUsed, Report, store, history
<1>1. ASSUME NEW kind \in Kinds, NEW step \in Steps, NEW d \in Data \cup {NoData},
             step \notin {"verify", "rename", "cleanup"}, Begin(n, kind, step, d)
      PROVE  TypeOK' /\ KeysUsed'
  <2>1. [Idle EXCEPT !.kind = kind, !.pc = step, !.data = d] \in Operation
    BY DEF Idle, Operation
  <2>2. /\ [Idle EXCEPT !.kind = kind, !.pc = step, !.data = d].pc = step
        /\ [Idle EXCEPT !.kind = kind, !.pc = step, !.data = d].old = NoKey
        /\ [Idle EXCEPT !.kind = kind, !.pc = step, !.data = d].new = NoKey
    BY DEF Idle
  <2> QED
    BY <1>1, <2>1, <2>2 DEF Begin
<1>2. ASSUME NEW d \in Data, Save(n, d) PROVE TypeOK' /\ KeysUsed'
  BY <1>1, <1>2 DEF Save, Kinds, Steps
<1>3. ASSUME NEW d \in Data, Replace(n, d) PROVE TypeOK' /\ KeysUsed'
  BY <1>1, <1>2, <1>3 DEF Replace, Kinds, Steps
<1>4. ASSUME Remove(n) PROVE TypeOK' /\ KeysUsed'
  BY <1>1, <1>4 DEF Remove, Kinds, Steps
<1>5. ASSUME Authenticate(n) PROVE TypeOK' /\ KeysUsed'
  <2>0. UNCHANGED <<store, used, reported, history>>
    BY <1>5 DEF Authenticate
  <2>1. CASE Return(n)
    BY <1>5, <2>1, ReturnStep DEF Authenticate
  <2>2. CASE /\ Authentic(n)
             /\ op' = [op EXCEPT ![n].pc = "rename", ![n].new = file[n].key]
    <3>1. file[n].key \in used
      BY <2>2 DEF Authentic
    <3>2. /\ op' \in [Names -> Operation]
          /\ op'[n].pc = "rename" /\ op'[n].new = file[n].key /\ op'[n].old = op[n].old
          /\ \A m \in Names \ {n} : op'[m] = op[m]
      BY <2>2, <3>1 DEF Operation, Steps
    <3> QED
      BY <2>0, <3>1, <3>2, OperationChange
  <2>3. ASSUME NEW k \in {NoKey, file[n].key}, NEW step \in {"unlink", "set"},
               op' = [op EXCEPT ![n].old = k, ![n].pc = step]
        PROVE  TypeOK' /\ KeysUsed'
    <3>1. k \in used \cup {NoKey} /\ k \in KeyIds \cup {NoKey}
      BY FileKeys
    <3>2. /\ op' \in [Names -> Operation]
          /\ op'[n].pc = step /\ op'[n].old = k /\ op'[n].new = op[n].new
          /\ \A m \in Names \ {n} : op'[m] = op[m]
      <4>1. op \in [Names -> Operation] /\ step \in Steps
        BY DEF Steps
      <4> HIDE DEF TypeOK, KeysUsed
      <4> QED
        BY <2>3, <3>1, <4>1 DEF Operation
    <3>3. op'[n].old \in used \cup {NoKey} /\ op'[n].new \in used \cup {NoKey}
      BY <3>1, <3>2
    <3>4. op'[n].pc \in {"verify", "rename", "cleanup"} => op'[n].new \in used
      BY <3>2
    <3> QED
      BY <2>0, <3>2, <3>3, <3>4, OperationChange
  <2> QED
    BY <1>5, <2>1, <2>2, <2>3 DEF Authenticate
<1>6. ASSUME SetKey(n) PROVE TypeOK' /\ KeysUsed'
  <2>1. CASE Return(n) /\ UNCHANGED <<used, keyring>>
    BY <1>6, <2>1, ReturnStep DEF SetKey
  <2>2. ASSUME NEW k \in KeyIds \ used, used' = used \cup {k}, keyring' = keyring \cup {k},
               op' = [op EXCEPT ![n].pc = "verify", ![n].new = k, ![n].fresh = TRUE]
        PROVE  TypeOK' /\ KeysUsed'
    <3>1. /\ op' \in [Names -> Operation]
          /\ op'[n].pc = "verify" /\ op'[n].new = k /\ op'[n].old = op[n].old
          /\ \A m \in Names \ {n} : op'[m] = op[m]
      BY <2>2 DEF Operation, Steps
    <3>2. used' \subseteq KeyIds /\ keyring' \subseteq used' /\ used \subseteq used' /\ k \in used'
      BY <2>2
    <3>3. UNCHANGED <<file, onDisk, reported, cleaned, rolledBack, excused, acked, faults>>
      BY <1>6 DEF SetKey
    <3> QED
      BY <3>1, <3>2, <3>3
  <2> QED
    BY <1>6, <2>1, <2>2 DEF SetKey
<1>7. ASSUME VerifyKey(n) PROVE TypeOK' /\ KeysUsed'
  BY <1>7, GotoStep DEF VerifyKey, Steps
<1>8. ASSUME Rename(n) PROVE TypeOK' /\ KeysUsed'
  <2>1. CASE Install(n, Sealed(n, op[n].new, op[n].data)) /\ Goto(n, "sync")
    <3> DEFINE e == Sealed(n, op[n].new, op[n].data)
    <3>1. e \in Entry /\ e.key = op[n].new /\ op[n].new \in used
      BY <1>8, EntryTypes DEF Rename, Operation
    <3>2. file' = [file EXCEPT ![n] = e] /\ onDisk' = [onDisk EXCEPT ![n] = @ \cup {e}]
      BY <2>1 DEF Install
    <3>3. /\ excused' \subseteq excused \cup ({file[n].key} \ {NoKey})
          /\ acked' = [acked EXCEPT ![n] = Unknown] /\ rolledBack' \subseteq rolledBack
          /\ UNCHANGED <<keyring, used, reported, cleaned, faults>>
      BY <2>1 DEF Install
    <3> HIDE DEF e
    <3> QED
      BY <2>1, <3>1, <3>2, <3>3, GotoStep DEF Steps
  <2>2. CASE UNCHANGED <<store, used, reported, history>>
    BY <1>8, <2>2, GotoStep, ReturnStep DEF Rename, AfterUncommitted, Steps
  <2> QED
    BY <1>8, <2>1, <2>2 DEF Rename
<1>9. ASSUME Unlink(n) PROVE TypeOK' /\ KeysUsed'
  <2>1. CASE Install(n, Absent(n)) /\ Goto(n, "sync")
    <3> DEFINE e == Absent(n)
    <3>1. e \in Entry /\ e.key = NoKey
      BY EntryTypes
    <3>2. file' = [file EXCEPT ![n] = e] /\ onDisk' = [onDisk EXCEPT ![n] = @ \cup {e}]
      BY <2>1 DEF Install
    <3>3. /\ excused' \subseteq excused \cup ({file[n].key} \ {NoKey})
          /\ acked' = [acked EXCEPT ![n] = Unknown] /\ rolledBack' \subseteq rolledBack
          /\ UNCHANGED <<keyring, used, reported, cleaned, faults>>
      BY <2>1 DEF Install
    <3> HIDE DEF e
    <3> QED
      BY <2>1, <3>1, <3>2, <3>3, GotoStep DEF Steps
  <2>2. CASE Return(n) /\ UNCHANGED <<store, used, reported, history>>
    BY <1>9, <2>2, ReturnStep
  <2> QED
    BY <1>9, <2>1, <2>2 DEF Unlink
<1>10. ASSUME SyncDirectory(n) PROVE TypeOK' /\ KeysUsed'
  <2>1. /\ op' \in [Names -> Operation]
        /\ \A m \in Names \ {n} : op'[m] = op[m]
        /\ \/ op'[n] = Idle
           \/ op'[n].pc = "retire" /\ op'[n].old = op[n].old /\ op'[n].new = op[n].new
    BY <1>10, GotoStep, ReturnStep DEF SyncDirectory, Synced, NotSynced, Steps
  <2>2. /\ onDisk' \in {onDisk, [onDisk EXCEPT ![n] = {file[n]}]}
        /\ acked' \in [Names -> Data \cup {NoData, Unknown}]
        /\ reported' \subseteq reported \cup ({op[n].old} \ {NoKey})
    BY <1>10 DEF SyncDirectory, Synced, NotSynced, Entry
  <2> QED
    BY <1>10, <2>1, <2>2 DEF SyncDirectory
<1>11. ASSUME RetireKey(n) PROVE TypeOK' /\ KeysUsed'
  <2>1. /\ acked' \in [Names -> Data \cup {NoData, Unknown}]
        /\ reported' \subseteq reported \cup ({op[n].old} \ {NoKey})
        /\ keyring' \subseteq keyring
    BY <1>11 DEF RetireKey, Entry
  <2> QED
    BY <1>11, <2>1, ReturnStep DEF RetireKey
<1>12. ASSUME CleanupNewKey(n) PROVE TypeOK' /\ KeysUsed'
  <2>1. /\ reported' \subseteq reported \cup ({op[n].new} \ {NoKey})
        /\ keyring' \subseteq keyring
    BY <1>12 DEF CleanupNewKey
  <2> QED
    BY <1>12, <2>1, ReturnStep DEF CleanupNewKey
<1> QED
  BY <1>2, <1>3, <1>4, <1>5, <1>6, <1>7, <1>8, <1>9, <1>10, <1>11, <1>12 DEF Step

LEMMA EnvironmentTypes ==
  ASSUME TypeOK, KeysUsed, Environment PROVE TypeOK' /\ KeysUsed'
<1> USE DEF TypeOK, KeysUsed, store, Fault
<1>1. ASSUME NEW k \in KeyIds, CleanupKey(k) PROVE TypeOK' /\ KeysUsed'
  BY <1>1 DEF CleanupKey
<1>2. ASSUME NEW n \in Names, Crash(n) PROVE TypeOK' /\ KeysUsed'
  <2>1. excused' \subseteq used
    BY <1>2 DEF Crash, Held
  <2> QED
    BY <1>2, <2>1, ReturnStep, IdleType, ConstantsAssumption DEF Crash
<1>3. ASSUME NEW n \in Names, Damage(n) PROVE TypeOK' /\ KeysUsed'
  <2> DEFINE e == [file[n] EXCEPT !.intact = FALSE]
  <2>1. e \in Entry /\ e.key = file[n].key
    <3>1. file[n] \in Entry
      OBVIOUS
    <3> QED
      BY <3>1 DEF Entry
  <2>2. file' = [file EXCEPT ![n] = e] /\ onDisk' = [onDisk EXCEPT ![n] = @ \cup {e}]
    BY <1>3 DEF Damage
  <2> HIDE DEF e
  <2> QED
    BY <1>3, <2>1, <2>2, ConstantsAssumption DEF Damage
<1>4. CASE PowerLoss
  <2>1. file' \in [Names -> Entry] /\ \A n \in Names : file'[n] \in onDisk[n]
    BY <1>4 DEF PowerLoss
  <2>2. excused' \subseteq used
    BY <1>4 DEF PowerLoss, Held, KeysOf
  <2>3. op' \in [Names -> Operation] /\ \A n \in Names : op'[n] = Idle
    BY <1>4, IdleType DEF PowerLoss
  <2>4. onDisk' = [n \in Names |-> {file'[n]}]
    BY <1>4 DEF PowerLoss
  <2>5. rolledBack' \subseteq Names /\ faults' \in 0 .. MaxFaults
        /\ UNCHANGED <<keyring, used, reported, cleaned, acked>>
    BY <1>4, ConstantsAssumption DEF PowerLoss
  <2> QED
    BY <2>1, <2>2, <2>3, <2>4, <2>5, IdleType
<1>5. ASSUME NEW n \in Names, NEW m \in Names, CopyFile(n, m) PROVE TypeOK' /\ KeysUsed'
  BY <1>5, ConstantsAssumption DEF CopyFile
<1> QED
  BY <1>1, <1>2, <1>3, <1>4, <1>5 DEF Environment

LEMMA TypeInvariance == Spec => [](TypeOK /\ KeysUsed)
<1>1. TypeOK /\ KeysUsed /\ UNCHANGED vars => TypeOK' /\ KeysUsed'
  BY DEF TypeOK, KeysUsed, vars
<1>2. TypeOK /\ KeysUsed /\ [Next]_vars => TypeOK' /\ KeysUsed'
  BY <1>1, OperationTypes, EnvironmentTypes DEF Next
<1> QED
  BY <1>2, InitialTypes, PTL DEF Spec

(* Every step keeps the variables within their types.                      *)
THEOREM TypeCorrect == Spec => []TypeOK
BY TypeInvariance, PTL

-----------------------------------------------------------------------------
(* The inductive invariant behind KeysOutliveCiphertext: keys belong to    *)
(* one name, and what an operation holds in memory stays true of the disk. *)

\* Entries sealed under one key are sealed for one name.
Binding ==
  \A n, m \in Names : \A e \in onDisk[n], f \in onDisk[m] :
    e.key = f.key /\ e.key # NoKey => e.name = f.name

Beginning ==
  \A n \in Names : /\ op[n].pc \in {"idle", "authenticate"} => op[n].old = NoKey
                   /\ op[n].pc \in {"idle", "authenticate", "set"} => ~op[n].fresh
                   /\ op[n].pc \in {"verify", "cleanup"} => op[n].fresh

\* A key drawn and not yet used by any entry is n's alone.
InUse(k) == \E n \in Names : \E e \in onDisk[n] : e.key = k
NewKey ==
  \A n \in Names : op[n].pc \in {"verify", "rename", "cleanup"} /\ op[n].fresh =>
    /\ ~InUse(op[n].new)
    /\ op[n].new \in keyring \ reported
    /\ op[n].new # op[n].old
    /\ \A m \in Names \ {n} : op[n].new # op[m].old /\ op[n].new # op[m].new

\* Save seals again under the key of the file it has opened.
ReusedKey ==
  \A n \in Names : op[n].pc = "rename" /\ ~op[n].fresh =>
    /\ op[n].new = file[n].key /\ file[n].name = n
    /\ op[n].new \in keyring /\ op[n].old = NoKey

\* Replace and Remove retire a key of n's that no entry of n has any more.
OldKey ==
  \A n \in Names : op[n].old # NoKey =>
    /\ \A m \in Names : \A e \in onDisk[m] : e.key = op[n].old => e.name = n
    /\ op[n].pc = "sync" => file[n].key # op[n].old
    /\ op[n].pc = "retire" => \A e \in onDisk[n] : e.key # op[n].old

IInv == Binding /\ Beginning /\ NewKey /\ ReusedKey /\ OldKey /\ KeysOutliveCiphertext

LEMMA InitialInvariant == Init => IInv
<1> SUFFICES ASSUME Init PROVE IInv
  OBVIOUS
<1>1. \A n \in Names : /\ onDisk[n] = {file[n]} /\ file[n].key = NoKey /\ file[n].kind # "sealed"
                       /\ op[n] = Idle
  BY DEF Init, Absent, Plain
<1>2. Binding /\ KeysOutliveCiphertext
  BY <1>1 DEF Binding, KeysOutliveCiphertext, Openable
<1>3. Beginning /\ NewKey /\ ReusedKey /\ OldKey
  BY <1>1 DEF Beginning, NewKey, ReusedKey, OldKey, Idle
<1> QED
  BY <1>2, <1>3 DEF IInv

\* Steps that only change what the operation on n remembers.
LEMMA MemorySteps ==
  ASSUME TypeOK, KeysUsed, IInv, NEW n \in Names,
         UNCHANGED <<file, onDisk, keyring, reported, cleaned, rolledBack>>,
         \A m \in Names \ {n} : op'[m] = op[m],
         \A m \in Names \ {n} :
           op[m].pc \in {"verify", "rename", "cleanup"} /\ op[m].fresh =>
             op'[n].old # op[m].new /\ op'[n].new # op[m].new,
         op'[n].pc \in {"idle", "authenticate"} => op'[n].old = NoKey,
         op'[n].pc \in {"idle", "authenticate", "set"} => ~op'[n].fresh,
         op'[n].pc \in {"verify", "cleanup"} => op'[n].fresh,
         op'[n].pc \in {"verify", "rename", "cleanup"} /\ op'[n].fresh =>
           /\ op[n].pc \in {"verify", "rename", "cleanup"} /\ op[n].fresh
           /\ op'[n].new = op[n].new /\ op'[n].old = op[n].old,
         op'[n].pc = "rename" /\ ~op'[n].fresh =>
           /\ op'[n].new = file[n].key /\ file[n].name = n
           /\ op'[n].new \in keyring /\ op'[n].old = NoKey,
         op'[n].old # NoKey =>
           /\ op'[n].pc # "retire" /\ op'[n].pc # "sync"
           /\ \/ op'[n].old = op[n].old
              \/ op'[n].old = file[n].key /\ file[n].name = n
  PROVE  IInv'
<1> USE DEF IInv
<1>1. Binding'
  BY DEF Binding
<1>2. Beginning'
  BY DEF Beginning
<1>3. NewKey'
  BY DEF NewKey, InUse
<1>4. ReusedKey'
  BY DEF ReusedKey
<1>5. OldKey'
  BY DEF OldKey, Binding, TypeOK
<1>6. KeysOutliveCiphertext'
  BY DEF KeysOutliveCiphertext, Openable
<1> QED
  BY <1>1, <1>2, <1>3, <1>4, <1>5, <1>6

\* The file of n gets entry e, sealed under the operation's key or absent.
LEMMA InstallSteps ==
  ASSUME TypeOK, TypeOK', KeysUsed, IInv, NEW n \in Names, NEW e \in Entry,
         Install(n, e), Goto(n, "sync"), e.name = n,
         \/ e.key = NoKey /\ e.kind # "sealed"
         \/ e.key = op[n].new /\ op[n].pc = "rename"
  PROVE  IInv'
<1> USE DEF IInv
<1>1. /\ file' = [file EXCEPT ![n] = e] /\ onDisk' = [onDisk EXCEPT ![n] = @ \cup {e}]
      /\ UNCHANGED <<keyring, used, reported, cleaned>>
      /\ rolledBack' = rolledBack \ {n}
  BY DEF Install
<1>2. /\ op'[n].pc = "sync" /\ op'[n].old = op[n].old /\ op'[n].new = op[n].new
      /\ \A m \in Names \ {n} : op'[m] = op[m]
  BY GotoStep DEF TypeOK, Steps
<1>3. \/ e.key = NoKey /\ e.kind # "sealed"
      \/ /\ e.key = op[n].new /\ op[n].new \in keyring /\ op[n].new # NoKey
         /\ op[n].new # op[n].old
         /\ \A m \in Names : \A f \in onDisk[m] : f.key = op[n].new => f.name = n
         /\ \A m \in Names \ {n} : op[m].old # op[n].new
         /\ \A m \in Names \ {n} : op[m].pc \in {"verify", "rename", "cleanup"} /\ op[m].fresh
                                    => op[m].new # op[n].new
  <2>1. CASE op[n].fresh /\ e.key = op[n].new /\ op[n].pc = "rename"
    BY <2>1, ConstantsAssumption DEF NewKey, InUse, TypeOK
  <2>2. CASE ~op[n].fresh /\ e.key = op[n].new /\ op[n].pc = "rename"
    BY <2>2, ConstantsAssumption DEF ReusedKey, NewKey, InUse, TypeOK, Binding, OldKey
  <2> QED
    BY <2>1, <2>2
<1>4. Binding'
  BY <1>1, <1>3 DEF Binding, TypeOK
<1>5. Beginning'
  BY <1>2 DEF Beginning
<1>6. NewKey'
  BY <1>1, <1>2, <1>3, ConstantsAssumption DEF NewKey, InUse, TypeOK
<1>7. ReusedKey'
  BY <1>1, <1>2, <1>3 DEF ReusedKey, TypeOK
<1>8. OldKey'
  BY <1>1, <1>2, <1>3 DEF OldKey, TypeOK
<1>9. KeysOutliveCiphertext'
  BY <1>1, <1>2, <1>3 DEF KeysOutliveCiphertext, Openable, TypeOK
<1> QED
  BY <1>4, <1>5, <1>6, <1>7, <1>8, <1>9

LEMMA KeySafeSteps ==
  ASSUME TypeOK, TypeOK', KeysUsed, IInv, NEW n \in Names, Step(n) PROVE IInv'
<1> USE ConstantsAssumption DEF store, history
<1>1. op \in [Names -> Operation] /\ op[n] \in Operation
  BY DEF TypeOK
<1>2. ASSUME NEW kind \in Kinds, NEW step \in {"authenticate", "set"},
             NEW d \in Data \cup {NoData}, Begin(n, kind, step, d)
      PROVE  IInv'
  <2>1. /\ op'[n].old = NoKey /\ op'[n].new = NoKey /\ ~op'[n].fresh /\ op'[n].pc = step
        /\ \A m \in Names \ {n} : op'[m] = op[m]
    BY <1>1, <1>2 DEF Begin, Idle
  <2>2. \A m \in Names \ {n} : op[m].pc \in {"verify", "rename", "cleanup"} => op[m].new # NoKey
    BY DEF KeysUsed, TypeOK
  <2> QED
    BY <1>2, <2>1, <2>2, MemorySteps DEF Begin
<1>3. ASSUME NEW d \in Data, Save(n, d) PROVE IInv'
  BY <1>2, <1>3 DEF Save, Kinds
<1>4. ASSUME NEW d \in Data, Replace(n, d) PROVE IInv'
  BY <1>2, <1>3, <1>4 DEF Replace, Kinds
<1>5. ASSUME Remove(n) PROVE IInv'
  BY <1>2, <1>5 DEF Remove, Kinds
<1>6. ASSUME Return(n), UNCHANGED <<file, onDisk, keyring, reported, cleaned, rolledBack>>
      PROVE  IInv'
  <2>1. /\ op'[n].old = NoKey /\ op'[n].new = NoKey /\ ~op'[n].fresh /\ op'[n].pc = "idle"
        /\ \A m \in Names \ {n} : op'[m] = op[m]
    BY <1>1, <1>6, ReturnStep DEF Idle
  <2>2. \A m \in Names \ {n} : op[m].pc \in {"verify", "rename", "cleanup"} => op[m].new # NoKey
    BY DEF KeysUsed, TypeOK
  <2> QED
    BY <1>6, <2>1, <2>2, MemorySteps
<1>7. ASSUME Authenticate(n) PROVE IInv'
  <2>1. op[n].old = NoKey /\ ~op[n].fresh
    BY <1>7 DEF Authenticate, IInv, Beginning
  <2>2. \A m \in Names \ {n} : op[m].pc \in {"verify", "rename", "cleanup"} /\ op[m].fresh
          => op[m].new # NoKey /\ op[m].new # file[n].key /\ op[m].new # op[n].new
    BY DEF IInv, NewKey, InUse, KeysUsed, TypeOK
  <2>5. UNCHANGED <<file, onDisk, keyring, reported, cleaned, rolledBack>>
    BY <1>7 DEF Authenticate
  <2>6. Authentic(n) => file[n].name = n /\ file[n].key \in keyring
    BY DEF Authentic, Openable
  <2>3. CASE /\ Authentic(n)
             /\ op' = [op EXCEPT ![n].pc = "rename", ![n].new = file[n].key]
    <3>1. /\ op'[n].pc = "rename" /\ op'[n].new = file[n].key
          /\ op'[n].old = NoKey /\ ~op'[n].fresh
          /\ \A m \in Names \ {n} : op'[m] = op[m]
      BY <1>1, <2>1, <2>3 DEF Operation
    <3>2. Authentic(n)
      BY <2>3
    <3> QED
      BY <2>2, <2>5, <2>6, <3>1, <3>2, MemorySteps
  <2>4. ASSUME NEW k \in {NoKey, file[n].key}, NEW step \in {"unlink", "set"},
               k = NoKey \/ Authentic(n),
               op' = [op EXCEPT ![n].old = k, ![n].pc = step]
        PROVE  IInv'
    <3>1. k \in KeyIds \cup {NoKey}
      BY DEF TypeOK, Entry
    <3>2. /\ op'[n].pc = step /\ op'[n].new = op[n].new
          /\ op'[n].old = k /\ ~op'[n].fresh
          /\ \A m \in Names \ {n} : op'[m] = op[m]
      BY <1>1, <2>1, <2>4, <3>1, OldStep DEF Steps
    <3>3. k = NoKey \/ (k = file[n].key /\ Authentic(n))
      BY <2>4
    <3> QED
      BY <2>2, <2>5, <2>6, <3>2, <3>3, MemorySteps
  <2> QED
    BY <1>6, <1>7, <2>3, <2>4 DEF Authenticate
<1>8. ASSUME VerifyKey(n) PROVE IInv'
  <2>1. \E step \in {"rename", "cleanup"} :
          /\ op'[n].pc = step /\ op'[n].old = op[n].old /\ op'[n].new = op[n].new
          /\ op'[n].fresh = op[n].fresh /\ \A m \in Names \ {n} : op'[m] = op[m]
    BY <1>1, <1>8, GotoStep DEF VerifyKey, Steps
  <2>2. \A m \in Names \ {n} : op[m].pc \in {"verify", "rename", "cleanup"} /\ op[m].fresh
          => op[m].new # op[n].old /\ op[m].new # op[n].new
    BY DEF IInv, NewKey
  <2>3. op[n].fresh
    BY <1>8 DEF VerifyKey, IInv, Beginning
  <2>4. op[n].old # NoKey => op'[n].old = op[n].old
    BY <2>1
  <2> QED
    BY <1>8, <2>1, <2>2, <2>3, <2>4, MemorySteps DEF VerifyKey
<1>9. ASSUME Rename(n) PROVE IInv'
  <2>1. CASE Install(n, Sealed(n, op[n].new, op[n].data)) /\ Goto(n, "sync")
    <3>1. Sealed(n, op[n].new, op[n].data) \in Entry
      BY <1>1, <1>9, EntryTypes DEF Rename, KeysUsed, TypeOK, Operation
    <3> QED
      BY <1>9, <2>1, <3>1, InstallSteps DEF Rename, Sealed
  <2>2. CASE Return(n) /\ UNCHANGED <<store, used, reported, history>>
    BY <1>6, <2>2
  <2>3. CASE op[n].fresh /\ Goto(n, "cleanup") /\ UNCHANGED <<store, used, reported, history>>
    <3>1. /\ op'[n].pc = "cleanup" /\ op'[n].old = op[n].old /\ op'[n].new = op[n].new
          /\ op'[n].fresh = op[n].fresh /\ \A m \in Names \ {n} : op'[m] = op[m]
      BY <1>1, <2>3, GotoStep DEF Steps
    <3>2. \A m \in Names \ {n} : op[m].pc \in {"verify", "rename", "cleanup"} /\ op[m].fresh
            => op[m].new # op[n].old /\ op[m].new # op[n].new
      BY DEF IInv, NewKey
    <3> QED
      BY <1>9, <2>3, <3>1, <3>2, MemorySteps DEF Rename
  <2> QED
    BY <1>9, <2>1, <2>2, <2>3 DEF Rename, AfterUncommitted
<1>10. ASSUME Unlink(n) PROVE IInv'
  <2>1. CASE Install(n, Absent(n)) /\ Goto(n, "sync")
    <3>1. /\ Absent(n) \in Entry /\ Absent(n).name = n
          /\ Absent(n).key = NoKey /\ Absent(n).kind # "sealed"
      BY EntryTypes DEF Absent
    <3> DEFINE e == Absent(n)
    <3>2. Install(n, e) /\ Goto(n, "sync")
      BY <2>1
    <3> HIDE DEF e
    <3> QED
      BY <3>1, <3>2, InstallSteps DEF e
  <2> QED
    BY <1>6, <1>10, <2>1 DEF Unlink
<1>11. ASSUME SetKey(n) PROVE IInv'
  <2>1. ASSUME NEW k \in KeyIds \ used, used' = used \cup {k}, keyring' = keyring \cup {k},
               op' = [op EXCEPT ![n].pc = "verify", ![n].new = k, ![n].fresh = TRUE]
        PROVE  IInv'
    <3>1. /\ op'[n].pc = "verify" /\ op'[n].new = k /\ op'[n].old = op[n].old
          /\ op'[n].fresh /\ \A m \in Names \ {n} : op'[m] = op[m]
      BY <1>1, <2>1 DEF Operation
    <3>2. /\ UNCHANGED <<file, onDisk, reported, cleaned, rolledBack>>
          /\ keyring' = keyring \cup {k}
      BY <1>11, <2>1 DEF SetKey
    <3>3. /\ ~InUse(k) /\ k \notin reported /\ k # NoKey
          /\ \A m \in Names : op[m].old # k /\ op[m].new # k
      BY <2>1 DEF KeysUsed, InUse, TypeOK
    <3>4. Binding' /\ Beginning'
      BY <3>1, <3>2 DEF IInv, Binding, Beginning
    <3>5. NewKey'
      BY <3>1, <3>2, <3>3 DEF IInv, NewKey, InUse
    <3>7. ReusedKey'
      BY <3>1, <3>2 DEF IInv, ReusedKey
    <3>8. OldKey'
      BY <3>1, <3>2 DEF IInv, OldKey
    <3>6. KeysOutliveCiphertext'
      BY <3>2 DEF IInv, KeysOutliveCiphertext, Openable
    <3> QED
      BY <3>4, <3>5, <3>6, <3>7, <3>8 DEF IInv
  <2> QED
    BY <1>6, <1>11, <2>1 DEF SetKey
<1>12. ASSUME SyncDirectory(n) PROVE IInv'
  <2>1. /\ UNCHANGED <<file, keyring, used, cleaned, rolledBack>>
        /\ \A m \in Names : onDisk'[m] \subseteq onDisk[m]
        /\ reported' \subseteq reported \cup {op[n].old}
    BY <1>12 DEF SyncDirectory, Synced, NotSynced, Report, TypeOK
  <2>2. /\ \A m \in Names \ {n} : op'[m] = op[m]
        /\ \/ op'[n].pc = "idle" /\ op'[n].old = NoKey /\ op'[n].new = NoKey /\ ~op'[n].fresh
           \/ /\ op'[n].pc = "retire" /\ op'[n].old = op[n].old /\ op'[n].new = op[n].new
              /\ onDisk'[n] = {file[n]}
    BY <1>1, <1>12, GotoStep, ReturnStep DEF SyncDirectory, Synced, NotSynced, Steps, Idle, TypeOK
  <2>3. \A m \in Names : op[m].pc \in {"verify", "rename", "cleanup"} => op[m].new # NoKey
    BY DEF KeysUsed, TypeOK
  <2>4. Binding' /\ Beginning' /\ ReusedKey'
    BY <2>1, <2>2 DEF IInv, Binding, Beginning, ReusedKey
  <2>5. NewKey'
    BY <1>12, <2>1, <2>2, <2>3 DEF IInv, NewKey, InUse
  <2>6. OldKey'
    BY <1>12, <2>1, <2>2 DEF SyncDirectory, IInv, OldKey
  <2>7. KeysOutliveCiphertext'
    BY <2>1 DEF IInv, KeysOutliveCiphertext, Openable
  <2> QED
    BY <2>4, <2>5, <2>6, <2>7 DEF IInv
<1>13. ASSUME keyring' = keyring \/ (op[n].pc = "retire" /\ keyring' = keyring \ {op[n].old}),
              reported' \subseteq reported \cup {op[n].old},
              Return(n), UNCHANGED <<file, onDisk, cleaned, rolledBack>>
       PROVE  IInv'
  <2>1. /\ op'[n].old = NoKey /\ op'[n].new = NoKey /\ ~op'[n].fresh /\ op'[n].pc = "idle"
        /\ \A m \in Names \ {n} : op'[m] = op[m]
    BY <1>1, <1>13, ReturnStep DEF Idle
  <2>2. \A m \in Names : op[m].pc \in {"verify", "rename", "cleanup"} => op[m].new # NoKey
    BY DEF KeysUsed, TypeOK
  <2>3. keyring' = keyring \/ \A m \in Names : \A e \in onDisk[m] :
          e.name = m \/ m = n => e.key # op[n].old \/ op[n].old = NoKey
    BY <1>13 DEF IInv, OldKey
  <2>4. NoKey \notin keyring
    BY DEF TypeOK
  <2>5. Binding' /\ Beginning' /\ OldKey'
    BY <1>13, <2>1 DEF IInv, Binding, Beginning, OldKey
  <2>6. ReusedKey'
    BY <1>13, <2>1, <2>3, <2>4 DEF IInv, ReusedKey, TypeOK
  <2>7. NewKey'
    BY <1>13, <2>1, <2>2 DEF IInv, NewKey, InUse
  <2>8. KeysOutliveCiphertext'
    BY <1>13, <2>3, <2>4 DEF IInv, KeysOutliveCiphertext, Openable, TypeOK
  <2> QED
    BY <2>5, <2>6, <2>7, <2>8 DEF IInv
<1>14. ASSUME RetireKey(n) PROVE IInv'
  BY <1>13, <1>14 DEF RetireKey, Report
<1>15. ASSUME CleanupNewKey(n) PROVE IInv'
  <2>1. /\ UNCHANGED <<file, onDisk, cleaned, rolledBack>>
        /\ keyring' \in {keyring, keyring \ {op[n].new}}
        /\ reported' \subseteq reported \cup {op[n].new}
    BY <1>15 DEF CleanupNewKey, Report
  <2>2. /\ op'[n].old = NoKey /\ op'[n].new = NoKey /\ ~op'[n].fresh /\ op'[n].pc = "idle"
        /\ \A m \in Names \ {n} : op'[m] = op[m]
    BY <1>1, <1>15, ReturnStep DEF CleanupNewKey, Idle
  <2>3. ~InUse(op[n].new) /\ \A m \in Names \ {n} : op[m].new # op[n].new
    BY <1>15 DEF CleanupNewKey, IInv, NewKey, Beginning
  <2>4. \A m \in Names : op[m].pc \in {"verify", "rename", "cleanup"} => op[m].new # NoKey
    BY DEF KeysUsed, TypeOK
  <2>5. Binding' /\ Beginning' /\ OldKey'
    BY <2>1, <2>2 DEF IInv, Binding, Beginning, OldKey
  <2>6. ReusedKey' /\ NewKey'
    BY <2>1, <2>2, <2>3, <2>4 DEF IInv, ReusedKey, NewKey, InUse
  <2>7. KeysOutliveCiphertext'
    BY <2>1, <2>3 DEF IInv, KeysOutliveCiphertext, Openable, InUse, TypeOK
  <2> QED
    BY <2>5, <2>6, <2>7 DEF IInv
<1> QED
  BY <1>3, <1>4, <1>5, <1>7, <1>8, <1>9, <1>10, <1>11, <1>12, <1>14, <1>15 DEF Step

LEMMA KeySafeEnvironment ==
  ASSUME TypeOK, TypeOK', KeysUsed, IInv, Environment PROVE IInv'
<1> USE DEF store
<1>1. ASSUME NEW k \in KeyIds, CleanupKey(k) PROVE IInv'
  <2>1. /\ k \in reported /\ (\A n \in Names : file[n].key # k)
        /\ keyring' = keyring \ {k} /\ reported' = reported \ {k}
        /\ cleaned' = cleaned \cup {k}
        /\ UNCHANGED <<file, onDisk, op, rolledBack>>
    BY <1>1 DEF CleanupKey
  <2>2. Binding' /\ Beginning' /\ OldKey'
    BY <2>1 DEF IInv, Binding, Beginning, OldKey
  <2>3. ReusedKey' /\ NewKey'
    BY <2>1 DEF IInv, ReusedKey, NewKey, InUse
  <2>4. KeysOutliveCiphertext'
    BY <2>1 DEF IInv, KeysOutliveCiphertext, Openable
  <2> QED
    BY <2>2, <2>3, <2>4 DEF IInv
<1>2. ASSUME NEW n \in Names, Crash(n) PROVE IInv'
  <2>1. /\ op'[n].old = NoKey /\ op'[n].new = NoKey /\ ~op'[n].fresh /\ op'[n].pc = "idle"
        /\ \A m \in Names \ {n} : op'[m] = op[m]
    BY <1>2, ReturnStep DEF Crash, Idle, TypeOK
  <2>2. \A m \in Names \ {n} : op[m].pc \in {"verify", "rename", "cleanup"} => op[m].new # NoKey
    BY ConstantsAssumption DEF KeysUsed, TypeOK
  <2>3. UNCHANGED <<file, onDisk, keyring, reported, cleaned, rolledBack>>
    BY <1>2 DEF Crash
  <2> QED
    BY <2>1, <2>2, <2>3, MemorySteps
\* A new entry under a key already in use, that does not open for its name.
<1>3. ASSUME NEW m \in Names, NEW n \in Names, NEW e \in Entry,
             e.key = file[n].key, e.name = file[n].name, ~Openable(m, e), n = m \/ op[m] = Idle,
             file' = [file EXCEPT ![m] = e], onDisk' = [onDisk EXCEPT ![m] = @ \cup {e}],
             UNCHANGED <<keyring, op, reported, cleaned, rolledBack>>
      PROVE  IInv'
  <2>1. file[n] \in onDisk[n]
    BY DEF TypeOK
  <2>2. \A k : InUse(k)' => InUse(k)
    BY <1>3, <2>1 DEF InUse, TypeOK
  <2>3. Binding'
    BY <1>3, <2>1 DEF IInv, Binding, TypeOK
  <2>4. Beginning' /\ NewKey'
    BY <1>3, <2>2 DEF IInv, Beginning, NewKey
  <2>5. ReusedKey'
    BY <1>3 DEF IInv, ReusedKey, TypeOK, Idle
  <2>6. OldKey'
    BY <1>3, <2>1 DEF IInv, OldKey, TypeOK, Idle
  <2>7. KeysOutliveCiphertext'
    BY <1>3 DEF IInv, KeysOutliveCiphertext, Openable, TypeOK
  <2> QED
    BY <2>3, <2>4, <2>5, <2>6, <2>7 DEF IInv
<1>4. ASSUME NEW n \in Names, Damage(n) PROVE IInv'
  <2> DEFINE e == [file[n] EXCEPT !.intact = FALSE]
  <2>1. file[n] \in Entry
    BY DEF TypeOK
  <2>2. e \in Entry /\ e.key = file[n].key /\ e.name = file[n].name /\ ~Openable(n, e)
    BY <2>1 DEF Entry, Openable
  <2>3. /\ file' = [file EXCEPT ![n] = e] /\ onDisk' = [onDisk EXCEPT ![n] = @ \cup {e}]
        /\ UNCHANGED <<keyring, op, reported, cleaned, rolledBack>>
    BY <1>4 DEF Damage, TypeOK
  <2> HIDE DEF e
  <2> QED
    BY <1>3, <2>2, <2>3
<1>5. ASSUME NEW n \in Names, NEW m \in Names, CopyFile(n, m) PROVE IInv'
  <2>1. /\ file[n] \in Entry /\ ~Openable(m, file[n]) /\ op[m] = Idle
        /\ file' = [file EXCEPT ![m] = file[n]]
        /\ onDisk' = [onDisk EXCEPT ![m] = @ \cup {file[n]}]
        /\ UNCHANGED <<keyring, op, reported, cleaned, rolledBack>>
    BY <1>5 DEF CopyFile, Openable, TypeOK
  <2> QED
    BY <1>3, <2>1
<1>6. CASE PowerLoss
  <2>1. /\ \A n \in Names : file'[n] \in onDisk[n] /\ onDisk'[n] = {file'[n]}
        /\ \A n \in Names : file'[n] # file[n] => n \in rolledBack'
        /\ rolledBack \subseteq rolledBack'
        /\ UNCHANGED <<keyring, reported, cleaned>>
    BY <1>6 DEF PowerLoss
  <2>2. \A n \in Names : /\ op'[n].old = NoKey /\ ~op'[n].fresh /\ op'[n].pc = "idle"
    BY <1>6 DEF PowerLoss, Idle
  <2>3. Binding'
    BY <2>1 DEF IInv, Binding
  <2>4. Beginning' /\ NewKey' /\ ReusedKey' /\ OldKey'
    BY <2>2 DEF Beginning, NewKey, ReusedKey, OldKey
  <2>5. KeysOutliveCiphertext'
    BY <2>1 DEF IInv, KeysOutliveCiphertext, Openable
  <2> QED
    BY <2>3, <2>4, <2>5 DEF IInv
<1> QED
  BY <1>1, <1>2, <1>4, <1>5, <1>6 DEF Environment

-----------------------------------------------------------------------------
LEMMA KeySafety == Spec => []IInv
<1>1. IInv /\ UNCHANGED vars => IInv'
  BY DEF vars, IInv, Binding, Beginning, NewKey, InUse, ReusedKey, OldKey,
         KeysOutliveCiphertext, Openable
<1>2. TypeOK /\ TypeOK' /\ KeysUsed /\ IInv /\ [Next]_vars => IInv'
  BY <1>1, KeySafeSteps, KeySafeEnvironment DEF Next
<1> QED
  BY <1>2, InitialInvariant, TypeInvariance, PTL DEF Spec

(* No step of Save, Replace or Remove, whatever fails, dies or loses power *)
(* on the way, takes the key from a session file that still opens with it  *)
(* and can still be, or become, the visible one.                           *)
THEOREM KeysAreKept == Spec => []KeysOutliveCiphertext
<1>1. IInv => KeysOutliveCiphertext
  BY DEF IInv
<1> QED
  BY <1>1, KeySafety, PTL

-----------------------------------------------------------------------------
(* The inductive invariant behind NoSilentOrphan and AcknowledgedSurvives. *)

\* Before it installs an entry, an operation remembers no key but the file's
\* and one it has drawn; afterwards no new key but the file's.
Remembered ==
  \A n \in Names :
    /\ op[n].pc \in {"idle", "authenticate", "set", "unlink"} => op[n].new = NoKey
    /\ op[n].pc \in {"set", "verify", "rename", "unlink", "cleanup"} =>
         op[n].old \in {NoKey, file[n].key}
    /\ op[n].pc \in {"sync", "retire"} => op[n].new \in {NoKey, file[n].key}

\* The key of an entry that is on the disk, but no longer visible, is known
\* to the user, or to the operation that replaced the entry.
Superseded ==
  \A n \in Names : \A e \in onDisk[n] : e.key \in keyring =>
    \/ e.key = file[n].key \/ e.key \in reported \cup excused
    \/ op[n].pc \in {"sync", "retire"} /\ e.key = op[n].old

\* A change that is durable leaves one content.
Durable ==
  \A n \in Names : op[n].pc = "retire" => \A e \in onDisk[n] : e.data = file[n].data

\* The keys that are not left behind.
Accounted(k) ==
  \/ k \in reported \cup excused
  \/ \E m \in Names : k \in {op[m].old, op[m].new} \/ \E e \in onDisk[m] : e.key = k
AllAccounted == \A k \in keyring : Accounted(k)

Kept == Remembered /\ Superseded /\ Durable /\ AllAccounted /\ AcknowledgedSurvives

LEMMA NoOrphanIsAccounted == TypeOK => (NoSilentOrphan <=> AllAccounted)
<1> SUFFICES ASSUME TypeOK PROVE NoSilentOrphan <=> AllAccounted
  OBVIOUS
<1>1. NoKey \notin keyring
  BY ConstantsAssumption DEF TypeOK
<1>2. ASSUME NEW k \in keyring
      PROVE  Accounted(k) <=> k \in reported \cup excused
                                    \cup UNION {KeysOf(onDisk[n]) \cup Held(n) : n \in Names}
  BY <1>1 DEF Accounted, KeysOf, Held
<1> QED
  BY <1>2 DEF NoSilentOrphan, AllAccounted

LEMMA InitialKept == Init => Kept
<1> SUFFICES ASSUME Init PROVE Kept
  OBVIOUS
<1>1. \A n \in Names : onDisk[n] = {file[n]} /\ op[n].pc = "idle" /\ op[n].new = NoKey
  BY IdleType DEF Init
<1>2. keyring = {} /\ \A n \in Names : acked[n] = Unknown
  BY DEF Init
<1>3. Remembered /\ Superseded /\ Durable
  BY <1>1, <1>2 DEF Remembered, Superseded, Durable
<1>4. AllAccounted /\ AcknowledgedSurvives
  BY <1>2 DEF AllAccounted, AcknowledgedSurvives
<1> QED
  BY <1>3, <1>4 DEF Kept

\* Steps before an entry is installed, or that give up doing so.
LEMMA KeptInMemory ==
  ASSUME TypeOK, Kept, NEW n \in Names,
         UNCHANGED <<file, onDisk, reported, excused, acked>>,
         keyring' \subseteq keyring \cup {op'[n].new},
         \A m \in Names \ {n} : op'[m] = op[m],
         \A m \in Names : \A e \in onDisk[m] : e.key \in keyring' => e.key \in keyring,
         op[n].pc \notin {"sync", "retire"}, op'[n].pc \notin {"sync", "retire"},
         op'[n].pc \in {"idle", "authenticate", "set", "unlink"} => op'[n].new = NoKey,
         op'[n].pc \in {"set", "verify", "rename", "unlink", "cleanup"} =>
           op'[n].old \in {NoKey, file[n].key},
         \A k \in {op[n].old, op[n].new} \cap keyring' :
           k \in {op'[n].old, op'[n].new, file[n].key}
  PROVE  Kept'
<1>1. Remembered' /\ Durable'
  BY DEF Kept, Remembered, Durable
<1>2. Superseded'
  BY DEF Kept, Superseded
<1>3. file[n] \in onDisk[n]
  BY DEF TypeOK
<1>4. AllAccounted'
  <2> SUFFICES ASSUME NEW k \in keyring' PROVE Accounted(k)'
    BY DEF AllAccounted
  <2>1. CASE k \in {op'[n].old, op'[n].new, file[n].key}
    BY <1>3, <2>1 DEF Accounted
  <2>2. CASE k \notin {op'[n].old, op'[n].new, file[n].key}
    <3>1. Accounted(k) /\ k \notin {op[n].old, op[n].new}
      BY <2>2 DEF Kept, AllAccounted
    <3> QED
      BY <3>1 DEF Accounted
  <2> QED
    BY <2>1, <2>2
<1>5. AcknowledgedSurvives'
  BY DEF Kept, AcknowledgedSurvives
<1> QED
  BY <1>1, <1>2, <1>4, <1>5 DEF Kept

\* The file of n gets entry e; the key of the one before is remembered, still
\* the file's, or excused.
LEMMA KeptByInstall ==
  ASSUME TypeOK, Kept, NEW n \in Names, NEW e,
         Install(n, e), Goto(n, "sync"),
         op[n].pc \in {"rename", "unlink"},
         e.key = op[n].new
  PROVE  Kept'
<1>1. /\ file' = [file EXCEPT ![n] = e] /\ onDisk' = [onDisk EXCEPT ![n] = @ \cup {e}]
      /\ acked' = [acked EXCEPT ![n] = Unknown]
      /\ excused \subseteq excused'
      /\ op[n].old # NoKey \/ file[n].key \in {op[n].new, NoKey} \/ file[n].key \in excused'
      /\ UNCHANGED <<keyring, reported>>
  BY DEF Install
<1>2. /\ op'[n].pc = "sync" /\ op'[n].old = op[n].old /\ op'[n].new = op[n].new
      /\ \A m \in Names \ {n} : op'[m] = op[m]
  BY GotoStep DEF TypeOK, Steps
<1>3. NoKey \notin keyring /\ op[n].old \in {NoKey, file[n].key}
  BY ConstantsAssumption DEF TypeOK, Kept, Remembered
<1>4. Remembered' /\ Durable'
  BY <1>1, <1>2 DEF Kept, Remembered, Durable, TypeOK
<1>5. Superseded'
  BY <1>1, <1>2, <1>3 DEF Kept, Superseded, TypeOK
<1>6. AllAccounted'
  BY <1>1, <1>2 DEF Kept, AllAccounted, Accounted, TypeOK
<1>7. AcknowledgedSurvives'
  BY <1>1 DEF Kept, AcknowledgedSurvives, TypeOK
<1> QED
  BY <1>4, <1>5, <1>6, <1>7 DEF Kept

\* The operation on n ends; a key it leaves is deleted, reported or on disk.
LEMMA KeptAtTheEnd ==
  ASSUME TypeOK, Kept, NEW n \in Names, Return(n),
         UNCHANGED <<file, onDisk>>, keyring' \subseteq keyring,
         reported \subseteq reported', excused \subseteq excused',
         \A k \in {op[n].old, op[n].new} \cap keyring' :
           k = file[n].key \/ k \in reported' \cup excused',
         \/ acked' = acked
         \/ acked' = [acked EXCEPT ![n] = file[n].data] /\ op[n].pc = "retire"
  PROVE  Kept'
<1>1. /\ op'[n].pc = "idle" /\ op'[n].old = NoKey /\ op'[n].new = NoKey
      /\ \A m \in Names \ {n} : op'[m] = op[m]
  BY ReturnStep, IdleType DEF TypeOK
<1>2. file[n] \in onDisk[n]
  BY DEF TypeOK
<1>3. Remembered' /\ Durable'
  BY <1>1 DEF Kept, Remembered, Durable
<1>4. Superseded'
  BY <1>1 DEF Kept, Superseded
<1>5. AllAccounted'
  BY <1>1, <1>2 DEF Kept, AllAccounted, Accounted
<1>6. AcknowledgedSurvives'
  BY DEF Kept, Durable, AcknowledgedSurvives, TypeOK
<1> QED
  BY <1>3, <1>4, <1>5, <1>6 DEF Kept

LEMMA KeptSteps ==
  ASSUME TypeOK, KeysUsed, IInv, Kept, NEW n \in Names, Step(n) PROVE Kept'
<1> USE ConstantsAssumption DEF store, history
<1>1. op \in [Names -> Operation] /\ op[n] \in Operation
  BY DEF TypeOK
<1>2. ASSUME NEW kind \in Kinds, NEW step \in {"authenticate", "set"},
             NEW d \in Data \cup {NoData}, Begin(n, kind, step, d)
      PROVE  Kept'
  <2>1. /\ op'[n].old = NoKey /\ op'[n].new = NoKey /\ op'[n].pc = step
        /\ \A m \in Names \ {n} : op'[m] = op[m]
    BY <1>1, <1>2 DEF Begin, Idle
  <2>2. op[n].pc = "idle" /\ op[n].old = NoKey /\ op[n].new = NoKey
    BY <1>2, IdleType DEF Begin
  <2> QED
    BY <1>2, <2>1, <2>2, KeptInMemory DEF Begin
<1>3. ASSUME NEW d \in Data, Save(n, d) PROVE Kept'
  BY <1>2, <1>3 DEF Save, Kinds
<1>4. ASSUME NEW d \in Data, Replace(n, d) PROVE Kept'
  BY <1>2, <1>3, <1>4 DEF Replace, Kinds
<1>5. ASSUME Remove(n) PROVE Kept'
  BY <1>2, <1>5 DEF Remove, Kinds
<1>6. ASSUME Return(n), UNCHANGED <<file, onDisk, keyring, reported, excused, acked>>,
             \A k \in {op[n].old, op[n].new} : k \in {NoKey, file[n].key}
      PROVE  Kept'
  <2>1. NoKey \notin keyring
    BY DEF TypeOK
  <2> QED
    BY <1>6, <2>1, KeptAtTheEnd
<1>7. ASSUME Authenticate(n) PROVE Kept'
  <2>1. /\ op[n].pc = "authenticate" /\ op[n].old = NoKey /\ op[n].new = NoKey
        /\ UNCHANGED <<file, onDisk, keyring, reported, excused, acked>>
    BY <1>7 DEF Authenticate, IInv, Beginning, Kept, Remembered
  <2>2. CASE op' = [op EXCEPT ![n].pc = "rename", ![n].new = file[n].key]
    <3>1. /\ op'[n].pc = "rename" /\ op'[n].new = file[n].key /\ op'[n].old = NoKey
          /\ \A m \in Names \ {n} : op'[m] = op[m]
      BY <1>1, <2>1, <2>2 DEF Operation
    <3>2. NoKey \notin keyring
      BY DEF TypeOK
    <3> QED
      BY <2>1, <3>1, <3>2, KeptInMemory
  <2>3. ASSUME NEW k \in {NoKey, file[n].key}, NEW step \in {"unlink", "set"},
               op' = [op EXCEPT ![n].old = k, ![n].pc = step]
        PROVE  Kept'
    <3>1. k \in KeyIds \cup {NoKey} /\ step \in Steps
      BY DEF TypeOK, Entry, Steps
    <3>2. /\ op'[n].pc = step /\ op'[n].new = op[n].new /\ op'[n].old = k
          /\ \A m \in Names \ {n} : op'[m] = op[m]
      BY <1>1, <2>3, <3>1 DEF Operation
    <3>3. op'[n].new = NoKey
      BY <2>1, <3>2
    <3>4. NoKey \notin keyring
      BY DEF TypeOK
    <3> QED
      BY <2>1, <3>2, <3>3, <3>4, KeptInMemory
  <2> QED
    BY <1>6, <1>7, <2>1, <2>2, <2>3 DEF Authenticate
<1>8. ASSUME SetKey(n) PROVE Kept'
  <2>1. op[n].pc = "set" /\ op[n].new = NoKey /\ op[n].old \in {NoKey, file[n].key}
    BY <1>8 DEF SetKey, Kept, Remembered
  <2>2. ASSUME NEW k \in KeyIds \ used, keyring' = keyring \cup {k},
               op' = [op EXCEPT ![n].pc = "verify", ![n].new = k, ![n].fresh = TRUE]
        PROVE  Kept'
    <3>1. /\ op'[n].pc = "verify" /\ op'[n].new = k /\ op'[n].old = op[n].old
          /\ \A m \in Names \ {n} : op'[m] = op[m]
      BY <1>1, <2>2 DEF Operation
    <3>2. \A m \in Names : \A e \in onDisk[m] : e.key # k
      BY DEF KeysUsed
    <3>3. UNCHANGED <<file, onDisk, reported, excused, acked>>
      BY <1>8 DEF SetKey
    <3>4. \A m \in Names : \A e \in onDisk[m] : e.key \in keyring' => e.key \in keyring
      BY <2>2, <3>2
    <3>5. NoKey \notin keyring'
      BY <2>2 DEF TypeOK
    <3>6. keyring' \subseteq keyring \cup {op'[n].new}
      BY <2>2, <3>1
    <3> QED
      BY <2>1, <3>1, <3>3, <3>4, <3>5, <3>6, KeptInMemory
  <2> QED
    BY <1>6, <1>8, <2>1, <2>2 DEF SetKey
<1>9. ASSUME NEW step \in {"rename", "cleanup"}, op[n].pc \in {"verify", "rename"},
             Goto(n, step), UNCHANGED <<store, used, reported, history>>
      PROVE  Kept'
  <2>1. /\ op'[n].pc = step /\ op'[n].old = op[n].old /\ op'[n].new = op[n].new
        /\ \A m \in Names \ {n} : op'[m] = op[m]
    BY <1>1, <1>9, GotoStep DEF Steps
  <2>2. op[n].old \in {NoKey, file[n].key}
    BY <1>9 DEF Kept, Remembered
  <2> QED
    BY <1>9, <2>1, <2>2, KeptInMemory
<1>10. ASSUME VerifyKey(n) PROVE Kept'
  BY <1>9, <1>10 DEF VerifyKey
<1>11. ASSUME Rename(n) PROVE Kept'
  <2>1. CASE Install(n, Sealed(n, op[n].new, op[n].data)) /\ Goto(n, "sync")
    BY <1>11, <2>1, KeptByInstall DEF Rename, Sealed
  <2>2. CASE ~op[n].fresh /\ Return(n) /\ UNCHANGED <<store, used, reported, history>>
    <3>1. op[n].new = file[n].key /\ op[n].old = NoKey
      BY <1>11, <2>2 DEF Rename, IInv, ReusedKey
    <3> QED
      BY <1>6, <2>2, <3>1
  <2>3. CASE Goto(n, "cleanup") /\ UNCHANGED <<store, used, reported, history>>
    BY <1>9, <1>11, <2>3 DEF Rename
  <2> QED
    BY <1>11, <2>1, <2>2, <2>3 DEF Rename, AfterUncommitted
<1>12. ASSUME Unlink(n) PROVE Kept'
  <2>1. op[n].pc = "unlink" /\ op[n].new = NoKey /\ op[n].old \in {NoKey, file[n].key}
    BY <1>12 DEF Unlink, Kept, Remembered
  <2>2. CASE Install(n, Absent(n)) /\ Goto(n, "sync")
    BY <2>1, <2>2, EntryTypes, KeptByInstall
  <2> QED
    BY <1>6, <1>12, <2>1, <2>2 DEF Unlink
<1>13. ASSUME SyncDirectory(n) PROVE Kept'
  <2>1. /\ op[n].pc = "sync" /\ op[n].new \in {NoKey, file[n].key}
        /\ UNCHANGED <<file, keyring, excused>> /\ NoKey \notin keyring
    BY <1>13 DEF SyncDirectory, Kept, Remembered, TypeOK
  <2>2. CASE NotSynced(n)
    <3>1. reported' = reported \cup ({op[n].old} \ {NoKey}) /\ Return(n)
          /\ UNCHANGED <<onDisk, acked>>
      BY <2>2 DEF NotSynced, Report
    <3> QED
      BY <2>1, <3>1, KeptAtTheEnd
  <2>3. CASE Synced(n)
    <3>1. /\ onDisk' = [onDisk EXCEPT ![n] = {file[n]}] /\ reported' = reported
          /\ \/ Return(n) /\ op[n].old = NoKey /\ acked' = [acked EXCEPT ![n] = file[n].data]
             \/ Goto(n, "retire") /\ acked' = acked
      BY <2>3 DEF Synced
    <3>2. /\ op'[n].old = op[n].old /\ op'[n].pc \in {"idle", "retire"}
          /\ op'[n].pc = "retire" => op'[n].new = op[n].new
          /\ op'[n].pc = "idle" => op'[n].old = NoKey /\ op'[n].new = NoKey
          /\ \A m \in Names \ {n} : op'[m] = op[m]
      BY <1>1, <3>1, GotoStep, ReturnStep, IdleType DEF Steps
    <3>3. \A m \in Names : /\ onDisk'[m] = IF m = n THEN {file[n]} ELSE onDisk[m]
                           /\ file[m] \in onDisk[m]
      BY <3>1 DEF TypeOK
    <3>4. Remembered' /\ Durable'
      BY <2>1, <3>2, <3>3 DEF Kept, Remembered, Durable
    <3>5. Superseded'
      BY <2>1, <3>1, <3>2, <3>3 DEF Kept, Superseded
    <3>6. AllAccounted'
      <4> SUFFICES ASSUME NEW k \in keyring PROVE Accounted(k)'
        BY <2>1 DEF AllAccounted
      <4>1. CASE k \in {file[n].key, op[n].old} \cup reported \cup excused
        BY <2>1, <3>1, <3>2, <3>3, <4>1 DEF Accounted
      <4>2. CASE k \notin {file[n].key, op[n].old} \cup reported \cup excused
        <5>1. \A e \in onDisk[n] : e.key # k
          BY <4>2 DEF Kept, Superseded
        <5>2. Accounted(k) /\ k \notin {op[n].old, op[n].new}
          BY <2>1, <4>2 DEF Kept, AllAccounted
        <5>3. \E m \in Names \ {n} : k \in {op[m].old, op[m].new} \/ \E e \in onDisk[m] : e.key = k
          BY <4>2, <5>1, <5>2 DEF Accounted
        <5> QED
          BY <3>2, <3>3, <5>3 DEF Accounted
      <4> QED
        BY <4>1, <4>2
    <3>7. AcknowledgedSurvives'
      BY <3>1, <3>3 DEF Kept, AcknowledgedSurvives, TypeOK
    <3> QED
      BY <3>4, <3>5, <3>6, <3>7 DEF Kept
  <2> QED
    BY <1>13, <2>2, <2>3 DEF SyncDirectory
<1>14. ASSUME RetireKey(n) PROVE Kept'
  <2>1. /\ op[n].pc = "retire" /\ op[n].new \in {NoKey, file[n].key} /\ NoKey \notin keyring
        /\ Return(n) /\ UNCHANGED <<file, onDisk, excused>>
    BY <1>14 DEF RetireKey, Kept, Remembered, TypeOK
  <2>2. \/ /\ keyring' = keyring \ {op[n].old} /\ reported' = reported
           /\ acked' = [acked EXCEPT ![n] = file[n].data]
        \/ /\ reported' = reported \cup ({op[n].old} \ {NoKey})
           /\ UNCHANGED <<keyring, acked>>
    BY <1>14 DEF RetireKey, Report
  <2> QED
    BY <2>1, <2>2, KeptAtTheEnd
<1>15. ASSUME CleanupNewKey(n) PROVE Kept'
  <2>1. /\ op[n].old \in {NoKey, file[n].key} /\ NoKey \notin keyring
        /\ Return(n) /\ UNCHANGED <<file, onDisk, excused, acked>>
    BY <1>15 DEF CleanupNewKey, Kept, Remembered, TypeOK
  <2>2. \/ keyring' = keyring \ {op[n].new} /\ reported' = reported
        \/ reported' = reported \cup ({op[n].new} \ {NoKey}) /\ keyring' = keyring
    BY <1>15 DEF CleanupNewKey, Report
  <2> QED
    BY <2>1, <2>2, KeptAtTheEnd
<1> QED
  BY <1>3, <1>4, <1>5, <1>7, <1>8, <1>10, <1>11, <1>12, <1>13, <1>14, <1>15 DEF Step

LEMMA KeptByEnvironment ==
  ASSUME TypeOK, KeysUsed, Kept, Environment PROVE Kept'
<1> USE DEF store
<1>1. ASSUME NEW k \in KeyIds, CleanupKey(k) PROVE Kept'
  <2>1. /\ keyring' = keyring \ {k} /\ reported' = reported \ {k}
        /\ UNCHANGED <<file, onDisk, op, excused, acked>>
    BY <1>1 DEF CleanupKey
  <2>2. Remembered' /\ Durable' /\ AcknowledgedSurvives'
    BY <2>1 DEF Kept, Remembered, Durable, AcknowledgedSurvives
  <2>3. Superseded' /\ AllAccounted'
    BY <2>1 DEF Kept, Superseded, AllAccounted, Accounted
  <2> QED
    BY <2>2, <2>3 DEF Kept
<1>2. ASSUME NEW n \in Names, Crash(n) PROVE Kept'
  <2>1. /\ excused' = excused \cup ({op[n].old, op[n].new} \ {NoKey})
        /\ Return(n) /\ UNCHANGED <<file, onDisk, keyring, reported, acked>>
    BY <1>2 DEF Crash, Held
  <2>2. NoKey \notin keyring
    BY ConstantsAssumption DEF TypeOK
  <2> QED
    BY <2>1, <2>2, KeptAtTheEnd
\* A further entry becomes the visible one, under the key of one that is, with
\* the content before or without an acknowledged one.
<1>3. ASSUME NEW n \in Names, NEW m \in Names, NEW e,
             file' = [file EXCEPT ![m] = e], onDisk' = [onDisk EXCEPT ![m] = @ \cup {e}],
             e.key = file[m].key \/ file[m].key = NoKey,
             UNCHANGED <<keyring, op, reported, excused>>,
             \/ e.key = file[m].key /\ e.data = file[m].data /\ acked' = acked
             \/ op[m].pc = "idle" /\ op[m].new = NoKey /\ acked' = [acked EXCEPT ![m] = Unknown]
      PROVE  Kept'
  <2>1. file[m] \in onDisk[m] /\ NoKey \notin keyring
    BY ConstantsAssumption DEF TypeOK
  <2>2. Remembered' /\ Durable'
    BY <1>3, <2>1 DEF Kept, Remembered, Durable, TypeOK
  <2>3. Superseded'
    BY <1>3, <2>1 DEF Kept, Superseded, TypeOK
  <2>4. AllAccounted'
    BY <1>3 DEF Kept, AllAccounted, Accounted, TypeOK
  <2>5. AcknowledgedSurvives'
    BY <1>3, <2>1 DEF Kept, AcknowledgedSurvives, TypeOK
  <2> QED
    BY <2>2, <2>3, <2>4, <2>5 DEF Kept
<1>4. ASSUME NEW n \in Names, Damage(n) PROVE Kept'
  <2> DEFINE e == [file[n] EXCEPT !.intact = FALSE]
  <2>1. file[n] \in Entry
    BY DEF TypeOK
  <2>2. e.key = file[n].key /\ e.data = file[n].data
    BY <2>1 DEF Entry
  <2>3. /\ file' = [file EXCEPT ![n] = e] /\ onDisk' = [onDisk EXCEPT ![n] = @ \cup {e}]
        /\ UNCHANGED <<keyring, op, reported, excused, acked>>
    BY <1>4 DEF Damage, TypeOK
  <2> HIDE DEF e
  <2> QED
    BY <1>3, <2>2, <2>3
<1>5. ASSUME NEW n \in Names, NEW m \in Names, CopyFile(n, m) PROVE Kept'
  <2>1. op[m].pc = "idle" /\ op[m].new = NoKey /\ file[m].key = NoKey
    BY <1>5, IdleType, EntryTypes DEF CopyFile
  <2>2. /\ file' = [file EXCEPT ![m] = file[n]]
        /\ onDisk' = [onDisk EXCEPT ![m] = @ \cup {file[n]}]
        /\ acked' = [acked EXCEPT ![m] = Unknown]
        /\ UNCHANGED <<keyring, op, reported, excused>>
    BY <1>5 DEF CopyFile
  <2> QED
    BY <1>3, <2>1, <2>2
<1>6. CASE PowerLoss
  <2>1. /\ \A n \in Names : /\ file'[n] \in onDisk[n] /\ onDisk'[n] = {file'[n]}
                            /\ op'[n].pc = "idle" /\ op'[n].new = NoKey
        /\ UNCHANGED <<keyring, reported, acked>>
    BY <1>6, IdleType DEF PowerLoss
  <2>2. \A n \in Names : Held(n) \cup KeysOf(onDisk[n]) \subseteq excused'
    BY <1>6 DEF PowerLoss
  <2>3. excused \subseteq excused' /\ NoKey \notin keyring
    BY <1>6, ConstantsAssumption DEF PowerLoss, TypeOK
  <2>4. Remembered' /\ Durable' /\ Superseded'
    BY <2>1 DEF Remembered, Durable, Superseded
  <2>5. AllAccounted'
    BY <2>1, <2>2, <2>3 DEF Kept, AllAccounted, Accounted, Held, KeysOf
  <2>6. AcknowledgedSurvives'
    BY <2>1 DEF Kept, AcknowledgedSurvives
  <2> QED
    BY <2>4, <2>5, <2>6 DEF Kept
<1> QED
  BY <1>1, <1>2, <1>4, <1>5, <1>6 DEF Environment

LEMMA KeptAlways == Spec => [](TypeOK /\ Kept)
<1>1. Kept /\ UNCHANGED vars => Kept'
  BY DEF vars, Kept, Remembered, Superseded, Durable, AllAccounted, Accounted,
         AcknowledgedSurvives
<1>2. TypeOK /\ KeysUsed /\ IInv /\ Kept /\ [Next]_vars => Kept'
  BY <1>1, KeptSteps, KeptByEnvironment DEF Next
<1> QED
  BY <1>2, InitialKept, TypeInvariance, KeySafety, PTL DEF Spec

(* No failure of a step, of the keyring or of the directory leaves a key   *)
(* in the keyring that no file uses and the user was not told of.          *)
THEOREM KeysAreAccountedFor == Spec => []NoSilentOrphan
<1>1. TypeOK /\ Kept => NoSilentOrphan
  BY NoOrphanIsAccounted DEF Kept
<1> QED
  BY <1>1, KeptAlways, PTL

(* What Save, Replace or Remove returned nil for is what any power loss    *)
(* leaves.                                                                 *)
THEOREM AcknowledgementsLast == Spec => []AcknowledgedSurvives
<1>1. Kept => AcknowledgedSurvives
  BY DEF Kept
<1> QED
  BY <1>1, KeptAlways, PTL
=============================================================================
