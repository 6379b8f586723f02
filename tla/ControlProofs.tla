----------------------------- MODULE ControlProofs -----------------------------
(***************************************************************************)
(* Proofs about what the control server keeps.  The device store, for      *)
(* every number of devices, sessions, threads and codes and with failing   *)
(* saves and crashes: what a revocation and a pairing promise across       *)
(* restarts, and the sessions' counts and holds.  The uploaded files, for  *)
(* every set of uploads and turns.                                         *)
(***************************************************************************)
EXTENDS DeviceStore, Uploads, FiniteSetTheorems, TLAPS

\* The steps of a handler or of the desktop that touch neither the device list,
\* nor a save, nor the file.
SessionStep ==
    \/ \E s \in Sessions :
          Authenticate(s) \/ AcceptFails(s) \/ Connect(s) \/ ReadFails(s)
          \/ ClearThreads(s) \/ Disconnect(s)
    \/ \E s \in Sessions, t \in Threads :
          CallForThread(s, t) \/ CallFailed(s, t) \/ CallSucceeded(s, t) \/ HoldThread(s, t)
    \/ (\E s \in Sessions : Lock(s)) \/ OthersLock \/ OthersUnlock
    \/ \E t \in Threads : ReleaseThread(t)
    \/ ClearAllThreads

LEMMA Cases ==
    ASSUME Next
    PROVE \/ \E id \in Ids : Open(id)
          \/ Crash \/ RemoveOld \/ Rename \/ SaveFailed
          \/ \E t \in Tokens : NewPairing(t)
          \/ PairingExpires
          \/ \E t \in Tokens, d \in Devices : Exchange(t, d)
          \/ \E d \in Devices : Revoke(d)
          \/ SessionStep
BY DEF Next, Finish, SessionStep

LEMMA SessionStepFrame ==
    SessionStep => UNCHANGED <<up, devices, server, pairing, save, file, history>>
BY DEF SessionStep, Authenticate, AcceptFails, Connect, ReadFails, ClearThreads, Disconnect,
   CallForThread, CallFailed, CallSucceeded, Lock, OthersLock,
               OthersUnlock, HoldThread, ReleaseThread, ClearAllThreads, HandlerFrame

-----------------------------------------------------------------------------
(* Types.  A device is in the list, the file or a list to be restored only if *)
(* it was paired; the program saves only while it runs, and has an identity. *)

Origins ==
    /\ savedDevices \subseteq paired /\ before \subseteq paired
    /\ saving = "no" => devices \subseteq paired
    /\ saving # "no" => up
    /\ up => server \in Ids

TypeInv == DeviceTypeOK /\ Origins

LEMMA TypeInit == Init => TypeInv
<1> SUFFICES ASSUME Init
             PROVE TypeInv
    OBVIOUS
<1>1. connections \in [Devices -> Nat] /\ threads \in [Devices -> SUBSET Threads]
    BY DEF Init
<1>2. /\ phase \in [Sessions -> Phases] /\ inflight \in [Sessions -> SUBSET Threads]
      /\ resumed \in [Sessions -> SUBSET Threads]
      /\ redeemed \in [Tokens -> SUBSET Devices]
    BY DEF Init, Phases
<1>3. identities \in SUBSET Ids
    BY DEF Init
<1> QED
    BY <1>1, <1>2, <1>3 DEF Init, TypeInv, DeviceTypeOK, Origins

LEMMA TypeStep == TypeInv /\ [Next]_vars => TypeInv'
<1> SUFFICES ASSUME TypeInv, [Next]_vars
             PROVE TypeInv'
    OBVIOUS
<1> USE DEF TypeInv
<1>1. ASSUME NEW id \in Ids, Open(id)
      PROVE  TypeInv'
    <2>1. saving' \in {"no", "init"} /\ before' \in {before, savedDevices} /\ server' \in Ids \cup {NoId}
        BY <1>1 DEF Open, DeviceTypeOK, Origins
    <2>4. server' \in Ids
        BY <1>1 DEF Open, DeviceTypeOK
    <2>2. saving' \in {"no", "init", "exchange", "revoke"} /\ before' \subseteq paired
        BY <1>1, <2>1 DEF Open, DeviceTypeOK, Origins
    <2> QED
        BY <1>1, <2>1, <2>2, <2>4 DEF Open, DeviceTypeOK, Origins, file, sessions, requests, history
<1>2. CASE Crash
    <2>1. /\ phase' \in [Sessions -> Phases] /\ inflight' \in [Sessions -> SUBSET Threads]
          /\ resumed' \in [Sessions -> SUBSET Threads]
        BY <1>2 DEF Crash, DeviceTypeOK, Phases
    <2>2. connections' \in [Devices -> Nat] /\ threads' \in [Devices -> SUBSET Threads]
        BY <1>2 DEF Crash, NoMemory
    <2> QED
        BY <1>2, <2>1, <2>2 DEF Crash, NoMemory, DeviceTypeOK, Origins, file, history
<1>3. CASE RemoveOld
    BY <1>3 DEF RemoveOld, DeviceTypeOK, Origins, memory, sessions, requests, history
<1>4. CASE Rename
    <2>1. connections' \in [Devices -> Nat] /\ threads' \in [Devices -> SUBSET Threads]
        BY <1>4 DEF Rename, DeviceTypeOK
    <2>2. paired' \in SUBSET Devices /\ revoked' \in SUBSET paired'
        BY <1>4 DEF Rename, DeviceTypeOK, Origins
    <2>3. identities' \in SUBSET Ids
        BY <1>4 DEF Rename, DeviceTypeOK, Origins
    <2>4. devices \subseteq paired'
        BY <1>4 DEF Rename, Origins
    <2> QED
        BY <1>4, <2>1, <2>2, <2>3, <2>4 DEF Rename, DeviceTypeOK, Origins, sessions, requests
<1>5. CASE SaveFailed
    <2>1. connections' \in [Devices -> Nat] /\ threads' \in [Devices -> SUBSET Threads]
        BY <1>5 DEF SaveFailed, NoMemory, DeviceTypeOK
    <2>2. devices' \in SUBSET Devices /\ devices' \subseteq paired
        BY <1>5 DEF SaveFailed, NoMemory, DeviceTypeOK, Origins
    <2>3. /\ up' \in BOOLEAN /\ server' \in Ids \cup {NoId} /\ pairing' \in Tokens \cup {NoToken}
        BY <1>5 DEF SaveFailed, NoMemory, DeviceTypeOK
    <2> QED
        BY <1>5, <2>1, <2>2, <2>3 DEF SaveFailed, DeviceTypeOK, Origins, file, sessions, requests, history
<1>6. CASE (\E t \in Tokens : NewPairing(t)) \/ PairingExpires
    BY <1>6 DEF NewPairing, PairingExpires, DeviceTypeOK, Origins, save, file, sessions, requests, history
<1>7. ASSUME NEW t \in Tokens, NEW d \in Devices, Exchange(t, d)
      PROVE  TypeInv'
    <2>1. redeemed' \in [Tokens -> SUBSET Devices]
        BY <1>7 DEF Exchange, DeviceTypeOK
    <2> QED
        BY <1>7, <2>1 DEF Exchange, Free, DeviceTypeOK, Origins, file, sessions, requests
<1>8. ASSUME NEW d \in Devices, Revoke(d)
      PROVE  TypeInv'
    BY <1>8 DEF Revoke, Free, DeviceTypeOK, Origins, file, sessions, requests, history
<1>9. CASE SessionStep
    <2>1. connections' \in [Devices -> Nat]
        BY <1>9, DeviceOfAssumption
           DEF SessionStep, Authenticate, AcceptFails, Connect, ReadFails, ClearThreads,
               Disconnect, CallForThread, CallFailed, CallSucceeded, Lock, OthersLock,
               OthersUnlock, HoldThread, ReleaseThread,
               ClearAllThreads, DeviceTypeOK
    <2>2. threads' \in [Devices -> SUBSET Threads]
        BY <1>9, DeviceOfAssumption
           DEF SessionStep, Authenticate, AcceptFails, Connect, ReadFails, ClearThreads,
               Disconnect, CallForThread, CallFailed, CallSucceeded, Lock, OthersLock,
               OthersUnlock, HoldThread, ReleaseThread,
               ClearAllThreads, DeviceTypeOK
    <2>3. phase' \in [Sessions -> Phases]
        BY <1>9
           DEF SessionStep, Authenticate, AcceptFails, Connect, ReadFails, ClearThreads,
               Disconnect, CallForThread, CallFailed, CallSucceeded, Lock, OthersLock,
               OthersUnlock, HoldThread, ReleaseThread,
               ClearAllThreads, PhaseTo, Phases, DeviceTypeOK, sessions, requests
    <2>4. /\ inflight' \in [Sessions -> SUBSET Threads]
          /\ resumed' \in [Sessions -> SUBSET Threads]
        BY <1>9
           DEF SessionStep, Authenticate, AcceptFails, Connect, ReadFails, ClearThreads,
               Disconnect, CallForThread, CallFailed, CallSucceeded, Lock, OthersLock,
               OthersUnlock, HoldThread, ReleaseThread,
               ClearAllThreads, DeviceTypeOK, sessions, requests
    <2>5. operationMu' \in Sessions \cup {NoCaller, OtherCaller}
        BY <1>9
           DEF SessionStep, Authenticate, AcceptFails, Connect, ReadFails, ClearThreads,
               Disconnect, CallForThread, CallFailed, CallSucceeded, Lock, OthersLock,
               OthersUnlock, HoldThread, ReleaseThread, ClearAllThreads, DeviceTypeOK,
               sessions, requests
    <2> QED
        BY <1>9, <2>1, <2>2, <2>3, <2>4, <2>5, SessionStepFrame
           DEF DeviceTypeOK, Origins, save, file, history
<1>10. CASE UNCHANGED vars
    BY <1>10 DEF DeviceTypeOK, Origins, vars, memory, save, file, sessions, requests, history
<1> QED
    BY <1>1, <1>2, <1>3, <1>4, <1>5, <1>6, <1>7, <1>8, <1>9, <1>10, Cases

\* The store, its file and the sessions keep their types.
THEOREM TypeCorrect == Spec => []DeviceTypeOK
<1>1. Init => TypeInv
    BY TypeInit
<1>2. TypeInv /\ [Next]_vars => TypeInv'
    BY TypeStep
<1>3. TypeInv => DeviceTypeOK
    BY DEF TypeInv
<1> QED
    BY <1>1, <1>2, <1>3, PTL DEF Spec

-----------------------------------------------------------------------------
(* Revocation.  A list that a failed save restores holds no revoked device    *)
(* either, and what is being added was never paired.                         *)

RevokedInv == revoked \cap (devices \cup savedDevices \cup before) = {}

LEMMA RevokedStep == TypeInv /\ RevokedInv /\ [Next]_vars => RevokedInv'
<1> SUFFICES ASSUME TypeInv, RevokedInv, [Next]_vars
             PROVE RevokedInv'
    OBVIOUS
<1> USE DEF RevokedInv
<1>1. ASSUME NEW id \in Ids, Open(id)
      PROVE  RevokedInv'
    BY <1>1 DEF Open, file, history
<1>2. CASE Crash
    BY <1>2 DEF Crash, NoMemory, file, history
<1>3. CASE RemoveOld
    BY <1>3 DEF RemoveOld, memory, history
<1>4. CASE Rename
    BY <1>4 DEF Rename
<1>5. CASE SaveFailed
    BY <1>5 DEF SaveFailed, NoMemory, file, history
<1>6. CASE (\E t \in Tokens : NewPairing(t)) \/ PairingExpires
    BY <1>6 DEF NewPairing, PairingExpires, save, file, history
<1>7. ASSUME NEW t \in Tokens, NEW d \in Devices, Exchange(t, d)
      PROVE  RevokedInv'
    <2>1. d \notin revoked
        BY <1>7 DEF Exchange, TypeInv, DeviceTypeOK
    <2> QED
        BY <1>7, <2>1 DEF Exchange, file
<1>8. ASSUME NEW d \in Devices, Revoke(d)
      PROVE  RevokedInv'
    BY <1>8 DEF Revoke, file, history
<1>9. CASE SessionStep
    BY <1>9, SessionStepFrame DEF save, file, history
<1>10. CASE UNCHANGED vars
    BY <1>10 DEF vars, memory, save, file, history
<1> QED
    BY <1>1, <1>2, <1>3, <1>4, <1>5, <1>6, <1>7, <1>8, <1>9, <1>10, Cases

\* A revocation that has succeeded is for good, whatever fails, crashes and is
\* restarted afterwards, also where a save removes the old file first.
THEOREM RevocationIsFinal == Spec => []RevokedStaysOut
<1>1. Init => TypeInv /\ RevokedInv
    BY TypeInit DEF Init, RevokedInv
<1>2. (TypeInv /\ RevokedInv) /\ [Next]_vars => (TypeInv /\ RevokedInv)'
    BY TypeStep, RevokedStep
<1>3. TypeInv /\ RevokedInv => RevokedStaysOut
    BY DEF RevokedInv, RevokedStaysOut
<1> QED
    BY <1>1, <1>2, <1>3, PTL DEF Spec

-----------------------------------------------------------------------------
(* Pairing and the identity, as long as no save has ended after it had removed *)
(* the old file.  The file, unless the save at work has just removed it, and   *)
(* the list a failed save would restore hold every device that is paired and   *)
(* not revoked: a crash loses none.  The file has the one identity that was    *)
(* ever saved.                                                                 *)

KeptInv ==
    /\ removed => saving # "no"
    /\ saving \in {"init", "exchange"} => before \subseteq devices
    /\ ~lost =>
          /\ ~removed => paired \ revoked \subseteq savedDevices
          /\ Free => paired \ revoked \subseteq devices
          /\ saving # "no" => paired \ revoked \subseteq before

LEMMA KeptStep == TypeInv /\ KeptInv /\ [Next]_vars => KeptInv'
<1> SUFFICES ASSUME TypeInv, KeptInv, [Next]_vars
             PROVE KeptInv'
    OBVIOUS
<1> USE DEF KeptInv, Free
<1>1. ASSUME NEW id \in Ids, Open(id)
      PROVE  KeptInv'
    <2>1. saving = "no"
        BY <1>1 DEF Open, TypeInv, Origins
    <2> QED
        BY <1>1, <2>1 DEF Open, file, history
<1>2. CASE Crash
    BY <1>2 DEF Crash, file, history
<1>3. CASE RemoveOld
    BY <1>3 DEF RemoveOld, memory, history
<1>4. CASE Rename
    <2>1. ~lost => paired' \ revoked' \subseteq devices
        BY <1>4 DEF Rename
    <2> QED
        BY <1>4, <2>1 DEF Rename
<1>5. CASE SaveFailed
    <2>1. /\ saving' = "no" /\ removed' = FALSE /\ lost' = (lost \/ removed)
          /\ UNCHANGED <<file, paired, revoked>>
        BY <1>5 DEF SaveFailed
    <2>2. up' => devices' = before
        BY <1>5 DEF SaveFailed
    <2>3. saving # "no"
        BY <1>5 DEF SaveFailed
    <2> QED
        BY <2>1, <2>2, <2>3 DEF file
<1>6. CASE (\E t \in Tokens : NewPairing(t)) \/ PairingExpires
    BY <1>6 DEF NewPairing, PairingExpires, save, file, history
<1>7. ASSUME NEW t \in Tokens, NEW d \in Devices, Exchange(t, d)
      PROVE  KeptInv'
    BY <1>7 DEF Exchange, file
<1>8. ASSUME NEW d \in Devices, Revoke(d)
      PROVE  KeptInv'
    BY <1>8 DEF Revoke, file, history
<1>9. CASE SessionStep
    BY <1>9, SessionStepFrame DEF save, file, history
<1>10. CASE UNCHANGED vars
    BY <1>10 DEF vars, memory, save, file, history
<1> QED
    BY <1>1, <1>2, <1>3, <1>4, <1>5, <1>6, <1>7, <1>8, <1>9, <1>10, Cases

\* A paired phone is known until it is revoked, through crashes and failed saves,
\* unless one of them came between the removal of the old file and the rename.
THEOREM PairingIsKept == Spec => []PairedStaysKnown
<1>1. Init => TypeInv /\ KeptInv
    BY TypeInit DEF Init, KeptInv, Free
<1>2. (TypeInv /\ KeptInv) /\ [Next]_vars => (TypeInv /\ KeptInv)'
    BY TypeStep, KeptStep
<1>3. TypeInv /\ KeptInv => PairedStaysKnown
    BY DEF KeptInv, PairedStaysKnown, ReconnectWithoutPairing
<1> QED
    BY <1>1, <1>2, <1>3, PTL DEF Spec

IdentityInv == ~lost =>
    /\ ~removed => identities = {savedServer} \ {NoId}
    /\ up /\ saving # "init" => identities = {server}
    /\ saving = "init" => identities = {}

LEMMA IdentityStep == TypeInv /\ KeptInv /\ IdentityInv /\ [Next]_vars => IdentityInv'
<1> SUFFICES ASSUME TypeInv, KeptInv, IdentityInv, [Next]_vars
             PROVE IdentityInv'
    OBVIOUS
<1> USE DEF IdentityInv
<1>1. ASSUME NEW id \in Ids, Open(id)
      PROVE  IdentityInv'
    <2>1. saving = "no" /\ ~removed
        BY <1>1 DEF Open, TypeInv, Origins, KeptInv
    <2> QED
        BY <1>1, <2>1 DEF Open, file, history
<1>2. CASE Crash
    BY <1>2 DEF Crash, file, history
<1>3. CASE RemoveOld
    BY <1>3 DEF RemoveOld, memory, history
<1>4. CASE Rename
    <2>1. server \in Ids /\ server # NoId
        BY <1>4, NoneAssumption DEF Rename, TypeInv, Origins
    <2>2. ~lost => identities \subseteq {server}
        BY <1>4 DEF Rename, TypeInv, Origins
    <2> QED
        BY <1>4, <2>1, <2>2 DEF Rename
<1>5. CASE SaveFailed
    BY <1>5 DEF SaveFailed, NoMemory, file, history
<1>6. CASE (\E t \in Tokens : NewPairing(t)) \/ PairingExpires
    BY <1>6 DEF NewPairing, PairingExpires, save, file, history
<1>7. ASSUME NEW t \in Tokens, NEW d \in Devices, Exchange(t, d)
      PROVE  IdentityInv'
    BY <1>7 DEF Exchange, Free, file
<1>8. ASSUME NEW d \in Devices, Revoke(d)
      PROVE  IdentityInv'
    BY <1>8 DEF Revoke, Free, file, history
<1>9. CASE SessionStep
    BY <1>9, SessionStepFrame DEF save, file, history
<1>10. CASE UNCHANGED vars
    BY <1>10 DEF vars, memory, save, file, history
<1> QED
    BY <1>1, <1>2, <1>3, <1>4, <1>5, <1>6, <1>7, <1>8, <1>9, <1>10, Cases

\* With the same exception the server has one identity for all time.
THEOREM IdentityIsKept == Spec => []OneIdentity
<1>1. Init => TypeInv /\ KeptInv /\ IdentityInv
    BY TypeInit DEF Init, KeptInv, IdentityInv, Free
<1>2. (TypeInv /\ KeptInv /\ IdentityInv) /\ [Next]_vars => (TypeInv /\ KeptInv /\ IdentityInv)'
    BY TypeStep, KeptStep, IdentityStep
<1>3. TypeInv /\ KeptInv /\ IdentityInv => OneIdentity
    <2> SUFFICES ASSUME TypeInv, KeptInv, IdentityInv, ~lost
                 PROVE Cardinality(identities) <= 1
        BY DEF OneIdentity
    <2>1. \E id : identities \subseteq {id}
        <3>1. CASE ~removed
            BY <3>1 DEF IdentityInv
        <3>2. CASE removed
            <4>1. saving # "no" /\ up
                BY <3>2 DEF KeptInv, TypeInv, Origins
            <4> QED
                BY <4>1 DEF IdentityInv
        <3> QED
            BY <3>1, <3>2
    <2>2. PICK id : identities \subseteq {id}
        BY <2>1
    <2>3. IsFiniteSet({id}) /\ Cardinality({id}) = 1
        BY FS_Singleton
    <2> QED
        BY <2>2, <2>3, FS_Subset, FS_EmptySet
<1> QED
    BY <1>1, <1>2, <1>3, PTL DEF Spec

-----------------------------------------------------------------------------
(* Saves are atomic.  What a restart would know, the file or else the list that *)
(* the save at work had begun with, moves from one whole list to the next.      *)

Registry == IF removed THEN before ELSE savedDevices

\* However many steps a save takes, and wherever a crash or an error cuts it off, what
\* the store is known to hold changes by one finished pairing or one finished revocation
\* at a time, with the exception that PairedStaysKnown makes for Windows.
RegistryMovesByOne ==
    [][~lost' => \/ Registry' = Registry
                 \/ \E d \in paired' : Registry' = Registry \cup {d}
                 \/ \E d \in revoked' : Registry' = Registry \ {d}]_vars

\* What a save writes differs from what it began with by one device, and it began with
\* what the file holds.
SaveInv ==
    /\ removed => saving # "no"
    /\ saving = "init" => devices = before
    /\ saving = "exchange" => \E d \in Devices : devices = before \cup {d}
    /\ saving = "revoke" => \E d \in Devices : devices = before \ {d}
    /\ ~lost =>
          /\ saving # "no" /\ ~removed => before = savedDevices
          /\ Free => devices = savedDevices

LEMMA SaveStep == TypeInv /\ SaveInv /\ [Next]_vars => SaveInv'
<1> SUFFICES ASSUME TypeInv, SaveInv, [Next]_vars
             PROVE SaveInv'
    OBVIOUS
<1> USE DEF SaveInv, Free
<1>1. ASSUME NEW id \in Ids, Open(id)
      PROVE  SaveInv'
    <2>1. saving = "no"
        BY <1>1 DEF Open, TypeInv, Origins
    <2> QED
        BY <1>1, <2>1 DEF Open, file, history
<1>2. CASE Crash
    BY <1>2 DEF Crash, file, history
<1>3. CASE RemoveOld
    BY <1>3 DEF RemoveOld, memory, history
<1>4. CASE Rename
    BY <1>4 DEF Rename
<1>5. CASE SaveFailed
    <2>1. /\ saving' = "no" /\ removed' = FALSE /\ lost' = (lost \/ removed)
          /\ UNCHANGED savedDevices
        BY <1>5 DEF SaveFailed, file
    <2>2. up' => devices' = before
        BY <1>5 DEF SaveFailed
    <2>3. saving # "no"
        BY <1>5 DEF SaveFailed
    <2> QED
        BY <2>1, <2>2, <2>3
<1>6. CASE (\E t \in Tokens : NewPairing(t)) \/ PairingExpires
    BY <1>6 DEF NewPairing, PairingExpires, save, file, history
<1>7. ASSUME NEW t \in Tokens, NEW d \in Devices, Exchange(t, d)
      PROVE  SaveInv'
    BY <1>7 DEF Exchange, file
<1>8. ASSUME NEW d \in Devices, Revoke(d)
      PROVE  SaveInv'
    BY <1>8 DEF Revoke, file, history
<1>9. CASE SessionStep
    BY <1>9, SessionStepFrame DEF save, file, history
<1>10. CASE UNCHANGED vars
    BY <1>10 DEF vars, memory, save, file, history
<1> QED
    BY <1>1, <1>2, <1>3, <1>4, <1>5, <1>6, <1>7, <1>8, <1>9, <1>10, Cases

LEMMA RegistryStep ==
    ASSUME TypeInv, SaveInv, [Next]_vars, ~lost'
    PROVE  \/ Registry' = Registry
           \/ \E d \in paired' : Registry' = Registry \cup {d}
           \/ \E d \in revoked' : Registry' = Registry \ {d}
<1> USE DEF Registry
<1>1. CASE \E id \in Ids : Open(id)
    <2>1. saving = "no"
        BY <1>1 DEF Open, TypeInv, Origins
    <2> QED
        BY <1>1, <2>1 DEF Open, SaveInv, file
<1>2. CASE Crash \/ SaveFailed
    <2>1. ~removed /\ ~removed' /\ UNCHANGED savedDevices
        BY <1>2 DEF Crash, SaveFailed, file
    <2> QED
        BY <2>1
<1>3. CASE RemoveOld
    <2>1. ~lost /\ before' = before /\ before = savedDevices /\ ~removed /\ removed'
        BY <1>3 DEF RemoveOld, history, SaveInv
    <2> QED
        BY <2>1
<1>4. CASE Rename
    <2>1. ~lost /\ Registry = before /\ Registry' = devices
        BY <1>4 DEF Rename, SaveInv
    <2>2. saving \in {"init", "exchange", "revoke"}
        BY <1>4 DEF Rename, TypeInv, DeviceTypeOK
    <2>3. CASE saving = "init"
        BY <2>1, <2>3 DEF SaveInv
    <2>4. CASE saving = "exchange"
        <3>1. PICK d \in Devices : devices = before \cup {d}
            BY <2>4 DEF SaveInv
        <3>2. d \in before \/ d \in paired'
            BY <1>4, <3>1 DEF Rename
        <3> QED
            BY <2>1, <3>1, <3>2
    <2>5. CASE saving = "revoke"
        <3>1. PICK d \in Devices : devices = before \ {d}
            BY <2>5 DEF SaveInv
        <3>2. d \notin before \/ d \in revoked'
            BY <1>4, <3>1 DEF Rename
        <3> QED
            BY <2>1, <3>1, <3>2
    <2> QED
        BY <2>2, <2>3, <2>4, <2>5
<1>5. ASSUME NEW d \in Devices, (\E t \in Tokens : Exchange(t, d)) \/ Revoke(d)
      PROVE  Registry' = Registry
    <2>1. saving = "no" /\ UNCHANGED <<removed, savedDevices>>
        BY <1>5 DEF Exchange, Revoke, Free, file
    <2> QED
        BY <2>1 DEF SaveInv
<1>6. CASE \/ SessionStep \/ PairingExpires \/ UNCHANGED vars
           \/ \E t \in Tokens : NewPairing(t)
    <2>1. UNCHANGED <<save, file>>
        BY <1>6, SessionStepFrame DEF PairingExpires, NewPairing, vars
    <2> QED
        BY <2>1 DEF save, file
<1> QED
    BY <1>1, <1>2, <1>3, <1>4, <1>5, <1>6, Cases

\* A save that is cut off leaves the list of before or that of after, never a third: the
\* temporary file and the rename of saveLocked, and the undoing of a failed operation.
THEOREM SavesAreAtomic == Spec => RegistryMovesByOne
<1>1. Init => TypeInv /\ SaveInv
    BY TypeInit DEF Init, SaveInv, Free
<1>2. (TypeInv /\ SaveInv) /\ [Next]_vars => (TypeInv /\ SaveInv)'
    BY TypeStep, SaveStep
<1>3. (TypeInv /\ SaveInv) /\ [Next]_vars
        => [~lost' => \/ Registry' = Registry
                      \/ \E d \in paired' : Registry' = Registry \cup {d}
                      \/ \E d \in revoked' : Registry' = Registry \ {d}]_vars
    BY RegistryStep
<1> QED
    BY <1>1, <1>2, <1>3, PTL DEF Spec, RegistryMovesByOne

-----------------------------------------------------------------------------
(* Codes.  The code in force has paired nobody yet.                           *)

CodeInv ==
    /\ pairing # NoToken => redeemed[pairing] = {}
    /\ \A t \in Tokens : redeemed[t] = {} \/ \E d \in Devices : redeemed[t] = {d}

LEMMA CodeStep == TypeInv /\ CodeInv /\ [Next]_vars => CodeInv'
<1> SUFFICES ASSUME TypeInv, CodeInv, [Next]_vars
             PROVE CodeInv'
    OBVIOUS
<1> USE DEF CodeInv
<1>1. CASE Crash \/ SaveFailed \/ PairingExpires
    <2>1. redeemed' = redeemed /\ pairing' \in {pairing, NoToken}
        BY <1>1 DEF Crash, SaveFailed, PairingExpires, NoMemory, history
    <2> QED
        BY <2>1
<1>2. CASE (\E id \in Ids : Open(id)) \/ RemoveOld \/ Rename \/ (\E d \in Devices : Revoke(d))
           \/ SessionStep \/ UNCHANGED vars
    <2>1. redeemed' = redeemed /\ pairing' = pairing
        BY <1>2, SessionStepFrame
           DEF Open, RemoveOld, Rename, Revoke, memory, history, vars
    <2> QED
        BY <2>1
<1>3. ASSUME NEW t \in Tokens, NewPairing(t)
      PROVE  CodeInv'
    BY <1>3 DEF NewPairing, history
<1>4. ASSUME NEW t \in Tokens, NEW d \in Devices, Exchange(t, d)
      PROVE  CodeInv'
    <2>1. redeemed' = [redeemed EXCEPT ![t] = {d}] /\ pairing' = NoToken
        BY <1>4 DEF Exchange
    <2>2. redeemed \in [Tokens -> SUBSET Devices]
        BY DEF TypeInv, DeviceTypeOK
    <2> QED
        BY <2>1, <2>2
<1> QED
    BY <1>1, <1>2, <1>3, <1>4, Cases

\* A pairing code pairs one device at most, however many phones present it and
\* whichever saves fail.
THEOREM CodesPairOnce == Spec => []OneDevicePerCode
<1>1. Init => TypeInv /\ CodeInv
    BY TypeInit DEF Init, CodeInv
<1>2. (TypeInv /\ CodeInv) /\ [Next]_vars => (TypeInv /\ CodeInv)'
    BY TypeStep, CodeStep
<1>3. TypeInv /\ CodeInv => OneDevicePerCode
    <2> SUFFICES ASSUME CodeInv, NEW t \in Tokens
                 PROVE Cardinality(redeemed[t]) <= 1
        BY DEF OneDevicePerCode
    <2>1. CASE redeemed[t] = {}
        BY <2>1, FS_EmptySet
    <2>2. CASE \E d \in Devices : redeemed[t] = {d}
        <3>1. PICK d \in Devices : redeemed[t] = {d}
            BY <2>2
        <3>2. Cardinality({d}) = 1
            BY FS_Singleton
        <3> QED
            BY <3>1, <3>2
    <2> QED
        BY <2>1, <2>2 DEF CodeInv
<1> QED
    BY <1>1, <1>2, <1>3, PTL DEF Spec

-----------------------------------------------------------------------------
(* Sessions.  None is live while the program is down or still opening its      *)
(* store, and only a session that has still to clear its threads has a call in *)
(* flight.                                                                    *)

IdleInv == ~up \/ saving = "init" => \A s \in Sessions : phase[s] \in {"away", "gone"}

CallsInv ==
    \A s \in Sessions :
        /\ inflight[s] # {} => phase[s] \in {"open", "closing"}
        /\ resumed[s] \subseteq inflight[s]

LEMMA IdleStep == TypeInv /\ IdleInv /\ [Next]_vars => IdleInv'
<1> SUFFICES ASSUME TypeInv, IdleInv, [Next]_vars
             PROVE IdleInv'
    OBVIOUS
<1> USE DEF IdleInv
<1>1. CASE Crash
    BY <1>1 DEF Crash
<1>2. ASSUME NEW id \in Ids, Open(id)
      PROVE  IdleInv'
    BY <1>2 DEF Open, sessions, requests
<1>3. CASE SaveFailed
    BY <1>3 DEF SaveFailed, sessions, requests
<1>4. CASE RemoveOld \/ Rename \/ (\E t \in Tokens : NewPairing(t)) \/ PairingExpires
           \/ (\E t \in Tokens, d \in Devices : Exchange(t, d))
           \/ (\E d \in Devices : Revoke(d)) \/ UNCHANGED vars
    <2>1. UNCHANGED <<up, phase>> /\ (saving' = "init" => saving = "init")
        BY <1>4 DEF RemoveOld, Rename, NewPairing, PairingExpires, Exchange, Revoke, vars,
           save, sessions, requests
    <2> QED
        BY <2>1
<1>5. CASE SessionStep
    <2>1. UNCHANGED <<up, saving>>
        BY <1>5, SessionStepFrame DEF save
    <2>2. CASE up /\ saving # "init"
        BY <2>1, <2>2
    <2>3. CASE ~up \/ saving = "init"
        <3>1. UNCHANGED phase
            BY <1>5, <2>3 DEF SessionStep, Authenticate, AcceptFails, Connect, ReadFails,
               ClearThreads, Disconnect, CallForThread, CallFailed, CallSucceeded, Lock,
               OthersLock, OthersUnlock, HoldThread, ReleaseThread, ClearAllThreads, Free,
               sessions, requests
        <3> QED
            BY <2>1, <3>1
    <2> QED
        BY <2>2, <2>3
<1> QED
    BY <1>1, <1>2, <1>3, <1>4, <1>5, Cases

HoldsInv == CallsInv /\ HoldsEndWithSessions

LEMMA HoldsStep == TypeInv /\ HoldsInv /\ [Next]_vars => HoldsInv'
<1> SUFFICES ASSUME TypeInv, HoldsInv, [Next]_vars
             PROVE HoldsInv'
    OBVIOUS
<1> USE DEF HoldsInv, CallsInv, HoldsEndWithSessions
<1>1. CASE Crash
    <2>1. \A d \in Devices : threads'[d] = {}
        BY <1>1 DEF Crash, NoMemory
    <2>2. \A s \in Sessions : inflight'[s] = {} /\ resumed'[s] = {}
        BY <1>1 DEF Crash
    <2> QED
        BY <2>1, <2>2
<1>2. CASE (\E id \in Ids : Open(id)) \/ RemoveOld \/ Rename \/ SaveFailed
           \/ (\E t \in Tokens : NewPairing(t)) \/ PairingExpires
           \/ (\E t \in Tokens, d \in Devices : Exchange(t, d))
           \/ (\E d \in Devices : Revoke(d)) \/ UNCHANGED vars
    <2>1. UNCHANGED <<phase, inflight, resumed>>
        BY <1>2 DEF Open, RemoveOld, Rename, SaveFailed, NewPairing, PairingExpires, Exchange,
           Revoke, vars, sessions, requests
    <2>2. \A d \in Devices : threads'[d] # {} => threads[d] # {}
        BY <1>2 DEF Open, RemoveOld, Rename, SaveFailed, NewPairing, PairingExpires, Exchange,
           Revoke, NoMemory, vars, memory
    <2> QED
        BY <2>1, <2>2
<1>3. ASSUME NEW s \in Sessions, Authenticate(s) \/ AcceptFails(s) \/ Connect(s) \/ Disconnect(s)
      PROVE  HoldsInv'
    <2>1. UNCHANGED <<threads, inflight, resumed>> /\ phase[s] \notin {"open", "closing"}
        BY <1>3 DEF Authenticate, AcceptFails, Connect, Disconnect, requests
    <2>2. \A r \in Sessions : r # s => phase'[r] = phase[r]
        BY <1>3 DEF Authenticate, AcceptFails, Connect, Disconnect, PhaseTo, TypeInv, DeviceTypeOK
    <2> QED
        BY <2>1, <2>2
<1>4. ASSUME NEW s \in Sessions, ReadFails(s)
      PROVE  HoldsInv'
    <2>1. phase'[s] = "closing" /\ \A r \in Sessions : r # s => phase'[r] = phase[r]
        BY <1>4 DEF ReadFails, PhaseTo, TypeInv, DeviceTypeOK
    <2> QED
        BY <1>4, <2>1 DEF ReadFails, requests
<1>5. ASSUME NEW s \in Sessions, ClearThreads(s)
      PROVE  HoldsInv'
    <2>1. \A r \in Sessions : r # s => phase'[r] = phase[r]
        BY <1>5 DEF ClearThreads, PhaseTo, TypeInv, DeviceTypeOK
    <2>2. /\ threads'[DeviceOf[s]] = {}
          /\ \A d \in Devices : d # DeviceOf[s] => threads'[d] = threads[d]
        BY <1>5, DeviceOfAssumption DEF ClearThreads, TypeInv, DeviceTypeOK
    <2>3. UNCHANGED <<inflight, resumed>> /\ inflight[s] = {}
        BY <1>5 DEF ClearThreads, requests
    <2> QED
        BY <2>1, <2>2, <2>3
<1>6. ASSUME NEW s \in Sessions, NEW t \in Threads,
             CallForThread(s, t) \/ CallFailed(s, t) \/ CallSucceeded(s, t)
      PROVE  HoldsInv'
    <2>1. UNCHANGED <<threads, phase>> /\ phase[s] \in {"open", "closing"}
        BY <1>6 DEF CallForThread, CallFailed, CallSucceeded
    <2>2. \A r \in Sessions : r # s => UNCHANGED <<inflight[r], resumed[r]>>
        BY <1>6 DEF CallForThread, CallFailed, CallSucceeded, TypeInv, DeviceTypeOK
    <2>3. resumed'[s] \subseteq inflight'[s]
        BY <1>6 DEF CallForThread, CallFailed, CallSucceeded, TypeInv, DeviceTypeOK
    <2> QED
        BY <2>1, <2>2, <2>3
<1>7. ASSUME NEW s \in Sessions, NEW t \in Threads, HoldThread(s, t)
      PROVE  HoldsInv'
    <2>1. UNCHANGED phase /\ phase[s] \in {"open", "closing"}
        BY <1>7 DEF HoldThread
    <2>2. \A r \in Sessions : r # s => UNCHANGED <<inflight[r], resumed[r]>>
        BY <1>7 DEF HoldThread, TypeInv, DeviceTypeOK
    <2>3. \A d \in Devices : d # DeviceOf[s] => threads'[d] = threads[d]
        BY <1>7 DEF HoldThread, TypeInv, DeviceTypeOK
    <2>4. resumed'[s] \subseteq inflight'[s]
        BY <1>7 DEF HoldThread, TypeInv, DeviceTypeOK
    <2> QED
        BY <2>1, <2>2, <2>3, <2>4
<1>9. CASE (\E s \in Sessions : Lock(s)) \/ OthersLock \/ OthersUnlock
    BY <1>9 DEF Lock, OthersLock, OthersUnlock
<1>8. CASE (\E t \in Threads : ReleaseThread(t)) \/ ClearAllThreads
    <2>1. UNCHANGED <<phase, inflight, resumed>>
        BY <1>8 DEF ReleaseThread, ClearAllThreads, sessions, requests
    <2>2. \A d \in Devices : threads'[d] # {} => threads[d] # {}
        BY <1>8 DEF ReleaseThread, ClearAllThreads
    <2> QED
        BY <2>1, <2>2
<1> QED
    BY <1>1, <1>2, <1>3, <1>4, <1>5, <1>6, <1>7, <1>8, <1>9, Cases DEF SessionStep

\* A device holds threads only while one of its sessions has still to give them
\* back: a late answer to a request of a closed connection leaves none behind.
THEOREM HoldsEnd == Spec => []HoldsEndWithSessions
<1>1. Init => TypeInv /\ HoldsInv
    <2>1. Init => TypeInv
        BY TypeInit
    <2>2. Init => HoldsInv
        BY DEF Init, HoldsInv, CallsInv, HoldsEndWithSessions
    <2> QED
        BY <2>1, <2>2
<1>2. (TypeInv /\ HoldsInv) /\ [Next]_vars => (TypeInv /\ HoldsInv)'
    BY TypeStep, HoldsStep
<1>3. TypeInv /\ HoldsInv => HoldsEndWithSessions
    BY DEF HoldsInv
<1> QED
    BY <1>1, <1>2, <1>3, PTL DEF Spec

\* What a session's own steps do to the number of counted sessions of a device.
LEMMA CountedFinite ==
    ASSUME NEW d \in Devices
    PROVE IsFiniteSet(Counted(d)) /\ Cardinality(Counted(d)) \in Nat
<1>1. Counted(d) \in SUBSET Sessions
    BY DEF Counted
<1> QED
    BY <1>1, SessionsFinite, FS_Subset, FS_CardinalityType

CountInv == ConnectionsCounted /\ IdleInv

LEMMA CountStep == TypeInv /\ CountInv /\ [Next]_vars => CountInv'
<1> SUFFICES ASSUME TypeInv, CountInv, [Next]_vars
             PROVE ConnectionsCounted'
    BY IdleStep DEF CountInv
<1> DEFINE In == {"open", "closing", "cleared"}
<1>0. ASSUME UNCHANGED <<connections, revoked>>,
             \A s \in Sessions : phase'[s] \in In <=> phase[s] \in In
      PROVE  ConnectionsCounted'
    <2>1. \A d \in Devices : Counted(d)' = Counted(d)
        BY <1>0 DEF Counted
    <2> QED
        BY <1>0, <2>1 DEF CountInv, ConnectionsCounted
<1>1. CASE Crash \/ (SaveFailed /\ saving = "init")
    <2>1. \A s \in Sessions : phase'[s] \in {"away", "gone"}
        BY <1>1 DEF Crash, SaveFailed, sessions, requests, CountInv, IdleInv
    <2>2. \A d \in Devices : Counted(d)' = {} /\ connections'[d] = 0
        BY <1>1, <2>1 DEF Crash, SaveFailed, NoMemory, Counted
    <2> QED
        BY <2>2, FS_EmptySet DEF ConnectionsCounted
<1>2. CASE (\E id \in Ids : Open(id)) \/ RemoveOld \/ (SaveFailed /\ saving # "init")
           \/ (\E t \in Tokens : NewPairing(t)) \/ PairingExpires
           \/ (\E t \in Tokens, d \in Devices : Exchange(t, d))
           \/ (\E d \in Devices : Revoke(d)) \/ UNCHANGED vars
    <2>1. UNCHANGED <<connections, revoked, phase>>
        BY <1>2 DEF Open, RemoveOld, SaveFailed, NewPairing, PairingExpires, Exchange, Revoke,
           vars, memory, sessions, requests, history
    <2> QED
        BY <1>0, <2>1
<1>3. CASE Rename
    <2>1. /\ phase' = phase /\ revoked \subseteq revoked'
          /\ \A d \in Devices : connections'[d] =
                IF d \in before \ devices THEN 0 ELSE connections[d]
          /\ before \ devices \subseteq revoked'
        BY <1>3 DEF Rename, sessions, requests
    <2>2. \A d \in Devices : Counted(d)' = Counted(d)
        BY <2>1 DEF Counted
    <2> QED
        BY <2>1, <2>2, CountedFinite DEF CountInv, ConnectionsCounted
<1>4. ASSUME NEW s \in Sessions, Connect(s)
      PROVE  ConnectionsCounted'
    <2>1. /\ \A r \in Sessions : r # s => phase'[r] = phase[r]
          /\ phase[s] = "authenticated" /\ phase'[s] = "open"
          /\ revoked' = revoked
        BY <1>4 DEF Connect, PhaseTo, HandlerFrame, history, TypeInv, DeviceTypeOK
    <2>2. \A d \in Devices : connections'[d] =
             IF d = DeviceOf[s] THEN connections[d] + 1 ELSE connections[d]
        BY <1>4 DEF Connect, TypeInv, DeviceTypeOK
    <2> SUFFICES ASSUME NEW d \in Devices
                 PROVE /\ connections'[d] <= Cardinality(Counted(d)')
                       /\ d \notin revoked' => connections'[d] = Cardinality(Counted(d)')
        BY DEF ConnectionsCounted
    <2>3. /\ connections[d] <= Cardinality(Counted(d))
          /\ d \notin revoked => connections[d] = Cardinality(Counted(d))
          /\ connections[d] \in Nat
        BY DEF CountInv, ConnectionsCounted, TypeInv, DeviceTypeOK
    <2>4. CASE d = DeviceOf[s]
        <3>1. Counted(d)' = Counted(d) \cup {s} /\ s \notin Counted(d)
            BY <2>1, <2>4 DEF Counted
        <3>2. Cardinality(Counted(d)') = Cardinality(Counted(d)) + 1
            BY <3>1, CountedFinite, FS_AddElement
        <3> QED
            BY <2>1, <2>2, <2>3, <2>4, <3>2, CountedFinite
    <2>5. CASE d # DeviceOf[s]
        <3>1. Counted(d)' = Counted(d)
            BY <2>1, <2>5 DEF Counted
        <3> QED
            BY <2>1, <2>2, <2>3, <2>5, <3>1
    <2> QED
        BY <2>4, <2>5
<1>5. ASSUME NEW s \in Sessions, Disconnect(s)
      PROVE  ConnectionsCounted'
    <2>1. /\ \A r \in Sessions : r # s => phase'[r] = phase[r]
          /\ phase[s] = "cleared" /\ phase'[s] = "gone"
          /\ revoked' = revoked
        BY <1>5 DEF Disconnect, PhaseTo, HandlerFrame, history, TypeInv, DeviceTypeOK
    <2>2. \A d \in Devices : connections'[d] =
             IF d = DeviceOf[s]
             THEN IF connections[d] <= 1 THEN 0 ELSE connections[d] - 1
             ELSE connections[d]
        BY <1>5 DEF Disconnect, TypeInv, DeviceTypeOK
    <2> SUFFICES ASSUME NEW d \in Devices
                 PROVE /\ connections'[d] <= Cardinality(Counted(d)')
                       /\ d \notin revoked' => connections'[d] = Cardinality(Counted(d)')
        BY DEF ConnectionsCounted
    <2>3. /\ connections[d] <= Cardinality(Counted(d))
          /\ d \notin revoked => connections[d] = Cardinality(Counted(d))
          /\ connections[d] \in Nat
        BY DEF CountInv, ConnectionsCounted, TypeInv, DeviceTypeOK
    <2>4. CASE d = DeviceOf[s]
        <3>1. Counted(d)' = Counted(d) \ {s} /\ s \in Counted(d)
            BY <2>1, <2>4 DEF Counted
        <3>2. Cardinality(Counted(d)') = Cardinality(Counted(d)) - 1
            BY <3>1, CountedFinite, FS_RemoveElement
        <3>3. Cardinality(Counted(d)) > 0
            BY <3>1, CountedFinite, FS_EmptySet
        <3> QED
            BY <2>1, <2>2, <2>3, <2>4, <3>2, <3>3, CountedFinite
    <2>5. CASE d # DeviceOf[s]
        <3>1. Counted(d)' = Counted(d)
            BY <2>1, <2>5 DEF Counted
        <3> QED
            BY <2>1, <2>2, <2>3, <2>5, <3>1
    <2> QED
        BY <2>4, <2>5
<1>6. ASSUME NEW s \in Sessions,
             Authenticate(s) \/ AcceptFails(s) \/ ReadFails(s) \/ ClearThreads(s)
      PROVE  ConnectionsCounted'
    <2>1. UNCHANGED <<connections, revoked>>
        BY <1>6 DEF Authenticate, AcceptFails, ReadFails, ClearThreads, HandlerFrame, history
    <2>2. phase'[s] \in In <=> phase[s] \in In
        BY <1>6 DEF Authenticate, AcceptFails, ReadFails, ClearThreads, PhaseTo, TypeInv,
           DeviceTypeOK
    <2>3. \A r \in Sessions : r # s => phase'[r] = phase[r]
        BY <1>6 DEF Authenticate, AcceptFails, ReadFails, ClearThreads, PhaseTo, TypeInv,
           DeviceTypeOK
    <2> QED
        BY <1>0, <2>1, <2>2, <2>3
<1>7. CASE (\E s \in Sessions, t \in Threads :
              CallForThread(s, t) \/ CallFailed(s, t) \/ CallSucceeded(s, t) \/ HoldThread(s, t))
           \/ (\E s \in Sessions : Lock(s)) \/ OthersLock \/ OthersUnlock
           \/ (\E t \in Threads : ReleaseThread(t)) \/ ClearAllThreads
    <2>1. UNCHANGED <<connections, revoked, phase>>
        BY <1>7 DEF CallForThread, CallFailed, CallSucceeded, Lock, OthersLock,
               OthersUnlock, HoldThread, ReleaseThread, ClearAllThreads,
           HandlerFrame, history, sessions, requests
    <2> QED
        BY <1>0, <2>1
<1> QED
    BY <1>1, <1>2, <1>3, <1>4, <1>5, <1>6, <1>7, Cases DEF SessionStep

\* A device's count is the number of its live sessions, and never more than that
\* once a revocation has deleted its entry under them.
THEOREM CountsAreRight == Spec => []ConnectionsCounted
<1>1. Init => TypeInv /\ CountInv
    <2> SUFFICES ASSUME Init
                 PROVE CountInv
        BY TypeInit
    <2>1. \A d \in Devices : Counted(d) = {} /\ connections[d] = 0
        BY DEF Init, Counted
    <2>2. Cardinality({}) = 0
        BY FS_EmptySet
    <2>3. ConnectionsCounted
        BY <2>1, <2>2 DEF ConnectionsCounted
    <2>4. IdleInv
        BY DEF Init, IdleInv
    <2> QED
        BY <2>3, <2>4 DEF CountInv
<1>2. (TypeInv /\ CountInv) /\ [Next]_vars => (TypeInv /\ CountInv)'
    BY TypeStep, CountStep
<1>3. TypeInv /\ CountInv => ConnectionsCounted
    BY DEF CountInv
<1> QED
    BY <1>1, <1>2, <1>3, PTL DEF Spec

-----------------------------------------------------------------------------
(* The uploaded files *)

\* A file is on the disk while it is written, and then while it is registered: until the clean-up,
\* which removes it; once the server has stopped, what can still be registered is an
\* upload that it did not wait for.
FilesInv ==
    /\ \A u \in Uploads :
          /\ u \in temp <=> upload[u] \in {"writing", "whole"} \/ u \in uploads \cup undeleted
          /\ u \in uploads \cup cleaned <=> upload[u] \in {"kept", "answered"}
          /\ u \in undeleted => upload[u] = "failed" \/ u \in cleaned
          /\ u \in uploads => u \notin cleaned
    /\ httpServer \in {"stopped", "closed"} => Serving \subseteq late
    /\ httpServer = "closed" => uploads \subseteq late

\* A turn names uploads that were answered, and fails only on one that is gone.
TurnsInv ==
    /\ \A t \in Turns : \A u \in files[t] : upload[u] = "answered"
    /\ LostOnlyToCleanup

UploadsInv == UploadsTypeOK /\ FilesInv /\ TurnsInv

LEMMA UploadsInitially == UploadsInit => UploadsInv
  BY DEF UploadsInit, UploadsInv, UploadsTypeOK, FilesInv, TurnsInv, LostOnlyToCleanup, Serving

LEMMA UploadsStep == UploadsInv /\ [UploadsNext]_uploadsVars => UploadsInv'
<1> SUFFICES ASSUME UploadsInv, [UploadsNext]_uploadsVars PROVE UploadsInv'
  OBVIOUS
<1> USE DEF UploadsInv, UploadsTypeOK
<1>1. ASSUME NEW u \in Uploads, UploadStep(u) PROVE UploadsInv'
  <2> USE DEF UploadStep, Receive, Refuse, CreateTemp, SaveFails, SaveUpload, Register, Answer,
              Remove
  <2>1. UNCHANGED <<turn, names, files, httpServer, cleaned, late>>
    BY <1>1 DEF outcome
  <2>2. /\ upload' \in [Uploads -> {"idle", "received", "writing", "whole", "kept", "answered",
                                    "failed"}]
        /\ temp' \subseteq Uploads /\ undeleted' \subseteq Uploads
    <3>1. CASE SaveFails(u)
      BY <3>1
    <3>2. CASE ~SaveFails(u)
      BY <1>1, <3>2 DEF outcome
    <3> QED
      BY <3>1, <3>2
  <2>3. \A v \in Uploads : v # u => /\ upload'[v] = upload[v] /\ (v \in temp' <=> v \in temp)
                                    /\ (v \in uploads' <=> v \in uploads)
                                    /\ (v \in undeleted' <=> v \in undeleted)
    BY <1>1 DEF outcome
  <2>4. upload[u] \notin {"answered", "failed"}
    BY <1>1
  <2>5. /\ u \in temp' <=> upload'[u] \in {"writing", "whole"} \/ u \in uploads' \cup undeleted'
        /\ u \in uploads' \cup cleaned <=> upload'[u] \in {"kept", "answered"}
        /\ u \in undeleted' => upload'[u] = "failed" \/ u \in cleaned
        /\ u \in uploads' => u \notin cleaned
    <3>1. CASE SaveFails(u)
      BY <3>1 DEF FilesInv
    <3>2. CASE Register(u)
      BY <3>2 DEF FilesInv, outcome
    <3>3. CASE ~SaveFails(u) /\ ~Register(u)
      BY <1>1, <3>3 DEF FilesInv, outcome
    <3> QED
      BY <3>1, <3>2, <3>3
  <2>6. httpServer \in {"stopped", "closed"} => Serving' \subseteq Serving
    BY <1>1 DEF Serving
  <2>7. uploads' \subseteq uploads \cup Serving
    BY <1>1 DEF Serving
  <2>8. FilesInv'
    BY <2>1, <2>3, <2>5, <2>6, <2>7 DEF FilesInv
  <2>9. TurnsInv'
    BY <2>1, <2>3, <2>4 DEF TurnsInv, LostOnlyToCleanup
  <2>10. uploads' \subseteq temp'
    <3>1. uploads' \subseteq Uploads
      BY <1>1
    <3> QED
      BY <2>8, <3>1 DEF FilesInv
  <2> QED
    BY <2>1, <2>2, <2>8, <2>9, <2>10
<1>2. ASSUME NEW t \in Turns, TurnStep(t) PROVE UploadsInv'
  <2>1. UNCHANGED <<upload, temp, uploads, httpServer, cleaned, late, undeleted>>
    BY <1>2 DEF TurnStep, SendTurn, LookUp, CallCodex, CodexReads, outcome
  <2>2. UploadsTypeOK'
    BY <1>2, <2>1 DEF TurnStep, SendTurn, LookUp, CallCodex, CodexReads
  <2>3. \A s \in Turns : s # t => turn'[s] = turn[s] /\ files'[s] = files[s]
    BY <1>2 DEF TurnStep, SendTurn, LookUp, CallCodex, CodexReads
  <2>4. \A u \in files'[t] : upload[u] = "answered"
    BY <1>2 DEF TurnStep, SendTurn, LookUp, CallCodex, CodexReads, TurnsInv
  <2>5. turn'[t] \in {"refused", "unread"} => files'[t] \cap cleaned # {}
    <3>1. CASE SendTurn(t) \/ CallCodex(t)
      BY <3>1 DEF SendTurn, CallCodex
    <3>2. CASE LookUp(t)
      BY <3>2 DEF LookUp, TurnsInv, FilesInv
    <3>3. CASE CodexReads(t)
      BY <3>3 DEF CodexReads, TurnsInv, FilesInv
    <3> QED
      BY <1>2, <3>1, <3>2, <3>3 DEF TurnStep
  <2>6. FilesInv'
    BY <2>1 DEF FilesInv, Serving
  <2>7. TurnsInv'
    BY <2>1, <2>3, <2>4, <2>5 DEF TurnsInv, LostOnlyToCleanup
  <2> QED
    BY <2>2, <2>6, <2>7
<1>3. CASE Close \/ Drained
  BY <1>3 DEF Close, Drained, FilesInv, TurnsInv, LostOnlyToCleanup, Serving, outcome
<1>4. CASE CleanupUploads
  <2> USE DEF CleanupUploads, Remove
  <2>1. FilesInv'
    BY <1>4 DEF FilesInv, Serving
  <2>2. TurnsInv'
    BY <1>4 DEF TurnsInv, LostOnlyToCleanup
  <2> QED
    BY <1>4, <2>1, <2>2
<1>5. CASE UNCHANGED uploadsVars
  BY <1>5 DEF uploadsVars, outcome, FilesInv, TurnsInv, LostOnlyToCleanup, Serving
<1> QED
  BY <1>1, <1>2, <1>3, <1>4, <1>5 DEF UploadsNext

LEMMA UploadsInvariance == UploadsSpec => []UploadsInv
<1> QED
  BY UploadsInitially, UploadsStep, PTL DEF UploadsSpec

\* The state of the uploads has its type: a registered file is on the disk.
THEOREM UploadsTypeCorrect == UploadsSpec => []UploadsTypeOK
<1>1. UploadsInv => UploadsTypeOK
  BY DEF UploadsInv
<1> QED
  BY <1>1, UploadsInvariance, PTL

\* saveUpload, uploadHandler, Close and cleanupUploads between them leave no file of
\* an upload that the closing server waited for, whatever failed and in whatever order,
\* unless the system would not remove it.
THEOREM UploadsAreCleanedUp == UploadsSpec => []NoLeftovers
<1>1. UploadsInv => NoLeftovers
  BY DEF UploadsInv, UploadsTypeOK, FilesInv, NoLeftovers, Serving
<1> QED
  BY <1>1, UploadsInvariance, PTL

\* A turn is refused by userInput, or finds a file gone, only when cleanupUploads has
\* removed a file it names: the answer to an upload comes after its registration, and a
\* failed upload removes no file but its own.
THEOREM UploadsAreKept == UploadsSpec => []LostOnlyToCleanup
<1>1. UploadsInv => LostOnlyToCleanup
  BY DEF UploadsInv, TurnsInv
<1> QED
  BY <1>1, UploadsInvariance, PTL

=============================================================================
