------------------------- MODULE MigrateConfigProofs -------------------------
(***************************************************************************)
(* Any number of programs may migrate any number of legacy directories at  *)
(* the same time, and be killed and started again anywhere: no file is     *)
(* lost, no newer version gives way to an older one, and none is used      *)
(* before all of them are in place.                                        *)
(*                                                                         *)
(* NothingLost is not inductive.  That a program overwrites or removes a   *)
(* file only when it may follows from what it has seen before: the invar-  *)
(* iant says of each program in the middle of a directory what it has seen *)
(* and that this still holds, whatever the others did since.               *)
(***************************************************************************)
EXTENDS MigrateConfig, TLAPS, WellFoundedInduction

Legacy == 1..LegacyDirs

\* The directories a program has passed are gone for good.
PassedInv ==
    \A p \in Programs : pc[p] \notin {"idle", "failed"} =>
        \A i \in Legacy : i < dir[p] => i \notin exists

\* A program has come to the end only by passing all of them, and merges file by
\* file only into a directory that is there.
PlaceInv ==
    \A p \in Programs :
        /\ pc[p] = "done" => dir[p] = LegacyDirs + 1
        /\ pc[p] \in {"read", "merge", "move", "remove"} => Current \in exists

\* An entry that is moved still has no counterpart, or somebody else has moved it;
\* one that was passed over, or moved, has one.
MergeInv ==
    \A p \in Programs :
        /\ pc[p] = "move" => \/ disk[Current][Entry(p)] = Missing
                             \/ disk[dir[p]][Entry(p)] = Missing
        /\ pc[p] \in {"merge", "move", "remove"} =>
              \A f \in Files : disk[dir[p]][f] # Missing /\ (pc[p] = "remove" \/ f \notin todo[p])
                                  => disk[Current][f] # Missing

\* The first directory with a file has the version that the user must not lose.
First(i, f) == disk[i][f] # Missing /\ \A j \in Dirs : j < i => disk[j][f] = Missing

ViewInv ==
    \A f \in Files :
        \/ wanted[f] = Missing /\ \A i \in Dirs : disk[i][f] = Missing
        \/ wanted[f] # Missing /\ \E i \in Dirs : First(i, f) /\ disk[i][f] = wanted[f]

IInv == TypeOK /\ PassedInv /\ PlaceInv /\ MergeInv /\ ViewInv

-----------------------------------------------------------------------------
(* Directories are numbered, so that of any of them one is the first.         *)

Before == {ss \in Nat \X Nat : ss[1] < ss[2]}

LEMMA Least ==
    ASSUME NEW T \in SUBSET Nat, T # {}
    PROVE  \E i \in T : \A j \in T : ~ (j < i)
<1> DEFINE R == Before
<1>1. IsWellFoundedOn(R, Nat)
    BY NatLessThanWellFounded DEF Before, OpToRel
<1>2. \A i \in Nat, j \in Nat : <<j, i>> \in R <=> j < i
    BY DEF Before
<1> HIDE DEF R
<1>3. \E i \in T : \A j \in T : <<j, i>> \notin R
    BY <1>1, WFMin
<1> QED
    BY <1>2, <1>3

LEMMA SomeFirst ==
    ASSUME NEW f \in Files, NEW k \in Dirs, disk[k][f] # Missing
    PROVE  \E i \in Dirs : First(i, f)
<1> DEFINE T == {i \in Dirs : disk[i][f] # Missing}
<1>1. T \in SUBSET Nat /\ T # {}
    BY LegacyAssumption DEF Dirs
<1>2. \E i \in T : \A j \in T : ~ (j < i)
    BY <1>1, Least
<1> QED
    BY <1>2 DEF First

LEMMA FirstIsChosen ==
    ASSUME NEW f \in Files, NEW i \in Dirs, First(i, f)
    PROVE  View(disk)[f] = disk[i][f]
<1> DEFINE c == CHOOSE k \in Dirs : disk[k][f] # Missing /\ \A j \in Dirs : j < k => disk[j][f] = Missing
<1>1. c \in Dirs /\ disk[c][f] # Missing /\ \A j \in Dirs : j < c => disk[j][f] = Missing
    BY DEF First
<1> HIDE DEF c
<1>2. c = i
    BY <1>1, LegacyAssumption DEF First, Dirs
<1>3. View(disk)[f] = disk[c][f]
    BY DEF View, First, c
<1> QED
    BY <1>2, <1>3

-----------------------------------------------------------------------------
(* The initial states                                                         *)

LEMMA InitInv == Init => IInv
<1> SUFFICES ASSUME Init PROVE IInv
    OBVIOUS
<1> USE LegacyAssumption
<1>1. /\ disk \in [Dirs -> [Files -> Dirs \cup {Missing}]] /\ exists \subseteq Dirs
      /\ \A i \in Dirs, f \in Files : disk[i][f] = Missing \/ (disk[i][f] = i /\ i \in exists)
    BY DEF Init
<1>2. ViewInv
  <2> SUFFICES ASSUME NEW f \in Files
               PROVE  \/ wanted[f] = Missing /\ \A i \in Dirs : disk[i][f] = Missing
                      \/ wanted[f] # Missing /\ \E i \in Dirs : First(i, f) /\ disk[i][f] = wanted[f]
      BY DEF ViewInv
  <2>1. CASE \A i \in Dirs : disk[i][f] = Missing
      BY <2>1 DEF Init, View
  <2>2. ASSUME NEW k \in Dirs, disk[k][f] # Missing
        PROVE  \E i \in Dirs : First(i, f) /\ disk[i][f] = wanted[f]
    <3>1. PICK i \in Dirs : First(i, f)
        BY <2>2, SomeFirst
    <3> QED
        BY <3>1, FirstIsChosen DEF Init
  <2> QED
      BY <2>1, <2>2 DEF First
<1>3. disk \in [Dirs -> [Files -> Dirs \cup {New, Missing}]]
    BY <1>1
<1>4. \A i \in Dirs \ exists : disk[i] = NoFile
    BY <1>1 DEF NoFile
<1>5. wanted \in [Files -> Dirs \cup {New, Missing}]
  <2>1. ASSUME NEW f \in Files PROVE wanted[f] \in Dirs \cup {New, Missing}
      BY <2>1, <1>2, <1>3 DEF ViewInv
  <2>2. wanted = [f \in Files |-> wanted[f]]
      BY DEF Init, View
  <2> QED
      BY <2>1, <2>2
<1>6. TypeOK
    BY <1>1, <1>3, <1>4, <1>5 DEF Init, TypeOK
<1>7. PassedInv /\ PlaceInv /\ MergeInv
    BY DEF Init, PassedInv, PlaceInv, MergeInv
<1> QED
    BY <1>2, <1>6, <1>7 DEF IInv

-----------------------------------------------------------------------------
(* Types                                                                      *)

LEMMA EntryIn ==
    ASSUME NEW p \in Programs, todo[p] # {}
    PROVE  Entry(p) \in todo[p]
    BY DEF Entry

Step(p) == Migrate(p) \/ Save(p) \/ End(p)

\* The part of TypeOK that is about the programs.
ControlOK ==
    /\ pc \in [Programs -> {"idle", "stat", "statNew", "rename", "read", "merge",
                            "move", "remove", "done", "failed"}]
    /\ dir \in [Programs -> 1..LegacyDirs + 1]
    /\ todo \in [Programs -> SUBSET Files]
    /\ \A p \in Programs :
          /\ pc[p] \in {"statNew", "rename", "read", "merge", "move", "remove"} => dir[p] \in 1..LegacyDirs
          /\ pc[p] = "move" => todo[p] # {}

LEMMA ControlStep ==
    ASSUME ControlOK, NEW p \in Programs, Step(p)
    PROVE  ControlOK'
<1> USE LegacyAssumption DEF ControlOK, Goes, NextDir, Fails
<1>1. CASE StartProgram(p)
    BY <1>1 DEF StartProgram
<1>2. CASE StatOld(p)
  <2>1. CASE dir[p] > LegacyDirs
      BY <1>2, <2>1 DEF StatOld
  <2>2. CASE ~ (dir[p] > LegacyDirs) /\ dir[p] \in exists
      BY <1>2, <2>2 DEF StatOld
  <2>3. CASE ~ (dir[p] > LegacyDirs) /\ dir[p] \notin exists
      BY <1>2, <2>3 DEF StatOld
  <2> QED
      BY <2>1, <2>2, <2>3
<1>3. CASE StatNew(p)
    BY <1>3 DEF StatNew
<1>4. CASE RenameDir(p)
  <2>1. dir[p] \in 1..LegacyDirs /\ UNCHANGED todo
      BY <1>4 DEF RenameDir
  <2>2. CASE dir' = [dir EXCEPT ![p] = @ + 1] /\ pc' = [pc EXCEPT ![p] = "stat"]
      BY <2>1, <2>2
  <2>3. CASE UNCHANGED dir /\ pc' = [pc EXCEPT ![p] = "failed"]
      BY <2>1, <2>3
  <2> QED
      BY <1>4, <2>2, <2>3 DEF RenameDir
<1>5. CASE ReadDir(p)
    BY <1>5 DEF ReadDir
<1>6. CASE StatEntry(p)
    BY <1>6 DEF StatEntry
<1>7. CASE MoveEntry(p)
    BY <1>7 DEF MoveEntry
<1>8. CASE Merged(p)
    BY <1>8 DEF Merged
<1>9. CASE RemoveEntry(p)
    BY <1>9 DEF RemoveEntry
<1>10. CASE RemoveDir(p)
  <2>1. dir[p] \in 1..LegacyDirs
      BY <1>10 DEF RemoveDir
  <2> QED
      BY <1>10, <2>1 DEF RemoveDir
<1>11. CASE Save(p)
    BY <1>11 DEF Save
<1>12. CASE End(p)
    BY <1>12 DEF End
<1> QED
    BY <1>1, <1>2, <1>3, <1>4, <1>5, <1>6, <1>7, <1>8, <1>9, <1>10, <1>11, <1>12
       DEF Step, Migrate

\* What a step does to the directories, if anything: they are renamed, a file is
\* moved, removed or saved, or a directory that is empty goes.
Renames(p) ==
    /\ pc[p] = "rename" /\ Current \notin exists /\ dir[p] \in exists
    /\ exists' = (exists \ {dir[p]}) \cup {Current}
    /\ disk' = [disk EXCEPT ![Current] = disk[dir[p]], ![dir[p]] = NoFile]

Moves(p) ==
    /\ pc[p] = "move" /\ disk[dir[p]][Entry(p)] # Missing
    /\ disk' = [disk EXCEPT ![Current][Entry(p)] = disk[dir[p]][Entry(p)],
                            ![dir[p]][Entry(p)] = Missing]
    /\ UNCHANGED exists

LEMMA DiskCases ==
    ASSUME NEW p \in Programs, Step(p)
    PROVE  \/ UNCHANGED <<exists, disk, wanted>>
           \/ Renames(p) /\ UNCHANGED wanted
           \/ Moves(p) /\ UNCHANGED wanted
           \/ RemoveEntry(p) \/ RemoveDir(p) \/ Save(p)
    BY DEF Step, Migrate, StartProgram, StatOld, StatNew, RenameDir, ReadDir, StatEntry, MoveEntry,
           Merged, End, Fails, fs, Renames, Moves

LEMMA DiskStep ==
    ASSUME IInv, NEW p \in Programs, Step(p)
    PROVE  /\ exists' \subseteq Dirs
           /\ disk' \in [Dirs -> [Files -> Dirs \cup {New, Missing}]]
           /\ \A i \in Dirs \ exists' : disk'[i] = NoFile
           /\ wanted' \in [Files -> Dirs \cup {New, Missing}]
<1> USE LegacyAssumption DEF Current, Dirs
<1>1. CASE UNCHANGED <<exists, disk, wanted>>
    BY <1>1 DEF IInv, TypeOK
<1>2. CASE Renames(p) /\ UNCHANGED wanted
  <2>1. dir[p] \in 1..LegacyDirs
      BY <1>2 DEF Renames, IInv, TypeOK
  <2>2. NoFile \in [Files -> Dirs \cup {New, Missing}]
      BY DEF NoFile
  <2>3. disk[dir[p]] \in [Files -> Dirs \cup {New, Missing}]
      BY <2>1 DEF IInv, TypeOK
  <2>4. disk' \in [Dirs -> [Files -> Dirs \cup {New, Missing}]]
      BY <1>2, <2>2, <2>3 DEF Renames, IInv, TypeOK
  <2>5. disk'[dir[p]] = NoFile /\ \A i \in Dirs : i \notin {Current, dir[p]} => disk'[i] = disk[i]
      BY <1>2, <2>1 DEF Renames, IInv, TypeOK
  <2>6. exists' \subseteq Dirs /\ \A i \in Dirs \ exists' : disk'[i] = NoFile
    <3>1. exists' \subseteq Dirs
      <4>1. exists \subseteq Dirs /\ Current \in Dirs
          BY DEF IInv, TypeOK
      <4> QED
          BY <1>2, <4>1 DEF Renames
    <3>2. ASSUME NEW i \in Dirs \ exists' PROVE disk'[i] = NoFile
      <4>1. i # Current /\ (i = dir[p] \/ i \in Dirs \ exists)
          BY <1>2, <3>2 DEF Renames
      <4> QED
          BY <2>5, <4>1 DEF IInv, TypeOK
    <3> QED
        BY <3>1, <3>2
  <2> QED
      BY <1>2, <2>4, <2>6 DEF IInv, TypeOK
<1>3. CASE Moves(p) /\ UNCHANGED wanted
  <2>1. dir[p] \in 1..LegacyDirs /\ Entry(p) \in Files /\ Current \in exists
      BY <1>3, EntryIn DEF Moves, IInv, TypeOK, PlaceInv
  <2>2. dir[p] \in exists
      BY <1>3, <2>1 DEF Moves, IInv, TypeOK, NoFile
  <2>3. disk' \in [Dirs -> [Files -> Dirs \cup {New, Missing}]]
    <3> DEFINE Contents == [Files -> Dirs \cup {New, Missing}]
               moved == [disk[Current] EXCEPT ![Entry(p)] = disk[dir[p]][Entry(p)]]
               left == [disk[dir[p]] EXCEPT ![Entry(p)] = Missing]
    <3>1. moved \in Contents /\ left \in Contents
        BY <2>1 DEF IInv, TypeOK
    <3>2. disk' = [disk EXCEPT ![Current] = moved, ![dir[p]] = left]
        BY <1>3, <2>1 DEF Moves, IInv, TypeOK
    <3> QED
        BY <3>1, <3>2 DEF IInv, TypeOK
  <2>4. \A i \in Dirs : i \notin {Current, dir[p]} => disk'[i] = disk[i]
      BY <1>3, <2>1 DEF Moves, IInv, TypeOK
  <2> QED
      BY <1>3, <2>1, <2>2, <2>3, <2>4 DEF Moves, IInv, TypeOK
<1>4. CASE RemoveEntry(p)
    BY <1>4 DEF RemoveEntry, IInv, TypeOK, NoFile
<1>5. CASE RemoveDir(p)
    BY <1>5 DEF RemoveDir, IInv, TypeOK
<1>6. CASE Save(p)
    BY <1>6 DEF Save, IInv, TypeOK, NoFile
<1> QED
    BY <1>1, <1>2, <1>3, <1>4, <1>5, <1>6, DiskCases

LEMMA TypeStep ==
    ASSUME IInv, NEW p \in Programs, Step(p)
    PROVE  TypeOK'
<1>1. ControlOK
    BY DEF IInv, TypeOK, ControlOK
<1> QED
    BY <1>1, ControlStep, DiskStep DEF TypeOK, ControlOK

-----------------------------------------------------------------------------
(* What no step does, whoever takes it                                        *)

\* Legacy directories and their files only go, the current directory stays, and a
\* file that is in it stays, in one version or another.
LEMMA Monotone ==
    ASSUME IInv, NEW p \in Programs, Step(p)
    PROVE  /\ \A i \in Legacy : i \in exists' => i \in exists
           /\ \A i \in Legacy, f \in Files : disk'[i][f] # Missing => disk[i][f] # Missing
           /\ \A f \in Files : disk[Current][f] # Missing => disk'[Current][f] # Missing
           /\ Current \in exists => Current \in exists'
<1> USE LegacyAssumption DEF Dirs, Current, Legacy
<1>1. CASE UNCHANGED <<exists, disk, wanted>>
    BY <1>1
<1>2. CASE Renames(p)
    BY <1>2 DEF Renames, IInv, TypeOK, NoFile
<1>3. CASE Moves(p)
    BY <1>3, EntryIn DEF Moves, IInv, TypeOK
<1>4. CASE RemoveEntry(p)
    BY <1>4 DEF RemoveEntry, IInv, TypeOK
<1>5. CASE RemoveDir(p)
    BY <1>5 DEF RemoveDir, IInv, TypeOK
<1>6. CASE Save(p)
    BY <1>6 DEF Save, IInv, TypeOK, New, Missing
<1> QED
    BY <1>1, <1>2, <1>3, <1>4, <1>5, <1>6, DiskCases

\* While a program is in the middle of a directory that is there, a file appears in
\* the current one only from the same directory, and is gone from it.
LEMMA AppearsFrom ==
    ASSUME IInv, NEW p \in Programs, Step(p), NEW i \in Legacy, Current \in exists,
           i \in exists, NEW q \in Programs, q # p, dir[q] = i, pc[q] \in {"merge", "move", "remove"},
           NEW f \in Files, disk[Current][f] = Missing, disk'[Current][f] # Missing
    PROVE  disk'[i][f] = Missing
<1> USE LegacyAssumption DEF Dirs, Current, Legacy
<1>1. CASE UNCHANGED <<exists, disk, wanted>> \/ Renames(p)
    BY <1>1 DEF Renames
<1>2. CASE Moves(p)
  <2>1. dir[p] \in Legacy /\ Entry(p) \in Files
      BY <1>2, EntryIn DEF Moves, IInv, TypeOK
  <2>2. dir[p] \in exists
      BY <1>2, <2>1 DEF Moves, IInv, TypeOK, NoFile
  <2>3. dir[p] = i
      BY <1>2, <2>1, <2>2 DEF Moves, IInv, PassedInv
  <2>4. f = Entry(p)
      BY <1>2, <2>1 DEF Moves, IInv, TypeOK
  <2> QED
      BY <1>2, <2>1, <2>3, <2>4 DEF Moves, IInv, TypeOK
<1>3. CASE RemoveEntry(p)
  <2>1. dir[p] \in Legacy
      BY <1>3 DEF RemoveEntry, IInv, TypeOK
  <2>2. disk'[Current] = disk[Current]
      BY <1>3, <2>1 DEF RemoveEntry, IInv, TypeOK
  <2> QED
      BY <2>2
<1>4. CASE RemoveDir(p)
    BY <1>4 DEF RemoveDir
<1>5. CASE Save(p)
    BY <1>5 DEF Save, IInv, PlaceInv, PassedInv
<1> QED
    BY <1>1, <1>2, <1>3, <1>4, <1>5, DiskCases

-----------------------------------------------------------------------------
(* What a program has seen still holds after a step of another one            *)

LEMMA OthersUnchanged ==
    ASSUME ControlOK, NEW p \in Programs, Step(p), NEW q \in Programs, q # p
    PROVE  pc'[q] = pc[q] /\ dir'[q] = dir[q] /\ todo'[q] = todo[q]
    BY DEF Step, Migrate, StartProgram, StatOld, StatNew, RenameDir, ReadDir, StatEntry, MoveEntry,
           Merged, RemoveEntry, RemoveDir, Save, End, Goes, Fails, NextDir, ControlOK

Seen(q) ==
    /\ pc[q] \notin {"idle", "failed"} => \A i \in Legacy : i < dir[q] => i \notin exists
    /\ pc[q] = "done" => dir[q] = LegacyDirs + 1
    /\ pc[q] \in {"read", "merge", "move", "remove"} => Current \in exists
    /\ pc[q] = "move" => \/ disk[Current][Entry(q)] = Missing
                         \/ disk[dir[q]][Entry(q)] = Missing
    /\ pc[q] \in {"merge", "move", "remove"} =>
          \A f \in Files : disk[dir[q]][f] # Missing /\ (pc[q] = "remove" \/ f \notin todo[q])
                              => disk[Current][f] # Missing

LEMMA SeenIs == PassedInv /\ PlaceInv /\ MergeInv <=> \A q \in Programs : Seen(q)
    BY DEF PassedInv, PlaceInv, MergeInv, Seen

LEMMA OthersSeen ==
    ASSUME IInv, NEW p \in Programs, Step(p), NEW q \in Programs, q # p
    PROVE  Seen(q)'
<1>1. pc'[q] = pc[q] /\ dir'[q] = dir[q] /\ todo'[q] = todo[q]
    BY OthersUnchanged DEF IInv, TypeOK, ControlOK
<1>2. Seen(q)
    BY SeenIs DEF IInv
<1>3. Entry(q)' = Entry(q)
    BY <1>1 DEF Entry
<1>4. pc[q] \in {"merge", "move", "remove"} => dir[q] \in Legacy
    BY DEF IInv, TypeOK, Legacy
<1>5. pc[q] = "move" => Entry(q) \in Files
    BY EntryIn DEF IInv, TypeOK
<1>6. pc[q] = "move" => \/ disk'[Current][Entry(q)] = Missing
                        \/ disk'[dir[q]][Entry(q)] = Missing
  <2> SUFFICES ASSUME pc[q] = "move", disk'[Current][Entry(q)] # Missing
               PROVE  disk'[dir[q]][Entry(q)] = Missing
      OBVIOUS
  <2>1. CASE disk[dir[q]][Entry(q)] = Missing
      BY <1>4, <1>5, <2>1, Monotone
  <2>2. CASE disk[dir[q]][Entry(q)] # Missing
    <3>1. disk[Current][Entry(q)] = Missing /\ Current \in exists
        BY <1>2, <2>2 DEF Seen
    <3>2. dir[q] \in exists
        BY <1>4, <1>5, <2>2, LegacyAssumption DEF IInv, TypeOK, NoFile, Legacy, Dirs
    <3> QED
        BY <1>4, <1>5, <3>1, <3>2, AppearsFrom
  <2> QED
      BY <2>1, <2>2
<1> QED
    BY <1>1, <1>2, <1>3, <1>4, <1>6, Monotone DEF Seen

-----------------------------------------------------------------------------
(* ... and after its own                                                      *)

LEMMA Advances ==
    ASSUME IInv, NEW p \in Programs, Step(p), pc[p] \notin {"idle", "failed"}, pc'[p] = "stat",
           dir'[p] = dir[p] + 1, dir[p] \in Legacy, dir[p] \notin exists'
    PROVE  Seen(p)'
<1>1. ASSUME NEW i \in Legacy, i < dir'[p] PROVE i \notin exists'
  <2>1. CASE i < dir[p]
      BY <2>1, Monotone DEF IInv, PassedInv
  <2>2. CASE ~ (i < dir[p])
    <3>1. i = dir[p]
        BY <1>1, <2>2, LegacyAssumption DEF Legacy
    <3> QED
        BY <3>1
  <2> QED
      BY <2>1, <2>2
<1> QED
    BY <1>1 DEF Seen

LEMMA OwnSeen ==
    ASSUME IInv, NEW p \in Programs, Step(p)
    PROVE  Seen(p)'
<1>1. Seen(p)
    BY SeenIs DEF IInv
<1> USE LegacyAssumption DEF Legacy, IInv, TypeOK, Goes
<1>2. CASE StartProgram(p)
    BY <1>2 DEF StartProgram, Seen
<1>3. CASE StatOld(p)
  <2>1. dir[p] \in 1..LegacyDirs + 1
      OBVIOUS
  <2>2. CASE dir[p] > LegacyDirs
    <3>1. dir[p] = LegacyDirs + 1
        BY <2>1, <2>2
    <3>2. pc'[p] = "done" /\ UNCHANGED <<exists, dir>> /\ pc[p] = "stat"
        BY <1>3, <2>2 DEF StatOld, fs
    <3> QED
        BY <1>1, <3>1, <3>2 DEF Seen
  <2>3. CASE ~ (dir[p] > LegacyDirs) /\ dir[p] \in exists
      BY <1>1, <1>3, <2>3 DEF StatOld, Seen, fs
  <2>4. CASE ~ (dir[p] > LegacyDirs) /\ dir[p] \notin exists
    <3>1. pc'[p] = "stat" /\ dir'[p] = dir[p] + 1 /\ pc[p] = "stat" /\ UNCHANGED exists
        BY <1>3, <2>4 DEF StatOld, fs, NextDir
    <3>2. dir[p] \in Legacy
        BY <2>1, <2>4
    <3> QED
        BY <2>4, <3>1, <3>2, Advances
  <2> QED
      BY <2>2, <2>3, <2>4
<1>4. CASE StatNew(p)
    BY <1>1, <1>4 DEF StatNew, Seen, fs
<1>5. CASE RenameDir(p)
  <2>1. dir[p] \in Legacy /\ pc[p] = "rename"
      BY <1>5 DEF RenameDir
  <2>2. CASE dir[p] \in exists /\ Current \in exists
      BY <1>5, <2>2 DEF RenameDir, Fails, Seen
  <2>3. CASE ~ (dir[p] \in exists /\ Current \in exists)
    <3>1. pc'[p] = "stat" /\ dir'[p] = dir[p] + 1
        BY <1>5, <2>3 DEF RenameDir, NextDir
    <3>2. dir[p] \notin exists'
        BY <1>5, <2>1, <2>3 DEF RenameDir, fs, Current
    <3> QED
        BY <2>1, <3>1, <3>2, Advances
  <2> QED
      BY <2>2, <2>3
<1>6. CASE ReadDir(p)
    BY <1>1, <1>6 DEF ReadDir, Fails, Seen, fs
<1>7. CASE StatEntry(p)
    BY <1>1, <1>7, EntryIn DEF StatEntry, Entry, Seen, fs
<1>8. CASE MoveEntry(p)
    BY <1>1, <1>8, EntryIn DEF MoveEntry, Seen, Current, Dirs
<1>9. CASE Merged(p)
    BY <1>1, <1>9 DEF Merged, Seen, fs
<1>10. CASE RemoveEntry(p)
    BY <1>1, <1>10, Monotone DEF RemoveEntry, Seen
<1>11. CASE RemoveDir(p)
  <2>1. dir[p] \in Legacy /\ pc[p] = "remove" /\ dir[p] \notin exists'
      BY <1>11 DEF RemoveDir
  <2>2. pc'[p] = "stat" /\ dir'[p] = dir[p] + 1
      BY <1>11 DEF RemoveDir, NextDir
  <2> QED
      BY <2>1, <2>2, Advances
<1>12. CASE Save(p)
    BY <1>1, <1>12 DEF Save, Seen, Current
<1>13. CASE End(p)
    BY <1>13 DEF End, Seen
<1> QED
    BY <1>2, <1>3, <1>4, <1>5, <1>6, <1>7, <1>8, <1>9, <1>10, <1>11, <1>12, <1>13
       DEF Step, Migrate

-----------------------------------------------------------------------------
(* The versions                                                               *)

\* The files of the directories before one that a program is at are gone.
LEMMA NothingBefore ==
    ASSUME IInv, NEW p \in Programs, pc[p] \notin {"idle", "failed"},
           NEW i \in Legacy, i < dir[p], NEW f \in Files
    PROVE  disk[i][f] = Missing
    BY LegacyAssumption DEF IInv, PassedInv, TypeOK, NoFile, Legacy, Dirs

LEMMA ViewStep ==
    ASSUME IInv, NEW p \in Programs, Step(p)
    PROVE  ViewInv'
<1> USE LegacyAssumption
<1> SUFFICES ASSUME NEW f \in Files
             PROVE  \/ wanted'[f] = Missing /\ \A i \in Dirs : disk'[i][f] = Missing
                    \/ wanted'[f] # Missing /\ \E i \in Dirs : First(i, f)' /\ disk'[i][f] = wanted'[f]
    BY DEF ViewInv
<1>1. \/ wanted[f] = Missing /\ \A i \in Dirs : disk[i][f] = Missing
      \/ wanted[f] # Missing /\ \E i \in Dirs : First(i, f) /\ disk[i][f] = wanted[f]
    BY DEF IInv, ViewInv
<1>2. Current \in Dirs
    BY DEF Current, Dirs
<1>3. ASSUME wanted'[f] # Missing, disk'[Current][f] = wanted'[f]
      PROVE  First(Current, f)'
    BY <1>3 DEF First, Current, Dirs
<1>4. ASSUME wanted'[f] = wanted[f], \A i \in Dirs : disk'[i][f] = disk[i][f]
      PROVE  \/ wanted'[f] = Missing /\ \A i \in Dirs : disk'[i][f] = Missing
             \/ wanted'[f] # Missing /\ \E i \in Dirs : First(i, f)' /\ disk'[i][f] = wanted'[f]
    BY <1>1, <1>4 DEF First
<1>5. CASE UNCHANGED <<exists, disk, wanted>>
    BY <1>4, <1>5
<1>6. ASSUME NEW k \in Legacy, disk[k][f] # Missing, disk'[Current][f] = disk[k][f],
             \A i \in Dirs : i < k => disk[i][f] = Missing, UNCHANGED wanted
      PROVE  wanted'[f] # Missing /\ First(Current, f)' /\ disk'[Current][f] = wanted'[f]
  <2>1. k \in Dirs
      BY DEF Legacy, Dirs
  <2>2. PICK i \in Dirs : First(i, f) /\ disk[i][f] = wanted[f] /\ wanted[f] # Missing
      BY <1>1, <1>6, <2>1
  <2>3. i = k
      BY <1>6, <2>1, <2>2 DEF First, Dirs
  <2> QED
      BY <1>3, <1>6, <2>2, <2>3
<1>7. CASE Renames(p) /\ UNCHANGED wanted
  <2>1. dir[p] \in Legacy /\ pc[p] = "rename"
      BY <1>7 DEF Renames, IInv, TypeOK, Legacy
  <2>2. disk[Current] = NoFile
      BY <1>2, <1>7 DEF Renames, IInv, TypeOK
  <2>3. \A i \in Dirs : i < dir[p] => disk[i][f] = Missing
      BY <2>1, <2>2, NothingBefore DEF NoFile, Legacy, Dirs, Current
  <2>4. /\ disk'[Current][f] = disk[dir[p]][f] /\ disk'[dir[p]][f] = Missing
        /\ \A i \in Dirs : i \notin {Current, dir[p]} => disk'[i] = disk[i]
      BY <1>2, <1>7, <2>1 DEF Renames, IInv, TypeOK, NoFile, Legacy, Dirs, Current
  <2>5. CASE disk[dir[p]][f] # Missing
      BY <1>2, <1>6, <1>7, <2>1, <2>3, <2>4, <2>5
  <2>6. CASE disk[dir[p]][f] = Missing
    <3>1. \A i \in Dirs : disk'[i][f] = disk[i][f]
        BY <2>2, <2>4, <2>6 DEF NoFile
    <3> QED
        BY <1>4, <1>7, <3>1
  <2> QED
      BY <2>5, <2>6
<1>8. CASE Moves(p) /\ UNCHANGED wanted
  <2>1. dir[p] \in Legacy /\ pc[p] = "move" /\ Entry(p) \in Files /\ disk[dir[p]][Entry(p)] # Missing
      BY <1>8, EntryIn DEF Moves, IInv, TypeOK, Legacy
  <2>2. \A i \in Dirs : disk'[i][f] = IF f # Entry(p) THEN disk[i][f]
                                      ELSE IF i = Current THEN disk[dir[p]][f]
                                      ELSE IF i = dir[p] THEN Missing ELSE disk[i][f]
      BY <1>8, <2>1 DEF Moves, IInv, TypeOK, Legacy, Dirs, Current
  <2>3. CASE f # Entry(p)
      BY <1>4, <1>8, <2>2, <2>3
  <2>4. CASE f = Entry(p)
    <3>1. disk[Current][f] = Missing
        BY <2>1, <2>4 DEF IInv, MergeInv
    <3>2. \A i \in Dirs : i < dir[p] => disk[i][f] = Missing
        BY <2>1, <3>1, NothingBefore DEF Legacy, Dirs, Current
    <3> QED
        BY <1>2, <1>6, <1>8, <2>1, <2>2, <2>4, <3>2
  <2> QED
      BY <2>3, <2>4
<1>9. CASE RemoveEntry(p)
  <2>1. PICK g \in Files : disk[dir[p]][g] # Missing /\ disk' = [disk EXCEPT ![dir[p]][g] = Missing]
      BY <1>9 DEF RemoveEntry
  <2>2. dir[p] \in Legacy /\ UNCHANGED wanted /\ pc[p] = "remove"
      BY <1>9 DEF RemoveEntry, IInv, TypeOK, Legacy
  <2>3. disk'[Current] = disk[Current]
      BY <1>2, <2>1, <2>2 DEF IInv, TypeOK, Legacy, Current
  <2>4. CASE f = g
    <3>1. disk[Current][f] # Missing
        BY <2>1, <2>2, <2>4 DEF IInv, MergeInv
    <3>2. wanted[f] # Missing /\ disk[Current][f] = wanted[f]
        BY <1>1, <1>2, <3>1 DEF First, Current, Dirs
    <3> QED
        BY <1>2, <1>3, <2>2, <2>3, <3>2
  <2>5. CASE f # g
    <3>1. \A i \in Dirs : disk'[i][f] = disk[i][f]
        BY <2>1, <2>2, <2>5 DEF IInv, TypeOK
    <3> QED
        BY <1>4, <2>2, <3>1
  <2> QED
      BY <2>4, <2>5
<1>10. CASE RemoveDir(p)
    BY <1>4, <1>10 DEF RemoveDir
<1>11. CASE Save(p)
  <2>1. PICK g \in Files : disk' = [disk EXCEPT ![Current][g] = New] /\ wanted' = [wanted EXCEPT ![g] = New]
      BY <1>11 DEF Save
  <2>2. CASE f = g
    <3>1. wanted'[f] = New /\ disk'[Current][f] = New /\ New # Missing
        BY <1>2, <2>1, <2>2 DEF IInv, TypeOK, New, Missing
    <3> QED
        BY <1>2, <1>3, <3>1
  <2>3. CASE f # g
    <3>1. wanted'[f] = wanted[f] /\ \A i \in Dirs : disk'[i][f] = disk[i][f]
        BY <2>1, <2>3 DEF IInv, TypeOK
    <3> QED
        BY <1>4, <3>1
  <2> QED
      BY <2>2, <2>3
<1> QED
    BY <1>5, <1>7, <1>8, <1>9, <1>10, <1>11, DiskCases

-----------------------------------------------------------------------------
LEMMA NextInv == IInv /\ [Next]_vars => IInv'
<1> SUFFICES ASSUME IInv, [Next]_vars PROVE IInv'
    OBVIOUS
<1>1. ASSUME NEW p \in Programs, Step(p) PROVE IInv'
  <2>1. \A q \in Programs : Seen(q)'
      BY <1>1, OwnSeen, OthersSeen
  <2>2. (PassedInv /\ PlaceInv /\ MergeInv)'
      BY <2>1 DEF PassedInv, PlaceInv, MergeInv, Seen
  <2> QED
      BY <1>1, <2>2, TypeStep, ViewStep DEF IInv
<1>2. CASE UNCHANGED vars
    BY <1>2 DEF vars, IInv, TypeOK, PassedInv, PlaceInv, MergeInv, Entry, ViewInv, First
<1> QED
    BY <1>1, <1>2 DEF Next, Step

LEMMA Invariance == Spec => []IInv
    BY InitInv, NextInv, PTL DEF Spec

\* No file is lost and none is replaced by an older one, for any number of programs,
\* files and legacy directories.
THEOREM NoFileIsLost == Spec => []NothingLost
<1>1. IInv => NothingLost
    BY FirstIsChosen DEF IInv, ViewInv, NothingLost
<1> QED
    BY <1>1, Invariance, PTL

\* A program that has migrated finds every file in its place.
THEOREM InPlace == Spec => []InPlaceWhenUsed
<1>1. ASSUME IInv, NEW p \in Programs, pc[p] = "done"
      PROVE  disk[Current] = wanted /\ exists \subseteq {Current}
  <2>1. \A i \in Legacy : i \notin exists
      BY <1>1, LegacyAssumption DEF IInv, PassedInv, PlaceInv, Legacy
  <2>2. exists \subseteq {Current}
      BY <1>1, <2>1, LegacyAssumption DEF IInv, TypeOK, Legacy, Dirs, Current
  <2>3. \A i \in Legacy, f \in Files : disk[i][f] = Missing
      BY <1>1, <2>1, LegacyAssumption DEF IInv, TypeOK, NoFile, Legacy, Dirs
  <2>4. \A f \in Files : disk[Current][f] = wanted[f]
      BY <1>1, <2>3, LegacyAssumption DEF IInv, ViewInv, First, Legacy, Dirs, Current
  <2>5. disk[Current] \in [Files -> Dirs \cup {New, Missing}] /\ wanted \in [Files -> Dirs \cup {New, Missing}]
      BY <1>1, LegacyAssumption DEF IInv, TypeOK, Dirs, Current
  <2> QED
      BY <2>2, <2>4, <2>5
<1>2. IInv => InPlaceWhenUsed
    BY <1>1 DEF InPlaceWhenUsed
<1> QED
    BY <1>2, Invariance, PTL

\* The program's state has its type.
THEOREM TypeCorrect == Spec => []TypeOK
    BY Invariance, PTL DEF IInv

=============================================================================
