------------------------------ MODULE MigrateConfig ------------------------------
(***************************************************************************)
(* The move of the configuration from the directories of earlier releases  *)
(* (MigrateLegacyConfig and migrateConfigDir of internal/daemon/daemon.go).*)
(* The desktop program, the daemon and the CLI each do it before they read *)
(* anything, and nothing keeps two of them from doing it at the same time. *)
(*                                                                         *)
(* Directory 0 is the configuration directory of today, 1..LegacyDirs are  *)
(* those of earlier releases in the order they are migrated.  A file's     *)
(* content is the number of the directory it was first written in, or New  *)
(* once a program of today has saved it.  A failed program, or one that    *)
(* was killed, is started again.                                           *)
(***************************************************************************)
EXTENDS Integers

CONSTANTS
    Programs,   \* the processes of today that are started
    Files,      \* the names of configuration files
    LegacyDirs  \* how many directories of earlier releases there may be

ASSUME LegacyAssumption == LegacyDirs \in Nat

Current == 0
Dirs == 0..LegacyDirs
New == LegacyDirs + 1
Missing == -1
NoFile == [f \in Files |-> Missing]

VARIABLES
    exists,  \* the directories there are
    disk,    \* the files of each directory, and what is in them
    pc,      \* each program: where it is
    dir,     \* the legacy directory it is migrating
    todo,    \* the entries its loop has not come to yet
    wanted   \* history: the version of each file that the user must not lose

vars == <<exists, disk, pc, dir, todo, wanted>>
fs == <<exists, disk>>

\* What a program that finds the files in their directories would use: today's
\* version before that of an earlier release, in the order of the migration.
View(d) ==
    [f \in Files |->
        IF \E i \in Dirs : d[i][f] # Missing
        THEN d[CHOOSE i \in Dirs : d[i][f] # Missing /\ \A j \in Dirs : j < i => d[j][f] = Missing][f]
        ELSE Missing]

TypeOK ==
    /\ exists \subseteq Dirs
    /\ disk \in [Dirs -> [Files -> Dirs \cup {New, Missing}]]
    /\ \A i \in Dirs \ exists : disk[i] = NoFile
    /\ pc \in [Programs -> {"idle", "stat", "statNew", "rename", "read", "merge",
                            "move", "remove", "done", "failed"}]
    /\ dir \in [Programs -> 1..LegacyDirs + 1]
    /\ todo \in [Programs -> SUBSET Files]
    /\ wanted \in [Files -> Dirs \cup {New, Missing}]
    \* A program in the middle of a directory is at one of the legacy directories.
    /\ \A p \in Programs :
          /\ pc[p] \in {"statNew", "rename", "read", "merge", "move", "remove"} => dir[p] \in 1..LegacyDirs
          /\ pc[p] = "move" => todo[p] # {}

\* Any files may be left by earlier releases, and by a release of today.
Init ==
    /\ exists \in SUBSET Dirs
    /\ disk \in {d \in [Dirs -> [Files -> Dirs \cup {Missing}]] :
                    \A i \in Dirs, f \in Files : d[i][f] = Missing \/ (d[i][f] = i /\ i \in exists)}
    /\ pc = [p \in Programs |-> "idle"]
    /\ dir = [p \in Programs |-> 1]
    /\ todo = [p \in Programs |-> {}]
    /\ wanted = View(disk)

Goes(p, to) == pc' = [pc EXCEPT ![p] = to]
Fails(p) == Goes(p, "failed") /\ UNCHANGED <<fs, dir, todo>>

\* A plausible bug that stands in for NextDir when a property's sensitivity is
\* checked: it takes the first directory for the only one.
NextDirLast(p) ==
    /\ dir' = [dir EXCEPT ![p] = LegacyDirs + 1]
    /\ Goes(p, "stat")

\* migrateConfigDir returned without an error: the next directory's turn.
NextDir(p) ==
    /\ dir' = [dir EXCEPT ![p] = @ + 1]
    /\ Goes(p, "stat")

-----------------------------------------------------------------------------
(* Plausible bugs: each stands in for the operator named in its comment when a *)
(* property's sensitivity is checked, and is used nowhere else.                *)

\* StatEntry without the check of the target.
StatEntryUnchecked(p) ==
    /\ pc[p] = "merge" /\ todo[p] # {}
    /\ Goes(p, "move")
    /\ UNCHANGED <<fs, dir, todo, wanted>>

-----------------------------------------------------------------------------
(* One system call at a time *)

\* The program is started.
StartProgram(p) ==
    /\ pc[p] \in {"idle", "failed"}
    /\ Goes(p, "stat")
    /\ dir' = [dir EXCEPT ![p] = 1]
    /\ UNCHANGED <<fs, todo, wanted>>

StatOld(p) ==
    /\ pc[p] = "stat"
    /\ IF dir[p] > LegacyDirs
       THEN Goes(p, "done") /\ UNCHANGED dir
       ELSE IF dir[p] \in exists THEN Goes(p, "statNew") /\ UNCHANGED dir
            ELSE NextDir(p)
    /\ UNCHANGED <<fs, todo, wanted>>

StatNew(p) ==
    /\ pc[p] = "statNew"
    /\ Goes(p, IF Current \in exists THEN "read" ELSE "rename")
    /\ UNCHANGED <<fs, dir, todo, wanted>>

\* The whole directory at once.  One that is gone is another program's work; a
\* target that exists by now is an error.
RenameDir(p) ==
    /\ pc[p] = "rename"
    /\ IF dir[p] \notin exists
       THEN NextDir(p) /\ UNCHANGED <<fs, todo>>
       ELSE IF Current \in exists THEN Fails(p)
            ELSE /\ exists' = (exists \ {dir[p]}) \cup {Current}
                 /\ disk' = [disk EXCEPT ![Current] = disk[dir[p]], ![dir[p]] = NoFile]
                 /\ NextDir(p) /\ UNCHANGED todo
    /\ UNCHANGED wanted

\* A directory that is gone by now is an error here.
ReadDir(p) ==
    /\ pc[p] = "read"
    /\ \/ /\ dir[p] \in exists
          /\ todo' = [todo EXCEPT ![p] = {f \in Files : disk[dir[p]][f] # Missing}]
          /\ Goes(p, "merge") /\ UNCHANGED <<fs, dir>>
       \/ dir[p] \notin exists /\ Fails(p)
    /\ UNCHANGED wanted

\* The entry the loop is at: the first of those it has not come to yet.
Entry(p) == CHOOSE f \in todo[p] : TRUE

StatEntry(p) ==
    /\ pc[p] = "merge" /\ todo[p] # {}
    /\ IF disk[Current][Entry(p)] # Missing
       THEN todo' = [todo EXCEPT ![p] = @ \ {Entry(p)}] /\ UNCHANGED pc
       ELSE Goes(p, "move") /\ UNCHANGED todo
    /\ UNCHANGED <<fs, dir, wanted>>

\* An entry that is gone by now is another program's work.
MoveEntry(p) ==
    /\ pc[p] = "move"
    /\ disk' = IF disk[dir[p]][Entry(p)] = Missing THEN disk
               ELSE [disk EXCEPT ![Current][Entry(p)] = disk[dir[p]][Entry(p)],
                                 ![dir[p]][Entry(p)] = Missing]
    /\ todo' = [todo EXCEPT ![p] = @ \ {Entry(p)}]
    /\ Goes(p, "merge")
    /\ UNCHANGED <<exists, dir, wanted>>

Merged(p) ==
    /\ pc[p] = "merge" /\ todo[p] = {}
    /\ Goes(p, "remove")
    /\ UNCHANGED <<fs, dir, todo, wanted>>

\* RemoveAll: the files that are left one by one, then the directory.
RemoveEntry(p) ==
    /\ pc[p] = "remove"
    /\ \E f \in Files :
          /\ disk[dir[p]][f] # Missing
          /\ disk' = [disk EXCEPT ![dir[p]][f] = Missing]
    /\ UNCHANGED <<exists, pc, dir, todo, wanted>>

RemoveDir(p) ==
    /\ pc[p] = "remove" /\ disk[dir[p]] = NoFile
    /\ exists' = exists \ {dir[p]}
    /\ NextDir(p)
    /\ UNCHANGED <<disk, todo, wanted>>

-----------------------------------------------------------------------------
\* A program that has migrated reads its files, and saves what the user changes.
Save(p) ==
    /\ pc[p] = "done"
    /\ \E f \in Files :
          /\ disk' = [disk EXCEPT ![Current][f] = New]
          /\ wanted' = [wanted EXCEPT ![f] = New]
    /\ exists' = exists \cup {Current}
    /\ UNCHANGED <<pc, dir, todo>>

\* The program ends, or is killed, wherever it is.
End(p) ==
    /\ pc[p] \notin {"idle", "failed"}
    /\ Goes(p, "idle")
    /\ todo' = [todo EXCEPT ![p] = {}]
    /\ UNCHANGED <<fs, dir, wanted>>

Migrate(p) ==
    \/ StartProgram(p) \/ StatOld(p) \/ StatNew(p) \/ RenameDir(p) \/ ReadDir(p)
    \/ StatEntry(p) \/ MoveEntry(p) \/ Merged(p) \/ RemoveEntry(p) \/ RemoveDir(p)

Next == \E p \in Programs : Migrate(p) \/ Save(p) \/ End(p)

Spec == Init /\ [][Next]_vars

-----------------------------------------------------------------------------
(* Properties *)

\* No file is lost and no newer version gives way to an older one, at any instant,
\* whichever programs migrate at the same time and wherever they are killed: what
\* the directories hold, today's before the earlier ones', is what they held at
\* first, or what has been saved since.
NothingLost == \A f \in Files : wanted[f] # Missing => View(disk)[f] = wanted[f]

\* A program reads its configuration only when all of it is in place: none starts
\* from the defaults, or saves over them, while an older file is still to come.
InPlaceWhenUsed ==
    (\E p \in Programs : pc[p] = "done") => disk[Current] = wanted /\ exists \subseteq {Current}

=============================================================================
