------------------------------ MODULE Persist ------------------------------
(***************************************************************************)
(* engine.rs' persist: how a committed catalog gets to its file.  The new  *)
(* contents go to a temporary file in chunks, are synced, are renamed over *)
(* the database file, and the directory is synced.  Several databases of   *)
(* one process save at the same time, from different threads; the process  *)
(* may die, or the machine lose power, between any two steps.              *)
(*                                                                         *)
(* A version <<d, n>> stands for the catalog of d's n-th save, <<>> for    *)
(* the empty one.  The file system is external: a file (inode) has cached  *)
(* contents and contents on disk, and a name in the directory keeps, until *)
(* the directory is synced, every file that it may name after power loss.  *)
(***************************************************************************)
EXTENDS Integers, Sequences, FiniteSets, FiniteSetsExt

CONSTANTS Db,          \* the open databases, by path
          Tmp,         \* Db -> the name of its temporary file
          Modes,       \* the values of fsync_mode in use
          Pages,       \* page_size chunks of an encoded catalog
          MaxSaves,    \* bound: saves of one database
          MaxCrashes   \* bound: deaths of the process and power losses

ASSUME PersistAssumption ==
    /\ IsFiniteSet(Db)
    /\ Modes \subseteq {"Always", "DataOnly", "Never"}
    /\ Pages \in Nat \ {0} /\ MaxSaves \in Nat /\ MaxCrashes \in Nat
    /\ DOMAIN Tmp = Db

VARIABLES fsync_mode,  \* of each database
          parent,      \* TRUE iff the path's parent directory can be opened and synced
          at,          \* the step of persist each database is at, "idle" or "closed"
          saves,       \* how many saves each database has begun
          catalog,     \* the version each open database holds in memory
          acked,       \* the version of the last persist that returned Ok
          renamed,     \* later versions that were renamed and not acknowledged
          fd,          \* the temporary file a save has open
          written,     \* how many chunks it has written
          file,        \* the file a database's path names
          tmpfile,     \* the file a temporary name names
          may_name,    \* the files the path may name after power loss
          data, disk,  \* the contents of each file, cached and on disk
          crashes, power_lost

setup == <<fsync_mode, parent>>
process == <<at, catalog, fd, written>>
history == <<acked, renamed>>
names == <<file, tmpfile, may_name>>
faults == <<crashes, power_lost>>
vars == <<setup, process, history, saves, names, data, disk, faults>>

NoFile == <<>>
Files == {<<d, n>> : d \in Db, n \in 1..MaxSaves}
Empty == <<>>
Hole == <<>>
encode(version) == [i \in 1..Pages |-> version]
New(d) == <<d, saves[d]>>

Contents(d) == IF file[d] = NoFile THEN <<>> ELSE data[file[d]]
Whole(contents) == \E v \in Files : contents = encode(v)

\* open_with_options: no file, or an empty one, is an empty catalog; other
\* contents are decoded.
decode(contents) ==
    IF contents = <<>> THEN Empty ELSE CHOOSE v \in Files : contents = encode(v)
Readable(contents) == contents = <<>> \/ Whole(contents)

Init ==
    /\ fsync_mode \in [Db -> Modes] /\ parent \in [Db -> BOOLEAN]
    /\ at = [d \in Db |-> "closed"]
    /\ saves = [d \in Db |-> 0]
    /\ catalog = [d \in Db |-> Empty]
    /\ acked = [d \in Db |-> Empty] /\ renamed = [d \in Db |-> {}]
    /\ fd = [d \in Db |-> NoFile] /\ written = [d \in Db |-> 0]
    /\ file = [d \in Db |-> NoFile]
    /\ tmpfile = [n \in {Tmp[d] : d \in Db} |-> NoFile]
    /\ may_name = [d \in Db |-> {NoFile}]
    /\ data = [f \in Files |-> <<>>] /\ disk = [f \in Files |-> <<>>]
    /\ crashes = 0 /\ power_lost = FALSE

Goto(d, step) == at' = [at EXCEPT ![d] = step]
Close(d) == fd' = [fd EXCEPT ![d] = NoFile] /\ written' = [written EXCEPT ![d] = 0]

Open(d) ==
    /\ at[d] = "closed" /\ Readable(Contents(d))
    /\ Goto(d, "idle")
    /\ catalog' = [catalog EXCEPT ![d] = decode(Contents(d))]
    /\ UNCHANGED <<setup, history, fd, written, saves, names, data, disk, faults>>

\* A statement or a COMMIT has a new catalog and calls persist.
Save(d) ==
    /\ at[d] = "idle" /\ saves[d] < MaxSaves
    /\ Goto(d, "create")
    /\ saves' = [saves EXCEPT ![d] = @ + 1]
    /\ UNCHANGED <<setup, catalog, history, fd, written, names, data, disk, faults>>

\* File::create makes the temporary file, or truncates the one it finds.
Create(d) ==
    LET f == IF tmpfile[Tmp[d]] = NoFile THEN New(d) ELSE tmpfile[Tmp[d]]
    IN /\ at[d] = "create"
       /\ Goto(d, "write")
       /\ tmpfile' = [tmpfile EXCEPT ![Tmp[d]] = f]
       /\ fd' = [fd EXCEPT ![d] = f]
       /\ data' = [data EXCEPT ![f] = <<>>]
       /\ UNCHANGED <<setup, catalog, history, written, saves, file, may_name, disk, faults>>

\* write_all at the save's own offset; a gap before it reads as a hole.
WriteAt(contents, i, chunk) ==
    [j \in 1..Max({i, Len(contents)}) |->
        IF j = i THEN chunk ELSE IF j <= Len(contents) THEN contents[j] ELSE Hole]

\* (mutant) One chunk too many.
WriteOneMore(d) ==
    /\ at[d] = "write"
    /\ written' = [written EXCEPT ![d] = @ + 1]
    /\ data' = [data EXCEPT ![fd[d]] = WriteAt(@, written[d] + 1, New(d))]
    /\ Goto(d, IF written[d] = Pages THEN "sync" ELSE "write")
    /\ UNCHANGED <<setup, catalog, history, fd, saves, names, disk, faults>>

Write(d) ==
    /\ at[d] = "write"
    /\ written' = [written EXCEPT ![d] = @ + 1]
    /\ data' = [data EXCEPT ![fd[d]] = WriteAt(@, written[d] + 1, New(d))]
    /\ Goto(d, IF written[d] + 1 = Pages THEN "sync" ELSE "write")
    /\ UNCHANGED <<setup, catalog, history, fd, saves, names, disk, faults>>

\* (mutant) The file is not synced before the rename.
SyncNothing(d) ==
    /\ at[d] = "sync"
    /\ Goto(d, "rename") /\ Close(d)
    /\ UNCHANGED <<setup, catalog, history, saves, names, data, disk, faults>>

\* sync_file: sync_all and sync_data both write the contents.
Sync(d) ==
    /\ at[d] = "sync"
    /\ Goto(d, "rename") /\ Close(d)
    /\ disk' = IF fsync_mode[d] = "Never" THEN disk ELSE [disk EXCEPT ![fd[d]] = data[fd[d]]]
    /\ UNCHANGED <<setup, catalog, history, saves, names, data, faults>>

Rename(d) ==
    LET f == tmpfile[Tmp[d]]
    IN /\ at[d] = "rename" /\ f # NoFile
       /\ Goto(d, "syncdir")
       /\ renamed' = [renamed EXCEPT ![d] = @ \cup {New(d)}]
       /\ file' = [file EXCEPT ![d] = f]
       /\ tmpfile' = [tmpfile EXCEPT ![Tmp[d]] = NoFile]
       /\ may_name' = [may_name EXCEPT ![d] = @ \cup {f}]
       /\ UNCHANGED <<setup, catalog, acked, fd, written, saves, data, disk, faults>>

\* (mutant) The directory is never synced.
SyncNoDirectory(d) ==
    /\ at[d] = "syncdir"
    /\ Goto(d, "idle")
    /\ catalog' = [catalog EXCEPT ![d] = New(d)]
    /\ acked' = [acked EXCEPT ![d] = New(d)]
    /\ renamed' = [renamed EXCEPT ![d] = {}]
    /\ UNCHANGED <<setup, fd, written, saves, names, data, disk, faults>>

\* The end of persist.  A directory that cannot be opened (the parent of a
\* bare file name is the empty path) or synced is passed over in silence.
SyncDirectory(d) ==
    /\ at[d] = "syncdir"
    /\ Goto(d, "idle")
    /\ may_name' = IF fsync_mode[d] # "Never" /\ parent[d]
                   THEN [e \in Db |-> {file[e]}] ELSE may_name
    /\ catalog' = [catalog EXCEPT ![d] = New(d)]
    /\ acked' = [acked EXCEPT ![d] = New(d)]
    /\ renamed' = [renamed EXCEPT ![d] = {}]
    /\ UNCHANGED <<setup, fd, written, saves, file, tmpfile, data, disk, faults>>

\* (mutant) The directory's error is an error of persist.
FailAtAnyStep(d) ==
    /\ at[d] \in {"create", "write", "sync", "rename", "syncdir"}
    /\ Goto(d, "idle") /\ Close(d)
    /\ UNCHANGED <<setup, catalog, history, saves, names, data, disk, faults>>

\* Every step up to the rename may fail; the caller restores its catalog and
\* the temporary file stays where it is.
Fail(d) ==
    /\ at[d] \in {"create", "write", "sync", "rename"}
    /\ Goto(d, "idle") /\ Close(d)
    /\ UNCHANGED <<setup, catalog, history, saves, names, data, disk, faults>>

\* Nothing of the process is left.
Stop ==
    /\ at' = [d \in Db |-> "closed"]
    /\ catalog' = [d \in Db |-> Empty]
    /\ fd' = [d \in Db |-> NoFile] /\ written' = [d \in Db |-> 0]

\* The process dies: the kernel keeps every file as it is.
Die ==
    /\ crashes < MaxCrashes
    /\ crashes' = crashes + 1
    /\ Stop
    /\ UNCHANGED <<setup, history, saves, names, data, disk, power_lost>>

\* Power loss.  Of contents that were not synced any length and any pages may be
\* on disk, from before or after they were last synced; the rest reads as holes.
MayBeAt(f, i) == {Hole} \cup {c[i] : c \in {c \in {data[f], disk[f]} : i <= Len(c)}}
OnDisk(f) ==
    IF disk[f] = data[f] THEN {disk[f]}
    ELSE {c \in UNION {[1..n -> Files \cup {Hole}] : n \in 0..Pages} :
              \A i \in DOMAIN c : c[i] \in MayBeAt(f, i)}

\* A path names any file it was given since the directory was synced.  So does a
\* temporary name, unless a path names that file: its creation and its rename
\* may each be lost.  What it holds is left out, as Create truncates it.
MayBeTmp(n, named) ==
    {NoFile} \cup (({tmpfile[n]} \cup UNION {may_name[d] : d \in {d \in Db : Tmp[d] = n}})
                   \ {named[d] : d \in Db})

PowerLoss ==
    /\ crashes < MaxCrashes
    /\ crashes' = crashes + 1 /\ power_lost' = TRUE
    /\ Stop
    /\ \E named \in [Db -> Files \cup {NoFile}] :
          /\ \A d \in Db : named[d] \in may_name[d]
          /\ file' = named
          /\ may_name' = [d \in Db |-> {named[d]}]
          /\ \E tmps \in [DOMAIN tmpfile -> Files \cup {NoFile}] :
                (\A n \in DOMAIN tmpfile : tmps[n] \in MayBeTmp(n, named)) /\ tmpfile' = tmps
          /\ LET kept == {named[d] : d \in Db} \ {NoFile}
             IN \E left \in [kept -> UNION {OnDisk(f) : f \in kept}] :
                   /\ \A f \in kept : left[f] \in OnDisk(f)
                   /\ data' = [f \in Files |-> IF f \in kept THEN left[f] ELSE <<>>]
                   /\ disk' = data'
    /\ UNCHANGED <<setup, history, saves>>

Step(d) ==
    \/ Open(d) \/ Save(d) \/ Create(d) \/ Write(d) \/ Sync(d) \/ Rename(d)
    \/ SyncDirectory(d) \/ Fail(d)

Next == Die \/ PowerLoss \/ \E d \in Db : Step(d)

Spec == Init /\ [][Next]_vars

-----------------------------------------------------------------------------
(* Properties *)

\* The paths name files, a save is at a known step and has one open.
TypeOK ==
    /\ at \in [Db -> {"closed", "idle", "create", "write", "sync", "rename", "syncdir"}]
    /\ \A d \in Db :
          /\ saves[d] \in 0..MaxSaves /\ written[d] \in 0..Pages
          /\ file[d] \in may_name[d]
          /\ at[d] \in {"write", "sync"} => fd[d] \in Files

\* At no moment, and after no crash, does a database's path name a file with
\* half a catalog or another database's: it names none or one complete save
\* of its own.  With fsync_mode Never that needs the power to stay on.
FileWhole ==
    \A d \in Db : (fsync_mode[d] # "Never" \/ ~power_lost) =>
        \/ Contents(d) = <<>>
        \/ \E n \in 1..saves[d] : Contents(d) = encode(<<d, n>>)

\* An open database that is not past the rename holds in memory what its file
\* holds: persist returned Ok and replaced the file, or returned an error, at
\* whatever step, and left it.
MemoryIsStored ==
    \A d \in Db : at[d] \notin {"closed", "syncdir"} =>
        Contents(d) = IF catalog[d] = Empty THEN <<>> ELSE encode(catalog[d])

\* A save that returned Ok is not lost: the path holds it, or a later version
\* that was renamed before a crash took its answer.  Through power loss this
\* takes a parent directory that could be synced.
Durable(d) == ~power_lost \/ (fsync_mode[d] # "Never" /\ parent[d])
SavedIsStored ==
    \A d \in Db : Durable(d) =>
        \/ Contents(d) = IF acked[d] = Empty THEN <<>> ELSE encode(acked[d])
        \/ \E v \in renamed[d] : Contents(d) = encode(v)
=============================================================================
