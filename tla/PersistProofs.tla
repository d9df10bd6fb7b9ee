--------------------------- MODULE PersistProofs ---------------------------
(***************************************************************************)
(* What persist guarantees for every number of databases, pages, saves and *)
(* crashes: the path of a database never names half a file, memory and     *)
(* file agree, and a save that was acknowledged is not lost.  All of it    *)
(* rests on TmpDistinct, which the code does not ensure: two paths with    *)
(* one stem share a temporary file (run persist_tmp).                      *)
(***************************************************************************)
EXTENDS Persist, TLAPS

\* No two databases of the process share a temporary file.
TmpDistinct == \A d, e \in Db : Tmp[d] = Tmp[e] => d = e

-----------------------------------------------------------------------------
(* The inductive invariant *)

Steps == {"closed", "idle", "create", "write", "sync", "rename", "syncdir"}
Named == Files \cup {NoFile}
Versions == Files \cup {Empty}
Chunks(v, k) == [i \in 1..k |-> v]
Stored(v) == IF v = Empty THEN <<>> ELSE encode(v)
TmpOf(d) == tmpfile[Tmp[d]]
Own(d) == {<<d, n>> : n \in 1..saves[d]}
ContentsOf(f) == IF f = NoFile THEN <<>> ELSE data[f]

Types ==
    /\ fsync_mode \in [Db -> Modes] /\ parent \in [Db -> BOOLEAN]
    /\ at \in [Db -> Steps] /\ saves \in [Db -> 0..MaxSaves]
    /\ catalog \in [Db -> Versions] /\ acked \in [Db -> Versions]
    /\ renamed \in [Db -> SUBSET Files]
    /\ fd \in [Db -> Named] /\ written \in [Db -> 0..Pages]
    /\ file \in [Db -> Named] /\ tmpfile \in [{Tmp[d] : d \in Db} -> Named]
    /\ may_name \in [Db -> SUBSET Named]
    /\ data \in [Files -> Seq(Versions)] /\ disk \in [Files -> Seq(Versions)]
    /\ crashes \in Nat /\ power_lost \in BOOLEAN

\* A database's names are for files of its own saves, and the file being
\* written is none of those its path may name.
Owned(d) ==
    /\ file[d] \in may_name[d]
    /\ may_name[d] \subseteq Own(d) \cup {NoFile}
    /\ TmpOf(d) \in Own(d) \cup {NoFile}
    /\ TmpOf(d) # NoFile => TmpOf(d) \notin may_name[d]
    /\ at[d] \notin {"closed", "idle"} => saves[d] > 0
    /\ at[d] = "create" => New(d) \notin may_name[d]

\* What a save has done by the step it is at.
Writing(d) ==
    /\ at[d] \in {"write", "sync"} => fd[d] = TmpOf(d)
    /\ at[d] \in {"write", "sync", "rename"} => TmpOf(d) # NoFile
    /\ at[d] \notin {"write", "sync"} => written[d] = 0
    /\ at[d] = "write" =>
           written[d] < Pages /\ data[TmpOf(d)] = Chunks(New(d), written[d])
    /\ at[d] \in {"sync", "rename"} => data[TmpOf(d)] = encode(New(d))
    /\ (at[d] = "rename" /\ fsync_mode[d] # "Never") => disk[TmpOf(d)] = data[TmpOf(d)]
    /\ at[d] = "syncdir" => Contents(d) = encode(New(d))

\* Every file that the path names, or may name after power loss, is complete.
Complete(d) ==
    \A f \in may_name[d] \ {NoFile} :
        /\ fsync_mode[d] # "Never" => disk[f] = data[f]
        /\ (fsync_mode[d] # "Never" \/ ~power_lost) =>
               \E n \in 1..saves[d] : data[f] = encode(<<d, n>>)

Memory(d) ==
    at[d] \notin {"closed", "syncdir"} => Contents(d) = Stored(catalog[d])

\* Contents that are the acknowledged save's or a later one's.
Recorded(d, contents) ==
    contents = Stored(acked[d]) \/ \E v \in renamed[d] : contents = encode(v)

Saved(d) ==
    /\ (fsync_mode[d] # "Never" /\ parent[d]) =>
           \A f \in may_name[d] : Recorded(d, ContentsOf(f))
    /\ ~power_lost => Recorded(d, Contents(d))

DbInv(d) == Owned(d) /\ Writing(d) /\ Complete(d) /\ Memory(d) /\ Saved(d)
PersistInv == Types /\ \A d \in Db : DbInv(d)

-----------------------------------------------------------------------------
(* Files and their contents *)

\* No file is the one that is not there, and a database's files are its own.
LEMMA FileFacts ==
    /\ NoFile \notin Files /\ Empty \notin Files
    /\ \A d \in Db, n \in 1..MaxSaves : <<d, n>> \in Files
    /\ \A d, e, m, n : <<d, m>> = <<e, n>> => d = e /\ m = n
BY DEF NoFile, Empty, Files

\* Before any save the database has no file.
LEMMA OwnFiles ==
    ASSUME Types, NEW d \in Db
    PROVE  /\ Own(d) \subseteq Files /\ NoFile \notin Own(d)
           /\ \A e \in Db : e # d => Own(d) \cap Own(e) = {}
           /\ saves[d] > 0 => New(d) \in Own(d)
<1>1. saves[d] \in 0..MaxSaves /\ MaxSaves \in Nat
  BY PersistAssumption DEF Types
<1>2. QED
  BY <1>1, FileFacts DEF Own, New

\* The chunks of a version are a sequence; complete, they are its encoding,
\* which is not empty and tells the versions apart.
LEMMA EncodeFacts ==
    /\ \A v : encode(v) = Chunks(v, Pages) /\ encode(v) # <<>>
    /\ \A v, w : encode(v) = encode(w) => v = w
    /\ \A v \in Versions, k \in Nat : Chunks(v, k) \in Seq(Versions) /\ Len(Chunks(v, k)) = k
    /\ \A v : Chunks(v, 0) = <<>>
<1>1. Pages \in Nat /\ Pages > 0
  BY PersistAssumption
<1>2. \A v : encode(v) = Chunks(v, Pages)
  BY DEF encode, Chunks
<1>3. \A v : 1 \in DOMAIN encode(v) /\ encode(v)[1] = v
  BY <1>1 DEF encode
<1>4. \A v : encode(v) # <<>>
  BY <1>3
<1>5. \A v \in Versions, k \in Nat : Chunks(v, k) \in Seq(Versions) /\ Len(Chunks(v, k)) = k
  BY DEF Chunks
<1>6. \A v : Chunks(v, 0) = <<>>
  BY DEF Chunks
<1>7. QED
  BY <1>2, <1>3, <1>4, <1>5, <1>6

\* A chunk written at the end of the chunks before it makes one more.
LEMMA WriteNextChunk ==
    ASSUME NEW v \in Versions, NEW k \in Nat
    PROVE  WriteAt(Chunks(v, k), k + 1, v) = Chunks(v, k + 1)
<1>1. Len(Chunks(v, k)) = k
  BY EncodeFacts
<1>2. Max({k + 1, k}) = k + 1
  BY DEF Max
<1>3. QED
  BY <1>1, <1>2 DEF WriteAt, Chunks

\* open reads back the version that was written.
LEMMA DecodeEncode ==
    ASSUME NEW contents, Readable(contents)
    PROVE  decode(contents) \in Versions /\ Stored(decode(contents)) = contents
<1>1. CASE contents = <<>>
  BY <1>1 DEF decode, Stored, Versions, Empty
<1>2. CASE contents # <<>>
  <2>1. PICK v \in Files : contents = encode(v)
    BY <1>2 DEF Readable, Whole
  <2>2. decode(contents) \in Files /\ contents = encode(decode(contents))
    BY <1>2, <2>1 DEF decode
  <2>3. QED
    BY <2>2, FileFacts DEF Stored, Versions
<1>3. QED
  BY <1>1, <1>2

-----------------------------------------------------------------------------
(* The steps *)

\* A step that leaves a database's own variables, names and files alone keeps
\* its invariant; a synced directory only forgets names.
Untouched(e) ==
    /\ UNCHANGED <<setup, power_lost>>
    /\ at'[e] = at[e] /\ saves'[e] = saves[e] /\ catalog'[e] = catalog[e]
    /\ acked'[e] = acked[e] /\ renamed'[e] = renamed[e]
    /\ fd'[e] = fd[e] /\ written'[e] = written[e]
    /\ file'[e] = file[e] /\ TmpOf(e)' = TmpOf(e)
    /\ may_name'[e] \in {may_name[e], {file[e]}}
    /\ \A f \in Own(e) : data'[f] = data[f] /\ disk'[f] = disk[f]

LEMMA UntouchedInv ==
    ASSUME Types, NEW e \in Db, DbInv(e), Untouched(e)
    PROVE  DbInv(e)'
<1>1. /\ Own(e)' = Own(e) /\ New(e)' = New(e) /\ NoFile \notin Own(e)
      /\ fsync_mode' = fsync_mode /\ parent' = parent /\ power_lost' = power_lost
  BY OwnFiles DEF Untouched, Own, New, setup
<1>2. /\ file[e] \in may_name[e] /\ may_name'[e] \subseteq may_name[e] /\ file[e] \in may_name'[e]
      /\ may_name[e] \subseteq Own(e) \cup {NoFile} /\ TmpOf(e) \in Own(e) \cup {NoFile}
  BY DEF Untouched, DbInv, Owned
<1>3. \A f \in may_name[e] : ContentsOf(f)' = ContentsOf(f)
  BY <1>2 DEF Untouched, ContentsOf
<1>4. Contents(e) = ContentsOf(file[e]) /\ Contents(e)' = Contents(e)
  BY <1>2, <1>3 DEF Untouched, Contents, ContentsOf
<1>5. Owned(e)'
  BY <1>1, <1>2 DEF Untouched, DbInv, Owned
<1>6. Writing(e)'
  BY <1>1, <1>2, <1>4 DEF Untouched, DbInv, Writing
<1>7. Complete(e)'
  BY <1>1, <1>2 DEF Untouched, DbInv, Complete
<1>8. Memory(e)'
  BY <1>4 DEF Untouched, DbInv, Memory
<1>9. Saved(e)'
  <2>1. \A c : Recorded(e, c)' <=> Recorded(e, c)
    BY DEF Untouched, Recorded
  <2>2. \A f \in may_name'[e] : Recorded(e, ContentsOf(f)) => Recorded(e, ContentsOf(f))'
    BY <1>2, <1>3, <2>1 DEF Recorded, Untouched
  <2>3. Recorded(e, Contents(e)) => Recorded(e, Contents(e))'
    BY <1>4 DEF Recorded, Untouched
  <2>4. QED
    BY <1>1, <1>2, <2>2, <2>3 DEF DbInv, Saved
<1>10. QED
  BY <1>5, <1>6, <1>7, <1>8, <1>9 DEF DbInv

\* The empty directory satisfies the invariant.
LEMMA InitInv == Init => PersistInv
<1> SUFFICES ASSUME Init PROVE PersistInv
  OBVIOUS
<1>1. Types
  <2>1. <<>> \in Seq(Versions)
    OBVIOUS
  <2>2. data \in [Files -> Seq(Versions)] /\ disk \in [Files -> Seq(Versions)]
    BY <2>1 DEF Init
  <2>3. /\ 0 \in 0..MaxSaves /\ 0 \in 0..Pages /\ {NoFile} \in SUBSET Named
        /\ NoFile \in Named /\ Empty \in Versions /\ "closed" \in Steps
    BY PersistAssumption DEF Named, Versions, Steps
  <2>4. QED
    BY <2>2, <2>3 DEF Init, Types
<1>2. ASSUME NEW d \in Db PROVE DbInv(d)
  <2>1. file[d] = NoFile /\ may_name[d] = {NoFile} /\ TmpOf(d) = NoFile /\ at[d] = "closed"
    BY DEF Init, TmpOf
  <2>2. Contents(d) = <<>> /\ ContentsOf(NoFile) = <<>> /\ Stored(acked[d]) = <<>> /\ written[d] = 0
    BY <2>1 DEF Init, Contents, ContentsOf, Stored
  <2>3. QED
    BY <2>1, <2>2 DEF DbInv, Owned, Writing, Complete, Memory, Saved, Recorded
<1>3. QED
  BY <1>1, <1>2 DEF PersistInv

\* Opening reads what the file holds.
LEMMA OpenInv ==
    ASSUME PersistInv, NEW d \in Db, Open(d)
    PROVE  PersistInv'
<1>1. decode(Contents(d)) \in Versions /\ Stored(decode(Contents(d))) = Contents(d)
  BY DecodeEncode DEF Open
<1>2. Types'
  BY <1>1 DEF PersistInv, Types, Open, Goto, Steps, setup, history, names, faults
<1>3. ASSUME NEW e \in Db, e # d PROVE DbInv(e)'
  <2>1. Untouched(e)
    BY <1>3 DEF PersistInv, Types, Open, Goto, Untouched, TmpOf, setup, history, names, faults
  <2>2. QED
    BY <2>1, UntouchedInv DEF PersistInv
<1>4. DbInv(d)'
  <2>1. at'[d] = "idle" /\ catalog'[d] = decode(Contents(d)) /\ written'[d] = 0
    BY DEF PersistInv, DbInv, Writing, Types, Open, Goto
  <2>2. Owned(d)' /\ Complete(d)'
    BY <2>1 DEF PersistInv, DbInv, Owned, Complete, Open, setup, history, names, faults, Own, TmpOf
  <2>3. Writing(d)' /\ Memory(d)'
    BY <1>1, <2>1 DEF Open, Writing, Memory, names, Contents
  <2>4. Saved(d)'
    BY DEF PersistInv, DbInv, Open, Saved, Recorded, ContentsOf, Contents, setup, history, names, faults
  <2>5. QED
    BY <2>2, <2>3, <2>4 DEF DbInv
<1>5. QED
  BY <1>2, <1>3, <1>4 DEF PersistInv

\* A save begins with a version no file was made for.
LEMMA SaveInv ==
    ASSUME PersistInv, NEW d \in Db, Save(d)
    PROVE  PersistInv'
<1>0. saves[d] \in 0..MaxSaves /\ saves'[d] = saves[d] + 1 /\ saves' \in [Db -> 0..MaxSaves]
  BY PersistAssumption DEF PersistInv, Types, Save
<1>1. Types'
  BY <1>0 DEF PersistInv, Types, Save, Goto, Steps, setup, history, names, faults
<1>2. ASSUME NEW e \in Db, e # d PROVE DbInv(e)'
  <2>1. Untouched(e)
    BY <1>2 DEF PersistInv, Types, Save, Goto, Untouched, TmpOf, setup, history, names, faults
  <2>2. QED
    BY <2>1, UntouchedInv DEF PersistInv
<1>3. DbInv(d)'
  <2>1. at[d] = "idle" /\ at'[d] = "create" /\ written[d] = 0
    BY DEF PersistInv, DbInv, Writing, Types, Save, Goto
  <2>2. Own(d) \subseteq Own(d)' /\ New(d)' \notin Own(d) /\ New(d)' # NoFile
    BY <1>0, FileFacts DEF Own, New, NoFile
  <2>3. Owned(d)'
    BY <1>0, <2>1, <2>2 DEF PersistInv, DbInv, Owned, Save, names, TmpOf
  <2>4. Writing(d)'
    BY <2>1 DEF Writing, Save
  <2>5. Complete(d)'
    BY <1>0 DEF PersistInv, DbInv, Complete, Save, setup, names, faults
  <2>6. Memory(d)'
    BY <2>1 DEF PersistInv, DbInv, Memory, Save, names, Contents
  <2>7. Saved(d)'
    BY DEF PersistInv, DbInv, Save, Saved, Recorded, ContentsOf, Contents, setup, history, names, faults
  <2>8. QED
    BY <2>3, <2>4, <2>5, <2>6, <2>7 DEF DbInv
<1>4. QED
  BY <1>1, <1>2, <1>3 DEF PersistInv

\* A step that writes only to the file a save has open leaves the contents of
\* every file that the path may name.
LEMMA PathContents ==
    ASSUME Types, NEW d \in Db, Owned(d), NEW f, f \notin may_name[d],
           UNCHANGED file, \A g \in Files \ {f} : data'[g] = data[g]
    PROVE  /\ \A g \in may_name[d] : ContentsOf(g)' = ContentsOf(g)
           /\ Contents(d)' = Contents(d)
<1>1. may_name[d] \subseteq Files \cup {NoFile} /\ file[d] \in may_name[d]
  BY OwnFiles DEF Owned
<1>2. QED
  BY <1>1 DEF ContentsOf, Contents

\* The temporary file is new, or one that the path may not name.
LEMMA CreateInv ==
    ASSUME TmpDistinct, PersistInv, NEW d \in Db, Create(d)
    PROVE  PersistInv'
<1> DEFINE f == IF tmpfile[Tmp[d]] = NoFile THEN New(d) ELSE tmpfile[Tmp[d]]
<1>0. Types /\ DbInv(d) /\ at[d] = "create"
  BY DEF PersistInv, Create
<1>1. /\ f \in Own(d) /\ f \notin may_name[d] /\ f \in Files /\ f # NoFile
      /\ fd' = [fd EXCEPT ![d] = f] /\ data' = [data EXCEPT ![f] = <<>>]
      /\ tmpfile' = [tmpfile EXCEPT ![Tmp[d]] = f]
  BY <1>0, OwnFiles DEF Create, DbInv, Owned, TmpOf
<1>2. Types'
  <2>1. <<>> \in Seq(Versions)
    OBVIOUS
  <2>2. data' \in [Files -> Seq(Versions)]
    BY <1>0, <1>1, <2>1 DEF Types
  <2>3. QED
    BY <1>0, <1>1, <2>2 DEF Types, Create, Goto, Steps, Named, setup, history, faults
<1>3. ASSUME NEW e \in Db, e # d PROVE DbInv(e)'
  <2>1. Tmp[e] # Tmp[d] /\ Own(e) \cap Own(d) = {} /\ Own(e) \subseteq Files
    BY <1>0, <1>3, OwnFiles DEF TmpDistinct
  <2>2. TmpOf(e)' = TmpOf(e) /\ \A g \in Own(e) : data'[g] = data[g]
    BY <1>0, <1>1, <2>1 DEF Types, TmpOf
  <2>3. Untouched(e)
    BY <1>0, <1>1, <1>3, <2>2 DEF Types, Create, Goto, Untouched, setup, history, faults
  <2>4. QED
    BY <1>0, <2>3, UntouchedInv DEF PersistInv
<1>4. DbInv(d)'
  <2>1. /\ at'[d] = "write" /\ fd'[d] = f /\ TmpOf(d)' = f /\ data'[f] = <<>> /\ written'[d] = 0
        /\ may_name' = may_name /\ saves' = saves /\ Own(d)' = Own(d) /\ file' = file
    BY <1>0, <1>1 DEF Types, DbInv, Writing, Create, Goto, TmpOf, Own
  <2>2. /\ \A g \in may_name[d] : ContentsOf(g)' = ContentsOf(g)
        /\ Contents(d)' = Contents(d)
        /\ \A g \in may_name[d] \ {NoFile} : data'[g] = data[g]
    <3>1. \A g \in Files \ {f} : data'[g] = data[g]
      BY <1>0, <1>1 DEF Types
    <3>2. may_name[d] \subseteq Files \cup {NoFile}
      BY <1>0, OwnFiles DEF DbInv, Owned
    <3>3. QED
      BY <1>0, <1>1, <2>1, <3>1, <3>2, PathContents DEF DbInv
  <2>3. Owned(d)'
    BY <1>0, <1>1, <2>1 DEF DbInv, Owned
  <2>4. Writing(d)'
    BY <1>1, <2>1, EncodeFacts, PersistAssumption DEF Writing
  <2>5. Complete(d)'
    BY <1>0, <2>1, <2>2 DEF DbInv, Complete, Create, setup, faults
  <2>6. Memory(d)'
    BY <1>0, <2>1, <2>2 DEF DbInv, Memory, Create
  <2>7. Saved(d)'
    BY <1>0, <2>1, <2>2 DEF DbInv, Saved, Recorded, Create, setup, history, faults
  <2>8. QED
    BY <2>3, <2>4, <2>5, <2>6, <2>7 DEF DbInv
<1>5. QED
  BY <1>2, <1>3, <1>4 DEF PersistInv

\* A chunk goes to the save's own file, after the ones before it.
LEMMA WriteInv ==
    ASSUME TmpDistinct, PersistInv, NEW d \in Db, Write(d)
    PROVE  PersistInv'
<1> DEFINE f == fd[d]
<1> DEFINE k == written[d]
<1>0. Types /\ DbInv(d) /\ at[d] = "write" /\ Pages \in Nat
  BY PersistAssumption DEF PersistInv, Write
<1>1. /\ f = TmpOf(d) /\ f \in Own(d) /\ f \notin may_name[d] /\ f \in Files /\ f # NoFile
      /\ k \in 0..Pages /\ k < Pages /\ New(d) \in Files /\ data[f] = Chunks(New(d), k)
  BY <1>0, OwnFiles DEF Types, DbInv, Owned, Writing
<1>2. data' = [data EXCEPT ![f] = Chunks(New(d), k + 1)]
  <2>1. WriteAt(data[f], k + 1, New(d)) = Chunks(New(d), k + 1)
    BY <1>0, <1>1, WriteNextChunk DEF Versions
  <2>2. data' = [data EXCEPT ![f] = WriteAt(data[f], k + 1, New(d))]
    BY <1>0, <1>1 DEF Write, Types
  <2>3. QED
    BY <2>1, <2>2
<1>3. Types'
  <2>1. Chunks(New(d), k + 1) \in Seq(Versions)
    BY <1>0, <1>1, EncodeFacts DEF Versions
  <2>2. data' \in [Files -> Seq(Versions)]
    BY <1>0, <1>1, <1>2, <2>1 DEF Types
  <2>3. written' \in [Db -> 0..Pages]
    BY <1>0, <1>1 DEF Types, Write
  <2>4. at' \in [Db -> Steps]
    BY <1>0 DEF Types, Write, Goto, Steps
  <2>5. QED
    BY <1>0, <2>2, <2>3, <2>4 DEF Types, Write, setup, history, names, faults
<1>4. ASSUME NEW e \in Db, e # d PROVE DbInv(e)'
  <2>1. Own(e) \cap Own(d) = {} /\ Own(e) \subseteq Files
    BY <1>0, <1>4, OwnFiles
  <2>2. \A g \in Own(e) : data'[g] = data[g]
    BY <1>0, <1>1, <1>2, <2>1 DEF Types
  <2>3. Untouched(e)
    BY <1>0, <1>4, <2>2 DEF Types, Write, Goto, Untouched, TmpOf, setup, history, names, faults
  <2>4. QED
    BY <1>0, <2>3, UntouchedInv DEF PersistInv
<1>5. DbInv(d)'
  <2>1. /\ fd'[d] = f /\ TmpOf(d)' = f /\ data'[f] = Chunks(New(d), k + 1) /\ written'[d] = k + 1
        /\ may_name' = may_name /\ saves' = saves /\ Own(d)' = Own(d) /\ New(d)' = New(d)
        /\ file' = file /\ at'[d] = IF k + 1 = Pages THEN "sync" ELSE "write"
    BY <1>0, <1>1, <1>2 DEF Types, Write, Goto, TmpOf, Own, New, names
  <2>2. /\ \A g \in may_name[d] : ContentsOf(g)' = ContentsOf(g)
        /\ Contents(d)' = Contents(d)
        /\ \A g \in may_name[d] \ {NoFile} : data'[g] = data[g]
    <3>1. \A g \in Files \ {f} : data'[g] = data[g]
      BY <1>0, <1>1, <1>2 DEF Types
    <3>2. may_name[d] \subseteq Files \cup {NoFile}
      BY <1>0, OwnFiles DEF DbInv, Owned
    <3>3. QED
      BY <1>0, <1>1, <2>1, <3>1, <3>2, PathContents DEF DbInv
  <2>3. Owned(d)'
    BY <1>0, <1>1, <2>1 DEF DbInv, Owned
  <2>4. Writing(d)'
    BY <1>0, <1>1, <2>1, EncodeFacts DEF Writing
  <2>5. Complete(d)'
    BY <1>0, <2>1, <2>2 DEF DbInv, Complete, Write, setup, faults
  <2>6. Memory(d)'
    BY <1>0, <2>1, <2>2 DEF DbInv, Memory, Write
  <2>7. Saved(d)'
    BY <1>0, <2>1, <2>2 DEF DbInv, Saved, Recorded, Write, setup, history, faults
  <2>8. QED
    BY <2>3, <2>4, <2>5, <2>6, <2>7 DEF DbInv
<1>6. QED
  BY <1>3, <1>4, <1>5 DEF PersistInv

\* The complete temporary file reaches the disk, unless fsync is off.
LEMMA SyncInv ==
    ASSUME PersistInv, NEW d \in Db, Sync(d)
    PROVE  PersistInv'
<1> DEFINE f == fd[d]
<1>0. Types /\ DbInv(d) /\ at[d] = "sync" /\ Pages \in Nat
  BY PersistAssumption DEF PersistInv, Sync
<1>1. /\ f = TmpOf(d) /\ f \in Own(d) /\ f \notin may_name[d] /\ f \in Files
      /\ disk' = IF fsync_mode[d] = "Never" THEN disk ELSE [disk EXCEPT ![f] = data[f]]
  BY <1>0, OwnFiles DEF DbInv, Owned, Writing, Sync
<1>2. Types'
  <2>1. disk' \in [Files -> Seq(Versions)]
    BY <1>0, <1>1 DEF Types
  <2>2. at' \in [Db -> Steps] /\ fd' \in [Db -> Named] /\ written' \in [Db -> 0..Pages]
    BY <1>0 DEF Types, Sync, Goto, Close, Steps, Named
  <2>3. QED
    BY <1>0, <2>1, <2>2 DEF Types, Sync, setup, history, names, faults
<1>3. ASSUME NEW e \in Db, e # d PROVE DbInv(e)'
  <2>1. Own(e) \cap Own(d) = {} /\ Own(e) \subseteq Files
    BY <1>0, <1>3, OwnFiles
  <2>2. \A g \in Own(e) : disk'[g] = disk[g]
    BY <1>0, <1>1, <2>1 DEF Types
  <2>3. Untouched(e)
    BY <1>0, <1>3, <2>2 DEF Types, Sync, Goto, Close, Untouched, TmpOf, setup, history, names, faults
  <2>4. QED
    BY <1>0, <2>3, UntouchedInv DEF PersistInv
<1>4. DbInv(d)'
  <2>1. /\ at'[d] = "rename" /\ TmpOf(d)' = f /\ written'[d] = 0 /\ data' = data
        /\ fsync_mode[d] # "Never" => disk'[f] = data[f]
        /\ may_name' = may_name /\ saves' = saves /\ Own(d)' = Own(d) /\ New(d)' = New(d)
        /\ file' = file /\ fsync_mode' = fsync_mode
    BY <1>0, <1>1 DEF Types, Sync, Goto, Close, TmpOf, Own, New, names, setup
  <2>2. \A g \in may_name[d] \ {NoFile} : disk'[g] = disk[g]
    <3>1. may_name[d] \subseteq Files \cup {NoFile}
      BY <1>0, OwnFiles DEF DbInv, Owned
    <3>2. QED
      BY <1>0, <1>1, <3>1 DEF Types
  <2>3. Owned(d)'
    BY <1>0, <2>1 DEF DbInv, Owned, Writing
  <2>4. Writing(d)'
    BY <1>0, <1>1, <2>1 DEF DbInv, Writing
  <2>5. Complete(d)'
    <3>1. Complete(d) /\ power_lost' = power_lost
      BY <1>0 DEF DbInv, Sync, faults
    <3>2. QED
      BY <2>1, <2>2, <3>1 DEF Complete
  <2>6. Memory(d)'
    BY <1>0, <2>1 DEF DbInv, Memory, Sync, Contents
  <2>7. Saved(d)'
    BY <1>0, <2>1 DEF DbInv, Saved, Recorded, Sync, Contents, ContentsOf, setup, history, faults
  <2>8. QED
    BY <2>3, <2>4, <2>5, <2>6, <2>7 DEF DbInv
<1>5. QED
  BY <1>2, <1>3, <1>4 DEF PersistInv

\* The complete temporary file becomes the path's.
LEMMA RenameInv ==
    ASSUME TmpDistinct, PersistInv, NEW d \in Db, Rename(d)
    PROVE  PersistInv'
<1>a. PICK f : f = TmpOf(d)
  OBVIOUS
<1>0. Types /\ DbInv(d) /\ at[d] = "rename"
  BY DEF PersistInv, Rename
<1>1. /\ f \in Own(d) /\ f \in Files /\ f # NoFile /\ New(d) \in Files
      /\ New(d) = <<d, saves[d]>> /\ saves[d] \in 1..saves[d]
      /\ data[f] = encode(New(d))
      /\ fsync_mode[d] # "Never" => disk[f] = data[f]
  BY <1>a, <1>0, OwnFiles DEF Types, DbInv, Owned, Writing, New
<1>2. Types'
  <2>1. renamed' \in [Db -> SUBSET Files] /\ file' \in [Db -> Named] /\ at' \in [Db -> Steps]
    BY <1>a, <1>0, <1>1 DEF Types, Rename, Goto, Steps, Named, TmpOf
  <2>2. tmpfile' \in [{Tmp[e] : e \in Db} -> Named] /\ may_name' \in [Db -> SUBSET Named]
    BY <1>a, <1>0, <1>1 DEF Types, Rename, Named, TmpOf
  <2>3. QED
    BY <1>0, <2>1, <2>2 DEF Types, Rename, setup, faults
<1>3. ASSUME NEW e \in Db, e # d PROVE DbInv(e)'
  <2>1. Tmp[e] # Tmp[d]
    BY <1>3 DEF TmpDistinct
  <2>2. TmpOf(e)' = TmpOf(e)
    BY <1>0, <2>1 DEF Types, Rename, TmpOf
  <2>3. Untouched(e)
    BY <1>0, <1>3, <2>2 DEF Types, Rename, Goto, Untouched, setup, faults
  <2>4. QED
    BY <1>0, <2>3, UntouchedInv DEF PersistInv
<1>4. DbInv(d)'
  <2>1. /\ at'[d] = "syncdir" /\ TmpOf(d)' = NoFile /\ written'[d] = 0 /\ data' = data /\ disk' = disk
        /\ may_name'[d] = may_name[d] \cup {f} /\ file'[d] = f /\ renamed'[d] = renamed[d] \cup {New(d)}
        /\ saves' = saves /\ Own(d)' = Own(d) /\ New(d)' = New(d) /\ acked' = acked
        /\ fsync_mode' = fsync_mode /\ parent' = parent /\ power_lost' = power_lost
    BY <1>a, <1>0 DEF Types, DbInv, Writing, Rename, Goto, TmpOf, Own, New, setup, faults
  <2>2. Contents(d)' = encode(New(d)) /\ ContentsOf(f)' = encode(New(d))
    BY <1>1, <2>1 DEF Contents, ContentsOf
  <2>3. Owned(d)'
    BY <1>0, <1>1, <2>1 DEF DbInv, Owned
  <2>4. Writing(d)'
    BY <2>1, <2>2 DEF Writing
  <2>5. Complete(d)'
    <3>1. ASSUME NEW g \in may_name[d] \ {NoFile}
          PROVE  /\ fsync_mode'[d] # "Never" => disk'[g] = data'[g]
                 /\ (fsync_mode'[d] # "Never" \/ ~power_lost') =>
                        \E n \in 1..saves'[d] : data'[g] = encode(<<d, n>>)
      BY <1>0, <2>1 DEF DbInv, Complete
    <3>2. /\ fsync_mode'[d] # "Never" => disk'[f] = data'[f]
          /\ \E n \in 1..saves'[d] : data'[f] = encode(<<d, n>>)
      BY <1>1, <2>1
    <3>3. QED
      BY <2>1, <3>1, <3>2 DEF Complete
  <2>6. Memory(d)'
    BY <2>1 DEF Memory
  <2>7. Saved(d)'
    <3>1. ASSUME fsync_mode[d] # "Never", parent[d], NEW g \in may_name'[d]
          PROVE  Recorded(d, ContentsOf(g))'
      <4>1. CASE g = f
        BY <2>1, <2>2, <4>1 DEF Recorded
      <4>2. CASE g \in may_name[d]
        BY <1>0, <2>1, <3>1, <4>2 DEF DbInv, Saved, Recorded, ContentsOf
      <4>3. QED
        BY <2>1, <4>1, <4>2
    <3>2. Recorded(d, Contents(d))'
      BY <2>1, <2>2 DEF Recorded
    <3>3. QED
      BY <2>1, <3>1, <3>2 DEF Saved
  <2>8. QED
    BY <2>3, <2>4, <2>5, <2>6, <2>7 DEF DbInv
<1>5. QED
  BY <1>2, <1>3, <1>4 DEF PersistInv

\* The save is acknowledged: the path names its file, for good if the
\* directory could be synced.
LEMMA SyncDirectoryInv ==
    ASSUME PersistInv, NEW d \in Db, SyncDirectory(d)
    PROVE  PersistInv'
<1>0. Types /\ DbInv(d) /\ at[d] = "syncdir"
  BY DEF PersistInv, SyncDirectory
<1>1. New(d) \in Files /\ Contents(d) = encode(New(d)) /\ written[d] = 0
  BY <1>0, OwnFiles DEF DbInv, Owned, Writing
<1>2. Types'
  <2>1. catalog' \in [Db -> Versions] /\ acked' \in [Db -> Versions] /\ renamed' \in [Db -> SUBSET Files]
    BY <1>0, <1>1 DEF Types, SyncDirectory, Versions
  <2>2. may_name' \in [Db -> SUBSET Named] /\ at' \in [Db -> Steps]
    BY <1>0 DEF Types, SyncDirectory, Goto, Steps
  <2>3. QED
    BY <1>0, <2>1, <2>2 DEF Types, SyncDirectory, setup, faults
<1>3. ASSUME NEW e \in Db, e # d PROVE DbInv(e)'
  <2>1. Untouched(e)
    BY <1>0, <1>3 DEF Types, SyncDirectory, Goto, Untouched, TmpOf, setup, faults
  <2>2. QED
    BY <1>0, <2>1, UntouchedInv DEF PersistInv
<1>4. DbInv(d)'
  <2>1. /\ at'[d] = "idle" /\ catalog'[d] = New(d) /\ acked'[d] = New(d) /\ written'[d] = 0
        /\ data' = data /\ disk' = disk /\ file' = file /\ tmpfile' = tmpfile /\ saves' = saves
        /\ fsync_mode' = fsync_mode /\ parent' = parent /\ power_lost' = power_lost
        /\ Own(d)' = Own(d) /\ New(d)' = New(d) /\ TmpOf(d)' = TmpOf(d) /\ Contents(d)' = Contents(d)
    BY <1>0, <1>1 DEF Types, SyncDirectory, Goto, setup, faults, Own, New, TmpOf, Contents
  <2>2. /\ file[d] \in may_name'[d] /\ may_name'[d] \subseteq may_name[d]
        /\ (fsync_mode[d] # "Never" /\ parent[d]) => may_name'[d] = {file[d]}
    BY <1>0 DEF Types, SyncDirectory, DbInv, Owned
  <2>3. Stored(acked[d])' = Contents(d) /\ Stored(catalog[d])' = Contents(d)
    BY <1>1, <2>1, FileFacts DEF Stored
  <2>4. Owned(d)'
    BY <1>0, <2>1, <2>2 DEF DbInv, Owned
  <2>5. Writing(d)'
    BY <2>1 DEF Writing
  <2>6. Complete(d)'
    BY <1>0, <2>1, <2>2 DEF DbInv, Complete
  <2>7. Memory(d)'
    BY <2>1, <2>3 DEF Memory
  <2>8. Saved(d)'
    <3>1. Recorded(d, Contents(d))'
      BY <2>1, <2>3 DEF Recorded
    <3>2. ContentsOf(file[d])' = Contents(d)
      BY <2>1 DEF ContentsOf, Contents
    <3>3. QED
      BY <2>1, <2>2, <2>3, <3>1, <3>2 DEF Saved, Recorded
  <2>9. QED
    BY <2>4, <2>5, <2>6, <2>7, <2>8 DEF DbInv
<1>5. QED
  BY <1>2, <1>3, <1>4 DEF PersistInv

\* A save that fails leaves the path and the memory as they were.
LEMMA FailInv ==
    ASSUME PersistInv, NEW d \in Db, Fail(d)
    PROVE  PersistInv'
<1>0. Types /\ DbInv(d) /\ Pages \in Nat
  BY PersistAssumption DEF PersistInv
<1>1. Types'
  <2>1. at' \in [Db -> Steps] /\ fd' \in [Db -> Named] /\ written' \in [Db -> 0..Pages]
    BY <1>0 DEF Types, Fail, Goto, Close, Steps, Named
  <2>2. QED
    BY <1>0, <2>1 DEF Types, Fail, setup, history, names, faults
<1>2. ASSUME NEW e \in Db, e # d PROVE DbInv(e)'
  <2>1. Untouched(e)
    BY <1>0, <1>2 DEF Types, Fail, Goto, Close, Untouched, TmpOf, setup, history, names, faults
  <2>2. QED
    BY <1>0, <2>1, UntouchedInv DEF PersistInv
<1>3. DbInv(d)'
  <2>1. /\ at'[d] = "idle" /\ written'[d] = 0 /\ at[d] \notin {"closed", "syncdir"}
        /\ Own(d)' = Own(d) /\ TmpOf(d)' = TmpOf(d) /\ Contents(d)' = Contents(d)
    BY <1>0 DEF Types, Fail, Goto, Close, Own, TmpOf, Contents, names
  <2>2. Owned(d)'
    BY <1>0, <2>1 DEF DbInv, Owned, Fail, names
  <2>3. Writing(d)'
    BY <2>1 DEF Writing
  <2>4. Complete(d)'
    BY <1>0 DEF DbInv, Complete, Fail, setup, names, faults
  <2>5. Memory(d)'
    BY <1>0, <2>1 DEF DbInv, Memory, Fail
  <2>6. Saved(d)'
    BY <1>0, <2>1 DEF DbInv, Saved, Recorded, ContentsOf, Fail, setup, history, names, faults
  <2>7. QED
    BY <2>2, <2>3, <2>4, <2>5, <2>6 DEF DbInv
<1>4. QED
  BY <1>1, <1>2, <1>3 DEF PersistInv

\* A process that dies leaves the files.
LEMMA DieInv ==
    ASSUME PersistInv, Die
    PROVE  PersistInv'
<1>0. Types /\ Pages \in Nat
  BY PersistAssumption DEF PersistInv
<1>1. Types'
  <2>1. at' \in [Db -> Steps] /\ fd' \in [Db -> Named] /\ written' \in [Db -> 0..Pages]
    BY <1>0 DEF Die, Stop, Steps, Named
  <2>2. catalog' \in [Db -> Versions] /\ crashes' \in Nat
    BY <1>0 DEF Types, Die, Stop, Versions
  <2>3. QED
    BY <1>0, <2>1, <2>2 DEF Types, Die, setup, history, names
<1>2. ASSUME NEW d \in Db PROVE DbInv(d)'
  <2>1. /\ at'[d] = "closed" /\ written'[d] = 0
        /\ Own(d)' = Own(d) /\ TmpOf(d)' = TmpOf(d) /\ Contents(d)' = Contents(d)
    BY DEF Die, Stop, Own, TmpOf, Contents, names
  <2>2. Owned(d)'
    BY <2>1 DEF PersistInv, DbInv, Owned, Die, names
  <2>3. Writing(d)' /\ Memory(d)'
    BY <2>1 DEF Writing, Memory
  <2>4. Complete(d)'
    BY DEF PersistInv, DbInv, Complete, Die, setup, names
  <2>5. Saved(d)'
    BY <2>1 DEF PersistInv, DbInv, Saved, Recorded, ContentsOf, Die, setup, history, names
  <2>6. QED
    BY <2>2, <2>3, <2>4, <2>5 DEF DbInv
<1>3. QED
  BY <1>1, <1>2 DEF PersistInv

\* Power loss leaves of every synced file its contents, under a name that the
\* path may have.
LEMMA PowerLossInv ==
    ASSUME PersistInv, TmpDistinct, PowerLoss
    PROVE  PersistInv'
<1>0. Types /\ Pages \in Nat
  BY PersistAssumption DEF PersistInv
<1>1. PICK named \in [Db -> Files \cup {NoFile}] :
          /\ \A d \in Db : named[d] \in may_name[d]
          /\ file' = named
          /\ may_name' = [d \in Db |-> {named[d]}]
          /\ \E tmps \in [DOMAIN tmpfile -> Files \cup {NoFile}] :
                (\A n \in DOMAIN tmpfile : tmps[n] \in MayBeTmp(n, named)) /\ tmpfile' = tmps
          /\ \E left \in [{named[d] : d \in Db} \ {NoFile} ->
                             UNION {OnDisk(f) : f \in {named[d] : d \in Db} \ {NoFile}}] :
                /\ \A f \in {named[d] : d \in Db} \ {NoFile} : left[f] \in OnDisk(f)
                /\ data' = [f \in Files |->
                               IF f \in {named[d] : d \in Db} \ {NoFile} THEN left[f] ELSE <<>>]
                /\ disk' = data'
  BY DEF PowerLoss
<1> DEFINE kept == {named[d] : d \in Db} \ {NoFile}
<1>2. PICK left \in [kept -> UNION {OnDisk(f) : f \in kept}] :
          /\ \A f \in kept : left[f] \in OnDisk(f)
          /\ data' = [f \in Files |-> IF f \in kept THEN left[f] ELSE <<>>]
          /\ disk' = data'
  BY <1>1
<1>t. /\ tmpfile' \in [DOMAIN tmpfile -> Files \cup {NoFile}]
      /\ \A n \in DOMAIN tmpfile : tmpfile'[n] \in MayBeTmp(n, named)
  BY <1>1
<1>3. Types'
  <2>1. \A f \in Files : OnDisk(f) \subseteq Seq(Versions)
    <3>1. ASSUME NEW f \in Files, NEW c \in OnDisk(f) PROVE c \in Seq(Versions)
      <4>1. disk[f] \in Seq(Versions)
        BY <1>0 DEF Types
      <4>2. c = disk[f] \/ \E n \in 0..Pages : c \in [1..n -> Files \cup {Hole}]
        BY <3>1 DEF OnDisk
      <4>3. \A n \in 0..Pages : [1..n -> Files \cup {Hole}] \subseteq Seq(Versions)
        BY <1>0 DEF Versions, Hole, Empty
      <4>4. QED
        BY <4>1, <4>2, <4>3
    <3>2. QED
      BY <3>1
  <2>2. <<>> \in Seq(Versions)
    OBVIOUS
  <2>3. data' \in [Files -> Seq(Versions)] /\ disk' \in [Files -> Seq(Versions)]
    <3>1. kept \subseteq Files
      OBVIOUS
    <3>2. \A f \in kept : left[f] \in Seq(Versions)
      BY <1>2, <2>1, <3>1
    <3>3. QED
      BY <1>2, <2>2, <3>2
  <2>4. at' \in [Db -> Steps] /\ fd' \in [Db -> Named] /\ written' \in [Db -> 0..Pages]
    BY <1>0 DEF PowerLoss, Stop, Steps, Named
  <2>5. catalog' \in [Db -> Versions] /\ crashes' \in Nat /\ power_lost' \in BOOLEAN
    BY <1>0 DEF Types, PowerLoss, Stop, Versions
  <2>6. file' \in [Db -> Named] /\ may_name' \in [Db -> SUBSET Named]
    BY <1>1 DEF Named
  <2>7. tmpfile' \in [{Tmp[d] : d \in Db} -> Named]
    BY <1>0, <1>t DEF Types, Named
  <2>8. QED
    BY <1>0, <2>3, <2>4, <2>5, <2>6, <2>7 DEF Types, PowerLoss, setup, history
<1>4. ASSUME NEW d \in Db PROVE DbInv(d)'
  <2>0. DbInv(d)
    BY DEF PersistInv
  <2>1. /\ at'[d] = "closed" /\ written'[d] = 0 /\ saves' = saves
        /\ power_lost' = TRUE /\ Own(d)' = Own(d) /\ fsync_mode' = fsync_mode /\ parent' = parent
        /\ acked' = acked /\ renamed' = renamed
    BY <1>0 DEF Types, PowerLoss, Stop, Own, setup, history
  <2>2. /\ named[d] \in may_name[d] /\ file'[d] = named[d] /\ may_name'[d] = {named[d]}
        /\ named[d] \in Files \cup {NoFile}
    BY <1>1
  <2>3. ASSUME fsync_mode[d] # "Never", named[d] # NoFile
        PROVE  data'[named[d]] = data[named[d]] /\ disk'[named[d]] = data[named[d]]
    <3>1. disk[named[d]] = data[named[d]]
      BY <2>0, <2>2, <2>3 DEF DbInv, Complete
    <3>2. named[d] \in kept /\ named[d] \in Files
      BY <2>2, <2>3
    <3>3. left[named[d]] = data[named[d]]
      <4>1. left[named[d]] \in OnDisk(named[d])
        BY <1>2, <3>2
      <4>2. OnDisk(named[d]) = {disk[named[d]]}
        BY <3>1 DEF OnDisk
      <4>3. QED
        BY <3>1, <4>1, <4>2
    <3>4. QED
      BY <1>2, <3>2, <3>3
  <2>9. /\ TmpOf(d)' \in Own(d) \cup {NoFile}
        /\ TmpOf(d)' # NoFile => TmpOf(d)' # named[d]
    <3>1. Tmp[d] \in DOMAIN tmpfile
      BY <1>0 DEF Types
    <3>2. TmpOf(d)' \in MayBeTmp(Tmp[d], named)
      BY <1>t, <3>1 DEF TmpOf
    <3>3. \A e \in Db : Tmp[e] = Tmp[d] => e = d
      BY DEF TmpDistinct
    <3>4. /\ TmpOf(d)' \in {NoFile, TmpOf(d)} \cup may_name[d]
          /\ TmpOf(d)' # NoFile => TmpOf(d)' \notin {named[e] : e \in Db}
      BY <3>2, <3>3 DEF MayBeTmp, TmpOf
    <3>5. QED
      BY <2>0, <3>4 DEF DbInv, Owned
  <2>4. Owned(d)'
    BY <2>0, <2>1, <2>2, <2>9 DEF DbInv, Owned
  <2>5. Writing(d)' /\ Memory(d)'
    BY <2>1 DEF Writing, Memory
  <2>6. Complete(d)'
    BY <2>0, <2>1, <2>2, <2>3 DEF DbInv, Complete
  <2>7. Saved(d)'
    <3>1. ASSUME fsync_mode[d] # "Never", parent[d]
          PROVE  Recorded(d, ContentsOf(named[d]))'
      <4>1. ContentsOf(named[d])' = ContentsOf(named[d])
        BY <2>3, <3>1 DEF ContentsOf
      <4>2. Recorded(d, ContentsOf(named[d]))
        BY <2>0, <2>2, <3>1 DEF DbInv, Saved
      <4>3. QED
        BY <2>1, <4>1, <4>2 DEF Recorded
    <3>2. QED
      BY <2>1, <2>2, <3>1 DEF Saved
  <2>8. QED
    BY <2>4, <2>5, <2>6, <2>7 DEF DbInv
<1>5. QED
  BY <1>3, <1>4 DEF PersistInv

\* Every step of every database, and every crash, keeps the invariant.
LEMMA PersistInvariant == TmpDistinct => (Spec => []PersistInv)
<1> SUFFICES ASSUME TmpDistinct PROVE Spec => []PersistInv
  OBVIOUS
<1>1. PersistInv /\ [Next]_vars => PersistInv'
  <2> SUFFICES ASSUME PersistInv, [Next]_vars PROVE PersistInv'
    OBVIOUS
  <2>1. ASSUME NEW d \in Db, Step(d) PROVE PersistInv'
    BY <2>1, OpenInv, SaveInv, CreateInv, WriteInv, SyncInv, RenameInv, SyncDirectoryInv, FailInv
       DEF Step
  <2>2. CASE UNCHANGED vars
    BY <2>2 DEF vars, setup, process, history, names, faults, PersistInv, Types, DbInv, Owned, Writing,
                Complete, Memory, Saved, Recorded, Own, New, TmpOf, Contents, ContentsOf
  <2>3. QED
    BY <2>1, <2>2, DieInv, PowerLossInv DEF Next
<1>2. QED
  BY <1>1, InitInv, PTL DEF Spec

-----------------------------------------------------------------------------
(* What follows *)

\* The types of Persist's variables: a path names one of the files it may
\* name, and a save that writes or syncs has a file open (persist, engine.rs).
THEOREM PersistTypes == TmpDistinct => (Spec => []TypeOK)
<1>1. PersistInv => TypeOK
  <2> SUFFICES ASSUME PersistInv PROVE TypeOK
    OBVIOUS
  <2>1. ASSUME NEW d \in Db
        PROVE  /\ saves[d] \in 0..MaxSaves /\ written[d] \in 0..Pages /\ file[d] \in may_name[d]
               /\ at[d] \in {"write", "sync"} => fd[d] \in Files
    <3>1. Types /\ Owned(d) /\ Writing(d)
      BY DEF PersistInv, DbInv
    <3>2. QED
      BY <3>1, OwnFiles DEF Types, Owned, Writing
  <2>2. QED
    BY <2>1 DEF TypeOK, PersistInv, Types, Steps
<1>2. QED
  BY <1>1, PersistInvariant, PTL

\* Whatever the interleaving of saves, failures and crashes, the path of a
\* database names no file or one complete save of its own (the rename of
\* engine.rs' persist), if no two databases share a temporary file.
THEOREM PathsNameWholeFiles == TmpDistinct => (Spec => []FileWhole)
<1>1. PersistInv => FileWhole
  BY DEF PersistInv, DbInv, Owned, Complete, FileWhole, Contents
<1>2. QED
  BY <1>1, PersistInvariant, PTL

\* A database in memory is what its file holds, whichever step of persist the
\* last save failed at (the callers of persist restore the old catalog).
THEOREM MemoryMatchesFile == TmpDistinct => (Spec => []MemoryIsStored)
<1>1. PersistInv => MemoryIsStored
  BY DEF PersistInv, DbInv, Memory, MemoryIsStored, Stored
<1>2. QED
  BY <1>1, PersistInvariant, PTL

\* A save that persist returned Ok for survives every later crash, and power
\* loss too with fsync on and a parent directory that could be synced.
THEOREM AcknowledgedSavesSurvive == TmpDistinct => (Spec => []SavedIsStored)
<1>1. PersistInv => SavedIsStored
  <2> SUFFICES ASSUME PersistInv, NEW d \in Db, Durable(d)
               PROVE  Recorded(d, Contents(d))
    BY DEF SavedIsStored, Recorded, Stored
  <2>1. Saved(d) /\ Owned(d)
    BY DEF PersistInv, DbInv
  <2>2. Contents(d) = ContentsOf(file[d])
    BY DEF Contents, ContentsOf
  <2>3. QED
    BY <2>1, <2>2 DEF Durable, Saved, Owned
<1>2. QED
  BY <1>1, PersistInvariant, PTL
=============================================================================
