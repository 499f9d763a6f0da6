------------------------------- MODULE FatFs -------------------------------
(***************************************************************************)
(* The Directory Engine of src/tools/fs/fat/lib/fat/defs.py (FATFS.ls,     *)
(* search, create, remove, walk) on top of the Allocation Table            *)
(* (FatTable), driven by the path commands of src/tools/fs/fat/commands.py *)
(* (creat, mkdir, unlink, rmdir) and the init sequence of main.py.         *)
(*                                                                         *)
(* State is split the way the code splits it: the FAT and FSInfo hints     *)
(* live in memory (fat, info) for the length of a session and reach the    *)
(* image only through update() (dfat, dinfo); directory slots are written  *)
(* straight to the image (data).  A session ends when the process exits,   *)
(* raises, or is killed; the next FATFS() mount reloads memory from disk.  *)
(*                                                                         *)
(* Names are what the user typed (a member of Names, a sequence of        *)
(* characters); create, search, remove and walk pass them through         *)
(* fat_format_name and compare the record's DIR_Name bytes (ShortName).   *)
(* Attributes are sets of flags, a cluster's bytes are Slots directory    *)
(* records.  Times and NTRes are not read by these operations.            *)
(***************************************************************************)
EXTENDS FatTable, ShortName, Sequences

CONSTANTS
  Slots,          \* clusterSize / 32: directory records per cluster
  Names,          \* file names the commands are given (before formatting)
  MaxDepth,       \* parent paths of length 0 .. MaxDepth-1 are resolved
  Attrs,          \* attribute sets of init's own fs.create calls
  StartClusters,  \* startClusters arguments a mount may be given
  Crashes,        \* {FALSE} or BOOLEAN: may a create die before update()
  QueryPaths      \* paths ls and stat are given

ASSUME Slots \in Nat /\ Slots >= 2
ASSUME MaxDepth \in Nat /\ MaxDepth >= 1
ASSUME Crashes \subseteq BOOLEAN /\ FALSE \in Crashes

DIR     == "DIRECTORY"
ARCHIVE == "ARCHIVE"
SYSTEM  == "SYSTEM"
DOT     == ".          "       \* '.          '.encode()
DOTDOT  == "..         "       \* '..         '.encode()
E5      == "#"                 \* the byte 0xE5

VARIABLES
  fat,    \* FAT32.table in memory
  info,   \* FAT32.fsInfo hints in memory: [count, next]
  dfat,   \* the primary FAT copy on the image
  dinfo,  \* the FSInfo sector on the image: [valid, count, next]
  data,   \* directory records of each data cluster on the image
  rc,     \* outcome of the last command
  names   \* fat_format_name's results (NameTable), constant

vars == <<fat, info, dfat, dinfo, data, rc, names>>

(* The spellings of n that differ from it only in letter case.            *)
CaseVariants(n) ==
  {m \in [DOMAIN n -> {"a", "A", "b", "B", "."}] :
     \A i \in DOMAIN n : SpecCapital(m[i]) = SpecCapital(n[i])}

(* Every name a command or a property formats.                             *)
Spelled == UNION {CaseVariants(m) : m \in Names}

(***************************************************************************)
(* What the code derives from a name n: key, the string fat_format_name   *)
(* returns, which search, remove and create compare with entry.name       *)
(* .decode(); field, the DIR_Name create writes (struct "11s" of          *)
(* key.encode()); gone, that field after remove's newName[0] = 0xE5; and  *)
(* kind, what ls and create read from the field's first byte.             *)
(***************************************************************************)
NameOf(n) ==
  LET f == FatFormatName(n) IN
  [key   |-> Join(f),
   field |-> Join(Field11(f)),
   gone  |-> Join([Field11(f) EXCEPT ![1] = E5]),
   kind  |-> IF f[1] = NUL THEN "end" ELSE "used"]

(* Every name formatted once.  fat_format_name is a pure function of the  *)
(* name; the state holds its table (variable names, set in Init and never  *)
(* changed) so that each lookup reads it instead of formatting again.      *)
NameTable == [n \in Spelled |-> NameOf(n)]

Key(n) == names[n].key

(* walk's name for a segment: fixed names for '.' and '..'.                *)
WalkKey(s) == CASE s = <<".">>      -> DOT
                [] s = <<".", ".">> -> DOTDOT
                [] OTHER            -> Key(s)

(* The DIR_Name fields create and remove write for the names of Names.    *)
StoredNames  == {names[n].field : n \in Names}
RemovedNames == {names[n].gone : n \in Names}

(* A 32-byte record: st is "end" (name[0] = 0x00), "del" (0xE5) or "used". *)
(* Results of lookups reuse the shape: "none" (None) and "raised" (the    *)
(* call raised, ending the process).  create writes fileSize = 0; only   *)
(* write (FatFile) changes it.                                            *)
Rec(st, n, a, c) == [st |-> st, name |-> n, attr |-> a, clus |-> c, size |-> 0]
NONAME    == "@@@@@@@@@@@"                 \* eleven 0x00 bytes
END       == Rec("end", NONAME, {}, 0)
NOTFOUND  == Rec("none", NONAME, {}, 0)
RAISED    == Rec("raised", NONAME, {}, 0)
IsUsed(r) == r.st = "used"
IsFreeSlot(r) == r.st \in {"end", "del"}
IsDot(r)  == r.name \in {DOT, DOTDOT}

(* walk('/') synthesizes the root: DIRECTORY | SYSTEM at rootClus.         *)
RootEntry == Rec("used", "ROOT       ", {DIR, SYSTEM}, ROOT)

Results == {"ok", "exists", "full", "noent", "notdir", "isdir", "system",
            "notempty", "invalid", "raised", "crashed", "hung", "mounted"}


Slot == 1 .. Slots
Paths == UNION {[1 .. k -> Names] : k \in 0 .. MaxDepth - 1}

(***************************************************************************)
(* FATFS.ls(dirCluster): the records of the directory's first cluster up  *)
(* to the first end record, skipping deleted ones.  When the cluster has  *)
(* no end record and the FAT links it to a further cluster the method     *)
(* falls off its end and returns None (NONE here).                        *)
(***************************************************************************)
NONE == <<RAISED>>     \* no listing of records ever equals it

(* The first slot of a set of slots; Slots + 1 when the scan finds none.   *)
First(S) == IF S = {} THEN Slots + 1 ELSE Min(S)
FirstEnd(s) == First({k \in Slot : s[k].st = "end"})

(* ls returns None: its one pass over the first cluster meets no end      *)
(* record and the chain goes on.                                           *)
LsNone(t, c) == FirstEnd(data[c]) > Slots /\ NextCluster(t, c) < EOF

Ls(t, c) ==
  LET s == data[c] IN
  IF LsNone(t, c) THEN NONE
  ELSE SelectSeq([k \in 1 .. FirstEnd(s) - 1 |-> s[k]], IsUsed)

(***************************************************************************)
(* FATFS.search(dirCluster, name): the first listed record whose name     *)
(* decodes to x, the formatted name (Key(name) when formatName, walk's    *)
(* name otherwise); len(None) raises when ls returned None.  Listed       *)
(* records of ASCII names always decode.  The listed records are the used *)
(* ones before the first end record, in slot order, so the first listed  *)
(* match is the used match in the lowest such slot.                        *)
(***************************************************************************)
Search(t, c, x) ==
  LET s    == data[c]
      hits == {k \in 1 .. FirstEnd(s) - 1 : IsUsed(s[k]) /\ s[k].name = x}
  IN  IF LsNone(t, c) THEN RAISED
      ELSE IF hits = {} THEN NOTFOUND
      ELSE s[Min(hits)]

(***************************************************************************)
(* FATFS.walk(path) for the segments p: from the root, each segment is    *)
(* searched in the cluster of the previous entry, which must carry the    *)
(* DIRECTORY flag.  The last entry may be a file.                         *)
(***************************************************************************)
RECURSIVE WalkFrom(_, _, _)
WalkFrom(t, e, p) ==
  IF p = <<>> THEN e
  ELSE IF DIR \notin e.attr THEN NOTFOUND
  ELSE LET f == Search(t, e.clus, WalkKey(Head(p))) IN
       IF IsUsed(f) THEN WalkFrom(t, f, Tail(p)) ELSE f

Walk(t, p) == WalkFrom(t, RootEntry, p)

(* The process ends (exception, kill, exit) and FATFS() mounts the image  *)
(* again: memory is whatever the image holds.                              *)
Remount ==
  /\ fat' = dfat
  /\ \E sc \in StartClusters : info' = LoadFSInfo(dinfo, sc)

(* Mutant of Persist: update() writes FSInfo but not the table.           *)
PersistNoTable(t, i) ==
  /\ dfat' = dfat
  /\ dinfo' = StoreFSInfo(dinfo, i)

(* FAT32.update(): FSInfo (if known), then the table, onto the image.      *)
Persist(t, i) ==
  /\ dfat' = t
  /\ dinfo' = StoreFSInfo(dinfo, i)

(***************************************************************************)
(* create's retry loop when the first cluster has no free record: each     *)
(* pass rescans the same first cluster and calls append_cluster(dirCluster)*)
(* again, until no free cluster is left.                                   *)
(***************************************************************************)
RECURSIVE GrowLoop(_, _, _)
GrowLoop(t, i, c) ==
  LET a == AppendCluster(t, i, c) IN
  IF a.r = -1 THEN [t |-> t, i |-> i] ELSE GrowLoop(a.t, a.i, c)

(* Mutant of DotRecords: the '..' record is not written.                  *)
DotRecordsNoDotDot(d, new, a, parent) ==
  [d EXCEPT ![new][1] = Rec("used", DOT, a, new)]

(* create for a DIRECTORY: '.' (the new cluster) and '..' (the parent) in  *)
(* the first two records of the new cluster; the rest keep what the image  *)
(* held there.                                                             *)
DotRecords(d, new, a, parent) ==
  [d EXCEPT ![new][1] = Rec("used", DOT, a, new),
            ![new][2] = Rec("used", DOTDOT, a, parent)]

(***************************************************************************)
(* FATFS.create(dirCluster, name, attr): format the name and scan the    *)
(* first cluster; a record whose name decodes (errors='ignore') to it     *)
(* before any free record answers -2; the first free (name[0] 0x00 or     *)
(* 0xE5) record receives name.encode() with a new EOF cluster, and its    *)
(* kind is what the stored name's first byte says; a                      *)
(* directory gets '.' and '..' in its first two records; then update().   *)
(* If the volume has no free cluster, table[-1] = EOF and packing cluster *)
(* -1 raises.  With crash, the process dies after the records are written *)
(* and before update().                                                    *)
(***************************************************************************)
CreateIn(c, n, a, crash) ==
  LET s    == data[c]
      hits == {k \in Slot : s[k].name = Key(n)}
      free == {k \in Slot : IsFreeSlot(s[k])}
      new  == NextFreeCluster(fat, info)
      b    == names[n]
  IN
  \/ /\ First(hits) < First(free)
     /\ rc' = "exists"
     /\ UNCHANGED <<fat, info, dfat, dinfo, data>>
  \/ /\ First(free) < First(hits)
     /\ new = -1
     /\ rc' = "raised"
     /\ Remount
     /\ UNCHANGED <<dfat, dinfo, data>>
  \/ /\ First(free) < First(hits)
     /\ new # -1
     /\ LET k  == First(free)
            t2 == [fat EXCEPT ![new] = EOF]
        IN
        /\ data' = LET d2 == [data EXCEPT ![c][k] = Rec(b.kind, b.field, a, new)]
                   IN  IF DIR \in a THEN DotRecords(d2, new, a, c) ELSE d2
        /\ IF crash
             THEN /\ rc' = "crashed"
                  /\ Remount
                  /\ UNCHANGED <<dfat, dinfo>>
             ELSE /\ rc' = "ok"
                  /\ fat' = t2
                  /\ Persist(t2, info)
                  /\ UNCHANGED info
  \/ /\ hits = {}
     /\ free = {}
     /\ LET g == GrowLoop(fat, info, c) IN
        /\ fat' = g.t
        /\ info' = g.i
     /\ rc' = "full"
     /\ UNCHANGED <<dfat, dinfo, data>>

(***************************************************************************)
(* FATFS.remove(dirCluster, name): scan the first cluster; an end record  *)
(* first answers -2; the matching record gets the 0xE5 mark, its chain    *)
(* goes through free_chain, the record is written back, then update().    *)
(* A full cluster without the name answers -1 at end of chain; otherwise  *)
(* the loop restarts at the same cluster forever, until the process is    *)
(* killed.                                                                 *)
(***************************************************************************)
(* Mutant of DeletedMark: the record is cleared to 0x00 instead of 0xE5.  *)
DeletedMarkZero == "end"

(* remove: newName[0] = 0xE5.                                              *)
DeletedMark == "del"

(* remove compares decode() of each listed record with the formatted name; *)
(* unlink and rmdir call it after search, which decodes the same records  *)
(* in the same order, found the name, so it does not raise here.          *)
RemoveIn(c, n) ==
  LET s    == data[c]
      hits == {k \in Slot : IsUsed(s[k]) /\ s[k].name = Key(n)}
      ends == {k \in Slot : s[k].st = "end"}
      k    == First(hits)
      fc   == FreeChain(fat, info, s[k].clus)
  IN
  IF First(hits) < First(ends)
    THEN /\ data' = [data EXCEPT ![c][k].st = DeletedMark, ![c][k].name = names[n].gone]
         /\ fat' = fc.t
         /\ info' = fc.i
         /\ Persist(fc.t, fc.i)
         /\ rc' = "ok"
    \* -2 at an end record, -1 at end of chain, or the endless rescan.
    \* unlink and rmdir call remove only after search found the name in
    \* the same first cluster, so they never take this branch.
    ELSE /\ rc' = IF ends # {} \/ NextCluster(fat, c) >= EOF
                    THEN "noent" ELSE "hung"
         /\ IF rc' = "hung" THEN Remount ELSE UNCHANGED <<fat, info>>
         /\ UNCHANGED <<dfat, dinfo, data>>

(* A lookup raised (len(None)): the process dies.                          *)
Raised ==
  /\ rc' = "raised"
  /\ Remount
  /\ UNCHANGED <<dfat, dinfo, data>>

(* A command returned without touching anything.                           *)
Refused(r) ==
  /\ rc' = r
  /\ UNCHANGED <<fat, info, dfat, dinfo, data>>

(***************************************************************************)
(* Commands.  Each resolves the parent directory `dirs` (p) with walk and *)
(* acts on the last path segment n.                                        *)
(***************************************************************************)

(* creat / mkdir (commands.py) and the fs.create calls of main.py init:    *)
(* walk(dirs); a missing parent answers 1; then create in its cluster.     *)
Create(p, n, a, crash) ==
  LET e == Walk(fat, p) IN
  \/ e = RAISED /\ Raised
  \/ e = NOTFOUND /\ Refused("noent")
  \/ IsUsed(e) /\ CreateIn(e.clus, n, a, crash)

(* creat gives create ARCHIVE, mkdir DIRECTORY (commands.py).             *)
Creat(p, n, crash) == Create(p, n, {ARCHIVE}, crash)
Mkdir(p, n, crash) == Create(p, n, {DIR}, crash)

(* unlink: a path directly under '/' is refused ("Invalid file"); the     *)
(* target must exist, carry ARCHIVE and not SYSTEM; then remove.           *)
Unlink(p, n) ==
  LET e == Walk(fat, p)
      t == Search(fat, e.clus, Key(n))
  IN
  \/ p = <<>> /\ Refused("invalid")
  \/ p # <<>> /\ e = RAISED /\ Raised
  \/ p # <<>> /\ e = NOTFOUND /\ Refused("noent")
  \/ /\ p # <<>> /\ IsUsed(e)
     /\ \/ t = RAISED /\ Raised
        \/ t = NOTFOUND /\ Refused("noent")
        \/ IsUsed(t) /\ ARCHIVE \notin t.attr /\ Refused("isdir")
        \/ IsUsed(t) /\ ARCHIVE \in t.attr /\ SYSTEM \in t.attr
           /\ Refused("system")
        \/ IsUsed(t) /\ ARCHIVE \in t.attr /\ SYSTEM \notin t.attr
           /\ RemoveIn(e.clus, n)

(* rmdir: the parent must carry DIRECTORY, the target must exist and list *)
(* exactly two records (len(fs.ls(target)) - 2 == 0); then remove.         *)
Rmdir(p, n) ==
  LET e == Walk(fat, p)
      t == Search(fat, e.clus, Key(n))
      l == Ls(fat, t.clus)
  IN
  \/ e = RAISED /\ Raised
  \/ e = NOTFOUND /\ Refused("noent")
  \/ IsUsed(e) /\ DIR \notin e.attr /\ Refused("notdir")
  \/ /\ IsUsed(e) /\ DIR \in e.attr
     /\ \/ t = RAISED /\ Raised
        \/ t = NOTFOUND /\ Refused("noent")
        \/ IsUsed(t) /\ l = NONE /\ Raised
        \/ IsUsed(t) /\ l # NONE /\ Len(l) # 2 /\ Refused("notempty")
        \/ IsUsed(t) /\ l # NONE /\ Len(l) = 2 /\ RemoveIn(e.clus, n)

(* ls: walk(path); a missing path answers 1 and a file just prints its   *)
(* path; for a directory `for e in fs.ls(...)` raises when ls returns     *)
(* None (a full first cluster linked onward).  Nothing is written.        *)
LsCmd(q) ==
  LET e == Walk(fat, q) IN
  \/ e = RAISED /\ Raised
  \/ e = NOTFOUND /\ Refused("noent")
  \/ IsUsed(e) /\ DIR \notin e.attr /\ Refused("ok")
  \/ IsUsed(e) /\ DIR \in e.attr /\ Ls(fat, e.clus) = NONE /\ Raised
  \/ IsUsed(e) /\ DIR \in e.attr /\ Ls(fat, e.clus) # NONE /\ Refused("ok")

(* stat's chain loop `while 0x2 <= cur < EOF: cur = next_cluster(cur)`,   *)
(* which has no step bound: "hung" when it is still running after more    *)
(* steps than there are clusters, i.e. the chain loops.                    *)
RECURSIVE StatLoop(_, _, _)
StatLoop(t, cur, n) ==
  IF ~(2 <= cur /\ cur < EOF) THEN "ok"
  ELSE IF n = 0 THEN "hung"
  ELSE StatLoop(t, NextCluster(t, cur), n - 1)

(* stat: walk(path); a missing path answers 1; otherwise print the record *)
(* and its chain, or loop forever until the process is killed.            *)
StatCmd(q) ==
  LET e == Walk(fat, q) IN
  \/ e = RAISED /\ Raised
  \/ e = NOTFOUND /\ Refused("noent")
  \/ /\ IsUsed(e)
     /\ rc' = StatLoop(fat, e.clus, NClus)
     /\ IF rc' = "hung" THEN Remount ELSE UNCHANGED <<fat, info>>
     /\ UNCHANGED <<dfat, dinfo, data>>

(* The process exits and a new command mounts the image.                   *)
Mount ==
  /\ Remount
  /\ rc' = "mounted"
  /\ UNCHANGED <<dfat, dinfo, data>>

(***************************************************************************)
(* A freshly formatted, zero-filled image (format_file), with or without  *)
(* an FSInfo sector, mounted once.                                         *)
(***************************************************************************)
Init ==
  /\ dfat = FormattedTable
  /\ dinfo \in {[valid |-> TRUE, count |-> UNSET, next |-> UNSET],
                [valid |-> FALSE, count |-> 0, next |-> 0]}
  /\ data = [c \in DataClus |-> [k \in Slot |-> END]]
  /\ fat = dfat
  /\ \E sc \in StartClusters : info = LoadFSInfo(dinfo, sc)
  /\ rc = "mounted"
  /\ names = NameTable

Next ==
  /\ \/ \E p \in Paths, n \in Names, x \in Crashes : Creat(p, n, x) \/ Mkdir(p, n, x)
     \/ \E p \in Paths, n \in Names, a \in Attrs, x \in Crashes : Create(p, n, a, x)
     \/ \E p \in Paths, n \in Names : Unlink(p, n)
     \/ \E p \in Paths, n \in Names : Rmdir(p, n)
     \/ \E q \in QueryPaths : LsCmd(q) \/ StatCmd(q)
     \/ Mount
  /\ UNCHANGED names

Spec == Init /\ [][Next]_vars

-----------------------------------------------------------------------------
(***************************************************************************)
(* The directory tree as the code sees it: the records ls lists in the    *)
(* first cluster of every directory reachable from the root (dot records  *)
(* excluded), and the chains they own.                                     *)
(***************************************************************************)
Visible(c) == {k \in 1 .. FirstEnd(data[c]) - 1 :
                 IsUsed(data[c][k]) /\ ~IsDot(data[c][k])}

(* The clusters of the directories listed in directory c.                 *)
SubDirs(c) == {data[c][k].clus : k \in {j \in Visible(c) : DIR \in data[c][j].attr}}

(* The directory clusters reachable from `seen`, expanding only the ones  *)
(* found last (`frontier`).                                                *)
RECURSIVE Reach(_, _)
Reach(seen, frontier) ==
  LET found == UNION {SubDirs(c) : c \in frontier} \ seen IN
  IF found = {} THEN seen ELSE Reach(seen \cup found, found)

DirClusters == Reach({ROOT}, {ROOT})

(* A live record is named by its place <<directory cluster, slot>>; the   *)
(* root is the owner <<0, 0>>.                                             *)
Live == UNION {{<<c, k>> : k \in Visible(c)} : c \in DirClusters}
Owners == Live \cup {<<0, 0>>}
FirstOf(o) == IF o = <<0, 0>> THEN ROOT ELSE data[o[1]][o[2]].clus

(* The chains the image's FAT gives the live records and the root: the    *)
(* refinement mapping to ChainStore.                                       *)
ImageChains == [o \in Owners |-> ChainSeq(dfat, FirstOf(o))]

Store == INSTANCE ChainStore WITH Owner <- (DataClus \X Slot) \cup {<<0, 0>>},
                                 Clus <- DataClus, RootOwner <- <<0, 0>>,
                                 RootClus <- ROOT, chains <- ImageChains

TypeOK ==
  /\ fat \in [Clusters -> 0 .. EOC]
  /\ dfat \in [Clusters -> 0 .. EOC]
  /\ info \in [count : Int, next : Int]
  \* the sector's fields are packed as unsigned 32-bit ("I")
  /\ dinfo \in [valid : BOOLEAN, count : Nat \cup {UNSET}, next : Nat \cup {UNSET}]
  /\ LET written == StoredNames \cup RemovedNames \cup {DOT, DOTDOT} IN
     \A c \in DataClus, k \in Slot :
       /\ data[c][k].st \in {"end", "del", "used"}
       /\ data[c][k].st # "end" =>
            /\ data[c][k].name \in written
            /\ data[c][k].clus \in DataClus
  /\ rc \in Results

(***************************************************************************)
(* The allocation is sound, in memory and on the image: the chain of the  *)
(* root and of every live record (create's next_free_cluster + EOF mark,  *)
(* the growth of a directory by append_cluster) ends at an end-of-chain   *)
(* value through allocated clusters only, and no cluster is in the chains *)
(* of two owners (no cross-linked files).                                 *)
(***************************************************************************)
Sound(t) ==
  /\ \A o \in Owners : Chain(t, FirstOf(o)).ok
  /\ \A o1, o2 \in Owners :
       o1 # o2 => Chain(t, FirstOf(o1)).s \cap Chain(t, FirstOf(o2)).s = {}

AllocationSound == Sound(fat) /\ Sound(dfat)

(***************************************************************************)
(* On an image whose FSInfo sector is valid, the free count FATFS keeps  *)
(* in memory is known (never the -1 that stands for "unknown") and at     *)
(* least the number of free data clusters in its table, and so is a count *)
(* update() has written to the image.  __init__ takes an unset count as   *)
(* totalClusters (defs.py:371), append_cluster decrements it only after   *)
(* it found a cluster, create allocates without decrementing and          *)
(* free_chain adds what it released: across sessions, remounts and        *)
(* interrupted commands no decrement may reach the -1 sentinel.           *)
(***************************************************************************)
FreeCountCoversTable ==
  LET FreeIn(t) == {c \in DataClus : IsFree(t, c)} IN
  /\ dinfo.valid => info.count >= Cardinality(FreeIn(fat))
  /\ dinfo.valid /\ dinfo.count # UNSET => dinfo.count >= Cardinality(FreeIn(dfat))

(***************************************************************************)
(* Every live record is visible: in a directory cluster no record follows *)
(* the first end record (name[0] = 0x00), which ls, search and remove     *)
(* treat as the end of the directory.  create fills the first free record *)
(* and remove marks 0xE5, never 0x00.                                      *)
(***************************************************************************)
NothingAfterEnd ==
  \A c \in DirClusters : \A k \in Slot :
    k > FirstEnd(data[c]) => data[c][k].st = "end"

(***************************************************************************)
(* rmdir removes only empty directories: when a live directory record is  *)
(* marked deleted, its cluster lists no record besides '.' and '..'.      *)
(* This rests on rmdir's len(fs.ls(target)) - 2 check and on create       *)
(* writing both dot records.                                               *)
(***************************************************************************)
RemovedDirsEmpty ==
  [][\A o \in Live :
       LET r == data[o[1]][o[2]] IN
       (DIR \in r.attr /\ data'[o[1]][o[2]].st = "del") => Visible(r.clus) = {}
    ]_vars

(***************************************************************************)
(* Removing a file or directory releases its clusters (spec 4.3, 4.4 and  *)
(* 8: "the freed cluster must become available to a subsequent create"):  *)
(* when remove marks a live record deleted, every cluster of its chain is *)
(* free in the table afterwards.  free_chain's bounds test decides this.  *)
(***************************************************************************)
RemoveFreesChain ==
  [][\A o \in Live :
       LET r == data[o[1]][o[2]] IN
       data'[o[1]][o[2]].st = "del" =>
         \A x \in Chain(fat, r.clus).s : IsFree(fat', x)
    ]_vars

(***************************************************************************)
(* No two live records of a directory carry the same short name (spec     *)
(* 4.2, 4.4: create reports AlreadyExists when the name is taken).        *)
(* create compares names only until it meets the first free record.       *)
(***************************************************************************)
UniqueNames ==
  \A c \in DirClusters : \A k1, k2 \in Visible(c) :
    k1 # k2 => data[c][k1].name # data[c][k2].name

(***************************************************************************)
(* Directory records are written only into directories (spec 4.4, 7:      *)
(* NotADirectory): the data cluster of a live file holds no record.       *)
(* creat and mkdir pass whatever walk(dirs) returns to create.            *)
(***************************************************************************)
FilesHoldNoRecords ==
  \A o \in Live :
    LET r == data[o[1]][o[2]] IN
    DIR \notin r.attr => \A k \in Slot : data[r.clus][k].st = "end"

(***************************************************************************)
(* A create into a full directory grows it (spec 4.4: extend the parent   *)
(* by one cluster and retry; VolumeFull only when extension fails): the   *)
(* answer "FAT Full" (-1) comes only when fewer than two clusters, one    *)
(* for the directory and one for the new entry, were free.                *)
(***************************************************************************)
FullOnlyWhenNoSpace ==
  [][rc' = "full" => Cardinality({c \in DataClus : IsFree(fat, c)}) < 2]_vars

(***************************************************************************)
(* fat_format_name follows the specification's rules 1-4 (4.2): the       *)
(* sentinel for the empty name, the base cut at the last dot or at 8, at  *)
(* most 3 extension characters, '~1' and the extension's last 3           *)
(* characters past 11 characters, upper case; on every input of           *)
(* FormatInputs, and for the names the commands search for and store.     *)
(***************************************************************************)
FormatFollowsRules ==
  /\ FormatRulesHold
  /\ \A n \in DOMAIN names : names[n].key = Join(SpecShortName(n))

(***************************************************************************)
(* FatFs implements ChainStore under ImageChains: every command changes   *)
(* the chains on the image only by giving a new record a cluster no       *)
(* chain owns, dropping a deleted record's chain, or cutting a chain and  *)
(* growing it at its end with unowned clusters.  This is what create's   *)
(* allocation, remove's free_chain, write's append_cluster and cp's       *)
(* truncation together must keep, across sessions and stale hints.       *)
(***************************************************************************)
ChainsRefineStore == Store!Spec

=============================================================================
