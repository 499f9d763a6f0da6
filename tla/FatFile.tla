------------------------------ MODULE FatFile ------------------------------
(***************************************************************************)
(* The File I/O Engine of src/tools/fs/fat/lib/fat/defs.py (FATFD, open,   *)
(* seek, read, write, __entry_lba) and the commands that drive it:         *)
(* commands.py cp (with and without -ex) and read.  It composes the        *)
(* directory model FatFs, which it extends: the FatFs operations stay    *)
(* possible between file commands, and cp creates its destination with    *)
(* FatFs's create.                                                         *)
(*                                                                         *)
(* Bytes are counted in units of CS per cluster; a unit stands for         *)
(* clusterSize / CS bytes.  The code's only arithmetic on positions is     *)
(* % clusterSize, // clusterSize and comparisons with fileSize and with    *)
(* the chunk and buffer sizes, which are whole clusters (cp reads          *)
(* clusterSize, read reads 512 = one cluster at one sector per cluster),   *)
(* so units keep every boundary case: start, middle and end of a cluster. *)
(* A byte is Zero (a zero-filled image) or <<tag, j>>, byte j of the host     *)
(* file with that tag, so a misplaced or stale byte is told apart.         *)
(*                                                                         *)
(* A cluster's bytes (img) and its directory records (data) are kept as    *)
(* two views; they meet only where a cluster is both a file and a          *)
(* directory, which takes one of the defects FatFs already reports.        *)
(***************************************************************************)
EXTENDS FatFs, Sequences

CONSTANTS
  CS,            \* units per cluster
  ReadBuf,       \* the read command's bufferSize (512 bytes) in units
  Hosts,         \* host files cp -ex can copy: [name, len, tag]
  WriteCrashes,  \* {FALSE} or {FALSE, TRUE}: may a write die before update()
  Commands,      \* the file commands a run issues: some of "cpex", "cp", "read"
  ReadArgs       \* read's <<-s, -l>> pairs; -l = -1 stands for no -l

ASSUME CS \in Nat /\ CS >= 2 /\ ReadBuf \in Nat /\ ReadBuf >= 1
ASSUME WriteCrashes \subseteq BOOLEAN /\ FALSE \in WriteCrashes
ASSUME Commands \subseteq {"cpex", "cp", "read"}
ASSUME \A h \in Hosts : h.name \in Names      \* basenames the tables format
ASSUME ReadArgs \subseteq Nat \X (Nat \cup {-1})

VARIABLES img,   \* the bytes of every cluster on the image
          proc,  \* the file command in progress (one process at a time)
          out    \* what the last file command answered or printed

fileVars == <<fat, info, dfat, dinfo, data, rc, names, img, proc, out>>

HostByte(h, j) == <<h.tag, j>>
Zero == <<0, 0>>                \* a byte of the zero-filled image
Bytes == {Zero} \cup UNION {{HostByte(h, j) : j \in 1 .. h.len} : h \in Hosts}
NoHost == [name |-> <<>>, len |-> 0, tag |-> 0]

(***************************************************************************)
(* FATFD(entry, dirCluster): the entry read at open, its first and current *)
(* cluster, the cursor and the parent's first cluster.                     *)
(***************************************************************************)
FD(e, dir) == [entry |-> e, first |-> e.clus, cur |-> e.clus, cursor |-> 0,
               dir |-> dir]
NoFD == FD(NOTFOUND, 0)

(* open(path): a path directly under '/' is refused; else walk the parent *)
(* (whatever its kind) and search the name in its first cluster.          *)
Open(t, p, n) ==
  LET e  == Walk(t, p)
      tg == Search(t, e.clus, Key(n))
  IN  IF p = <<>> \/ e = NOTFOUND THEN [st |-> "none", fd |-> NoFD]
      ELSE IF e = RAISED \/ tg = RAISED THEN [st |-> "raised", fd |-> NoFD]
      ELSE IF tg = NOTFOUND THEN [st |-> "none", fd |-> NoFD]
      ELSE [st |-> "fd", fd |-> FD(tg, e.clus)]

(* seek's walk: k hops along the chain; -1 when an end-of-chain comes first. *)
RECURSIVE Hop(_, _, _)
Hop(t, c, k) ==
  IF k = 0 THEN c
  ELSE IF NextCluster(t, c) >= EOF THEN -1
  ELSE Hop(t, NextCluster(t, c), k - 1)

(* seek(fd, s) with whence 0: beyond fileSize, or a chain that ends too   *)
(* early, returns -1 and leaves the handle alone.                          *)
Seek(t, fd, s) ==
  LET c == Hop(t, fd.first, s \div CS) IN
  IF s > fd.entry.size \/ c = -1 THEN fd
  ELSE [fd EXCEPT !.cur = c, !.cursor = s]

(***************************************************************************)
(* read(fd, count).  The loop reads at most to the end of the current      *)
(* cluster: at the boundary an end-of-chain discards what was read and     *)
(* answers b'' (cursor := fileSize); an existing next cluster leaves       *)
(* bytesLeftInCluster at 0, so with bytes still wanted the loop spins      *)
(* forever.  fd.cursor and fd.currentCluster are never advanced.           *)
(***************************************************************************)
Read(t, fd, count) ==
  LET off  == fd.cursor % CS
      left == CS - off
      n    == IF count < left THEN count ELSE left
  IN  IF fd.cursor = fd.entry.size
        THEN [res |-> "ok", out |-> <<>>, fd |-> fd]
      ELSE IF n = left /\ NextCluster(t, fd.cur) >= EOF
        THEN [res |-> "ok", out |-> <<>>, fd |-> [fd EXCEPT !.cursor = fd.entry.size]]
      ELSE IF count > left
        THEN [res |-> "spin", out |-> <<>>, fd |-> fd]
      ELSE [res |-> "ok", out |-> [j \in 1 .. n |-> img[fd.cur][off + j]], fd |-> fd]

(***************************************************************************)
(* write's loop over buf from byte done+1: fill the current cluster; at    *)
(* every boundary (also after the last byte) append a cluster when the     *)
(* chain ends there, answering -1 ("full") if none is free; an existing   *)
(* next cluster is not entered (bytesLeftInCluster stays 0), so bytes      *)
(* still to write make it spin.  Result: the table, hints and bytes, the   *)
(* current cluster and the cursor.                                         *)
(***************************************************************************)
RECURSIVE WriteLoop(_, _, _, _, _, _, _, _)
WriteLoop(t, i, im, cur, cursor, left, buf, done) ==
  LET rem == Len(buf) - done
      n   == IF rem < left THEN rem ELSE left
      off == cursor % CS
      im2 == [im EXCEPT ![cur] = [j \in 1 .. CS |->
                IF off < j /\ j <= off + n THEN buf[done + j - off] ELSE im[cur][j]]]
      a   == AppendCluster(t, i, cur)
      r(x) == [res |-> x, t |-> t, i |-> i, im |-> im, cur |-> cur, cursor |-> cursor]
  IN  IF rem = 0 THEN r("ok")
      ELSE IF n = 0 THEN r("spin")
      ELSE IF (cursor + n) % CS # 0
        THEN WriteLoop(t, i, im2, cur, cursor + n, left - n, buf, done + n)
      ELSE IF NextCluster(t, cur) < EOF
        THEN WriteLoop(t, i, im2, cur, cursor + n, 0, buf, done + n)
      ELSE IF a.r = -1 THEN [r("full") EXCEPT !.im = im2]
      ELSE WriteLoop(a.t, a.i, im2, a.r, cursor + n, CS, buf, done + n)

(***************************************************************************)
(* __entry_lba(dirCluster, entry): the first record of the parent's first *)
(* cluster whose name decodes equal to the entry's.  A deleted record      *)
(* before it (0xE5 and an ASCII byte) fails .decode() and raises; no       *)
(* match gives -1, and seek(-1) raises too.  -1 here stands for both.      *)
(***************************************************************************)
EntrySlot(c, n) ==
  LET hit == {k \in Slot : data[c][k].name = n}
      del == {k \in Slot : data[c][k].st = "del"}
  IN  IF hit = {} \/ First(del) < First(hit) THEN -1 ELSE First(hit)

(***************************************************************************)
(* The command in progress.  k is "open" between cp's destination set-up   *)
(* and its open calls, "write" in cp's copy loop, "spin" inside a loop     *)
(* that can no longer change anything.                                     *)
(***************************************************************************)
Idle == [cmd |-> "none", k |-> "idle", dst |-> <<>>, src |-> <<>>,
         host |-> NoHost, fd |-> NoFD, sfd |-> NoFD, pos |-> 0]
NoOut == [cmd |-> "none", res |-> "none", first |-> 0, size |-> 0, seek |-> 0,
          len |-> 0, bytes |-> <<>>]
Answer(c, r) == [NoOut EXCEPT !.cmd = c, !.res = r]

(* The process exits after a command: the next one mounts the image.     *)
Exit(c, r) ==
  /\ proc' = Idle
  /\ out' = Answer(c, r)
  /\ Remount
  /\ UNCHANGED <<dfat, dinfo, data, rc, img>>

(* The call raised: the process dies.                                      *)
Dies(c) ==
  /\ Raised
  /\ proc' = Idle
  /\ out' = Answer(c, "raised")
  /\ UNCHANGED img

(***************************************************************************)
(* cp's destination handling for a source with basename b: a missing     *)
(* path2 is created in walk(dirs) (None there raises in                   *)
(* get_cluster_entry); an existing directory gets b created in it unless  *)
(* search finds it, and path2 becomes path2/b; an existing file is used.  *)
(* create's results are ignored.  Then the process goes on to open.       *)
(***************************************************************************)
CpDest(c, b, p, n, src, h) ==
  LET dest == Walk(fat, Append(p, n))
      dirs == Walk(fat, p)
      tg   == Search(fat, dest.clus, Key(b))
      Go(q) == /\ proc' = IF rc' = "raised" THEN Idle
                          ELSE [Idle EXCEPT !.cmd = c, !.k = "open", !.dst = q,
                                            !.src = src, !.host = h]
               /\ out' = IF rc' = "raised" THEN Answer(c, "raised") ELSE NoOut
               /\ UNCHANGED img
      Stay(q) == UNCHANGED vars /\ Go(q)
  IN
  \/ dest = RAISED /\ Dies(c)
  \/ dest = NOTFOUND /\ ~IsUsed(dirs) /\ Dies(c)
  \/ /\ dest = NOTFOUND /\ IsUsed(dirs)
     /\ CreateIn(dirs.clus, n, {ARCHIVE}, FALSE)
     /\ Go(Append(p, n))
  \/ IsUsed(dest) /\ DIR \notin dest.attr /\ Stay(Append(p, n))
  \/ /\ IsUsed(dest) /\ DIR \in dest.attr
     /\ \/ tg = RAISED /\ Dies(c)
        \/ /\ tg = NOTFOUND
           /\ CreateIn(dest.clus, b, {ARCHIVE}, FALSE)
           /\ Go(Append(Append(p, n), b))
        \/ IsUsed(tg) /\ Stay(Append(Append(p, n), b))

(* cp -ex host path2: the host file exists (os.path.isfile).               *)
CpExBegin(h, p, n) ==
  /\ proc = Idle
  /\ CpDest("cpex", h.name, p, n, <<>>, h)

(* cp path1 path2: walk(path1), given as s, must find something.          *)
CpBegin(s, p1, n1, p, n) ==
  /\ proc = Idle
  /\ \/ s = RAISED /\ Dies("cp")
     \/ s = NOTFOUND /\ out' = Answer("cp", "noent")
        /\ UNCHANGED <<vars, img, proc>>
     \/ IsUsed(s) /\ CpDest("cp", n1, p, n, Append(p1, n1), NoHost)

(* Mutant of Truncate: the first cluster is marked free (0), not EOF,     *)
(* while the record still points at it.                                    *)
TruncateFreeFirst(fd) ==
  LET fc == FreeChain(fat, info, fd.first) IN
  IF fd.entry.size > 0
    THEN [t |-> [fc.t EXCEPT ![fd.first] = UNUSED], i |-> fc.i,
          fd |-> [fd EXCEPT !.entry.size = 0]]
    ELSE [t |-> fat, i |-> info, fd |-> fd]

(***************************************************************************)
(* cp's truncation of a destination that has content: free_chain, then    *)
(* table[first] = EOF and fileSize = 0, all in memory.                    *)
(***************************************************************************)
Truncate(fd) ==
  LET fc == FreeChain(fat, info, fd.first) IN
  IF fd.entry.size > 0
    THEN [t |-> [fc.t EXCEPT ![fd.first] = EOF], i |-> fc.i,
          fd |-> [fd EXCEPT !.entry.size = 0]]
    ELSE [t |-> fat, i |-> info, fd |-> fd]

Last(q) == q[Len(q)]
Front(q) == SubSeq(q, 1, Len(q) - 1)

(* cp: open the source (internal cp) and the destination; a missing one  *)
(* answers 1; then truncate the destination.                              *)
CpOpen ==
  LET s  == Open(fat, Front(proc.src), Last(proc.src))
      d  == Open(fat, Front(proc.dst), Last(proc.dst))
      tr == Truncate(d.fd)
  IN
  /\ proc.k = "open"
  /\ \/ proc.cmd = "cp" /\ s.st = "raised" /\ Dies("cp")
     \/ /\ proc.cmd = "cpex" \/ s.st # "raised"
        /\ \/ d.st = "raised" /\ Dies(proc.cmd)
           \/ /\ d.st = "none" \/ (proc.cmd = "cp" /\ s.st = "none")
              /\ d.st # "raised"
              /\ Exit(proc.cmd, "noent")
           \/ /\ d.st = "fd" /\ (proc.cmd = "cpex" \/ s.st = "fd")
              /\ fat' = tr.t
              /\ info' = tr.i
              /\ proc' = [proc EXCEPT !.k = "write", !.fd = tr.fd,
                                   !.sfd = IF proc.cmd = "cp" THEN s.fd ELSE NoFD]
              /\ out' = NoOut
              /\ UNCHANGED <<dfat, dinfo, data, rc, img>>

(***************************************************************************)
(* One fs.write(dstFd, buf) of cp's loop, then the loop goes on with nxt. *)
(* A spinning loop has written its bytes and stays (so does a -1 that    *)
(* would redo the same step); -1 leaves the size,                        *)
(* the record and the image's FAT alone but keeps the handle's current    *)
(* cluster; otherwise the record (with the new size) is written where     *)
(* __entry_lba finds it, then update().  With crash the process dies      *)
(* between the record and update().                                        *)
(***************************************************************************)
WriteStep(buf, crash, nxt) ==
  LET fd   == proc.fd
      w    == WriteLoop(fat, info, img, fd.cur, fd.cursor, CS - (fd.cursor % CS), buf, 0)
      rec  == [fd.entry EXCEPT !.size = IF w.cursor > fd.entry.size
                                          THEN w.cursor ELSE fd.entry.size]
      slot == EntrySlot(fd.dir, fd.entry.name)
      fd2  == [fd EXCEPT !.cur = w.cur, !.cursor = w.cursor, !.entry = rec]
  IN
  /\ img' = w.im
  /\ out' = NoOut
  /\ \/ /\ w.res = "spin"
        /\ fat' = w.t /\ info' = w.i
        /\ proc' = [proc EXCEPT !.k = "spin"]
        /\ UNCHANGED <<dfat, dinfo, data, rc>>
     \/ /\ w.res = "full"
        /\ fat' = w.t /\ info' = w.i
        /\ proc' = IF [nxt EXCEPT !.fd.cur = w.cur] = proc
                      /\ <<w.t, w.i, w.im>> = <<fat, info, img>>
                     THEN [proc EXCEPT !.k = "spin"]
                     ELSE [nxt EXCEPT !.fd.cur = w.cur]
        /\ UNCHANGED <<dfat, dinfo, data, rc>>
     \/ /\ w.res = "ok" /\ slot = -1
        /\ Raised /\ proc' = Idle
     \/ /\ w.res = "ok" /\ slot # -1
        /\ data' = [data EXCEPT ![fd.dir][slot] = rec]
        /\ IF crash
             THEN /\ rc' = "crashed" /\ Remount /\ proc' = Idle
                  /\ UNCHANGED <<dfat, dinfo>>
             ELSE /\ fat' = w.t /\ info' = w.i
                  /\ Persist(w.t, w.i)
                  /\ proc' = [nxt EXCEPT !.fd = fd2]
                  /\ UNCHANGED rc

(* Mutant of CpExChunk: the host position advances by a whole cluster.    *)
CpExChunkSkip(crash) ==
  LET h == proc.host
      n == IF h.len - proc.pos < CS THEN h.len - proc.pos ELSE CS
  IN
  /\ proc.k = "write" /\ proc.cmd = "cpex"
  /\ IF proc.pos = h.len
       THEN Exit("cpex", "ok")
       ELSE WriteStep([j \in 1 .. n |-> HostByte(h, proc.pos + j)], crash,
                      [proc EXCEPT !.pos = proc.pos + CS])

(* Mutant of CpExChunk: the same host chunk is written again and again.   *)
CpExChunkStall(crash) ==
  LET h == proc.host
      n == IF h.len - proc.pos < CS THEN h.len - proc.pos ELSE CS
  IN
  /\ proc.k = "write" /\ proc.cmd = "cpex"
  /\ IF proc.pos = h.len
       THEN Exit("cpex", "ok")
       ELSE WriteStep([j \in 1 .. n |-> HostByte(h, proc.pos + j)], crash, proc)

(* cp -ex's loop: data = f.read(clusterSize); while data: write.          *)
CpExChunk(crash) ==
  LET h   == proc.host
      pos == proc.pos
      n   == IF h.len - pos < CS THEN h.len - pos ELSE CS
  IN
  /\ proc.k = "write" /\ proc.cmd = "cpex"
  /\ IF pos = h.len
       THEN Exit("cpex", "ok")
       ELSE WriteStep([j \in 1 .. n |-> HostByte(h, pos + j)], crash,
                      [proc EXCEPT !.pos = pos + n])

(* cp's loop: data = fs.read(srcFd, clusterSize); while data: write.      *)
CpChunk(crash) ==
  LET r == Read(fat, proc.sfd, CS) IN
  /\ proc.k = "write" /\ proc.cmd = "cp"
  /\ \/ /\ r.res = "spin"
        /\ proc' = [proc EXCEPT !.k = "spin"]
        /\ out' = NoOut
        /\ UNCHANGED <<vars, img>>
     \/ r.res = "ok" /\ r.out = <<>> /\ Exit("cp", "ok")
     \/ /\ r.res = "ok" /\ r.out # <<>>
        /\ WriteStep(r.out, crash, [proc EXCEPT !.sfd = r.fd])

(***************************************************************************)
(* The read command, given o = open(path): "File is empty" for size 0; -s  *)
(* s must lie in [0, size) and -l l in [0, size - s] (l = -1: no -l,       *)
(* readSize = size); seek (its answer unchecked), then read 512-byte       *)
(* pieces until readSize is used up or read answers b''.  Nothing on the   *)
(* image changes.  The "Is a directory" test comes after the size test: it *)
(* is reached by a directory that cp, writing to a destination of the same *)
(* name, gave a size.                                                      *)
(***************************************************************************)
RECURSIVE ReadLoop(_, _, _, _)
ReadLoop(t, fd, n, acc) ==
  LET r == Read(t, fd, IF n < ReadBuf THEN n ELSE ReadBuf) IN
  IF n <= 0 THEN [res |-> "ok", bytes |-> acc]
  ELSE IF r.res = "spin" THEN [res |-> "spin", bytes |-> acc]
  ELSE IF r.out = <<>> THEN [res |-> "ok", bytes |-> acc]
  ELSE ReadLoop(t, r.fd, n - Len(r.out), acc \o r.out)

ReadCmd(o, s, l) ==
  LET size == o.fd.entry.size
      want == IF l = -1 THEN size ELSE l
      r    == ReadLoop(fat, Seek(fat, o.fd, s), want, <<>>)
      ok   == [Answer("read", "ok") EXCEPT !.first = o.fd.first, !.size = size,
                                           !.seek = s, !.len = want, !.bytes = r.bytes]
  IN
  /\ proc = Idle
  /\ \/ o.st = "raised" /\ Dies("read")
     \/ /\ o.st # "raised"
        /\ UNCHANGED <<vars, img>>
        /\ \/ o.st = "none" /\ out' = Answer("read", "noent") /\ UNCHANGED proc
           \/ o.st = "fd" /\ size = 0 /\ out' = Answer("read", "empty")
              /\ UNCHANGED proc
           \/ /\ o.st = "fd" /\ size > 0 /\ DIR \in o.fd.entry.attr
              /\ out' = Answer("read", "isdir") /\ UNCHANGED proc
           \/ /\ o.st = "fd" /\ size > 0 /\ DIR \notin o.fd.entry.attr
              /\ s >= size \/ (l # -1 /\ l > size - s)
              /\ out' = Answer("read", "range") /\ UNCHANGED proc
           \/ /\ o.st = "fd" /\ size > 0 /\ DIR \notin o.fd.entry.attr
              /\ s < size /\ (l = -1 \/ l <= size - s)
              /\ \/ want <= 0 /\ out' = ok /\ UNCHANGED proc
                 \/ want > 0 /\ r.res = "ok" /\ out' = ok /\ UNCHANGED proc
                 \/ /\ want > 0 /\ r.res = "spin"
                    /\ proc' = [Idle EXCEPT !.cmd = "read", !.k = "spin"]
                    /\ out' = NoOut

(* The running process is killed (Ctrl-C, a closed terminal).             *)
Kill ==
  /\ proc # Idle
  /\ Exit(proc.cmd, "killed")

(* The steps a running command takes on its own.                           *)
Step ==
  \/ CpOpen
  \/ \E x \in WriteCrashes : CpExChunk(x) \/ CpChunk(x)

(* A directory command (FatFs) runs only while no file command does.       *)
DirStep == proc = Idle /\ Next /\ out' = NoOut /\ UNCHANGED <<img, proc>>

FileInit ==
  /\ Init
  /\ img = [c \in Clusters |-> [j \in 1 .. CS |-> Zero]]
  /\ proc = Idle
  /\ out = NoOut

FileNext ==
  /\ \/ DirStep
     \/ "cpex" \in Commands /\ \E h \in Hosts, p \in Paths, n \in Names :
          CpExBegin(h, p, n)
     \/ "cp" \in Commands /\ \E p1 \in Paths, n1 \in Names :
          \E s \in {Walk(fat, Append(p1, n1))}, p \in Paths, n \in Names :
            CpBegin(s, p1, n1, p, n)
     \/ "read" \in Commands /\ \E p \in Paths, n \in Names :
          \E o \in {Open(fat, p, n)}, a \in ReadArgs : ReadCmd(o, a[1], a[2])
     \/ Step
     \/ Kill
  /\ UNCHANGED names

(***************************************************************************)
(* The process runs to the end of its command unless it is killed: its   *)
(* own steps are weakly fair.  The user's commands and kills are not.     *)
(***************************************************************************)
Fairness == WF_fileVars(Step /\ UNCHANGED names)

(***************************************************************************)
(* Fairness as TLC checks it (the MC configurations substitute it).       *)
(* Every branch of CpOpen, CpExChunk and CpChunk is total and moves proc, *)
(* so ENABLED <<Step>>_fileVars is exactly Working (a write retry that    *)
(* would change nothing is the spin state), and WF is written with that   *)
(* state predicate for ENABLED, which TLC evaluates far faster.           *)
(***************************************************************************)
Working == proc.k \in {"open", "write"}

WorkingFairness == []<>~Working \/ []<><<Step>>_fileVars

FileSpec == FileInit /\ [][FileNext]_fileVars /\ Fairness

-----------------------------------------------------------------------------
(* The bytes a file's first n bytes occupy along its chain in table t;    *)
(* <<-1, -1>> where the chain leaves the data region before n bytes.           *)
RECURSIVE ContentFrom(_, _, _, _)
ContentFrom(t, im, c, n) ==
  IF n <= 0 THEN <<>>
  ELSE IF c \notin DataClus THEN <<<<-1, -1>>>>
  ELSE LET k == IF n < CS THEN n ELSE CS IN
       [j \in 1 .. k |-> im[c][j]] \o ContentFrom(t, im, NextCluster(t, c), n - k)

HostContent(h) == [j \in 1 .. h.len |-> HostByte(h, j)]

(* The first live record named n in cluster c of the records d.           *)
Named(d, c, n) == {k \in Slot : IsUsed(d[c][k]) /\ d[c][k].name = n}

(* Types: FatFs's variables, the image's bytes, record sizes up to the    *)
(* volume's capacity, the command record (cp -ex's host position within  *)
(* the host file) and the last answer.                                     *)
FileTypeOK ==
  /\ TypeOK
  /\ img \in [Clusters -> [1 .. CS -> Bytes]]
  /\ \A c \in DataClus, k \in Slot : data[c][k].size \in 0 .. CS * NClus
  /\ proc.cmd \in {"none", "cpex", "cp", "read"}
  /\ proc.k \in {"idle", "open", "write", "spin"}
  /\ proc.pos \in 0 .. proc.host.len
  /\ out.res \in {"none", "ok", "noent", "empty", "isdir", "range", "raised", "killed"}

(***************************************************************************)
(* The size a live file's record gives is backed by its chain on the      *)
(* image: fileSize bytes fit in the clusters the image's FAT links from   *)
(* its first cluster, so seek never meets CorruptChain and a reader never *)
(* leaves the chain (spec 3, 4.5).  write rewrites the record before      *)
(* update() writes the FAT, and cp truncates in memory only.              *)
(***************************************************************************)
SizeWithinChain ==
  \A o \in Live :
    LET r == data[o[1]][o[2]] IN
    DIR \notin r.attr => r.size <= CS * Cardinality(Chain(dfat, r.clus).s)

(***************************************************************************)
(* A cp step writes bytes only into clusters of the destination's chain:  *)
(* write fills the current cluster and clusters it has just appended, so  *)
(* no other file or free cluster has its bytes changed.                   *)
(***************************************************************************)
WriteStaysInChain ==
  [][proc.k = "write" =>
       \A c \in Clusters : img'[c] # img[c] => c \in Chain(fat', proc.fd.first).s
    ]_fileVars

(***************************************************************************)
(* cp -ex copies (spec 4.5, 8: writing N bytes and reading them back      *)
(* reproduces them and fileSize == N): when it answers 0, the record of   *)
(* the destination on the image has the host file's length and its chain *)
(* holds the host file's bytes.                                            *)
(***************************************************************************)
CopyFaithful ==
  [][(proc.cmd = "cpex" /\ out'.cmd = "cpex" /\ out'.res = "ok") =>
       LET ks == Named(data', proc.fd.dir, proc.fd.entry.name)
           r  == data'[proc.fd.dir][Min(ks)]
       IN  /\ ks # {}
           /\ r.size = proc.host.len
           /\ ContentFrom(dfat', img', r.clus, r.size) = HostContent(proc.host)
    ]_fileVars

(***************************************************************************)
(* The read command prints the file's bytes from -s on, -l of them or up  *)
(* to the end (spec 4.5: read returns up to max_count bytes from the      *)
(* cursor and never past fileSize).  read never advances fd.cursor.       *)
(***************************************************************************)
ReadReturnsContent ==
  [][(out'.cmd = "read" /\ out'.res = "ok") =>
       out'.bytes = SubSeq(ContentFrom(fat, img, out'.first, out'.size),
                           out'.seek + 1, Min({out'.seek + out'.len, out'.size}))
    ]_fileVars

(***************************************************************************)
(* A started command returns (or is killed): cp -ex, cp and read each     *)
(* leave their loop.  A loop that spins changes nothing, which fairness   *)
(* cannot help.                                                            *)
(***************************************************************************)
CpExReturns == proc.cmd = "cpex" ~> proc.cmd = "none"
CpReturns   == proc.cmd = "cp" ~> proc.cmd = "none"
ReadReturns == proc.cmd = "read" ~> proc.cmd = "none"

=============================================================================
