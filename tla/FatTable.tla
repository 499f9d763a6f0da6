------------------------------ MODULE FatTable ------------------------------
(***************************************************************************)
(* The Allocation Table Manager of src/tools/fs/fat/lib/fat/defs.py: the   *)
(* in-memory FAT (class FAT32, field table) and the FSInfo hints (field    *)
(* fsInfo), with the operations next_cluster, next_free_cluster,           *)
(* append_cluster, free_chain and the FSInfo part of mount and update().   *)
(*                                                                         *)
(* The operations are pure operators over a table value t (a function      *)
(* 0..NClus-1 -> 32-bit entries) and an FSInfo value i (a record           *)
(* [count, next], where -1 is the "unknown" sentinel the code uses).  The  *)
(* modules that own the state (FatFs) apply them inside their actions.     *)
(***************************************************************************)
EXTENDS Integers, FiniteSets, FiniteSetsExt, Sequences

CONSTANTS
  NClus   \* totalClusters = FATSz32 * bytesPerSec / 4: entries of the FAT

ASSUME NClus \in Nat /\ NClus > 3

ROOT   == 2                \* rootClus: format_file writes the root at cluster 2
EOF    == 268435448        \* 0x0FFFFFF8, the EOF constant of defs.py
EOC    == 268435455        \* 0x0FFFFFFF, written by format_file for clusters 1, 2
UNUSED == 0
UNSET  == -2               \* 0xFFFFFFFF: an FSInfo field never filled in; the
                           \* bit pattern exceeds TLC's integers, and no count
                           \* or hint the code computes reaches -2
UNKNOWN == -1              \* the session-local "hints unknown" sentinel

Clusters  == 0 .. NClus - 1          \* indices of the table
DataClus  == ROOT .. NClus - 1       \* clusters the allocator hands out

(* next_cluster: the entry masked to its 28 significant bits.              *)
NextCluster(t, c) == t[c] % 268435456

IsFree(t, c) == NextCluster(t, c) = UNUSED

(* The table format_file writes: media entry, reserved entry, root EOC.    *)
FormattedTable ==
  [c \in Clusters |-> CASE c = 0       -> EOF
                        [] c \in {1, 2} -> EOC
                        [] OTHER        -> UNUSED]

(* Mutant of LoadFSInfo: an unset free count is taken as 0.               *)
LoadFSInfoZeroCount(d, startClusters) ==
  IF ~d.valid
    THEN [count |-> UNKNOWN, next |-> UNKNOWN]
    ELSE [count |-> IF d.count = UNSET THEN 0 ELSE d.count,
          next  |-> IF d.next = UNSET THEN startClusters ELSE d.next]

(***************************************************************************)
(* FATFS.__init__: the FSInfo hints of a freshly mounted session, from the *)
(* on-disk sector d ([valid, count, next]) and the startClusters argument. *)
(***************************************************************************)
LoadFSInfo(d, startClusters) ==
  IF ~d.valid
    THEN [count |-> UNKNOWN, next |-> UNKNOWN]
    ELSE [count |-> IF d.count = UNSET THEN NClus ELSE d.count,
          next  |-> IF d.next = UNSET THEN startClusters ELSE d.next]

(* Mutant of StoreFSInfo: the "both hints known" test dropped.             *)
StoreFSInfoAlways(d, i) == [d EXCEPT !.count = i.count, !.next = i.next]

(* update(): the FSInfo sector is rewritten only when both hints are known. *)
StoreFSInfo(d, i) ==
  IF i.count # UNKNOWN /\ i.next # UNKNOWN
    THEN [d EXCEPT !.count = i.count, !.next = i.next]
    ELSE d

(* Mutant of NextFreeCluster: a plausible hint is trusted without reading  *)
(* its table entry.                                                        *)
NextFreeClusterTrustHint(t, i) ==
  LET anywhere == {c \in DataClus : IsFree(t, c)} IN
  IF i.next >= ROOT /\ i.next < NClus THEN i.next
  ELSE IF anywhere # {} THEN Min(anywhere) ELSE -1

(***************************************************************************)
(* next_free_cluster: scan forward from the hint when it lies in           *)
(* [rootClus, totalClusters); if that finds nothing (or the hint is        *)
(* implausible) scan the whole table from rootClus; -1 when full.          *)
(***************************************************************************)
NextFreeCluster(t, i) ==
  LET hinted == IF i.next >= ROOT /\ i.next < NClus
                  THEN {c \in i.next .. NClus - 1 : IsFree(t, c)}
                  ELSE {}
      anywhere == {c \in DataClus : IsFree(t, c)}
  IN  IF hinted # {} THEN Min(hinted)
      ELSE IF anywhere # {} THEN Min(anywhere)
      ELSE -1

(* Mutant of AppendCluster: the new cluster is taken but never linked     *)
(* after the last one.                                                     *)
AppendClusterNoLink(t, i, cluster) ==
  LET found == NextFreeCluster(t, i) IN
  IF found = -1
    THEN [t |-> t, i |-> i, r |-> -1]
    ELSE [t |-> [t EXCEPT ![found] = EOF],
          i |-> [next  |-> IF i.next # UNKNOWN THEN found + 1 ELSE UNKNOWN,
                 count |-> IF i.count # UNKNOWN THEN i.count - 1 ELSE UNKNOWN],
          r |-> found]

(***************************************************************************)
(* append_cluster(cluster): link a free cluster after `cluster`, mark it   *)
(* EOF, advance the next-free hint and decrement the free count (each only *)
(* when known).  Result: [t, i, r] with r the new cluster or -1.           *)
(***************************************************************************)
AppendCluster(t, i, cluster) ==
  LET found == NextFreeCluster(t, i) IN
  IF found = -1
    THEN [t |-> t, i |-> i, r |-> -1]
    ELSE [t |-> [t EXCEPT ![cluster] = found, ![found] = EOF],
          i |-> [next  |-> IF i.next # UNKNOWN THEN found + 1 ELSE UNKNOWN,
                 count |-> IF i.count # UNKNOWN THEN i.count - 1 ELSE UNKNOWN],
          r |-> found]

(***************************************************************************)
(* free_chain(start): the loop `while not cur >= EOF` with its bounds test *)
(* `if 0 <= cur or cur > len(self.table): break`, which is taken for every *)
(* non-negative cluster number, so no entry is ever zeroed.  Result:       *)
(* [t, n] with n the number of entries released.                           *)
(***************************************************************************)
FreeChainStops(t, cur) == 0 <= cur \/ cur > NClus

RECURSIVE FreeChainLoop(_, _, _)
FreeChainLoop(t, cur, count) ==
  IF cur >= EOF \/ FreeChainStops(t, cur)
    THEN [t |-> t, n |-> count]
    ELSE FreeChainLoop([t EXCEPT ![cur] = UNUSED], NextCluster(t, cur), count + 1)

(* free_chain: the loop, then the hint updates (count += released, next   *)
(* := start), each only when known.                                        *)
FreeChain(t, i, start) ==
  LET l == FreeChainLoop(t, start, 0) IN
  [t |-> l.t,
   i |-> [count |-> IF i.count # UNKNOWN THEN i.count + l.n ELSE UNKNOWN,
          next  |-> IF i.next # UNKNOWN THEN start ELSE UNKNOWN]]

(***************************************************************************)
(* The clusters of the chain starting at c, following next_cluster until  *)
(* an end-of-chain value.  ok is FALSE when the walk meets a free entry,   *)
(* a cluster outside the data region, or a cluster it already visited.     *)
(***************************************************************************)
RECURSIVE ChainFrom(_, _, _)
ChainFrom(t, c, seen) ==
  IF c \in seen \/ c \notin DataClus \/ IsFree(t, c)
    THEN [ok |-> FALSE, s |-> seen]
    ELSE IF NextCluster(t, c) >= EOF
      THEN [ok |-> TRUE, s |-> seen \cup {c}]
      ELSE ChainFrom(t, NextCluster(t, c), seen \cup {c})

Chain(t, c) == ChainFrom(t, c, {})

(* The clusters of the chain at c in link order, as stat's loop          *)
(* `while 0x2 <= cur < EOF: cur = next_cluster(cur)` lists them: a free   *)
(* entry (0) ends it; it also stops outside the data region, where stat  *)
(* would index past the table, and after n clusters, so a cycle shows as *)
(* a repeated cluster instead of stat's endless loop.                     *)
RECURSIVE ChainSeqFrom(_, _, _)
ChainSeqFrom(t, c, n) ==
  IF n = 0 \/ c \notin DataClus \/ IsFree(t, c) THEN <<>>
  ELSE <<c>> \o (IF NextCluster(t, c) >= EOF THEN <<>>
                 ELSE ChainSeqFrom(t, NextCluster(t, c), n - 1))

ChainSeq(t, c) == ChainSeqFrom(t, c, Cardinality(DataClus))

=============================================================================
