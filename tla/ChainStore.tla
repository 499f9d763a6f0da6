----------------------------- MODULE ChainStore -----------------------------
(***************************************************************************)
(* What the Allocation Table Manager promises the layers above it: every  *)
(* directory and file owns one chain of clusters, and no cluster is in    *)
(* two chains.  A chain is created on a cluster no chain owns, is dropped *)
(* when its owner goes, and otherwise only keeps a prefix of its clusters *)
(* (truncation) and gains clusters no chain owns (growth).  Nothing else: *)
(* no cluster moves between chains and no chain is re-linked in its       *)
(* middle.                                                                 *)
(***************************************************************************)
EXTENDS Integers, Sequences, SequencesExt

CONSTANTS
  Owner,      \* who can own a chain (a directory record's place)
  Clus,       \* the data clusters
  RootOwner,  \* the root directory, whose chain always exists
  RootClus    \* its first cluster

VARIABLE chains   \* owner -> its chain, in link order

(* The clusters the chains of c own.                                      *)
Owned(c) == UNION {Range(c[o]) : o \in DOMAIN c}

Init == chains = (RootOwner :> <<RootClus>>)

(* The actions relate chains c before the step to chains d after it.       *)

(* A new owner gets a first cluster no chain owns.                         *)
New(o, c, d) ==
  /\ o \in Owner \ DOMAIN c
  /\ \E h \in Clus \ Owned(c) : d = c @@ (o :> <<h>>)

(* An owner goes; its clusters are no longer owned.                        *)
Drop(o, c, d) ==
  /\ o \in DOMAIN c \ {RootOwner}
  /\ d = [x \in DOMAIN c \ {o} |-> c[x]]

(* Owner o's chain keeps its first k clusters and gains clusters owned by *)
(* no chain, each once; every other chain stays as it is.                 *)
Reshape(o, c, d) ==
  /\ o \in DOMAIN c
  /\ DOMAIN d = DOMAIN c
  /\ d = [c EXCEPT ![o] = d[o]]
  /\ LET old == c[o]
         new == d[o]
     IN \E k \in 1 .. Len(old) :
          LET grown == SubSeq(new, k + 1, Len(new)) IN
          /\ Len(new) >= k
          /\ SubSeq(new, 1, k) = SubSeq(old, 1, k)
          /\ IsInjective(grown)
          /\ Range(grown) \cap Owned(c) = {}

(* c and d are the chains before and after the step.                      *)
Next == \E c \in {chains}, d \in {chains'} :
          \E o \in Owner : New(o, c, d) \/ Drop(o, c, d) \/ Reshape(o, c, d)

Spec == Init /\ [][Next]_chains

=============================================================================
