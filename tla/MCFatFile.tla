----------------------------- MODULE MCFatFile -----------------------------
(* Model values for FatFile: two short names, files and directories, and  *)
(* host files that end mid-cluster and on a cluster boundary.             *)
EXTENDS FatFile

MCNames == {<<"a">>, <<"B">>}

MCAttrs == {}    \* no init-only attribute sets: creat and mkdir only
MCHosts == {[name |-> <<"a">>, len |-> 3, tag |-> 1]}
(* read's <<-s, -l>>: the whole file; from the second byte; -l 0; out of *)
(* range.                                                                  *)
MCReadWhole == {<<0, -1>>}
MCReadFrom1 == {<<1, -1>>}
MCReadAll == {<<0, -1>>, <<1, -1>>, <<0, 0>>, <<2, 2>>}
MCHostsFull == {[name |-> <<"a">>, len |-> 2, tag |-> 1]}

(* At most three named records on the volume at a time: a directory, a   *)
(* file in it and a copy of that file.                                    *)
MCNamed == {x \in Live : data[x[1]][x[2]].name \in StoredNames}
MCRecords == Cardinality(MCNamed) <= 3

(* Directories in the root directory, files in those directories.          *)
MCShape == \A x \in MCNamed : (DIR \in data[x[1]][x[2]].attr) <=> (x[1] = ROOT)

(* Nothing is removed: unlink and rmdir are left out of a run that asks   *)
(* what cp does to files already on the volume.                            *)
MCGrowOnly == MCNamed \subseteq MCNamed'
=============================================================================
