------------------------------ MODULE MCFatFs ------------------------------
(* Model-checking instance of FatFs: a 6-entry FAT (root plus three data  *)
(* clusters), three records per directory cluster, two short names.       *)
EXTENDS FatFs

(* init's ARCHIVE|SYSTEM files (its DIRECTORY|SYSTEM folders behave as   *)
(* plain directories: no command reads SYSTEM on a directory).             *)
MCAttrs == {{ARCHIVE, SYSTEM}}
MCNames == {<<"a">>, <<"B">>}

(* ls and stat of the root and of the two names under it.                  *)
MCQueryPaths == {<<>>} \cup {<<n>> : n \in MCNames}

=============================================================================
