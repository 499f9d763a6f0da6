# TLA+ model of the wey-OS FAT32 image tool

This directory holds TLA+ models of the FAT32 image driver in
`src/tools/fs/fat/`. The driver is a user-space Python library plus a
command-line front end. It builds and edits the disk image the kernel boots from.
All models are checked with TLC. `PROJECT.json` lists the components, runs,
mutants, the code lines each definition models, the findings and the hazards.

## The system

| Part | Code | State | Operations |
|---|---|---|---|
| Allocation Table Manager | `lib/fat/defs.py` class `FAT32`, FSInfo part of `FATFS.__init__` | `table` (in-memory FAT), `fsInfo` hints (free count, next free) | `next_cluster`, `next_free_cluster`, `append_cluster`, `free_chain`, `update` (writes FAT copies and FSInfo to the image) |
| Directory Engine | `FATFS.ls`, `search`, `walk`, `create`, `remove` | directory records, written straight to the image | list, find, resolve path, create entry (with dot records and directory growth), delete entry |
| File I/O Engine | `FATFS.open/seek/read/write`, `FATFD`, `__entry_lba` | handle: entry, cursor, current cluster | byte-level reads and writes that follow and extend chains |
| Path commands | `commands.py` `creat`, `mkdir`, `unlink`, `rmdir`, `cp`, `read`, `ls`, `stat` | none of their own | check arguments, walk, call the engine |
| Front end | `main.py` `init` and `main` | none | `format_file`, then `init`'s `create` calls; one command per process |
| Short-name formatter | `lib/fat/namegen.py` `fat_format_name` (copied as `format_fat_name` in `populate/utils.py`) | none | pure 8.3 name conversion, called by `create`, `remove`, `search` and `walk` |
| populate | `src/tools/fs/populate/*` | none | unused; only parses arguments |

How the parts interact:
- Every command runs in its own process. It mounts with `FATFS(img)`, which reads
  the FAT and FSInfo into memory, runs one operation, and exits.
- The FAT reaches the image only when `update()` runs. Directory records are
  written to the image at once, in the middle of `create` and `remove`.
- So the state that matters is split in two:
  - the session's memory (`table`, `fsInfo`);
  - the image (FAT copy, FSInfo sector, directory clusters).
- Anything that happens between the record write and `update()` splits them:
  an exception, a kill, or a loop that exits early.

The hard behaviours:
- a process dying between the record write and the FAT write;
- FSInfo hints that are stale across sessions;
- a directory cluster running out of slots;
- tombstones (0xE5) mixed with end markers (0x00);
- commands issued in an order no test uses.

The tool has no threads, so interleaving is not an issue. The only
nondeterminism is the order of commands, their arguments, and where a process
may die.

## Modules

### `FatTable.tla`: Allocation Table Manager

The operations are pure operators over a table value `t` (cluster → 32-bit
entry) and hints `i = [count, next]`:

| Operator | Models |
|---|---|
| `NextCluster` | `next_cluster` (28-bit mask) |
| `NextFreeCluster` | `next_free_cluster` (hinted scan, then full scan, else -1) |
| `AppendCluster` | `append_cluster` |
| `FreeChainLoop` / `FreeChain` | `free_chain`, including its bounds test `FreeChainStops`, exactly as written |
| `LoadFSInfo` | the FSInfo branch of `FATFS.__init__` |
| `StoreFSInfo` | the FSInfo part of `update` |
| `FormattedTable` | the table `format_file` writes |

`Chain` is a helper that the properties use; it does not model code.
0xFFFFFFFF ("never set") is the value `UNSET = -2`, because it is beyond TLC's
integers. The code's "unknown" sentinel -1 is `UNKNOWN`.

### `ChainStore.tla`: what the allocator promises

An abstract specification, written from the spec's description of the
Allocation Table Manager rather than from code. Its one variable `chains`
maps each owner (a directory record's place, or the root) to its chain, in
link order. Its steps are:

- `New`: a new owner gets a first cluster that no chain owns.
- `Drop`: an owner goes, and its clusters stop being owned.
- `Reshape`: one chain keeps a prefix of at least one cluster and gains, at its
  end, clusters no chain owns. This covers both truncation and growth.

Moving a cluster between chains is not a step, and neither is re-linking a
chain in its middle. `Next` binds the chains before and after the step once
(`\E c \in {chains}, d \in {chains'}`). Without that, TLC recomputes the
refinement mapping at every reference, and `core` took over five minutes.

`FatFs` implements it under `ImageChains`. That mapping sends each live record
and the root (`Owners`) to the chain `ChainSeq` (FatTable) follows on the
image's FAT from the record's first cluster. `ChainSeq` stops at a free
cluster, outside the data region, or after `|DataClus|` clusters, so a cycle
shows as a repeated cluster. The property `ChainsRefineStore` is `Store!Spec`.

### `ShortName.tla`: Short-name formatter

A name is a sequence of one-character strings. `FatFormatName(f)` translates
`fat_format_name` branch by branch, with Python's slicing as `Prefix` (`s[:k]`),
`Suffix` (`s[-k:]`) and `LJust`, `rfind` as `LastDot`, and `.upper()` as
`Upper`:
- the empty name gives the one-character string `'\0'` (written `NUL`);
- a name longer than 11 characters keeps its first 6 characters, then `~1`,
  then the last 3 characters after its last dot;
- any other name keeps at most 8 characters before its last dot and at most 3
  after it;
- the result is padded with spaces and upper-cased.

`Field11` is the `DIR_Name` field `create` writes: `struct` format `11s` pads
`name.encode()` with 0x00 bytes to 11. `Join` turns a field into one string,
which is how records hold names.

The module also holds a reference definition, `SpecShortName`. It is written
position by position from the rules of spec section 4.2, independently of the
code's two loops. `FormatRulesHold` compares the two over `FormatInputs`, about
1,200 names. Those are every name of up to 13 characters over `a` and `.` with
at most two dots, every name of up to 5 characters over `a`, `B` and `.`, and
`a…a.g` for every base length up to 11 and extensions of 1 to 4 mixed letters.
This covers:
- the 8-character base cut;
- the 11/12-character switch to `~1`;
- names that are all dots, or end with a dot;
- extensions longer than 3 characters in both branches.

Names are ASCII (letters `a`, `b`, their upper case and the dot). So `encode()`
gives one byte per character, and the strict `decode()` of `search`, `remove`
and `__entry_lba` never fails. See "Not modelled".

### `FatFs.tla`: Directory Engine and path commands

Variables:

| Variable | Holds |
|---|---|
| `fat`, `info` | the session's memory |
| `dfat`, `dinfo` | the FAT and FSInfo sector on the image |
| `data` | the directory records of every data cluster on the image |
| `rc` | the outcome of the last command |
| `names` | `NameTable`: `fat_format_name`'s result for every name (and every case spelling of it), set in `Init` and never changed |

A record is `[st, name, attr, clus]`. `st` is `"end"` (0x00), `"del"` (0xE5)
or `"used"`. `name` is the 11-byte `DIR_Name` as a string.

Names enter the commands unformatted, as the user types them. `NameOf(n)`
gives what the code derives from a name:
- `key`: the string `fat_format_name` returns, which `create`, `remove` and
  `search` compare with `entry.name.decode()`;
- `field`: the bytes `create` stores;
- `gone`: that field after `remove`'s `newName[0] = 0xE5`;
- `kind`: the record kind its first byte makes (`"end"` for the empty name).

`walk` formats each segment, except that `.` and `..` get fixed names
(`WalkKey`).

The table of these values is the variable `names`, computed once in `Init`.
`fat_format_name` is a pure function, so holding its results as a constant part
of the state changes no behaviour. It also keeps the formatter out of the
expressions TLC evaluates on every step. Evaluating it inline, TLC's coverage
accounting, which unfolds an operator's body along every call path, runs out
of memory.

Operators:
- `Ls`, `Search` and `Walk`/`WalkFrom` translate `ls`, `search` and `walk`.
- `CreateIn` is the whole of `FATFS.create`:
  - the collision scan that stops at the first free slot;
  - allocation;
  - writing the record;
  - the dot records (`DotRecords`);
  - `update()` (`Persist`);
  - the retry loop `GrowLoop`, which relinks `dirCluster` on every pass;
  - the full-volume branch, which raises.
- `RemoveIn` is `FATFS.remove` (mark 0xE5, `free_chain`, `update`).

Actions:

| Action | Models |
|---|---|
| `Creat(p, n, crash)` | `creat`: walk the parent, `create` with ARCHIVE |
| `Mkdir(p, n, crash)` | `mkdir`: walk the parent, `create` with DIRECTORY |
| `Create(p, n, a, crash)` | `init`'s own `fs.create` calls, with the attribute sets in `Attrs` |
| `LsCmd(q)` | `ls`: a raise, "No such", a file, or a directory whose `ls` gives None (a full first cluster linked onward, which makes the command raise) |
| `StatCmd(q)` | `stat`: its chain loop `while 0x2 <= cur < EOF` (`StatLoop`), which never ends on a cyclic chain; a hung `stat` is killed and the image remounted |
| `Unlink(p, n)` | `unlink` |
| `Rmdir(p, n)` | `rmdir` |
| `Mount` | a command that fails before touching anything |

- Every early return of a command is a disjunct that sets `rc`.
- Every raise ends the session. `Remount` reloads `fat`/`info` from
  `dfat`/`dinfo`; the start-cluster argument is chosen from `StartClusters`.
- When `crash` is TRUE, the process is killed after the records are written and
  before `update()`.
- `ls` and `stat` take their paths from `QueryPaths`. They write nothing, so
  their only effects are `rc` and, for a raise or a hang, the remount.

`DirClusters`, the clusters of the directories reachable from the root, is a
frontier search (`Reach`): each round adds the subdirectories of the
directories found in the round before. This bounds the work per state by the
tree's size, which the liveness and refinement runs needed.

### `MCFatFs.tla`

Gives the names the commands are given, `a` and `B` (one lower-case and one
upper-case, so that the formatting's upper-casing matters),
and attribute sets. The DIRECTORY|SYSTEM
directories of `init` are left out: no command reads SYSTEM on a directory
(`unlink` refuses directories first, `rmdir` never checks it), so they behave
like DIRECTORY. `Attrs` holds only ARCHIVE|SYSTEM, since `Creat` and `Mkdir`
issue ARCHIVE and DIRECTORY. `QueryPaths` is the root and the one-name paths.
`MCFatFile` sets `Attrs` to `{}`: its runs issue `creat` and `mkdir` only.

### `FatFile.tla`: File I/O Engine, `cp` and `read`

`FatFile` extends `FatFs` (and through it `FatTable`). It shares FatFs's variables;
its own specification is `FileInit`, `FileNext`, `FileSpec`, with `FileTypeOK`
and the tuple `fileVars`, because FatFs's `Init`, `Next`, `Spec`, `TypeOK` and
`vars` keep their names. FatFs's `Next` is the directory step (`DirStep`), which
runs only while no file command does.

Variables added:
- `img`: the bytes of every cluster, `CS` bytes per cluster. A byte is `Zero` or
  `<<tag, j>>`, byte j of a host file. `img` and FatFs's `data` are two views
  of the same clusters. Records are written only through `data`, and bytes only
  through `img`.
- `proc`: the command in progress, because `cp` and `read` run loops. Its
  fields are:
  - `cmd`;
  - `k`: open, write or spin;
  - the destination and source paths;
  - the host file and the position reached in it;
  - the two handles (`FATFD`: entry, first and current cluster, cursor, parent).
- `out`: the last command's answer and, for `read`, the bytes it returned.

| Code | Definition |
|---|---|
| `FATFD.__init__` | `FD` |
| `open` | `Open`: a root-level path answers None; walk the parent, search the name |
| `seek` (whence 0) | `Seek`, `Hop` |
| `read` | `Read`: one call. It returns what it read, or `spin` when its loop can no longer change anything. The handle's cursor is never advanced; at an end-of-chain boundary the bytes are discarded |
| `write`'s loop | `WriteLoop` (RECURSIVE): fill the cluster, append eagerly at every boundary (answering `full` when none is free), spin at an existing next cluster |
| `write`'s tail | `WriteStep`: new size, the record written at `__entry_lba`'s slot (`EntrySlot`: -1 or a decode error raise), then `update()` (`Persist`). A crash may come between the two |
| `cp` | `CpExBegin` / `CpBegin` (source check), `CpDest` (destination creation, ignored results), `CpOpen` (opens, `Truncate` in memory), `CpExChunk` / `CpChunk` (one write per step) |
| `read` command | `ReadCmd`, `ReadLoop`: "File is empty", then "Is a directory" (reached by a directory `cp` gave a size), argument checks, the unchecked seek, 512-byte pieces (`ReadBuf`) |
| process end | `Exit`: the command returns and the next one mounts (`Remount`). `Dies`: an exception. `Kill`: Ctrl-C at any step of a running command |

`Commands` selects which file commands a run issues, and `ReadArgs` gives the
`-s`/`-l` pairs for `read`.

### `MCFatFile.tla`

Gives model values for names and attributes and one host file of 3 bytes (2
bytes for `cp_loop`). It also defines the `read` argument sets and two state
constraints for the runs that need a small tree:
- `MCRecords`: at most three named records;
- `MCShape`: directories in the root, files in directories. Files directly in
  the root are useless anyway, since `open` refuses them.

`fatfile_all` and `cp_loop` also use the action constraint `MCGrowOnly`: nothing
is removed. `unlink` and `rmdir` run in `fatfile_cpex`.

## Properties

| Property | Kind | Statement |
|---|---|---|
| `TypeOK` | invariant | state shapes, including that the FSInfo fields on the image are never the -1 sentinel (`update` would fail to pack them) |
| `FileTypeOK` | invariant (FatFile) | `TypeOK` plus the shapes of the image bytes, the record sizes and the command record, including that `cp -ex`'s host position stays within the host file |
| `AllocationSound` | invariant | in memory and on the image, every live entry's chain ends in EOF without meeting a free cluster, and no two live entries share a cluster |
| `NothingAfterEnd` | invariant | in every directory, no used record follows an end record |
| `FormatFollowsRules` | invariant | `fat_format_name` agrees with the spec's 8.3 rules (`SpecShortName`) on all of `FormatInputs`, and on the names the commands use |
| `FreeCountCoversTable` | invariant | on an image with a valid FSInfo, the free count in memory is known and at least the number of free data clusters, and so is the count on the image. The decrement in `append_cluster` can therefore never reach the -1 "unknown" sentinel |
| `ChainsRefineStore` | refinement | the image's chains (`ImageChains`) behave as `ChainStore` allows: every command step creates a chain on an unowned cluster, drops one, or cuts one and grows it at its end with unowned clusters |
| `RemovedDirsEmpty` | action | an `rmdir` that deletes a directory deletes only one with no children |
| `RemoveFreesChain` | action | a delete releases the deleted entry's cluster |
| `UniqueNames` | invariant | no directory lists two records with the same name |
| `FilesHoldNoRecords` | invariant | no file's data cluster holds directory records |
| `FullOnlyWhenNoSpace` | action | "FAT Full" is answered only when fewer than two clusters are free |
| `SizeWithinChain` | invariant (FatFile) | every live file's recorded size fits in the clusters its chain on the image links |
| `WriteStaysInChain` | action (FatFile) | a `cp` write step changes the bytes of no cluster outside the destination's chain |
| `CpExReturns` | liveness (FatFile) | every `cp -ex` returns (or is killed) |
| `CopyFaithful` | action (FatFile) | when `cp -ex` answers 0, the destination on the image has the host file's size and bytes |
| `ReadReturnsContent` | action (FatFile) | the `read` command returns the file's bytes from the seek position |
| `CpReturns`, `ReadReturns` | liveness (FatFile) | every internal `cp` / `read` returns |

A live entry is one reachable from the root.

## Runs

| Run | cfg | Expect | Shows |
|---|---|---|---|
| `core` | `MCFatFs.cfg` | pass | With no killed processes, every sequence of creates, deletes and remounts keeps allocation sound on both copies, keeps end markers last, and `rmdir` removes only empty directories. The formatter follows the spec's rules, also on every case spelling of `a` and `B`. The image refines `ChainStore`. The FSInfo free count never falls below the free clusters. `ls` and `stat` run on every reachable tree. 24,235 distinct states, about 2 minutes. |
| `free_chain_leak` | `MCFatFs_free.cfg` | violation | `mkdir /A; rmdir /A` leaves A's cluster allocated: `free_chain`'s test `0 <= cur or ...` always breaks (defs.py:309). |
| `duplicate_names` | `MCFatFs_dupname.cfg` | violation | `mkdir /A; creat /B; rmdir /A; creat /B` gives two B records. The name check stops at the first free slot (defs.py:440). |
| `create_under_file` | `MCFatFs_underfile.cfg` | violation | `creat /A; creat /A/B` writes a record into file A's data. The parent is never checked to be a directory (commands.py:24; mkdir likewise at 79). |
| `directory_growth` | `MCFatFs_grow.cfg` | violation | Filling a directory's first cluster, then creating once more, answers "FAT Full" with clusters free. The retry relinks `dirCluster` each pass (defs.py:475). |
| `crash_dangling_entry` | `MCFatFs_crash.cfg` | violation | A create killed before `update()` leaves a record pointing at a cluster the image's FAT marks free. The next create cross-links it (defs.py:457/472). |
| `fatfile_cpex` | `MCFatFile.cfg` | pass | `cp -ex` among all directory commands, with a kill possible between a write's record and its `update()`, keeps sizes within chains and writes within the destination's chain. 186,929 distinct states. |
| `fatfile_all` | `MCFatFile_all.cfg` | pass | The same with internal `cp` (also of a file onto itself) and `read` added, on the constrained tree where nothing is removed. Under fairness of the running process, every `cp -ex` returns, including on a full volume. The image's chains still refine `ChainStore`: truncation keeps a prefix, eager appends grow a chain at its end. About 21,000 distinct states, under 3 minutes. |
| `copy_full_ok` | `MCFatFile_copy.cfg` | violation | `cp -ex` of 3 bytes onto a volume with one free cluster answers 0 and leaves a 1-byte file. The eager append after the cluster is filled fails, write returns -1 without recording the size, and cp ignores it (commands.py:279). |
| `read_cursor` | `MCFatFile_readc.cfg` | violation | `read` of a 3-byte file returns bytes 1, 2, 1: `read` never stores its cursor (defs.py:696). |
| `read_spin` | `MCFatFile_readspin.cfg` | violation | `read -s 1` of a 3-byte file never returns: `read` cannot enter an existing next cluster (defs.py:701). |
| `cp_loop` | `MCFatFile_cploop.cfg` | violation | `cp /A/B /A/A` where B's data fills its first cluster never returns: every read gives the same first chunk (commands.py:295). |

Each property of `core` has a mutant in `PROJECT.json`. A mutant is a plausible
bug in the mapped code, and TLC finds it:

| Mutant | Violates |
|---|---|
| a next-free hint trusted without reading the table | `AllocationSound`, and `ChainsRefineStore` (two creates take the persisted hint 3, so two chains start at the same cluster) |
| deletion marked 0x00 | `NothingAfterEnd` |
| no `..` record | `RemovedDirsEmpty` |
| FSInfo written while unknown | `TypeOK` |
| `cp -ex` advancing its host position by a whole cluster | `FileTypeOK` (`fatfile_cpex`) |
| `update()` writing FSInfo but not the table | `SizeWithinChain` (`fatfile_cpex`, `fatfile_all`) |
| `append_cluster` not linking the new cluster | `WriteStaysInChain` (`fatfile_cpex`, `fatfile_all`) |
| `cp -ex` writing the same chunk again | `CpExReturns` (`fatfile_all`) |
| truncation freeing the first cluster instead of ending the chain there | `ChainsRefineStore` (`fatfile_all`) |
| an unset FSInfo free count loaded as 0 | `FreeCountCoversTable` |
| the long-name branch keeping the extension's first 3 characters | `FormatFollowsRules` |

### Bounds

| Bound | Value | Why it is enough |
|---|---|---|
| `Slots` | 3 | A new directory is full after one child, because the dot records take two slots. So directory growth happens within two steps. |
| `NClus` | 6 (7 for growth) | Clusters 2..5 give the root plus three entries: enough for a directory, a child, and a reuse after a delete. The growth run needs one more so that a subdirectory can fill up. |
| `Names` | 2 | Two names are the minimum for duplicate and reuse scenarios. |
| `MaxDepth` | 3 in `core` | Paths of length 0..2 cover root, child and grandchild, including a walk through a file (which answers None, "not found"). The violation runs use 2, which is shorter and enough for their traces. |
| `StartClusters` | {3, 3000} | A plausible hint and an out-of-range one: both branches of `next_free_cluster`. |

The initial FSInfo is either "present, never set" or "absent" (the sector
signature is invalid). Those are the two states `format_file` and an older
image leave.

FatFile runs:

| Bound | Value | Why it is enough |
|---|---|---|
| `CS` | 2 bytes per cluster | The model needs a cluster boundary inside a file and a partly filled last cluster. 2 is the smallest size that has both. |
| host file | 3 bytes (2 for `cp_loop`) | 3 bytes span two clusters and end mid-cluster. 2 bytes fill one cluster exactly, and the eager append then gives them a second cluster. |
| `ReadBuf` | 2 | It stands for the 512-byte buffer. It is equal to `CS`, like 512 to the smallest real cluster, so a read piece reaches a boundary but never crosses one in one call. |
| `NClus` | 6 (7 for `cp_loop`) | A directory, a file of two clusters and a destination need four data clusters in `cp_loop`. 6 makes a volume fill up within one `cp -ex`. |
| `Slots` | 3 (4 for `cp_loop`) | With 4, a directory holds two files after its dot records. |
| `StartClusters` | {3000} | The plausible hint is checked by `core`. Here it only multiplies states. |
| `WriteCrashes` | {FALSE, TRUE} where writes matter | The kill between record and `update()` (defs.py:754-756) is the crash window of `write`. |

`Crashes` is {FALSE} in `core`. With kills enabled the state space grows past
what a run finishes in 5 minutes. The crash run shows the violation in one step.

### Fairness

FatFs has none: a user issues commands or does not.

FatFile's running command is a process that the OS keeps scheduling until it
returns, is killed, or dies. So its own steps (`Step`: `CpOpen`, `CpExChunk`,
`CpChunk`) are weakly fair, while issuing commands and `Kill` are not.

`FileSpec` states `Fairness == WF_fileVars(Step /\ UNCHANGED names)`. (`Step`
leaves `names` to `FileNext`, and `ENABLED` needs every primed variable.) The MC
configurations substitute `WorkingFairness`, the same formula with
`ENABLED <<Step>>_fileVars` written as the state predicate `Working` (`proc.k`
is open or write):
- Every branch of the three actions is total and changes `proc`.
- A `-1` retry that would change nothing is the `spin` state instead.
- TLC confirmed the equivalence as an invariant (`Working <=> ENABLED <<Step>>_fileVars`)
  with all three commands at `MaxDepth` 1, over 5,600 states.
- TLC's own `ENABLED` evaluation of these actions made the liveness runs take
  hours.

A loop that can no longer change anything (`spin`) has no fair step. Only
`Kill` leaves it, so the `~>` properties fail there, as the code hangs there.

## Not modelled, and why

| What | Why |
|---|---|
| Binary codec (`to_bytes`/`from_bytes`), boot sector fields, timestamps | Layout with no control flow. Records are modelled at field level. |
| `seek` with whence 1 and 2 | No caller uses them. |
| `init`'s two `cp -ex` calls in one session | The model remounts after every command. In one session, a truncation or a failed append left in memory by the first copy would reach the second. |
| `cp -ex` of an empty host file | `MCHosts` has none. The truncation it would leave only in memory is listed as a hazard. |
| `read -b` and printing | Output only. |
| Non-ASCII names | `encode()` gives more than 11 bytes, `11s` cuts them (possibly inside a character), and the strict `decode()` of `search` then raises. A name whose encoding starts with 0xE5 reads as deleted. Both are hazards in `PROJECT.json`. Modelled bytewise, the formatter blew up TLC's coverage pass, and the runs' names are ASCII. |
| The empty name (`creat /`, `mkdir /`) | FatFs models the end record it writes (`NameOf`'s kind `"end"`), but no run includes it. With it, `core` fails `NothingAfterEnd` after `mkdir a; creat B; rmdir a; creat /`: the end record written into the tombstone hides `B`. It is listed as a hazard. |
| Relative paths | `walk` answers the root for any one-character path. Commands are modelled on absolute paths, as segment lists. |
| `ls`/`stat` output, argument parsing, `.conf` files | Printing and I/O only. Their control (`LsCmd`, `StatCmd`) is modelled. |
| The image length (`totalClusters` is taken from the FAT size, defs.py:354) | The data region is assumed to cover every FAT entry. |
| `populate` | Dead code: its `main` only parses arguments. Its `format_fat_name` is `fat_format_name` line for line (see `ShortName`). Its `FAT.get_free_cluster` and `reserve_next_free_cluster` are classmethods that read instance fields, so they raise `AttributeError` if ever called. |

## Plan

Next sittings, in order:

1. (Done: `FatFile`.) Still open there: an empty host file, and a property
   about the size a finished write records.
2. (Done: `ShortName`, and formatting inside `FatFs`.)
3. **`DirTree`**: an abstract directory tree of paths with kinds. As a
   refinement it cannot hold. With the duplicate-names bug, `mkdir a; creat B;
   rmdir a; mkdir B` gives a second `B` record, and the path `/B` silently
   changes kind. That is a step no tree operation allows, and it is the
   `duplicate_names` finding again. A refinement of the code with that bug
   corrected is still open.
4. (Done: `ChainStore`, refined by `FatFs` in `core` and by `FatFile` in
   `fatfile_all`; the free-count property.) Still open: the refinement in
   `fatfile_cpex`, where a kill can fall between a write's record and its
   `update()`. There it takes over 4 minutes of the 5-minute budget.
5. A property that a new directory is empty (defs.py:459). It becomes reachable
   once a freed cluster can be reused, which is checked with `free_chain`'s
   guard corrected in a mutant-style variant.
