---------------------------- MODULE LibraryTree ----------------------------
(***************************************************************************)
(* The library tree of a run directory and the effect each phase-B handler *)
(* has on it (materializer/phase_b and the real-chmod half of              *)
(* materializer/runtime/network_fs_chaos).  Bytes are abstracted to the    *)
(* asset they came from, the number of rewrites they have been through and *)
(* how many of the FileBytes units are there; a mode keeps the owner bits  *)
(* the handlers meet.  A handler either returns normally or raises, so an  *)
(* effect is a record [ok, fs].                                            *)
(***************************************************************************)
EXTENDS Integers

CONSTANTS
    Assets,      \* asset ids
    Paths,       \* library-relative file paths
    Dirs,        \* the directories that hold them
    DirOf,       \* [Paths -> Dirs]
    NoFile,      \* nothing at a path
    FileBytes,   \* the size of a whole file
    Privileged,  \* TRUE when the process ignores permission bits (root)
    StatRaises   \* Path.exists() raises below a directory that cannot be searched
                 \* (Python 3.13) instead of answering FALSE (3.14)

ASSUME LibraryAssumption ==
    /\ DirOf \in [Paths -> Dirs]
    /\ FileBytes \in Nat \ {0}
    /\ Privileged \in BOOLEAN
    /\ StatRaises \in BOOLEAN
    /\ Paths \cap Dirs = {}

Mode     == SUBSET {"r", "w", "x"}
FileMode == {"r", "w"}
DirMode  == {"r", "w", "x"}

File == [asset : Assets, ver : Nat, bytes : 0..FileBytes, mode : Mode]

ASSUME NoFileAssumption == NoFile \notin File

Whole(a, v) == [asset |-> a, ver |-> v, bytes |-> FileBytes, mode |-> FileMode]

\* files and dirs are on disk; cache and pending are the restoration_cache and
\* the pending_slow_copy of FilesystemPhaseBContext
PendingCopy == [start : Nat, from : Paths, temp : Paths]
FileSystem  == [files   : [Paths -> File \cup {NoFile}],
                dirs    : [Dirs -> Mode],
                cache   : [Assets -> File \cup {NoFile}],
                pending : SUBSET PendingCopy]

Returns(fs) == [ok |-> TRUE,  fs |-> fs]
Raises(fs)  == [ok |-> FALSE, fs |-> fs]

(***************************************************************************)
(* What the operating system lets an unprivileged owner do.                *)
(***************************************************************************)
Allows(mode, bits) == Privileged \/ bits \subseteq mode

Present(fs, p)   == fs.files[p] # NoFile
Reachable(fs, p) == Allows(fs.dirs[DirOf[p]], {"x"})
CanRead(fs, p)   == Reachable(fs, p) /\ Present(fs, p) /\ Allows(fs.files[p].mode, {"r"})
CanLink(fs, p)   == Allows(fs.dirs[DirOf[p]], {"w", "x"})
CanWrite(fs, p)  == IF Present(fs, p)
                    THEN Reachable(fs, p) /\ Allows(fs.files[p].mode, {"w"})
                    ELSE CanLink(fs, p)

\* Path.write_bytes: an existing inode keeps its mode
Written(fs, p, f) ==
    [fs EXCEPT !.files[p] = [f EXCEPT !.mode = IF Present(fs, p)
                                               THEN fs.files[p].mode
                                               ELSE FileMode]]

\* Path.replace: the inode moves with its mode, whatever was at the target is gone
Replaced(fs, from, to) ==
    [fs EXCEPT !.files = [@ EXCEPT ![from] = NoFile, ![to] = fs.files[from]]]

CanReplace(fs, from, to) == Present(fs, from) /\ CanLink(fs, from) /\ CanLink(fs, to)

(***************************************************************************)
(* Handlers.  e is a journal entry: the paths come from its state_delta.   *)
(***************************************************************************)

\* move_asset, rename_file, archive_file and move_between_roots
MoveAsset(fs, e) ==
    IF CanReplace(fs, e.from, e.to) THEN Returns(Replaced(fs, e.from, e.to)) ELSE Raises(fs)

\* Defect: the bytes are not kept for the add_file to come.
DeleteFile_Forgets(fs, e) ==
    IF CanLink(fs, e.from) /\ Present(fs, e.from)
    THEN Returns([fs EXCEPT !.files[e.from] = NoFile])
    ELSE Raises(fs)

DeleteFile(fs, e) ==
    IF CanRead(fs, e.from) /\ CanLink(fs, e.from)
    THEN Returns([fs EXCEPT !.files[e.from] = NoFile, !.cache[e.asset] = fs.files[e.from]])
    ELSE Raises(fs)

AddFile(fs, e) ==
    IF fs.cache[e.asset] # NoFile /\ CanWrite(fs, e.to)
    THEN Returns([Written(fs, e.to, fs.cache[e.asset]) EXCEPT !.cache[e.asset] = NoFile])
    ELSE Raises(fs)

\* Media and corruption handlers: read the input, write a temporary sibling of
\* the output and replace the output with it; remux_container then unlinks an
\* input of another name.
RewriteVersion(fs, e) ==
    IF CanRead(fs, e.from) /\ CanLink(fs, e.to) /\ CanLink(fs, e.from)
    THEN LET new == Whole(fs.files[e.from].asset, fs.files[e.from].ver + 1)
         IN  Returns([fs EXCEPT !.files = [@ EXCEPT ![e.from] = NoFile, ![e.to] = new]])
    ELSE Raises(fs)

MediaActions == {"edit_metadata", "remux_container"}

TouchMtime(fs, e) == IF CanRead(fs, e.from) THEN Returns(fs) ELSE Raises(fs)

\* A hierarchy event plans every move before it touches a file, then renames
\* all sources to temporaries and all temporaries to their destinations.
HierarchyMoves(fs, e) ==
    LET sources      == {m.from : m \in e.moves}
        destinations == {m.to : m \in e.moves}
        planned == /\ \A m, n \in e.moves : m # n => m.from # n.from /\ m.to # n.to
                   /\ \A p \in sources : Present(fs, p)
                   /\ \A p \in destinations \ sources : ~Present(fs, p)
                   /\ \A p \in sources \cup destinations : CanLink(fs, p)
        arrived(p) == CHOOSE m \in e.moves : m.to = p
    IN  IF planned
        THEN Returns([fs EXCEPT !.files =
                [p \in Paths |-> IF p \in destinations THEN fs.files[arrived(p).from]
                                 ELSE IF p \in sources THEN NoFile
                                 ELSE fs.files[p]]])
        ELSE Raises(fs)

\* Defect: the original is not unlinked.
Promote_KeepsSource(fs, from, temp, to) ==
    IF CanReplace(fs, temp, to) THEN Returns(Replaced(fs, temp, to)) ELSE Raises(fs)

\* promote_slow_copy
Promote(fs, from, temp, to) ==
    LET freed == IF from # to THEN [fs EXCEPT !.files[from] = NoFile] ELSE fs
    IN  IF /\ from # to => CanLink(fs, from)
           /\ CanReplace(freed, temp, to)
        THEN Returns(Replaced(freed, temp, to))
        ELSE Raises(fs)

StageCopy(fs, start, e) ==
    IF CanRead(fs, e.from) /\ CanWrite(fs, e.temp)
    THEN Returns([Written(fs, e.temp, fs.files[e.from]) EXCEPT
                    !.pending = @ \cup {[start |-> start, from |-> e.from, temp |-> e.temp]}])
    ELSE Raises(fs)

\* pending_slow_copy.pop raises KeyError when the start staged nothing.
CommitStagedCopy(fs, e) ==
    LET staged == {p \in fs.pending : p.start = e.ref}
        copy   == CHOOSE p \in staged : TRUE
    IN  IF staged # {}
        THEN Promote([fs EXCEPT !.pending = @ \ staged], copy.from, copy.temp, e.to)
        ELSE Raises(fs)

\* dispatch_phase_b_entry: journal entry e of event i to its handler.  What a
\* handler that raises leaves half done is not kept: every caller then wipes
\* or abandons the tree.
Dispatch(fs, i, e) ==
    CASE e.act = "move_asset"       -> MoveAsset(fs, e)
      [] e.act = "delete_file"      -> DeleteFile(fs, e)
      [] e.act = "add_file"         -> AddFile(fs, e)
      [] e.act \in MediaActions     -> RewriteVersion(fs, e)
      [] e.act = "touch_mtime"      -> TouchMtime(fs, e)
      [] e.act = "rename_season"    -> HierarchyMoves(fs, e)
      [] e.act = "slow_copy_start"  -> StageCopy(fs, i, e)
      [] e.act = "slow_copy_commit" -> CommitStagedCopy(fs, e)
      [] OTHER -> Raises(fs)
=============================================================================
