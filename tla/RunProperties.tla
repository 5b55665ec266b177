--------------------------- MODULE RunProperties ---------------------------
(***************************************************************************)
(* What is claimed of a wall-clock run.                                    *)
(***************************************************************************)
EXTENDS WallClock

TypeOK ==
    /\ duration \in Durations
    /\ now \in 0..MaxNow /\ wake \in Nat /\ due \in Nat
    /\ pc \in {"baseline", "loop", "sleep", "batch", "record", "copies", "lags", "idle",
               "restore", "failing", "metadata", "done", "stopped"}
    /\ ret \in {"batch", "copies", "lags"}
    /\ cursor \in 0..Len(Journal)
    /\ fs \in FileSystem
    /\ copies \subseteq [start : DOMAIN Journal, source : File]
    /\ lags \subseteq DOMAIN Journal /\ deferred \subseteq DOMAIN Journal
    /\ chaos \in [captured : Seq([target : Paths \cup Dirs, mode : Mode]),
                  open     : SUBSET DOMAIN Journal]
    /\ drained \in BOOLEAN
    /\ meta \in {"baseline", "mixed", "final"}
    /\ sentinel \in {"absent", "in_progress", "complete"}
    /\ outcome \in {"none", "success", "failed", "raised"}

Sealed    == sentinel = "complete"
Succeeded == Sealed /\ outcome = "success"

\* No handler is half way between its effect and its journal row.
Between == pc \in {"loop", "sleep", "batch", "copies", "lags", "idle"}

\* A handler runs in this step.
Executing == pc \in {"batch", "copies", "lags"} /\ pc' \in {"record", "failing"}

(***************************************************************************)
(* What some claims ask of the plans beyond validity.                      *)
(***************************************************************************)

Withholds(journal, s) == Is(journal, s, "network_lag_start") /\ journal[s].effect # "held_handle"

\* No delayed lag follows a slow_copy_commit: the runner cannot dispatch a commit
\* that it withheld.
CopiesNotWrapped ==
    \A p \in Plans : \A s \in DOMAIN p.journal :
        Withholds(p.journal, s) => ~Is(p.journal, p.journal[s].ref, "slow_copy_commit")

\* No lag withholds anything: the runner executes a plan in the order of its
\* journal, as replay does.
NothingIsWithheld ==
    \A p \in Plans : \A s \in DOMAIN p.journal : ~Withholds(p.journal, s)

\* No plan opens a lock or unmount window: a deadline inside one seals a bundle
\* that replay refuses.
NoLockWindows ==
    \A p \in Plans : \A i \in DOMAIN p.journal : ~Is(p.journal, i, "acquire_lock")

\* A release follows the acquire that it names (ChaosAccepts).
LocksPaired ==
    \A p \in Plans : \A i \in DOMAIN p.journal :
        Is(p.journal, i, "release_lock") => p.journal[i].ref \in OpenLocksBefore(p.journal, i)

\* No plan changes a mode.
NothingIsChmodded ==
    \A p \in Plans : \A i \in DOMAIN p.journal :
        p.journal[i].act \notin {"change_permissions", "toggle_readonly"}

\* What was chmodded is not renamed afterwards, by a later entry or by one that a
\* lag withholds: captured modes are put back by path.
RenamedBy(e) == CASE e.act = "move_asset"      -> {e.from}
                  [] e.act = "slow_copy_start" -> {e.temp}
                  [] e.act = "rename_season"   -> {m.from : m \in e.moves}
                  [] OTHER -> {}
ChmodTargetsStay ==
    \A p \in Plans : \A i, j \in DOMAIN p.journal :
        /\ p.journal[i].act \in {"change_permissions", "toggle_readonly"}
        /\ i < j \/ \E s \in DOMAIN p.journal : Withholds(p.journal, s) /\ p.journal[s].ref = j
        => p.journal[i].target \notin RenamedBy(p.journal[j])

\* What the engine computes: a manifest after each event, each from the one before,
\* and journal entries with the paths of the manifest they met.  A hierarchy renders
\* one path for an asset, and validation lets an event add only what is not placed.
World == [loc : [Assets -> Paths \cup {NoPath}], ver : [Assets -> Nat],
          temp : [Assets -> Paths \cup {NoPath}], managed : SUBSET Assets]
EnginePlans ==
    \A p \in Plans :
        /\ p.worlds \in [0..Len(p.journal) -> World]
        /\ p.worlds[0] = InitialWorld
        /\ \A i \in DOMAIN p.journal :
              /\ p.worlds[i] = ApplyEvent(p.worlds[i - 1], p.journal, i)
              /\ p.journal[i] = JournalEntry(p.worlds, p.journal, i)
              /\ \A m, n \in p.journal[i].moves : m.asset = n.asset => m = n
              /\ Is(p.journal, i, "add_file") => p.worlds[i - 1].loc[p.journal[i].asset] = NoPath

\* The lags that withhold an event when n entries of a plan have been executed
WithheldAfter(p, n) ==
    {s \in DOMAIN p.journal :
        /\ Withholds(p.journal, s) /\ p.journal[s].ref <= n
        /\ \A c \in 1..n : ~(Is(p.journal, c, "network_lag_commit") /\ p.journal[c].ref = s)}

\* The prefix whose manifest then tells where a's file is: the one before the event
\* of a's that is withheld, if one is
ShownAfter(p, n, a) ==
    LET held == {p.journal[s].ref : s \in {d \in WithheldAfter(p, n) :
                                             p.journal[p.journal[d].ref].asset = a}}
    IN  IF held = {} THEN n ELSE (CHOOSE i \in held : \A j \in held : i <= j) - 1
PlaceAfter(p, n, a) == p.worlds[ShownAfter(p, n, a)].loc[a]

\* While a lag withholds the event of an asset, no other entry is about that asset.
\* Validation sees to it but for hierarchy events, which do not name what they move.
ActsOn(e, a) == /\ e.act \notin {"network_lag_start", "network_lag_commit"}
                /\ e.asset = a \/ \E m \in e.moves : m.asset = a
WithheldRest ==
    \A p \in Plans : \A i \in DOMAIN p.journal : \A s \in WithheldAfter(p, i - 1) :
        ~ActsOn(p.journal[i], p.journal[p.journal[s].ref].asset)

\* No file is put where another one lies, be it in the manifest or only in the tree,
\* in which some events are late, and a slow copy's temporary file has a path of its
\* own.  Validation asks this of the initial paths and of hierarchy events alone.
PlacesAreFree ==
    \A p \in Plans : \A n \in 0..Len(p.journal) : \A a \in Assets :
        /\ PlaceAfter(p, n, a) # NoPath =>
                \A b \in Assets \ {a} : PlaceAfter(p, n, a) # PlaceAfter(p, n, b)
        /\ n > 0 /\ Is(p.journal, n, "slow_copy_start") =>
                PlaceAfter(p, n, a) # p.journal[n].temp

(***************************************************************************)
(* The tree and the oracle.                                                *)
(***************************************************************************)
Temps == {Entry(c.start).temp : c \in copies}
PlacesOf(a) == {p \in Paths \ Temps : fs.files[p] # NoFile /\ fs.files[p].asset = a}

\* The event of a's that an open or opening lag withholds, if any
Withheld(a) == {Entry(s).ref : s \in {d \in deferred : Entry(Entry(d).ref).asset = a}}

\* The prefix of the journal that a's file shows
Shown(a) == IF Withheld(a) = {} THEN cursor
            ELSE (CHOOSE i \in Withheld(a) : \A j \in Withheld(a) : i <= j) - 1

\* Between two handlers every asset lies, whole and in its current version,
\* exactly where the oracle of the executed prefix places it (nowhere when it is
\* deleted), except that an asset whose last event a network lag withholds still
\* lies where the oracle had it before that event: withheld handlers, slow
\* copies and hierarchy renames never disturb another asset or leave a stray.
TreeFollowsOracle ==
    Between => \A a \in Assets :
        LET w == Oracle(Shown(a))
        IN  /\ PlacesOf(a) = {w.loc[a]} \ {NoPath}
            /\ \A p \in PlacesOf(a) : /\ fs.files[p].ver = w.ver[a]
                                      /\ fs.files[p].bytes = FileBytes

\* A reader of the temporary file of a slow copy never sees it shrink, and never
\* sees it whole before the scheduled commit; the source stays where it was
\* (_slow_copy_visible_size, and _slow_copy_start, which keeps the original).
SlowCopyGrows ==
    [][\A c \in copies \cap copies' :
         LET e == Entry(c.start)
         IN  fs'.files[e.temp] # NoFile =>
             /\ fs.files[e.temp].bytes <= fs'.files[e.temp].bytes
             /\ fs'.files[e.temp].bytes = FileBytes =>
                    LogicalNow(now) >= Entry(CommitOf(c.start)).at
             /\ fs'.files[e.from] = fs.files[e.from]]_vars

(***************************************************************************)
(* The schedule.                                                           *)
(***************************************************************************)

\* No event is executed before its logical time, in the main loop or in a drain
\* (the wake-up time rounds up where the logical clock rounds down).
NeverEarly == [][Executing => LogicalNow(now) >= Entry(Next1).at]_vars

\* A sleep is never empty: when nothing is due the next event's wake-up time is
\* still ahead, so the loop cannot spin on the clock.
NeverSpins == [][pc # "sleep" /\ pc' = "sleep" => wake' > now]_vars

\* After the deadline an event is executed only while a slow copy or a network
\* lag is open.
LateOnlyToCloseWindows == [][Executing /\ now >= duration => copies # {} \/ lags # {}]_vars

\* A run reports that a window made it overrun only if its deadline did pass.
OverrunIsReal == drained => now >= duration

(***************************************************************************)
(* The end of a run.                                                       *)
(***************************************************************************)

\* A sealed run directory describes itself: a success has no session open, no
\* temporary file and no chmod to undo, a failure has no library, and the journal
\* on disk is exactly what was executed.
SealedIsWhole ==
    Sealed =>
        /\ meta = "final"
        /\ rows = [k \in 1..cursor |-> k]
        /\ chaos.captured = <<>>
        /\ outcome = "success" => /\ copies = {} /\ lags = {}
                                  /\ \A p \in Paths : Present(fs, p) =>
                                        fs.files[p].bytes = FileBytes
        /\ outcome = "failed" => \A p \in Paths : ~Present(fs, p)

\* Every file and directory of a successful run has the mode it was created with
\* (restore_chaos_modes).
ModesRestored ==
    Succeeded => /\ \A p \in Paths : Present(fs, p) => fs.files[p].mode = FileMode
                 /\ \A d \in Dirs : fs.dirs[d] = DirMode

\* However a run ends, its tree can be removed: no directory is left without the
\* permissions that rmtree needs (restore_chaos_modes, on both paths).
AlwaysCleanable == pc \in {"done", "stopped"} => WipesClean(fs)

\* What validation accepts, the runner can execute: no handler raises.
AcceptedTimelinesRun == pc # "failing"

\* The bundle of a successful run passes the checks of the replay.
BundleIsAccepted == Succeeded => Accepted(Journal, cursor)

\* Replaying it, in order and without withholding anything, ends with the tree
\* the run left.
ReplayMatchesRun ==
    Succeeded /\ deferred = {} /\ Accepted(Journal, cursor) =>
        LET replay == ReplayRunBundle(Journal, cursor)
        IN  replay.ok /\ replay.fs.files = fs.files /\ replay.fs.dirs = fs.dirs

\* A successful run withholds nothing: whatever its journal records has happened.
NothingWithheld == Succeeded => deferred = {}

(***************************************************************************)
(* Progress, under FairSpec.                                               *)
(***************************************************************************)
\* Every run ends.
Ends == <>(pc \in {"done", "stopped"})

\* Every slow copy and every lag that opens is closed, whatever the duration,
\* unless the run fails first.
WindowsClose ==
    lags # {} \/ copies # {} ~> \/ lags = {} /\ copies = {}
                               \/ outcome \in {"failed", "raised"}

(***************************************************************************)
(* What the readers of the run directory are promised.                     *)
(***************************************************************************)
Directory == INSTANCE RunDirectory WITH tree <- fs.files
DirectorySpec == Directory!Spec
=============================================================================
