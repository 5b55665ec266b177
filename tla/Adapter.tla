-------------------------------- MODULE Adapter --------------------------------
(***************************************************************************)
(* Judging a consumer: what the fixture expects (the oracle index), what   *)
(* the consumer observed, how their assets are matched level by level, and *)
(* the findings (adapter/index.py, matching.py, compare.py, history.py,    *)
(* topology.py).  A side is a set of views, one per asset.  A listing is a *)
(* key, the asset listed under it and where in the view it occurs: the     *)
(* code lists an asset once for every time a key occurs in it.             *)
(***************************************************************************)
EXTENDS ObservedState
LOCAL INSTANCE SequencesExt
LOCAL INSTANCE FiniteSetsExt

IdentityOps == {"move_asset", "rename_file", "delete_file", "add_file", "slow_copy_start",
                "slow_copy_commit", "archive_file", "move_between_roots"} \cup HierarchyOps

-----------------------------------------------------------------------------
(* Views and their keys. *)

\* Where the hierarchy has the asset: titles (a group's owner stands for those above it), the
\* numbers of an episode or a track, the variant's label and how many files its bundle has.  The
\* files of one bundle share it.
TopologyKey(lib, w, a) ==
    LET asset  == lib.assets[a]
        parent == w.parents[asset.parent]
        group  == w.groups[parent.group]
        above  == IF lib.kind = "movie" THEN <<>> ELSE <<group.owner, group.number, parent.number>>
    IN  <<above, parent.title, asset.label, asset.members>>

\* Hashes are in a materialised fixture, not in a plan-only one; a version is its content.
OracleView(lib, w, a, journal, hashed) ==
    [asset    |-> a,
     path     |-> w.paths[a],
     hash     |-> IF hashed THEN CurrentVersion(w, a) ELSE 0,
     history  |-> AssetReport(w, a, journal).paths,
     sidecars |-> {<<row.at, row.kind>> : row \in {r \in ToSet(w.sidecars) : r.asset = a}},
     topology |-> TopologyKey(lib, w, a)]

Oracle(lib, w, journal, hashed) ==
    {OracleView(lib, w, a, journal, hashed) : a \in AssetIds(lib)}

ViewOf(views, a) == CHOOSE v \in views : v.asset = a

Assets(views) == {v.asset : v \in views}

\* Each path of a history, as often as it occurs in it.
HistoryPaths(history) ==
    FlattenSeq([k \in DOMAIN history |->
        SelectSeq(<<history[k].from, history[k].to, history[k].temp>>, LAMBDA p : p # Nowhere)])

Listings(v, keys) == {<<keys[k], v.asset, k>> : k \in DOMAIN keys}

Present(path) == SelectSeq(<<path>>, LAMBDA p : p # Nowhere)

CurrentKeys(views)  == UNION {Listings(v, Present(v.path)) : v \in views}
OracleHistoryKeys(views) == UNION {Listings(v, HistoryPaths(v.history)) : v \in views}
ObservedHistoryKeys(views) ==
    UNION {Listings(v, Present(v.path) \o HistoryPaths(v.history)) : v \in views}
HashKeys(views)     == {<<v.hash, v.asset, 1>> : v \in {u \in views : u.hash # 0}}
TopologyKeys(views) == {<<v.topology, v.asset, 1>> : v \in views}

AllKeys(listings) == {l[1] : l \in listings}

-----------------------------------------------------------------------------
(* Matching. *)

Finding(code, a) == [code |-> code, asset |-> a]

Unmatched == [matches |-> {}, oracle |-> {}, observed |-> {}, findings |-> {}]

\* Defect: an asset that an earlier level settled is matched again.
Unsettled_Defect(listings, settled) == listings

Unsettled(listings, settled) == {l \in listings : l[2] \notin settled}

Eligible(listings, key, settled) == Unsettled({l \in listings : l[1] = key}, settled)

\* One listing on each side is a match; more on either side is ambiguous, for all of them.
MatchKey(oracleKeys, observedKeys, key, st) ==
    LET o == Eligible(oracleKeys, key, st.oracle)
        v == Eligible(observedKeys, key, st.observed)
        settled == [st EXCEPT !.oracle = @ \cup {l[2] : l \in o},
                              !.observed = @ \cup {l[2] : l \in v}]
    IN  IF o = {} \/ v = {} THEN st
        ELSE IF Cardinality(o) = 1 /\ Cardinality(v) = 1
             THEN [settled EXCEPT !.matches = @ \cup {<<x[2], y[2]>> : x \in o, y \in v}]
             ELSE [settled EXCEPT !.findings = @ \cup {Finding("match_ambiguous", l[2]) : l \in o}]

\* The keys are visited in one fixed order (the code sorts them by their text).
ApplyLevel(st, oracleKeys, observedKeys) ==
    LET o == Unsettled(oracleKeys, st.oracle)
        v == Unsettled(observedKeys, st.observed)
    IN  FoldSet(LAMBDA key, acc : MatchKey(o, v, key, acc), st, AllKeys(o) \cap AllKeys(v))

MatchAssets(oracle, observed) ==
    LET current == ApplyLevel(Unmatched, CurrentKeys(oracle), CurrentKeys(observed))
        past    == ApplyLevel(current, OracleHistoryKeys(oracle), ObservedHistoryKeys(observed))
        hashes  == ApplyLevel(past, HashKeys(oracle), HashKeys(observed))
        all     == ApplyLevel(hashes, TopologyKeys(oracle), TopologyKeys(observed))
    IN  [all EXCEPT !.findings = @
            \cup {Finding("asset_missing", a) : a \in Assets(oracle) \ all.oracle}
            \cup {Finding("asset_unexpected", a) : a \in Assets(observed) \ all.observed}]

-----------------------------------------------------------------------------
(* Lifecycles: a deletion and a later addition are one, so are a copy's two halves. *)

Lifecycle(op, from, to, temp) == [op |-> op, from |-> from, to |-> to, temp |-> temp]

\* The first later entry, not yet used, that closes entry k; 0 when there is none.
Partner(entries, k, used) ==
    LET Later == {j \in DOMAIN entries : j > k /\ j \notin used /\ OrderedGroup(entries[k], entries[j])}
    IN  IF Later = {} THEN 0 ELSE Min(Later)

Lifecycles(entries) ==
    FoldLeft(LAMBDA acc, k :
        IF k \in acc.used THEN acc
        ELSE LET j    == Partner(entries, k, acc.used)
                 e    == entries[k]
                 life == IF j = 0 THEN Lifecycle(e.op, e.from, e.to, e.temp)
                         ELSE Lifecycle(e.op, e.from, entries[j].to, e.temp)
             IN  [used |-> acc.used \cup {j}, lives |-> Append(acc.lives, life)],
        [used |-> {}, lives |-> <<>>], [k \in DOMAIN entries |-> k]).lives

OracleLifecycles(history) == Lifecycles(SelectSeq(history, LAMBDA e : e.op \in IdentityOps))

\* Each expected lifecycle uses up one observed lifecycle of its signature.
CompareLifecycles(a, expected, observed) ==
    LET Count(seq, life) == Cardinality({k \in DOMAIN seq : seq[k] = life})
        Lives            == ToSet(expected) \cup ToSet(observed)
    IN  {Finding("history_missing", a)    : life \in {l \in Lives :
                                              Count(expected, l) > Count(observed, l)}}
        \cup
        {Finding("history_unexpected", a) : life \in {l \in Lives :
                                              Count(expected, l) < Count(observed, l)}}

-----------------------------------------------------------------------------
(* The comparison. *)


\* Differences in what both sides state; what only one of them states is not compared.
CompareMatched(a, o, v) ==
    LET Differ == [deletion_mismatch  |-> (o.path = Nowhere) # (v.path = Nowhere),
                   path_mismatch      |-> Nowhere \notin {o.path, v.path} /\ o.path # v.path,
                   hash_mismatch      |-> 0 \notin {o.hash, v.hash} /\ o.hash # v.hash,
                   sidecar_missing    |-> o.sidecars \ v.sidecars # {},
                   sidecar_unexpected |-> v.sidecars \ o.sidecars # {},
                   topology_mismatch  |-> o.topology # v.topology]
    IN  {Finding(code, a) : code \in {c \in DOMAIN Differ : Differ[c]}}

\* Histories are compared in the deeper of the two modes only.
CompareFixtureToObserved(oracle, observed, mode) ==
    LET result == MatchAssets(oracle, observed)
        Verdict(o, v) == CompareMatched(o.asset, o, v)
                         \cup IF mode = "final-state" THEN {}
                              ELSE CompareLifecycles(o.asset, OracleLifecycles(o.history),
                                                     Lifecycles(v.history))
    IN  result.findings
        \cup UNION {Verdict(ViewOf(oracle, m[1]), ViewOf(observed, m[2])) : m \in result.matches}
=============================================================================
