----------------------------- MODULE ObservedState -----------------------------
(***************************************************************************)
(* What a consumer may export (contract/observed_state.py): the words it   *)
(* has for events, the paths each must give, and how the two entries of a  *)
(* lifecycle are linked, by naming each other or, where it is unambiguous, *)
(* by their order.                                                         *)
(***************************************************************************)
EXTENDS Records
LOCAL INSTANCE FiniteSetsExt

MoveActions == {"move_asset", "rename_file", "archive_file", "move_between_roots",
                "renumber_episode", "move_episode_to_season", "rename_season", "renumber_disc",
                "move_track_to_disc"}

\* The vocabulary has no swap and no republish.
ObservedActions == MoveActions \cup {"delete_file", "add_file", "slow_copy_start",
                                     "slow_copy_commit"}

ActionPathsComplete(entry) ==
    /\ entry.op \in ObservedActions
    /\ entry.op \in MoveActions => Nowhere \notin {entry.from, entry.to}
    /\ entry.op = "delete_file" => entry.from # Nowhere
    /\ entry.op = "slow_copy_start" => Nowhere \notin {entry.from, entry.to, entry.temp}
    /\ entry.op \in {"add_file", "slow_copy_commit"} => entry.to # Nowhere

OrderedGroup(first, second) ==
    \/ first.op = "delete_file" /\ second.op = "add_file"
    \/ first.op = "slow_copy_start" /\ second.op = "slow_copy_commit" /\ first.to = second.to

\* A reference of 0 is none; an entry that names another is named by it.
HasReference(entry) == entry.ref # 0 \/ entry.related # 0

ExplicitLinkHolds(entries, k) ==
    entries[k].related # 0 =>
        /\ entries[k].ref # 0
        /\ \E j \in DOMAIN entries :
              /\ entries[j].ref = entries[k].related
              /\ entries[j].related = entries[k].ref
              /\ OrderedGroup(entries[j], entries[k]) \/ OrderedGroup(entries[k], entries[j])

LinkIsComplete(entries, k) ==
    (entries[k].ref = 0) # (entries[k].related = 0) =>
        /\ entries[k].related = 0
        /\ \A j \in DOMAIN entries \ {k} :
              ~(OrderedGroup(entries[j], entries[k]) \/ OrderedGroup(entries[k], entries[j]))

\* An entry without references may have one candidate before it and one after it.
ImplicitGroupingIsClear(entries, k) ==
    LET Free == {j \in DOMAIN entries : ~HasReference(entries[j])}
    IN  k \in Free =>
            /\ Cardinality({j \in Free : j > k /\ OrderedGroup(entries[k], entries[j])}) <= 1
            /\ Cardinality({j \in Free : j < k /\ OrderedGroup(entries[j], entries[k])}) <= 1

AcceptsHistory(entries) ==
    /\ \A k \in DOMAIN entries : ActionPathsComplete(entries[k])
    /\ \A j, k \in DOMAIN entries : (j # k /\ entries[j].ref # 0) => entries[j].ref # entries[k].ref
    /\ \A k \in DOMAIN entries : /\ ExplicitLinkHolds(entries, k)
                                 /\ LinkIsComplete(entries, k)
                                 /\ ImplicitGroupingIsClear(entries, k)
=============================================================================
