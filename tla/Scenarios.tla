------------------------------- MODULE Scenarios -------------------------------
(***************************************************************************)
(* Where scenarios come from: an author writes one (Authoring), or         *)
(* `generate` and `import` plan one (Generation).  A generated timeline is *)
(* walked by the validator and by the engine like an authored one, but     *)
(* nobody asks the validator before the next event is added: the generator *)
(* validates the finished document and fails for that seed when it is      *)
(* rejected (generation/api.py: _validate_generated_yaml).                 *)
(***************************************************************************)
EXTENDS Authoring, Generation, TimelineRules
LOCAL INSTANCE SequencesExt

VARIABLES planner,   \* the generator's state; NoPlanner when an author writes
          timeline   \* the generated events, with the fields the rules of time and windows read

allVars == <<vars, planner, timeline>>

NoPlanner == [lane |-> "none", left |-> <<>>, fillers |-> 0, live |-> <<>>, unstable |-> {}]

Authored == /\ Init
            /\ planner = NoPlanner
            /\ timeline = <<>>

Generated ==
    /\ \E lane \in Lanes :
          /\ planner = StartPlanner(lane)
          /\ scene = [library |-> Library(GeneratedScenario(lane)), events |-> {}]
    /\ WellFormedHierarchy(lib)
    /\ proj = InitialProjection(lib)
    /\ world = InitialWorld(lib)
    /\ journal = <<>> /\ failure = NoFailure /\ timeline = <<>>
    /\ unsettled = TwiceDeclared(lib)

ScenarioInit == Authored \/ Generated

-----------------------------------------------------------------------------
(* Steps. *)

\* The classes of TimelineRules.
RuleClass(op) ==
    CASE op \in Relocations \ {"slow_copy_commit"} -> "move_asset"
      [] op \in VersionOps                         -> "edit_metadata"
      [] op \in HierarchyOps                       -> "rename_season"
      [] op = "unmount_path"                       -> "acquire_lock"
      [] op = "remount_path"                       -> "release_lock"
      [] OTHER                                     -> op

Field(ev, name, otherwise) == IF name \in DOMAIN ev THEN ev[name] ELSE otherwise

\* Both names a window's end or a lag's start has for another event are references.
Timed(ev) ==
    [act |-> RuleClass(ev.op), at |-> ev.at, asset |-> Field(ev, "target", ""), target |-> "",
     ref |-> Field(ev, "start", Field(ev, "after", 0)), effect |-> Field(ev, "effect", "none"),
     to |-> Field(ev, "to", Nowhere), temp |-> Field(ev, "temp", Nowhere)]

Emit(step) ==
    LET ev == EventOf(lib, planner, Len(timeline) + 1, step)
    IN  /\ Plan(ev)
        /\ planner' = Advance(planner, ev)
        /\ timeline' = Append(timeline, Timed(ev))

EmitRequired == planner.left # <<>> /\ Emit(Head(planner.left))

EmitFiller == planner.left = <<>> /\ \E step \in NextSteps(planner) : Emit(step)

Write == /\ planner = NoPlanner
         /\ Next
         /\ UNCHANGED <<planner, timeline>>

ScenarioNext == Write \/ EmitRequired \/ EmitFiller

ScenarioSpec == ScenarioInit /\ [][ScenarioNext]_allVars

-----------------------------------------------------------------------------
(* The property of a generated timeline. *)

\* An event that places a media file or a sidecar finds its path free.
PlacedFreely(ev) ==
    "to" \in DOMAIN ev =>
        /\ \A a \in AssetIds(lib) : proj.paths[a] # ev.to
        /\ \A row \in proj.sidecars : row.at # ev.to
        /\ planner.lane = "import_chaos" => ev.to \notin Reserved

\* The rules about order, slow copies and windows accept it after the events before it.
FitsInTime(ev) ==
    LET tl == Append(timeline, Timed(ev))
    IN  /\ InOrder(tl, Len(tl))
        /\ SlowCopyAccepts(tl, Len(tl), [loc |-> proj.paths])
        /\ NetworkLagAccepts(tl, Len(tl))
        /\ ChaosAccepts(tl, Len(tl))

\* Whatever the seed, `generate` and `import` end with a scenario: every event they may emit is
\* accepted by every rule where it stands, the windows are all closed, no file is placed over
\* another, damaged media are never handed to a tool that must read them, and the engine can plan
\* it all (generation/planner.py; the check of generation/api.py would refuse the document).
GeneratedIsAccepted ==
    planner # NoPlanner =>
        /\ failure = NoFailure
        /\ \A step \in NextSteps(planner) :
              LET ev == EventOf(lib, planner, Len(timeline) + 1, step)
              IN  /\ Accepts(lib, proj, ev)
                  /\ FitsInTime(ev)
                  /\ PlacedFreely(ev)
                  /\ ev.op \in EncodeOps \cup {"edit_metadata", "remux_container"} =>
                        ev.target \notin planner.unstable
        /\ planner.left = <<>> => AllPaired(timeline)
=============================================================================
