---------------------------- MODULE OutputProofs ----------------------------
(***************************************************************************)
(* Proofs about the output directory that commands race for, for every     *)
(* number of commands, journal entries and kills.                          *)
(***************************************************************************)
EXTENDS EmissionProofs

Verbs == {"none", "plan", "materialize", "run", "replay"}
CommandStages == {"unborn", "begun", "synthesis", "staged", "timed", "sealing",
                  "sealing failure", "ok", "failed", "refused", "tool failed",
                  "write failed", "killed"}
Writing == {"begun", "staged", "sealing", "sealing failure"}

CommandRecord == [verb : Verbs, stage : CommandStages, todo : Seq(D!Files \X Int), rows : Nat]
Dirs == [D!Files -> [by : {0} \cup Commands, at : Int]]

\* Where a command writes.
PlanStaged(c) == command[c].stage = "staged" /\ command[c].verb = "plan"
RunStaged(c)  == command[c].stage \in {"synthesis", "staged"} /\ command[c].verb = "run"
OnDir(c)      == \/ command[c].stage \in {"begun", "timed", "sealing", "sealing failure"}
                 \/ command[c].stage = "synthesis" /\ command[c].verb # "run"
Working(c)    == OnDir(c) /\ command[c].stage \in {"begun", "synthesis", "timed"}

DirTypes ==
    /\ command \in [Commands -> CommandRecord]
    /\ dir \in Dirs \cup {NoDir}
    /\ staging \in [Commands -> Dirs \cup {NoDir}]
    /\ runStaging \in Dirs \cup {NoDir}
    /\ overEmpty \in BOOLEAN
    /\ \A c \in Commands :
          /\ command[c].stage = "staged" => command[c].verb \in {"plan", "run"}
          /\ command[c].stage = "timed" => command[c].verb = "run"
          /\ command[c].stage = "begun" => command[c].verb # "run"
          /\ command[c].todo # <<>> => command[c].stage \in Writing

\* A directory with files of c alone.
Mine(d, c) == \A f \in D!Files : d[f] = D!None \/ d[f].by = c

\* Nothing in it says yet that it is final.
Open(d) == d["sentinel"].at # 1 /\ d["reports"] = D!None /\ d["materialization"] = D!None

\* What a list of files may hold before the work is done.
Harmless(todo) ==
    \A n \in DOMAIN todo : /\ todo[n][1] \notin {"reports", "materialization"}
                           /\ todo[n][1] = "sentinel" => todo[n][2] # 1

\* What the finalisers write of k entries and of an outcome.
Final(k, outcome) ==
    [f \in D!Files |-> CASE f \in {"current", "journal", "replay", "reports"} -> k
                         [] f = "materialization"                             -> outcome
                         [] f = "sentinel"                                    -> 1
                         [] OTHER                                             -> 0]

PlanFiles    == {"scenario", "replay", "initial", "current", "journal", "validation", "reports",
                 "sentinel"}
SuccessFiles == PlanFiles \cup {"materialization"}
FailureFiles == SuccessFiles \ {"reports"}

\* Of the files F, those that are not on the list are written; the sentinel is last.
Progress(d, c, todo, F, values) ==
    /\ \A n \in DOMAIN todo : /\ todo[n][1] \in F /\ todo[n][2] = values[todo[n][1]]
                              /\ todo[n][1] = "sentinel" => n = Len(todo)
    /\ \A f \in F : \/ d[f] = [by |-> c, at |-> values[f]]
                    \/ \E n \in DOMAIN todo : todo[n][1] = f
    /\ todo # <<>> => d["sentinel"].at # 1

\* The entries a command records.
Recorded(c) == IF command[c].verb = "run" THEN command[c].rows ELSE Rows

StagingInv(c) ==
    /\ PlanStaged(c) => 
          /\ staging[c] # NoDir /\ Mine(staging[c], c)
          /\ staging[c]["materialization"] = D!None
          /\ \E k \in Nat : Progress(staging[c], c, command[c].todo, PlanFiles, Final(k, 0))
    /\ RunStaged(c) =>
          /\ runStaging # NoDir /\ Mine(runStaging, c) /\ runStaging["library"].by = c
          /\ Open(runStaging) /\ Harmless(command[c].todo)

WriterInv(c) ==
    /\ OnDir(c) => Mine(dir, c)
    /\ Working(c) => Open(dir) /\ Harmless(command[c].todo)
    /\ command[c].stage = "sealing" =>
          /\ Progress(dir, c, command[c].todo, SuccessFiles, Final(Recorded(c), 1))
          /\ dir["library"].at = 1
    /\ command[c].stage = "sealing failure" =>
          /\ Progress(dir, c, command[c].todo, FailureFiles, Final(Recorded(c), 0))
          /\ dir["library"].at < 1 /\ dir["reports"] = D!None

\* What a sealed directory says of itself, and what a failure leaves to clean.
Coherent(d) ==
    d["sentinel"].at = 1 =>
        /\ \A f \in {"scenario", "initial", "current", "journal", "validation", "replay"} :
              d[f] # D!None
        /\ d["replay"].at = d["current"].at /\ d["journal"].at = d["current"].at
        /\ d["reports"] # D!None => d["reports"].at = d["current"].at
        /\ d["materialization"].at = 0 => d["library"].at < 1
        /\ d["materialization"].at = 1 => d["library"].at = 1

LeftCleanable(c) ==
    command[c].stage = "failed" /\ (\E f \in D!Files : dir[f].by = c) =>
        dir["sentinel"].by = c /\ dir["replay"].by = c

\* The directory as long as no rename has replaced an empty one.
OwnInv ==
    /\ \A c, e \in Commands : OnDir(c) /\ OnDir(e) => c = e
    /\ dir # NoDir =>
          /\ \E c \in Commands : Mine(dir, c)
          /\ Coherent(dir)
          /\ \A c \in Commands : WriterInv(c) /\ LeftCleanable(c)

DirInv ==
    /\ DirTypes
    /\ \A c \in Commands : StagingInv(c) /\ (OnDir(c) => dir # NoDir)
    /\ ~overEmpty => OwnInv

(***************************************************************************)
(* Lists of files.                                                         *)
(***************************************************************************)

LEMMA OneLess == \A a, b, m \in Int : m = b - 1 /\ a + 1 = b => a = m
  OBVIOUS

\* Writing the first file of a list is progress.
LEMMA WritingIsProgress ==
  ASSUME NEW c, NEW F \in SUBSET D!Files, NEW values \in [D!Files -> Int],
         NEW d \in Dirs, NEW todo \in Seq(D!Files \X Int), todo # <<>>,
         Progress(d, c, todo, F, values),
         NEW e, e = [d EXCEPT ![Head(todo)[1]] = [by |-> c, at |-> Head(todo)[2]]]
  PROVE  Progress(e, c, Tail(todo), F, values)
<1> DEFINE h == Head(todo)
<1>1. /\ Len(todo) \in Nat /\ Len(todo) > 0 /\ 1 \in DOMAIN todo /\ h = todo[1]
      /\ Tail(todo) \in Seq(D!Files \X Int) /\ Len(Tail(todo)) = Len(todo) - 1
      /\ \A n \in DOMAIN Tail(todo) : n + 1 \in DOMAIN todo /\ Tail(todo)[n] = todo[n + 1]
      /\ \A n \in DOMAIN todo : n = 1 \/ n - 1 \in DOMAIN Tail(todo)
  OBVIOUS
<1>2. h[1] \in F /\ h[2] = values[h[1]] /\ (h[1] = "sentinel" => 1 = Len(todo))
  BY <1>1 DEF Progress
<1>3. /\ DOMAIN e = D!Files /\ \A f \in D!Files \ {h[1]} : e[f] = d[f]
      /\ e[h[1]] = [by |-> c, at |-> values[h[1]]]
  BY <1>2 DEF Dirs
<1>4. ASSUME NEW n \in DOMAIN Tail(todo)
      PROVE  /\ Tail(todo)[n][1] \in F /\ Tail(todo)[n][2] = values[Tail(todo)[n][1]]
             /\ Tail(todo)[n][1] = "sentinel" => n = Len(Tail(todo))
  <2>1. n + 1 \in DOMAIN todo /\ Tail(todo)[n] = todo[n + 1] /\ n \in Int
    BY <1>1, <1>4
  <2>2. todo[n + 1][1] \in F /\ todo[n + 1][2] = values[todo[n + 1][1]]
    BY <2>1 DEF Progress
  <2>3. todo[n + 1][1] = "sentinel" => n + 1 = Len(todo)
    BY <2>1 DEF Progress
  <2>4. n + 1 = Len(todo) => n = Len(Tail(todo))
    <3> DEFINE a == Len(todo)
               b == Len(Tail(todo))
    <3>1. a \in Int
      BY <1>1
    <3>2. b = a - 1
      BY <1>1
    <3>3. b \in Int
      BY <3>1, <3>2
    <3>4. n \in Int
      BY <2>1
    <3> HIDE DEF a, b
    <3>5. n + 1 = a => n = b
      BY <3>1, <3>2, <3>3, <3>4
    <3> QED BY <3>5 DEF a, b
  <2> QED BY <2>1, <2>2, <2>3, <2>4
<1>5. ASSUME NEW f \in F, e[f] # [by |-> c, at |-> values[f]]
      PROVE  \E n \in DOMAIN Tail(todo) : Tail(todo)[n][1] = f
  <2>1. f # h[1] /\ f \in D!Files /\ d[f] # [by |-> c, at |-> values[f]]
    BY <1>3, <1>5
  <2>2. PICK n \in DOMAIN todo : todo[n][1] = f
    BY <2>1 DEF Progress
  <2>3. n # 1 /\ n \in Nat
    BY <1>1, <2>1, <2>2
  <2>4. n - 1 \in DOMAIN Tail(todo) /\ Tail(todo)[n - 1] = todo[n]
    BY <1>1, <2>2, <2>3
  <2> QED BY <2>2, <2>4
<1>6. Tail(todo) # <<>> => e["sentinel"].at # 1
  <2>1. ASSUME Tail(todo) # <<>> PROVE h[1] # "sentinel"
    BY <1>1, <1>2, <2>1
  <2> QED BY <1>3, <2>1 DEF Progress, D!Files
<1> QED BY <1>4, <1>5, <1>6 DEF Progress

\* A list that owes the files F, in any order.
Owes(todo, F, values) ==
    /\ todo \in Seq(D!Files \X Int)
    /\ \A n \in DOMAIN todo : todo[n][1] \in F /\ todo[n][2] = values[todo[n][1]]
    /\ \A f \in F : \E n \in DOMAIN todo : todo[n][1] = f

LEMMA Joined ==
  ASSUME NEW S, NEW s \in Seq(S), NEW t \in Seq(S)
  PROVE  /\ s \o t \in Seq(S) /\ Len(s \o t) = Len(s) + Len(t)
         /\ \A n \in DOMAIN s : n \in DOMAIN (s \o t) /\ (s \o t)[n] = s[n]
         /\ \A n \in DOMAIN t : n + Len(s) \in DOMAIN (s \o t) /\ (s \o t)[n + Len(s)] = t[n]
         /\ \A n \in DOMAIN (s \o t) :
               n \in Nat /\ (n \in DOMAIN s \/ n - Len(s) \in DOMAIN t)
  OBVIOUS

\* The sentinel comes after what all finalisers write.
LEMMA SentinelLast ==
  ASSUME NEW c, NEW d, d["sentinel"].at # 1, NEW values, NEW F, NEW G,
         NEW s, Owes(s, F, values), "sentinel" \notin F,
         NEW t, Owes(t, G, values), \A n \in DOMAIN t : t[n][1] = "sentinel" => n = Len(t)
  PROVE  /\ s \o t \in Seq(D!Files \X Int)
         /\ Progress(d, c, s \o t, F \cup G, values)
<1> DEFINE st == s \o t
<1>1. s \in Seq(D!Files \X Int) /\ t \in Seq(D!Files \X Int)
  BY DEF Owes
<1>2. /\ st \in Seq(D!Files \X Int) /\ Len(st) = Len(s) + Len(t)
      /\ \A n \in DOMAIN s : n \in DOMAIN st /\ st[n] = s[n]
      /\ \A n \in DOMAIN t : n + Len(s) \in DOMAIN st /\ st[n + Len(s)] = t[n]
      /\ \A n \in DOMAIN st : n \in Nat /\ (n \in DOMAIN s \/ n - Len(s) \in DOMAIN t)
  BY <1>1, Joined
<1>3. ASSUME NEW n \in DOMAIN st
      PROVE  /\ st[n][1] \in F \cup G /\ st[n][2] = values[st[n][1]]
             /\ st[n][1] = "sentinel" => n = Len(st)
  <2>1. CASE n \in DOMAIN s
    BY <1>2, <2>1 DEF Owes
  <2>2. CASE n - Len(s) \in DOMAIN t
    <3>1. n \in Nat /\ Len(s) \in Nat /\ Len(t) \in Nat
      BY <1>1, <1>2
    <3>2. (n - Len(s)) + Len(s) = n
      BY <3>1
    <3>3. st[n] = t[n - Len(s)]
      BY <1>2, <2>2, <3>2
    <3>4. st[n][1] = "sentinel" => n - Len(s) = Len(t)
      BY <2>2, <3>3
    <3> QED BY <1>2, <2>2, <3>1, <3>3, <3>4 DEF Owes
  <2> QED BY <1>2, <2>1, <2>2
<1>4. ASSUME NEW f \in F \cup G PROVE \E n \in DOMAIN st : st[n][1] = f
  <2>1. CASE f \in F
    BY <1>2, <2>1 DEF Owes
  <2>2. CASE f \in G
    <3>1. PICK n \in DOMAIN t : t[n][1] = f
      BY <2>2 DEF Owes
    <3>2. n + Len(s) \in DOMAIN st /\ st[n + Len(s)] = t[n]
      BY <1>2
    <3> QED BY <3>1, <3>2
  <2> QED BY <2>1, <2>2
<1> QED BY <1>2, <1>3, <1>4 DEF Progress

SharedFiles == FailureFiles \ {"sentinel"}

LEMMA SharedOwes ==
  ASSUME NEW k \in Int, NEW outcome \in Int
  PROVE  Owes(D!SharedMetadata(k, outcome), SharedFiles, Final(k, outcome))
<1> DEFINE s == D!SharedMetadata(k, outcome)
<1>1. /\ s \in Seq(D!Files \X Int) /\ DOMAIN s = 1..7
      /\ s[1] = <<"scenario", 0>> /\ s[2] = <<"initial", 0>> /\ s[3] = <<"current", k>>
      /\ s[4] = <<"journal", k>> /\ s[5] = <<"validation", 0>>
      /\ s[6] = <<"materialization", outcome>> /\ s[7] = <<"replay", k>>
  BY DEF D!SharedMetadata, D!Files
<1> HIDE DEF s
<1>2. \A n \in 1..7 : n = 1 \/ n = 2 \/ n = 3 \/ n = 4 \/ n = 5 \/ n = 6 \/ n = 7
  OBVIOUS
<1>3. ASSUME NEW n \in 1..7
      PROVE  s[n][1] \in SharedFiles /\ s[n][2] = Final(k, outcome)[s[n][1]]
  BY <1>1, <1>2 DEF SharedFiles, FailureFiles, SuccessFiles, PlanFiles, Final, D!Files
<1>4. ASSUME NEW f \in SharedFiles PROVE \E n \in 1..7 : s[n][1] = f
  BY <1>1 DEF SharedFiles, FailureFiles, SuccessFiles, PlanFiles
<1> QED BY <1>1, <1>3, <1>4 DEF Owes, s

\* The scripts of the finalisers, before anything of them is written.
LEMMA SuccessPlanned ==
  ASSUME NEW k \in Int, NEW c, NEW d, d["sentinel"].at # 1
  PROVE  /\ D!SuccessScript(k) \in Seq(D!Files \X Int)
         /\ Progress(d, c, D!SuccessScript(k), SuccessFiles, Final(k, 1))
<1> DEFINE t == <<<<"reports", k>>, <<"sentinel", 1>>>>
<1>1. Owes(D!SharedMetadata(k, 1), SharedFiles, Final(k, 1)) /\ "sentinel" \notin SharedFiles
  BY SharedOwes DEF SharedFiles
<1>2. Owes(t, {"reports", "sentinel"}, Final(k, 1))
  <2>1. t \in Seq(D!Files \X Int) /\ DOMAIN t = {1, 2} /\ t[1] = <<"reports", k>>
        /\ t[2] = <<"sentinel", 1>>
    BY DEF D!Files
  <2> QED BY <2>1 DEF Owes, Final, D!Files
<1>3. \A n \in DOMAIN t : t[n][1] = "sentinel" => n = Len(t)
  OBVIOUS
<1>4. SuccessFiles = SharedFiles \cup {"reports", "sentinel"}
  BY DEF SuccessFiles, SharedFiles, FailureFiles, PlanFiles
<1>5. D!SuccessScript(k) = D!SharedMetadata(k, 1) \o t
  BY DEF D!SuccessScript, D!Complete
<1> HIDE DEF t
<1>6. /\ D!SharedMetadata(k, 1) \o t \in Seq(D!Files \X Int)
      /\ Progress(d, c, D!SharedMetadata(k, 1) \o t, SharedFiles \cup {"reports", "sentinel"},
                  Final(k, 1))
  BY <1>1, <1>2, <1>3, SentinelLast
<1> QED BY <1>4, <1>5, <1>6

LEMMA FailurePlanned ==
  ASSUME NEW k \in Int, NEW c, NEW d, d["sentinel"].at # 1
  PROVE  /\ D!FailureScript(k) \in Seq(D!Files \X Int)
         /\ Progress(d, c, D!FailureScript(k), FailureFiles, Final(k, 0))
<1> DEFINE t == <<<<"sentinel", 1>>>>
<1>1. Owes(D!SharedMetadata(k, 0), SharedFiles, Final(k, 0)) /\ "sentinel" \notin SharedFiles
  BY SharedOwes DEF SharedFiles
<1>2. Owes(t, {"sentinel"}, Final(k, 0))
  <2>1. t \in Seq(D!Files \X Int) /\ DOMAIN t = {1} /\ t[1] = <<"sentinel", 1>>
    BY DEF D!Files
  <2> QED BY <2>1 DEF Owes, Final, D!Files
<1>3. \A n \in DOMAIN t : t[n][1] = "sentinel" => n = Len(t)
  OBVIOUS
<1>4. FailureFiles = SharedFiles \cup {"sentinel"}
  BY DEF SuccessFiles, SharedFiles, FailureFiles, PlanFiles
<1>5. D!FailureScript(k) = D!SharedMetadata(k, 0) \o t
  BY DEF D!FailureScript, D!Complete, D!Failed
<1> HIDE DEF t
<1>6. /\ D!SharedMetadata(k, 0) \o t \in Seq(D!Files \X Int)
      /\ Progress(d, c, D!SharedMetadata(k, 0) \o t, SharedFiles \cup {"sentinel"},
                  Final(k, 0))
  BY <1>1, <1>2, <1>3, SentinelLast
<1> QED BY <1>4, <1>5, <1>6

LEMMA PlanPlanned ==
  ASSUME NEW k \in Nat, NEW c, NEW d, d["sentinel"].at # 1
  PROVE  /\ D!PlanScript(k) \in Seq(D!Files \X Int)
         /\ Progress(d, c, D!PlanScript(k), PlanFiles, Final(k, 0))
<1> DEFINE s == D!PlanScript(k)
<1>1. /\ s \in Seq(D!Files \X Int) /\ DOMAIN s = 1..8 /\ Len(s) = 8
      /\ s[1] = <<"scenario", 0>> /\ s[2] = <<"replay", k>> /\ s[3] = <<"initial", 0>>
      /\ s[4] = <<"current", k>> /\ s[5] = <<"journal", k>> /\ s[6] = <<"validation", 0>>
      /\ s[7] = <<"reports", k>> /\ s[8] = <<"sentinel", 1>>
  BY DEF D!PlanScript, D!Files, D!Complete
<1> HIDE DEF s
<1>2. \A n \in 1..8 : n = 1 \/ n = 2 \/ n = 3 \/ n = 4 \/ n = 5 \/ n = 6 \/ n = 7 \/ n = 8
  OBVIOUS
<1>3. ASSUME NEW n \in 1..8
      PROVE  /\ s[n][1] \in PlanFiles /\ s[n][2] = Final(k, 0)[s[n][1]]
             /\ s[n][1] = "sentinel" => n = 8
  BY <1>1, <1>2 DEF PlanFiles, Final, D!Files
<1>4. ASSUME NEW f \in PlanFiles PROVE \E n \in 1..8 : s[n][1] = f
  BY <1>1 DEF PlanFiles
<1> QED BY <1>1, <1>3, <1>4 DEF Progress, s

\* The lists that are written before the work is done.
LEMMA HarmlessLists ==
  /\ D!BaselineScript \in Seq(D!Files \X Int) /\ Harmless(D!BaselineScript)
  /\ <<<<"library", 0>>, <<"sentinel", 0>>>> \in Seq(D!Files \X Int)
  /\ Harmless(<<<<"library", 0>>, <<"sentinel", 0>>>>)
  /\ <<<<"library", 0>>>> \in Seq(D!Files \X Int) /\ Harmless(<<<<"library", 0>>>>)
<1>1. D!BaselineScript \in Seq(D!Files \X Int) /\ Harmless(D!BaselineScript)
  <2> DEFINE s == D!BaselineScript
  <2>1. /\ s \in Seq(D!Files \X Int) /\ DOMAIN s = 1..7
        /\ s[1] = <<"scenario", 0>> /\ s[2] = <<"initial", 0>> /\ s[3] = <<"current", 0>>
        /\ s[4] = <<"journal", 0>> /\ s[5] = <<"validation", 0>> /\ s[6] = <<"replay", 0>>
        /\ s[7] = <<"sentinel", 0>>
    BY DEF D!BaselineScript, D!Files, D!InProgress
  <2>2. \A n \in 1..7 : n = 1 \/ n = 2 \/ n = 3 \/ n = 4 \/ n = 5 \/ n = 6 \/ n = 7
    OBVIOUS
  <2> HIDE DEF s
  <2> QED BY <2>1, <2>2 DEF Harmless, s
<1>2. /\ <<<<"library", 0>>, <<"sentinel", 0>>>> \in Seq(D!Files \X Int)
      /\ <<<<"library", 0>>>> \in Seq(D!Files \X Int)
  BY DEF D!Files
<1>3. /\ Harmless(<<<<"library", 0>>, <<"sentinel", 0>>>>) /\ Harmless(<<<<"library", 0>>>>)
  BY DEF Harmless
<1> QED BY <1>1, <1>2, <1>3

LEMMA HarmlessTail ==
  ASSUME NEW todo \in Seq(D!Files \X Int), todo # <<>>, Harmless(todo)
  PROVE  /\ Harmless(Tail(todo)) /\ Tail(todo) \in Seq(D!Files \X Int)
         /\ Head(todo)[1] \in D!Files \ {"reports", "materialization"} /\ Head(todo)[2] \in Int
         /\ Head(todo)[1] = "sentinel" => Head(todo)[2] # 1
<1>1. /\ 1 \in DOMAIN todo /\ Head(todo) = todo[1] /\ Tail(todo) \in Seq(D!Files \X Int)
      /\ Head(todo) \in D!Files \X Int
      /\ \A n \in DOMAIN Tail(todo) : n + 1 \in DOMAIN todo /\ Tail(todo)[n] = todo[n + 1]
  OBVIOUS
<1> QED BY <1>1 DEF Harmless

(***************************************************************************)
(* Directories.                                                            *)
(***************************************************************************)

LEMMA Constants ==
  /\ 0 \notin Commands /\ Rows \in Nat /\ NoDir \notin Dirs
  /\ D!None \in [by : {0} \cup Commands, at : Int] /\ D!EmptyDir \in Dirs
  /\ \A f \in D!Files : D!EmptyDir[f] = D!None
  /\ {"sentinel", "library", "reports", "materialization", "current", "journal", "replay",
      "scenario", "initial", "validation"} = D!Files
  BY OutputsAssumption DEF Dirs, D!None, D!EmptyDir, D!Files

\* What becomes of c decides; the others stand still.
LEMMA StepOf ==
  ASSUME DirInv, NEW c \in Commands, DirTypes',
         \A e \in Commands \ {c} : command'[e] = command[e] /\ staging'[e] = staging[e],
         runStaging' = runStaging \/ \A e \in Commands \ {c} : ~RunStaged(e),
         StagingInv(c)', OnDir(c)' => dir' # NoDir,
         dir' = dir \/ dir' # NoDir,
         ~overEmpty' =>
            /\ ~overEmpty
            /\ dir' # NoDir => Coherent(dir') /\ WriterInv(c)' /\ LeftCleanable(c)'
            /\ \/ dir' = dir /\ (OnDir(c)' => OnDir(c))
               \/ dir' # NoDir /\ Mine(dir', c) /\ \A e \in Commands \ {c} : ~OnDir(e)
  PROVE  DirInv'
<1>1. ASSUME NEW e \in Commands \ {c}
      PROVE  /\ OnDir(e)' = OnDir(e) /\ RunStaged(e)' = RunStaged(e)
             /\ PlanStaged(e)' = PlanStaged(e) /\ Working(e)' = Working(e)
  BY DEF OnDir, RunStaged, PlanStaged, Working
<1>2. ASSUME NEW e \in Commands PROVE StagingInv(e)' /\ (OnDir(e)' => dir' # NoDir)
  <2>1. CASE e # c
    <3>1. StagingInv(e) /\ (OnDir(e) => dir # NoDir)
      BY DEF DirInv
    <3>2. command'[e] = command[e] /\ staging'[e] = staging[e]
      BY <2>1
    <3>3. PlanStaged(e)' =>
             /\ staging'[e] # NoDir /\ Mine(staging'[e], e)
             /\ staging'[e]["materialization"] = D!None
             /\ \E k \in Nat : Progress(staging'[e], e, command'[e].todo, PlanFiles, Final(k, 0))
      BY <1>1, <2>1, <3>1, <3>2 DEF StagingInv
    <3>4. RunStaged(e)' =>
             /\ runStaging' # NoDir /\ Mine(runStaging', e) /\ runStaging'["library"].by = e
             /\ Open(runStaging') /\ Harmless(command'[e].todo)
      BY <1>1, <2>1, <3>1, <3>2 DEF StagingInv
    <3> QED BY <1>1, <2>1, <3>1, <3>3, <3>4 DEF StagingInv
  <2> QED BY <2>1
<1>3. ASSUME ~overEmpty' PROVE OwnInv'
  <2>1. OwnInv
    BY <1>3 DEF DirInv
  <2>2. CASE dir' = dir /\ (OnDir(c)' => OnDir(c))
    <3>1. \A e, g \in Commands : OnDir(e)' /\ OnDir(g)' => e = g
      BY <1>1, <2>1, <2>2 DEF OwnInv
    <3>2. ASSUME dir # NoDir, NEW e \in Commands \ {c}
          PROVE  WriterInv(e)' /\ LeftCleanable(e)'
      <4>1. WriterInv(e) /\ LeftCleanable(e) /\ command'[e] = command[e] /\ dir' = dir
        BY <2>1, <2>2, <3>2 DEF OwnInv
      <4>2. WriterInv(e)'
        BY <1>1, <4>1 DEF WriterInv, Open, Recorded
      <4> QED BY <4>1, <4>2 DEF LeftCleanable
    <3>3. dir # NoDir => \E e \in Commands : Mine(dir', e)
      BY <2>1, <2>2 DEF OwnInv
    <3> QED BY <1>3, <2>2, <3>1, <3>2, <3>3 DEF OwnInv
  <2>3. CASE dir' # NoDir /\ Mine(dir', c) /\ \A e \in Commands \ {c} : ~OnDir(e)
    <3>1. \A e, g \in Commands : OnDir(e)' /\ OnDir(g)' => e = g
      BY <1>1, <2>3
    <3>2. ASSUME NEW e \in Commands \ {c} PROVE WriterInv(e)' /\ LeftCleanable(e)'
      <4>1. ~OnDir(e)' /\ e # 0
        BY <1>1, <2>3, Constants
      <4>2. \A f \in D!Files : dir'[f].by # e
        BY <2>3, <4>1 DEF Mine, D!None
      <4> QED BY <4>1, <4>2 DEF WriterInv, LeftCleanable, OnDir, Working
    <3> QED BY <1>3, <2>3, <3>1, <3>2 DEF OwnInv
  <2> QED BY <1>3, <2>2, <2>3
<1> QED BY <1>2, <1>3 DEF DirInv

\* The staging directory all runs share belongs to one of them.
LEMMA OneRunStaged ==
  ASSUME DirInv, NEW c \in Commands, NEW e \in Commands, RunStaged(c), RunStaged(e)
  PROVE  c = e
  BY DEF DirInv, StagingInv

LEMMA NobodyOnNothing == ASSUME DirInv, dir = NoDir, NEW e \in Commands PROVE ~OnDir(e)
  BY DEF DirInv

(***************************************************************************)
(* What becomes of one command.                                            *)
(***************************************************************************)

Fits(r) ==
    /\ r \in CommandRecord
    /\ r.stage = "staged" => r.verb \in {"plan", "run"}
    /\ r.stage = "timed" => r.verb = "run"
    /\ r.stage = "begun" => r.verb # "run"
    /\ r.todo # <<>> => r.stage \in Writing

Changed(c, stage, todo, rows) ==
    [verb |-> command[c].verb, stage |-> stage, todo |-> todo, rows |-> rows]

LEMMA Typed ==
  ASSUME DirInv, NEW c \in Commands, NEW r, Fits(r), command' = [command EXCEPT ![c] = r],
         dir' \in Dirs \cup {NoDir}, staging' \in [Commands -> Dirs \cup {NoDir}],
         runStaging' \in Dirs \cup {NoDir}, overEmpty' \in BOOLEAN
  PROVE  /\ DirTypes' /\ command'[c] = r
         /\ \A e \in Commands \ {c} : command'[e] = command[e]
<1>1. /\ command' \in [Commands -> CommandRecord] /\ command'[c] = r
      /\ \A e \in Commands \ {c} : command'[e] = command[e]
  BY DEF DirInv, DirTypes, Fits
<1>2. ASSUME NEW e \in Commands PROVE Fits(command'[e])
  BY <1>1 DEF DirInv, DirTypes, Fits
<1> QED BY <1>1, <1>2 DEF DirTypes, Fits

LEMMA Before ==
  ASSUME DirInv, NEW c \in Commands
  PROVE  /\ Fits(command[c]) /\ command[c].verb \in Verbs /\ command[c].stage \in CommandStages
         /\ command[c].todo \in Seq(D!Files \X Int) /\ command[c].rows \in Nat
         /\ dir \in Dirs \cup {NoDir} /\ staging \in [Commands -> Dirs \cup {NoDir}]
         /\ runStaging \in Dirs \cup {NoDir} /\ overEmpty \in BOOLEAN
         /\ DOMAIN command = Commands /\ <<>> \in Seq(D!Files \X Int)
  BY DEF DirInv, DirTypes, Fits, CommandRecord

Turned(c, stage, todo) == [command EXCEPT ![c].stage = stage, ![c].todo = todo]

LEMMA Record ==
  ASSUME DirInv, NEW c \in Commands
  PROVE  /\ command[c] = Changed(c, command[c].stage, command[c].todo, command[c].rows)
         /\ DOMAIN command = Commands
  BY DEF DirInv, DirTypes, CommandRecord, Changed

LEMMA StageChanges ==
  ASSUME DirInv, NEW c \in Commands, NEW stage
  PROVE  [command EXCEPT ![c].stage = stage]
            = [command EXCEPT ![c] = Changed(c, stage, command[c].todo, command[c].rows)]
<1>0. command[c] = [verb |-> command[c].verb, stage |-> command[c].stage,
                    todo |-> command[c].todo, rows |-> command[c].rows]
  BY Record DEF Changed
<1>1. [command[c] EXCEPT !.stage = stage] = Changed(c, stage, command[c].todo, command[c].rows)
  BY <1>0 DEF Changed
<1> QED BY <1>1, Record

LEMMA TodoChanges ==
  ASSUME DirInv, NEW c \in Commands, NEW todo
  PROVE  [command EXCEPT ![c].todo = todo]
            = [command EXCEPT ![c] = Changed(c, command[c].stage, todo, command[c].rows)]
<1>0. command[c] = [verb |-> command[c].verb, stage |-> command[c].stage,
                    todo |-> command[c].todo, rows |-> command[c].rows]
  BY Record DEF Changed
<1>1. [command[c] EXCEPT !.todo = todo] = Changed(c, command[c].stage, todo, command[c].rows)
  BY <1>0 DEF Changed
<1> QED BY <1>1, Record

LEMMA RowsChange ==
  ASSUME DirInv, NEW c \in Commands, NEW rows
  PROVE  [command EXCEPT ![c].rows = rows]
            = [command EXCEPT ![c] = Changed(c, command[c].stage, command[c].todo, rows)]
<1>0. command[c] = [verb |-> command[c].verb, stage |-> command[c].stage,
                    todo |-> command[c].todo, rows |-> command[c].rows]
  BY Record DEF Changed
<1>1. [command[c] EXCEPT !.rows = rows] = Changed(c, command[c].stage, command[c].todo, rows)
  BY <1>0 DEF Changed
<1> QED BY <1>1, Record

LEMMA Turns ==
  ASSUME DirInv, NEW c \in Commands, NEW stage, NEW todo
  PROVE  Turned(c, stage, todo)
            = [command EXCEPT ![c] = Changed(c, stage, todo, command[c].rows)]
<1> DEFINE v == command[c]
<1>0. command[c] = [verb |-> command[c].verb, stage |-> command[c].stage,
                    todo |-> command[c].todo, rows |-> command[c].rows]
  BY Record DEF Changed
<1>1. [v EXCEPT !.stage = stage] = Changed(c, stage, v.todo, v.rows)
  BY <1>0 DEF Changed
<1>2. [Changed(c, stage, v.todo, v.rows) EXCEPT !.todo = todo] = Changed(c, stage, todo, v.rows)
  BY DEF Changed
<1>3. [[v EXCEPT !.stage = stage] EXCEPT !.todo = todo] = Changed(c, stage, todo, v.rows)
  BY <1>1, <1>2
<1> QED BY <1>3, Record DEF Turned

(***************************************************************************)
(* The starts.                                                             *)
(***************************************************************************)

LEMMA StartPlanKeeps ==
  ASSUME DirInv, NEW c \in Commands, NEW k \in 0..Rows, D!StartPlan(c, k)
  PROVE  DirInv'
<1> DEFINE r == [verb |-> "plan", stage |-> "staged", todo |-> D!PlanScript(k), rows |-> 0]
<1>0. k \in Nat /\ D!EmptyDir["sentinel"].at # 1
  BY Constants DEF D!None, D!Files
<1>1. /\ command' = [command EXCEPT ![c] = r] /\ dir = NoDir /\ dir' = NoDir
      /\ staging' = [staging EXCEPT ![c] = D!EmptyDir]
      /\ runStaging' = runStaging /\ overEmpty' = overEmpty
  BY DEF D!StartPlan, D!Born
<1>2. Fits(r)
  BY <1>0, PlanPlanned DEF Fits, CommandRecord, Verbs, CommandStages, Writing
<1>3. /\ DirTypes' /\ command'[c] = r /\ \A e \in Commands \ {c} : command'[e] = command[e]
      /\ staging'[c] = D!EmptyDir /\ \A e \in Commands \ {c} : staging'[e] = staging[e]
  <2> HIDE DEF r
  <2> QED BY <1>1, <1>2, Typed, Before, Constants
<1>4. StagingInv(c)' /\ ~OnDir(c)'
  <2>1. Mine(staging'[c], c) /\ staging'[c]["materialization"] = D!None
    BY <1>3, Constants DEF Mine
  <2>2. Progress(staging'[c], c, command'[c].todo, PlanFiles, Final(k, 0))
    BY <1>0, <1>3, PlanPlanned
  <2>3. staging'[c] # NoDir
    BY <1>3, Constants
  <2> QED BY <1>0, <1>3, <2>1, <2>2, <2>3 DEF StagingInv, PlanStaged, RunStaged, OnDir
<1> QED BY <1>1, <1>3, <1>4, StepOf

\* A command that has just made the directory, with nothing in it.
LEMMA MakingKeeps ==
  ASSUME DirInv, NEW c \in Commands, NEW r, Fits(r), r.stage = "begun", Harmless(r.todo),
         command' = [command EXCEPT ![c] = r], dir = NoDir, dir' = D!EmptyDir,
         UNCHANGED <<staging, runStaging, overEmpty>>
  PROVE  DirInv'
<1>1. /\ DirTypes' /\ command'[c] = r /\ \A e \in Commands \ {c} : command'[e] = command[e]
      /\ dir' \in Dirs /\ dir' # NoDir
  BY Typed, Before, Constants
<1>2. Mine(dir', c) /\ Open(dir')
  BY Constants DEF Mine, Open, D!None
<1>3. StagingInv(c)' /\ Coherent(dir') /\ WriterInv(c)' /\ LeftCleanable(c)'
  BY <1>1, <1>2 DEF StagingInv, PlanStaged, RunStaged, Coherent, WriterInv, OnDir, Working,
                    LeftCleanable, Open
<1>4. \A e \in Commands : ~OnDir(e)
  BY NobodyOnNothing
<1> QED BY <1>1, <1>2, <1>3, <1>4, StepOf

LEMMA StartMaterializeKeeps ==
  ASSUME DirInv, NEW c \in Commands, D!StartMaterialize(c) PROVE DirInv'
<1> DEFINE r == [verb |-> "materialize", stage |-> "begun",
                 todo |-> <<<<"library", 0>>, <<"sentinel", 0>>>>, rows |-> 0]
<1>1. Fits(r) /\ r.stage = "begun" /\ Harmless(r.todo)
  BY HarmlessLists DEF Fits, CommandRecord, Verbs, CommandStages, Writing
<1>2. /\ command' = [command EXCEPT ![c] = r] /\ dir = NoDir /\ dir' = D!EmptyDir
      /\ UNCHANGED <<staging, runStaging, overEmpty>>
  BY DEF D!StartMaterialize, D!Born, D!InProgress
<1> HIDE DEF r
<1> QED BY <1>1, <1>2, MakingKeeps

LEMMA StartRunReplayKeeps ==
  ASSUME DirInv, NEW c \in Commands, D!StartRunReplay(c) PROVE DirInv'
<1> DEFINE r == [verb |-> "replay", stage |-> "begun", todo |-> <<<<"library", 0>>>>, rows |-> 0]
<1>1. Fits(r) /\ r.stage = "begun" /\ Harmless(r.todo)
  BY HarmlessLists DEF Fits, CommandRecord, Verbs, CommandStages, Writing
<1>2. /\ command' = [command EXCEPT ![c] = r] /\ dir = NoDir /\ dir' = D!EmptyDir
      /\ UNCHANGED <<staging, runStaging, overEmpty>>
  BY DEF D!StartRunReplay, D!Born
<1> HIDE DEF r
<1> QED BY <1>1, <1>2, MakingKeeps

\* A command that ends without touching the directory.
LEMMA EndingKeeps ==
  ASSUME DirInv, NEW c \in Commands,
         NEW r, Fits(r), r.stage \in {"ok", "refused", "tool failed", "write failed", "killed"},
         command' = [command EXCEPT ![c] = r], dir' = dir, overEmpty' = overEmpty,
         staging' \in {staging, [staging EXCEPT ![c] = NoDir]}, 
         runStaging' \in Dirs \cup {NoDir},
         runStaging' = runStaging \/ \A e \in Commands \ {c} : ~RunStaged(e)
  PROVE  DirInv'
<1>1. /\ DirTypes' /\ command'[c] = r /\ \A e \in Commands \ {c} : command'[e] = command[e]
      /\ \A e \in Commands \ {c} : staging'[e] = staging[e]
  <2>1. staging' \in [Commands -> Dirs \cup {NoDir}]
    BY Before
  <2> QED BY <2>1, Typed, Before
<1>2. StagingInv(c)' /\ ~OnDir(c)' /\ WriterInv(c)' /\ LeftCleanable(c)'
  BY <1>1 DEF StagingInv, PlanStaged, RunStaged, WriterInv, OnDir, Working, LeftCleanable
<1>3. ~overEmpty /\ dir # NoDir => Coherent(dir)
  BY DEF DirInv, OwnInv
<1> QED BY <1>1, <1>2, <1>3, StepOf

LEMMA EndedIs ==
  ASSUME DirInv, NEW c \in Commands,
         NEW s \in {"ok", "refused", "tool failed", "write failed", "killed"}
  PROVE  /\ D!Ended(c, s) = [command EXCEPT ![c] = Changed(c, s, <<>>, command[c].rows)]
         /\ Fits(Changed(c, s, <<>>, command[c].rows))
         /\ Changed(c, s, <<>>, command[c].rows).stage = s
<1>1. D!Ended(c, s) = [command EXCEPT ![c] = Changed(c, s, <<>>, command[c].rows)]
  <2>1. Turned(c, s, <<>>) = [command EXCEPT ![c] = Changed(c, s, <<>>, command[c].rows)]
    BY Turns
  <2> QED BY <2>1 DEF D!Ended, Turned
<1>2. Changed(c, s, <<>>, command[c].rows) \in CommandRecord
  BY Before DEF Changed, CommandRecord, CommandStages
<1> QED BY <1>1, <1>2 DEF Fits, Changed

LEMMA StartRunKeeps == ASSUME DirInv, NEW c \in Commands, D!StartRun(c) PROVE DirInv'
<1>1. CASE runStaging # NoDir
  <2> DEFINE r == [verb |-> "run", stage |-> "refused", todo |-> <<>>, rows |-> 0]
  <2>1. Fits(r) /\ r.stage = "refused"
    BY Before DEF Fits, CommandRecord, Verbs, CommandStages, Writing
  <2>2. /\ command' = [command EXCEPT ![c] = r]
        /\ UNCHANGED <<dir, staging, runStaging, overEmpty>>
    BY <1>1 DEF D!StartRun, D!Born
  <2> HIDE DEF r
  <2> QED BY <2>1, <2>2, EndingKeeps, Before
<1>2. CASE runStaging = NoDir
  <2> DEFINE r == [verb |-> "run", stage |-> "synthesis", todo |-> <<>>, rows |-> 0]
  <2>1. Fits(r) /\ r.stage = "synthesis" /\ r.verb = "run" /\ r.todo = <<>>
    BY Before DEF Fits, CommandRecord, Verbs, CommandStages, Writing
  <2>2. /\ command' = [command EXCEPT ![c] = r] /\ dir = NoDir
        /\ runStaging' = [D!EmptyDir EXCEPT !["library"] = [by |-> c, at |-> 0]]
        /\ UNCHANGED <<dir, staging, overEmpty>>
    BY <1>2 DEF D!StartRun, D!Born
  <2> HIDE DEF r
  <2>3. runStaging' \in Dirs /\ runStaging' # NoDir
    BY <2>2, Constants DEF Dirs
  <2>4. Mine(runStaging', c) /\ runStaging'["library"].by = c /\ Open(runStaging')
    BY <2>2, Constants DEF Mine, Open, D!None, Dirs
  <2>5. /\ DirTypes' /\ command'[c] = r /\ \A e \in Commands \ {c} : command'[e] = command[e]
    BY <2>1, <2>2, <2>3, Typed, Before
  <2>6. StagingInv(c)' /\ ~OnDir(c)'
    <3>1. ~PlanStaged(c)' /\ ~OnDir(c)'
      BY <2>1, <2>5 DEF PlanStaged, OnDir
    <3>2. Harmless(command'[c].todo)
      BY <2>1, <2>5 DEF Harmless
    <3> QED BY <2>3, <2>4, <3>1, <3>2 DEF StagingInv
  <2>7. \A e \in Commands : ~RunStaged(e)
    BY <1>2 DEF DirInv, StagingInv
  <2> QED BY <2>2, <2>5, <2>6, <2>7, StepOf
<1> QED BY <1>1, <1>2

LEMMA KillKeeps == ASSUME DirInv, NEW c \in Commands, D!Kill(c) PROVE DirInv'
<1>1. command' = D!Ended(c, "killed") /\ UNCHANGED <<dir, staging, runStaging, overEmpty>>
  BY DEF D!Kill
<1> QED BY <1>1, EndedIs, EndingKeeps, Before

LEMMA WriteFailsKeeps == ASSUME DirInv, NEW c \in Commands, D!WriteFails(c) PROVE DirInv'
<1>1. /\ command' = D!Ended(c, "write failed") /\ UNCHANGED <<dir, runStaging, overEmpty>>
      /\ staging' = [staging EXCEPT ![c] = NoDir]
  BY DEF D!WriteFails
<1> QED BY <1>1, EndedIs, EndingKeeps, Before

(***************************************************************************)
(* Writing.                                                                *)
(***************************************************************************)

LEMMA FirstAndRest ==
  ASSUME NEW S, NEW s \in Seq(S), s # <<>> PROVE Head(s) \in S /\ Tail(s) \in Seq(S)
  OBVIOUS

LEMMA HeadOf ==
  ASSUME NEW c, NEW d, NEW F \in SUBSET D!Files, NEW values \in [D!Files -> Int],
         NEW todo \in Seq(D!Files \X Int), todo # <<>>, Progress(d, c, todo, F, values)
  PROVE  /\ Head(todo)[1] \in F /\ Head(todo)[2] \in Int /\ Tail(todo) \in Seq(D!Files \X Int)
<1>1. 1 \in DOMAIN todo /\ Head(todo) = todo[1] /\ Tail(todo) \in Seq(D!Files \X Int)
      /\ Head(todo) \in D!Files \X Int
  OBVIOUS
<1> QED BY <1>1 DEF Progress

LEMMA FinalTyped ==
  ASSUME NEW k \in Nat, NEW outcome \in {0, 1}
  PROVE  /\ Final(k, outcome) \in [D!Files -> Int] /\ \A f \in D!Files : Final(k, outcome)[f] \in Nat
         /\ PlanFiles \in SUBSET D!Files /\ SuccessFiles \in SUBSET D!Files
         /\ FailureFiles \in SUBSET D!Files
  BY DEF Final, D!Files, PlanFiles, SuccessFiles, FailureFiles

\* A directory that a finaliser, or a plan, has sealed is coherent.
LEMMA SuccessCoheres ==
  ASSUME NEW c, NEW d, NEW todo, NEW k \in Nat, d["library"].at = 1,
         Progress(d, c, todo, SuccessFiles, Final(k, 1))
  PROVE  Coherent(d)
<1> SUFFICES ASSUME d["sentinel"].at = 1 PROVE Coherent(d)
  BY DEF Coherent
<1>0. "sentinel" \in SuccessFiles
  BY DEF SuccessFiles, FailureFiles, PlanFiles
<1>1. \A f \in SuccessFiles : d[f] = [by |-> c, at |-> Final(k, 1)[f]]
  BY <1>0 DEF Progress
<1>2. \A f \in SuccessFiles : d[f].at = Final(k, 1)[f] /\ Final(k, 1)[f] # -1 /\ d[f] # D!None
  BY <1>1 DEF SuccessFiles, PlanFiles, Final, D!Files, D!None
<1> QED BY <1>2 DEF Coherent, SuccessFiles, PlanFiles, Final, D!Files

LEMMA FailureCoheres ==
  ASSUME NEW c, NEW d, NEW todo, NEW k \in Nat, d["library"].at < 1, d["reports"] = D!None,
         Progress(d, c, todo, FailureFiles, Final(k, 0))
  PROVE  Coherent(d)
<1> SUFFICES ASSUME d["sentinel"].at = 1 PROVE Coherent(d)
  BY DEF Coherent
<1>0. "sentinel" \in FailureFiles
  BY DEF SuccessFiles, FailureFiles, PlanFiles
<1>1. \A f \in FailureFiles : d[f] = [by |-> c, at |-> Final(k, 0)[f]]
  BY <1>0 DEF Progress
<1>2. \A f \in FailureFiles : d[f].at = Final(k, 0)[f] /\ Final(k, 0)[f] # -1 /\ d[f] # D!None
  <2> SUFFICES ASSUME NEW f \in FailureFiles
               PROVE  d[f].at = Final(k, 0)[f] /\ Final(k, 0)[f] # -1 /\ d[f] # D!None
    OBVIOUS
  <2> DEFINE v == Final(k, 0)[f]
  <2>1. v \in Nat /\ d[f] = [by |-> c, at |-> v]
    BY <1>1, FinalTyped
  <2> HIDE DEF v
  <2>2. d[f].at = v /\ v # -1 /\ d[f] # D!None
    BY <2>1 DEF D!None
  <2> QED BY <2>2 DEF v
<1>3. d["materialization"].at = 0
  BY <1>2 DEF FailureFiles, SuccessFiles, PlanFiles, Final, D!Files
<1> QED BY <1>2, <1>3 DEF Coherent, FailureFiles, SuccessFiles, PlanFiles, Final, D!Files

LEMMA PlanCoheres ==
  ASSUME NEW c, NEW d, NEW todo, NEW k \in Nat, d["materialization"] = D!None,
         Progress(d, c, todo, PlanFiles, Final(k, 0))
  PROVE  Coherent(d)
<1> SUFFICES ASSUME d["sentinel"].at = 1 PROVE Coherent(d)
  BY DEF Coherent
<1>0. "sentinel" \in PlanFiles
  BY DEF SuccessFiles, FailureFiles, PlanFiles
<1>1. \A f \in PlanFiles : d[f] = [by |-> c, at |-> Final(k, 0)[f]]
  BY <1>0 DEF Progress
<1>2. \A f \in PlanFiles : d[f].at = Final(k, 0)[f] /\ Final(k, 0)[f] # -1 /\ d[f] # D!None
  BY <1>1 DEF PlanFiles, Final, D!Files, D!None
<1>3. d["materialization"].at = -1
  BY DEF D!None
<1> QED BY <1>2, <1>3 DEF Coherent, PlanFiles, Final, D!Files

\* One more file by the same command.
LEMMA StillMine ==
  ASSUME NEW c \in Commands, NEW d \in Dirs, Mine(d, c), NEW f \in D!Files, NEW v \in Int
  PROVE  /\ [d EXCEPT ![f] = [by |-> c, at |-> v]] \in Dirs
         /\ Mine([d EXCEPT ![f] = [by |-> c, at |-> v]], c)
  BY DEF Dirs, Mine

LEMMA StillOpen ==
  ASSUME NEW c \in Commands, NEW d \in Dirs, Open(d), NEW v \in Int,
         NEW f \in D!Files \ {"reports", "materialization"}, f = "sentinel" => v # 1
  PROVE  Open([d EXCEPT ![f] = [by |-> c, at |-> v]])
  BY Constants DEF Dirs, Open

LEMMA OpenCoheres == ASSUME NEW d, Open(d) PROVE Coherent(d)
  BY DEF Open, Coherent

LEMMA WritePlanKeeps ==
  ASSUME DirInv, NEW c \in Commands, D!WriteFile(c), PlanStaged(c)
  PROVE  DirInv'
<1> DEFINE todo == command[c].todo
           f == Head(todo)[1]
           v == Head(todo)[2]
           r == Changed(c, "staged", Tail(todo), command[c].rows)
           s == [staging[c] EXCEPT ![f] = [by |-> c, at |-> v]]
<1>1. /\ todo # <<>> /\ staging' = [staging EXCEPT ![c] = s]
      /\ command' = [command EXCEPT ![c].todo = Tail(todo)]
      /\ dir' = dir /\ runStaging' = runStaging /\ overEmpty' = overEmpty
      /\ command[c].verb = "plan" /\ command[c].stage = "staged"
  BY Before DEF D!WriteFile, PlanStaged
<1>2. command' = [command EXCEPT ![c] = r]
  BY <1>1, TodoChanges
<1>3. StagingInv(c) /\ staging[c] # NoDir /\ staging[c] \in Dirs /\ todo \in Seq(D!Files \X Int)
      /\ command[c].rows \in Nat
  BY Before DEF DirInv, StagingInv
<1>4. PICK k \in Nat : Progress(staging[c], c, todo, PlanFiles, Final(k, 0))
  BY <1>3 DEF StagingInv
<1>5. f \in PlanFiles /\ v \in Int /\ Tail(todo) \in Seq(D!Files \X Int)
  BY <1>1, <1>3, <1>4, HeadOf, FinalTyped
<1>6. Fits(r) /\ r.todo = Tail(todo) /\ r.stage = "staged" /\ r.verb = "plan"
  BY <1>1, <1>3, <1>5 DEF Changed, Fits, CommandRecord, Verbs, CommandStages, Writing
<1>7. Progress(s, c, Tail(todo), PlanFiles, Final(k, 0))
  BY <1>1, <1>3, <1>4, WritingIsProgress, FinalTyped
<1>8. s \in Dirs /\ Mine(s, c) /\ s["materialization"] = D!None
  <2>1. f \in D!Files \ {"materialization"} /\ Mine(staging[c], c)
        /\ staging[c]["materialization"] = D!None
    BY <1>3, <1>5 DEF StagingInv, PlanFiles, D!Files, PlanStaged
  <2>2. s \in Dirs /\ Mine(s, c)
    BY <1>3, <1>5, <2>1, StillMine
  <2>3. s["materialization"] = staging[c]["materialization"]
    BY <1>3, <2>1, Constants DEF Dirs
  <2> QED BY <2>1, <2>2, <2>3
<1> HIDE DEF todo, f, v, r, s
<1>9. /\ DirTypes' /\ command'[c] = r /\ \A e \in Commands \ {c} : command'[e] = command[e]
      /\ staging'[c] = s /\ \A e \in Commands \ {c} : staging'[e] = staging[e]
  BY <1>1, <1>2, <1>6, <1>8, Typed, Before
<1>10. StagingInv(c)' /\ ~OnDir(c)' /\ WriterInv(c)' /\ LeftCleanable(c)'
  <2>1. ~RunStaged(c)' /\ ~OnDir(c)' /\ command'[c].stage = "staged" /\ command'[c].todo = Tail(todo)
    BY <1>6, <1>9 DEF RunStaged, OnDir
  <2>2. StagingInv(c)'
    BY <1>7, <1>8, <1>9, <2>1, Constants DEF StagingInv
  <2> QED BY <2>1, <2>2 DEF WriterInv, OnDir, Working, LeftCleanable
<1>11. ~overEmpty /\ dir # NoDir => Coherent(dir)
  BY DEF DirInv, OwnInv
<1> QED BY <1>1, <1>9, <1>10, <1>11, StepOf

LEMMA WriteRunKeeps ==
  ASSUME DirInv, NEW c \in Commands, D!WriteFile(c), RunStaged(c)
  PROVE  DirInv'
<1> DEFINE todo == command[c].todo
           f == Head(todo)[1]
           v == Head(todo)[2]
           r == Changed(c, "staged", Tail(todo), command[c].rows)
           s == [runStaging EXCEPT ![f] = [by |-> c, at |-> v]]
<1>0. Fits(command[c]) /\ todo \in Seq(D!Files \X Int) /\ command[c].rows \in Nat
  BY Before
<1>1. todo # <<>> /\ command[c].verb = "run" /\ command[c].stage = "staged"
  BY <1>0 DEF D!WriteFile, RunStaged, Fits, Writing
<1>2. /\ runStaging' = s /\ command' = [command EXCEPT ![c].todo = Tail(todo)]
      /\ dir' = dir /\ staging' = staging /\ overEmpty' = overEmpty
  BY <1>1, Before DEF D!WriteFile
<1>3. command' = [command EXCEPT ![c] = r]
  BY <1>1, <1>2, TodoChanges
<1>4. /\ runStaging # NoDir /\ runStaging \in Dirs /\ Mine(runStaging, c) /\ Open(runStaging)
      /\ runStaging["library"].by = c /\ Harmless(todo)
  BY Before DEF DirInv, StagingInv
<1>5. /\ Harmless(Tail(todo)) /\ Tail(todo) \in Seq(D!Files \X Int)
      /\ f \in D!Files \ {"reports", "materialization"} /\ v \in Int /\ (f = "sentinel" => v # 1)
  BY <1>0, <1>1, <1>4, HarmlessTail
<1>6. Fits(r) /\ r.todo = Tail(todo) /\ r.stage = "staged" /\ r.verb = "run"
  BY <1>0, <1>1, <1>5 DEF Changed, Fits, CommandRecord, Verbs, CommandStages, Writing
<1>7. s \in Dirs /\ Mine(s, c) /\ Open(s)
  BY <1>4, <1>5, StillMine, StillOpen
<1>8. s["library"].by = c
  BY <1>4, <1>5, Constants DEF Dirs
<1> HIDE DEF todo, f, v, r, s
<1>9. /\ DirTypes' /\ command'[c] = r /\ \A e \in Commands \ {c} : command'[e] = command[e]
  BY <1>2, <1>3, <1>6, <1>7, Typed, Before
<1>10. StagingInv(c)' /\ ~OnDir(c)' /\ WriterInv(c)' /\ LeftCleanable(c)'
  <2>1. /\ ~PlanStaged(c)' /\ ~OnDir(c)' /\ command'[c].stage = "staged"
        /\ command'[c].todo = Tail(todo)
    BY <1>6, <1>9 DEF PlanStaged, OnDir
  <2>2. StagingInv(c)'
    BY <1>2, <1>5, <1>7, <1>8, <2>1, Constants DEF StagingInv
  <2> QED BY <2>1, <2>2 DEF WriterInv, OnDir, Working, LeftCleanable
<1>11. ~overEmpty /\ dir # NoDir => Coherent(dir)
  BY DEF DirInv, OwnInv
<1>12. \A e \in Commands \ {c} : ~RunStaged(e)
  BY OneRunStaged
<1> QED BY <1>2, <1>9, <1>10, <1>11, <1>12, StepOf

\* What a command that works on the directory knows of it.
LEMMA Owner ==
  ASSUME DirInv, NEW c \in Commands, OnDir(c)
  PROVE  /\ dir \in Dirs /\ dir # NoDir
         /\ ~overEmpty => /\ WriterInv(c) /\ Mine(dir, c)
                          /\ \A e \in Commands \ {c} : ~OnDir(e)
<1>1. dir \in Dirs /\ dir # NoDir
  BY Before DEF DirInv
<1> QED BY <1>1 DEF DirInv, OwnInv, WriterInv

LEMMA WriteDirKeeps ==
  ASSUME DirInv, NEW c \in Commands, D!WriteFile(c), ~PlanStaged(c), ~RunStaged(c)
  PROVE  DirInv'
<1> DEFINE todo == command[c].todo
           stage == command[c].stage
           f == Head(todo)[1]
           v == Head(todo)[2]
           r == Changed(c, stage, Tail(todo), command[c].rows)
           s == [dir EXCEPT ![f] = [by |-> c, at |-> v]]
<1>0. /\ Fits(command[c]) /\ todo \in Seq(D!Files \X Int) /\ command[c].rows \in Nat
      /\ stage \in CommandStages /\ command[c].verb \in Verbs
  BY Before
<1>1. /\ todo # <<>> /\ stage \in {"begun", "sealing", "sealing failure"}
      /\ (stage = "begun" => command[c].verb # "run")
  BY <1>0 DEF D!WriteFile, PlanStaged, RunStaged, Fits, Writing
<1>2. /\ dir' = s /\ command' = [command EXCEPT ![c].todo = Tail(todo)]
      /\ runStaging' = runStaging /\ staging' = staging /\ overEmpty' = overEmpty
  BY <1>1 DEF D!WriteFile
<1>3. command' = [command EXCEPT ![c] = r]
  BY <1>1, <1>2, TodoChanges
<1>4. OnDir(c)
  BY <1>1 DEF OnDir
<1>5. /\ dir \in Dirs
      /\ ~overEmpty => /\ WriterInv(c) /\ Mine(dir, c)
                       /\ \A e \in Commands \ {c} : ~OnDir(e)
  BY <1>4, Owner
<1>6. f \in D!Files /\ v \in Int /\ Tail(todo) \in Seq(D!Files \X Int)
  <2>1. Head(todo) \in D!Files \X Int /\ Tail(todo) \in Seq(D!Files \X Int)
    BY <1>0, <1>1, FirstAndRest
  <2> QED BY <2>1
<1>7. Fits(r) /\ r.todo = Tail(todo) /\ r.stage = stage /\ r.verb = command[c].verb
      /\ r.rows = command[c].rows
  BY <1>0, <1>1, <1>6 DEF Changed, Fits, CommandRecord, Writing
<1>8. s \in Dirs /\ (Mine(dir, c) => Mine(s, c))
  BY <1>5, <1>6, StillMine DEF Dirs
<1>9. ASSUME ~overEmpty, stage = "begun"
      PROVE  Open(s) /\ Harmless(Tail(todo))
  <2>1. Open(dir) /\ Harmless(todo)
    BY <1>4, <1>5, <1>9 DEF WriterInv, Working
  <2>2. /\ Harmless(Tail(todo)) /\ f \in D!Files \ {"reports", "materialization"}
        /\ (f = "sentinel" => v # 1)
    BY <1>0, <1>1, <2>1, HarmlessTail
  <2> QED BY <1>5, <1>6, <2>1, <2>2, StillOpen
<1>10. Recorded(c) \in Nat
  BY <1>0, Constants DEF Recorded
<1>11. ASSUME ~overEmpty, stage = "sealing"
       PROVE  /\ Progress(s, c, Tail(todo), SuccessFiles, Final(Recorded(c), 1))
              /\ s["library"].at = 1 /\ Coherent(s)
  <2>1. Progress(dir, c, todo, SuccessFiles, Final(Recorded(c), 1)) /\ dir["library"].at = 1
    BY <1>5, <1>11 DEF WriterInv
  <2>2. /\ Final(Recorded(c), 1) \in [D!Files -> Int] /\ SuccessFiles \in SUBSET D!Files
        /\ f \in SuccessFiles
    BY <1>0, <1>1, <1>10, <2>1, FinalTyped, HeadOf
  <2>3. Progress(s, c, Tail(todo), SuccessFiles, Final(Recorded(c), 1))
    BY <1>0, <1>1, <1>5, <2>1, <2>2, WritingIsProgress
  <2>4. s["library"].at = 1
    <3>1. f # "library"
      BY <2>2 DEF SuccessFiles, PlanFiles
    <3> QED BY <1>5, <2>1, <3>1, Constants DEF Dirs
  <2> HIDE DEF s, todo
  <2> QED BY <1>10, <2>3, <2>4, SuccessCoheres
<1>12. ASSUME ~overEmpty, stage = "sealing failure"
       PROVE  /\ Progress(s, c, Tail(todo), FailureFiles, Final(Recorded(c), 0))
              /\ s["library"].at < 1 /\ s["reports"] = D!None /\ Coherent(s)
  <2>1. /\ Progress(dir, c, todo, FailureFiles, Final(Recorded(c), 0))
        /\ dir["library"].at < 1 /\ dir["reports"] = D!None
    BY <1>5, <1>12 DEF WriterInv
  <2>2. /\ Final(Recorded(c), 0) \in [D!Files -> Int] /\ FailureFiles \in SUBSET D!Files
        /\ f \in FailureFiles
    BY <1>0, <1>1, <1>10, <2>1, FinalTyped, HeadOf
  <2>3. Progress(s, c, Tail(todo), FailureFiles, Final(Recorded(c), 0))
    BY <1>0, <1>1, <1>5, <2>1, <2>2, WritingIsProgress
  <2>4. s["library"].at < 1 /\ s["reports"] = D!None
    <3>1. f # "library" /\ f # "reports"
      BY <2>2 DEF FailureFiles, SuccessFiles, PlanFiles
    <3> QED BY <1>5, <2>1, <3>1, Constants DEF Dirs
  <2> HIDE DEF s, todo
  <2> QED BY <1>10, <2>3, <2>4, FailureCoheres
<1> HIDE DEF todo, stage, f, v, r, s
<1>13. /\ DirTypes' /\ command'[c] = r /\ \A e \in Commands \ {c} : command'[e] = command[e]
  BY <1>2, <1>3, <1>7, <1>8, Typed, Before
<1>14. /\ command'[c].stage = stage /\ command'[c].todo = Tail(todo)
       /\ command'[c].verb = command[c].verb /\ Recorded(c)' = Recorded(c)
  BY <1>7, <1>13 DEF Recorded
<1>15. StagingInv(c)' /\ LeftCleanable(c)' /\ dir' # NoDir
  BY <1>1, <1>2, <1>8, <1>14, Constants DEF StagingInv, PlanStaged, RunStaged, LeftCleanable
<1>16. ASSUME ~overEmpty PROVE WriterInv(c)' /\ Coherent(dir')
  <2>1. Mine(dir', c)
    BY <1>2, <1>5, <1>8, <1>16
  <2>2. CASE stage = "begun"
    BY <1>2, <1>9, <1>14, <1>16, <2>1, <2>2, OpenCoheres DEF WriterInv
  <2>3. CASE stage = "sealing"
    BY <1>2, <1>11, <1>14, <1>16, <2>1, <2>3 DEF WriterInv, Working
  <2>4. CASE stage = "sealing failure"
    BY <1>2, <1>12, <1>14, <1>16, <2>1, <2>4 DEF WriterInv, Working
  <2> QED BY <1>1, <2>2, <2>3, <2>4
<1> QED BY <1>2, <1>5, <1>8, <1>13, <1>15, <1>16, StepOf

LEMMA WriteFileKeeps == ASSUME DirInv, NEW c \in Commands, D!WriteFile(c) PROVE DirInv'
  BY WritePlanKeeps, WriteRunKeeps, WriteDirKeeps

LEMMA WritingEndsKeeps == ASSUME DirInv, NEW c \in Commands, D!WritingEnds(c) PROVE DirInv'
<1> DEFINE stage == command[c].stage
           next == CASE stage = "begun" -> "synthesis" [] stage = "sealing" -> "ok"
                     [] OTHER -> "failed"
           r == Changed(c, next, <<>>, command[c].rows)
<1>0. Fits(command[c]) /\ command[c].rows \in Nat /\ command[c].verb \in Verbs
  BY Before
<1>1. /\ stage \in {"begun", "sealing", "sealing failure"} /\ command[c].todo = <<>>
      /\ command' = [command EXCEPT ![c].stage = next]
      /\ UNCHANGED <<dir, staging, runStaging, overEmpty>>
  BY Before DEF D!WritingEnds
<1>2. command' = [command EXCEPT ![c] = r]
  <2> HIDE DEF next
  <2> QED BY <1>1, StageChanges
<1>3. Fits(r) /\ r.todo = <<>> /\ r.stage = next /\ r.verb = command[c].verb
  BY <1>0, <1>1, Before DEF Changed, Fits, CommandRecord, CommandStages
<1>4. /\ OnDir(c) /\ (stage = "begun" => command[c].verb # "run")
      /\ next \in {"synthesis", "ok", "failed"} /\ (next = "synthesis" => stage = "begun")
      /\ next = "failed" => stage = "sealing failure"
  BY <1>0, <1>1 DEF OnDir, Fits
<1>5. /\ dir \in Dirs /\ dir # NoDir
      /\ ~overEmpty => /\ WriterInv(c) /\ Mine(dir, c)
                       /\ \A e \in Commands \ {c} : ~OnDir(e)
  BY <1>4, Owner
<1> HIDE DEF stage, next, r
<1>6. /\ DirTypes' /\ command'[c] = r /\ \A e \in Commands \ {c} : command'[e] = command[e]
  BY <1>1, <1>2, <1>3, Typed, Before
<1>7. /\ command'[c].stage = next /\ command'[c].todo = <<>>
      /\ command'[c].verb = command[c].verb
  BY <1>3, <1>6
<1>8. StagingInv(c)'
  BY <1>4, <1>7 DEF StagingInv, PlanStaged, RunStaged
<1>9. ASSUME ~overEmpty PROVE WriterInv(c)' /\ LeftCleanable(c)' /\ Coherent(dir')
  <2>1. Coherent(dir')
    BY <1>1, <1>5, <1>9 DEF DirInv, OwnInv
  <2>2. CASE next = "synthesis"
    <3>1. Open(dir) /\ Harmless(<<>>)
      BY <1>1, <1>4, <1>5, <1>9, <2>2 DEF WriterInv, Working, stage
    <3>2. WriterInv(c)'
      BY <1>1, <1>5, <1>7, <1>9, <2>2, <3>1 DEF WriterInv
    <3> QED BY <1>7, <2>1, <2>2, <3>2 DEF LeftCleanable
  <2>3. CASE next = "ok"
    BY <1>7, <2>1, <2>3 DEF WriterInv, OnDir, Working, LeftCleanable
  <2>4. CASE next = "failed"
    <3>1. Progress(dir, c, <<>>, FailureFiles, Final(Recorded(c), 0))
      BY <1>1, <1>4, <1>5, <1>9, <2>4 DEF WriterInv, stage
    <3>2. dir["sentinel"].by = c /\ dir["replay"].by = c
      <4>1. "sentinel" \in FailureFiles /\ "replay" \in FailureFiles
        BY DEF FailureFiles, SuccessFiles, PlanFiles
      <4>2. \A f \in FailureFiles : dir[f] = [by |-> c, at |-> Final(Recorded(c), 0)[f]]
        BY <3>1 DEF Progress
      <4>3. ASSUME NEW f \in FailureFiles PROVE dir[f].by = c
        <5> DEFINE v == Final(Recorded(c), 0)[f]
        <5>1. dir[f] = [by |-> c, at |-> v]
          BY <4>2
        <5> HIDE DEF v
        <5> QED BY <5>1
      <4> QED BY <4>1, <4>3
    <3> QED BY <1>1, <1>7, <2>1, <2>4, <3>2 DEF WriterInv, OnDir, Working, LeftCleanable
  <2> QED BY <1>4, <2>2, <2>3, <2>4
<1> QED BY <1>1, <1>4, <1>5, <1>6, <1>8, <1>9, StepOf

(***************************************************************************)
(* Publications.                                                           *)
(***************************************************************************)

LEMMA PublishPlanKeeps == ASSUME DirInv, NEW c \in Commands, D!PublishPlan(c) PROVE DirInv'
<1>1. /\ PlanStaged(c) /\ command[c].todo = <<>> /\ runStaging' = runStaging
      /\ staging' = [staging EXCEPT ![c] = NoDir]
  BY DEF D!PublishPlan, PlanStaged
<1>2. CASE ~D!CanRename
  <2>1. command' = D!Ended(c, "refused") /\ UNCHANGED <<dir, overEmpty>>
    BY <1>2 DEF D!PublishPlan
  <2> QED BY <1>1, <2>1, EndedIs, EndingKeeps, Before
<1>3. CASE D!CanRename
  <2> DEFINE r == Changed(c, "ok", <<>>, command[c].rows)
             s == staging[c]
  <2>1. /\ command' = D!Ended(c, "ok") /\ dir' = s
        /\ overEmpty' = (overEmpty \/ dir = D!EmptyDir)
    BY <1>3 DEF D!PublishPlan
  <2>2. Fits(r) /\ r.stage = "ok" /\ command' = [command EXCEPT ![c] = r]
    BY <2>1, EndedIs
  <2>3. StagingInv(c) /\ s \in Dirs /\ s # NoDir /\ Mine(s, c) /\ s["materialization"] = D!None
    BY <1>1, Before DEF DirInv, StagingInv
  <2>4. PICK k \in Nat : Progress(s, c, <<>>, PlanFiles, Final(k, 0))
    BY <1>1, <2>3 DEF StagingInv
  <2>5. Coherent(s)
    <3> HIDE DEF s
    <3> QED BY <2>3, <2>4, PlanCoheres
  <2> HIDE DEF r, s
  <2>6. staging' \in [Commands -> Dirs \cup {NoDir}] /\ overEmpty' \in BOOLEAN
    BY <1>1, <2>1, Before
  <2>7. /\ DirTypes' /\ command'[c] = r /\ \A e \in Commands \ {c} : command'[e] = command[e]
        /\ \A e \in Commands \ {c} : staging'[e] = staging[e]
    BY <1>1, <2>1, <2>2, <2>3, <2>6, Typed, Before
  <2>8. StagingInv(c)' /\ ~OnDir(c)' /\ WriterInv(c)' /\ LeftCleanable(c)'
    BY <2>2, <2>7 DEF StagingInv, PlanStaged, RunStaged, WriterInv, OnDir, Working, LeftCleanable
  <2>9. ~overEmpty' => ~overEmpty /\ dir = NoDir
    BY <1>3, <2>1 DEF D!CanRename
  <2>10. ~overEmpty' => \A e \in Commands : ~OnDir(e)
    BY <2>9, NobodyOnNothing
  <2> QED BY <1>1, <2>1, <2>3, <2>5, <2>7, <2>8, <2>9, <2>10, StepOf
<1> QED BY <1>2, <1>3

LEMMA RunPhaseAKeeps == ASSUME DirInv, NEW c \in Commands, D!RunPhaseA(c) PROVE DirInv'
<1> DEFINE s == [runStaging EXCEPT !["library"] = [by |-> c, at |-> 1]]
<1>1. /\ RunStaged(c) /\ command[c].verb = "run"
      /\ UNCHANGED <<dir, staging, overEmpty>>
  BY DEF D!RunPhaseA, RunStaged
<1>2. /\ runStaging \in Dirs /\ Mine(runStaging, c) /\ Open(runStaging)
  BY <1>1, Before DEF DirInv, StagingInv
<1>3. s \in Dirs /\ Mine(s, c) /\ Open(s) /\ s["library"].by = c
  <2>1. "library" \in D!Files \ {"reports", "materialization"} /\ "library" # "sentinel"
    BY Constants
  <2>2. s \in Dirs /\ Mine(s, c) /\ Open(s)
    BY <1>2, <2>1, StillMine, StillOpen
  <2> QED BY <1>2, <2>1, <2>2 DEF Dirs
<1> HIDE DEF s
<1>4. \A e \in Commands \ {c} : ~RunStaged(e)
  BY <1>1, OneRunStaged
<1>5. CASE command' = D!Ended(c, "tool failed") /\ UNCHANGED runStaging
  BY <1>1, <1>5, EndedIs, EndingKeeps, Before
<1>6. CASE runStaging' = s /\ command' = D!Ended(c, "refused")
  BY <1>1, <1>3, <1>4, <1>6, EndedIs, EndingKeeps, Before
<1>7. CASE /\ runStaging' = s
           /\ command' = [command EXCEPT ![c].stage = "staged", ![c].todo = D!BaselineScript]
  <2> DEFINE r == Changed(c, "staged", D!BaselineScript, command[c].rows)
  <2>1. command' = [command EXCEPT ![c] = r]
    <3>1. command' = Turned(c, "staged", D!BaselineScript)
      BY <1>7 DEF Turned
    <3> QED BY <3>1, Turns
  <2>2. Fits(r) /\ r.stage = "staged" /\ r.verb = "run" /\ r.todo = D!BaselineScript
    BY <1>1, Before, HarmlessLists
       DEF Changed, Fits, CommandRecord, Verbs, CommandStages, Writing
  <2> HIDE DEF r
  <2>3. /\ DirTypes' /\ command'[c] = r /\ \A e \in Commands \ {c} : command'[e] = command[e]
    BY <1>1, <1>3, <1>7, <2>1, <2>2, Typed, Before
  <2>4. ~PlanStaged(c)' /\ ~OnDir(c)' /\ command'[c].stage = "staged"
        /\ command'[c].todo = D!BaselineScript
    BY <2>2, <2>3 DEF PlanStaged, OnDir
  <2>5. StagingInv(c)'
    BY <1>3, <1>7, <2>4, HarmlessLists, Constants DEF StagingInv
  <2>6. WriterInv(c)' /\ LeftCleanable(c)'
    BY <2>4 DEF WriterInv, OnDir, Working, LeftCleanable
  <2>7. ~overEmpty /\ dir # NoDir => Coherent(dir)
    BY DEF DirInv, OwnInv
  <2> QED BY <1>1, <1>4, <2>3, <2>4, <2>5, <2>6, <2>7, StepOf
<1>8. \/ command' = D!Ended(c, "tool failed") /\ UNCHANGED runStaging
      \/ runStaging' = s /\ command' = D!Ended(c, "refused")
      \/ /\ runStaging' = s
         /\ command' = [command EXCEPT ![c].stage = "staged", ![c].todo = D!BaselineScript]
  BY DEF D!RunPhaseA, s
<1> QED BY <1>5, <1>6, <1>7, <1>8

LEMMA PublishRunKeeps == ASSUME DirInv, NEW c \in Commands, D!PublishRun(c) PROVE DirInv'
<1>1. /\ RunStaged(c) /\ command[c].todo = <<>> /\ staging' = staging
      /\ command[c].verb = "run"
  BY DEF D!PublishRun, RunStaged
<1>2. CASE ~D!CanRename
  <2>1. command' = D!Ended(c, "refused") /\ UNCHANGED <<dir, runStaging, overEmpty>>
    BY <1>2 DEF D!PublishRun
  <2> QED BY <1>1, <2>1, EndedIs, EndingKeeps, Before
<1>3. CASE D!CanRename
  <2> DEFINE r == Changed(c, "timed", command[c].todo, command[c].rows)
  <2>1. /\ command' = [command EXCEPT ![c].stage = "timed"] /\ dir' = runStaging
        /\ runStaging' = NoDir /\ overEmpty' = (overEmpty \/ dir = D!EmptyDir)
    BY <1>3 DEF D!PublishRun
  <2>2. command' = [command EXCEPT ![c] = r]
    BY <2>1, StageChanges
  <2>3. Fits(r) /\ r.stage = "timed" /\ r.verb = "run" /\ r.todo = <<>>
    BY <1>1, Before DEF Changed, Fits, CommandRecord, Verbs, CommandStages, Writing
  <2>4. runStaging \in Dirs /\ runStaging # NoDir /\ Mine(runStaging, c) /\ Open(runStaging)
    BY <1>1, Before DEF DirInv, StagingInv
  <2> HIDE DEF r
  <2>5. overEmpty' \in BOOLEAN
    BY <2>1, Before
  <2>6. /\ DirTypes' /\ command'[c] = r /\ \A e \in Commands \ {c} : command'[e] = command[e]
    BY <1>1, <2>1, <2>2, <2>3, <2>4, <2>5, Typed, Before
  <2>7. command'[c].stage = "timed" /\ command'[c].todo = <<>> /\ Harmless(<<>>)
    BY <2>3, <2>6 DEF Harmless
  <2>8. StagingInv(c)' /\ LeftCleanable(c)' /\ WriterInv(c)'
    <3>1. StagingInv(c)' /\ LeftCleanable(c)'
      BY <2>7 DEF StagingInv, PlanStaged, RunStaged, LeftCleanable
    <3>2. WriterInv(c)'
      BY <2>1, <2>4, <2>7 DEF WriterInv
    <3> QED BY <3>1, <3>2
  <2>9. ~overEmpty' => ~overEmpty /\ dir = NoDir
    BY <1>3, <2>1 DEF D!CanRename
  <2>10. ~overEmpty' => \A e \in Commands : ~OnDir(e)
    BY <2>9, NobodyOnNothing
  <2>11. \A e \in Commands \ {c} : ~RunStaged(e)
    BY <1>1, OneRunStaged
  <2>12. Coherent(dir')
    BY <2>1, <2>4, OpenCoheres
  <2> QED BY <1>1, <2>1, <2>4, <2>6, <2>8, <2>9, <2>10, <2>11, <2>12, StepOf
<1> QED BY <1>2, <1>3

(***************************************************************************)
(* The timed phase and the finalisers.                                     *)
(***************************************************************************)

LEMMA AppendRowKeeps == ASSUME DirInv, NEW c \in Commands, D!AppendRow(c) PROVE DirInv'
<1> DEFINE rows == command[c].rows
           r == Changed(c, "timed", command[c].todo, rows + 1)
           s == [dir EXCEPT !["journal"] = [by |-> c, at |-> rows + 1]]
<1>0. Fits(command[c]) /\ rows \in Nat /\ rows + 1 \in Int
  BY Before
<1>1. /\ command[c].stage = "timed" /\ command' = [command EXCEPT ![c].rows = rows + 1]
      /\ dir' = s /\ UNCHANGED <<staging, runStaging, overEmpty>> /\ command[c].verb = "run"
  BY <1>0, Before DEF D!AppendRow, Fits
<1>2. command' = [command EXCEPT ![c] = r]
  BY <1>1, RowsChange
<1>3. OnDir(c) /\ Working(c)
  BY <1>1 DEF OnDir, Working
<1>4. /\ dir \in Dirs
      /\ ~overEmpty => /\ WriterInv(c) /\ Mine(dir, c)
                       /\ \A e \in Commands \ {c} : ~OnDir(e)
  BY <1>3, Owner
<1>5. /\ Fits(r) /\ r.stage = "timed" /\ r.verb = "run" /\ r.todo = command[c].todo
  <2>0. rows + 1 \in Nat
    BY <1>0
  <2>1. command[c].todo = <<>> /\ command[c].todo \in Seq(D!Files \X Int) /\ rows + 1 \in Nat
    <3> HIDE DEF rows
    <3> QED BY <1>0, <1>1, <2>0, Before DEF Fits, Writing
  <2> HIDE DEF rows
  <2>2. r \in CommandRecord /\ r.todo = command[c].todo /\ r.stage = "timed" /\ r.verb = "run"
    BY <1>1, <2>1 DEF Changed, CommandRecord, Verbs, CommandStages
  <2> QED BY <2>1, <2>2 DEF Fits
<1>6. s \in Dirs /\ (Mine(dir, c) => Mine(s, c))
  <2>1. "journal" \in D!Files
    BY Constants
  <2>2. s \in Dirs
    BY <1>0, <1>4, <2>1 DEF Dirs
  <2> QED BY <1>0, <1>4, <2>1, <2>2, StillMine
<1>7. ~overEmpty => Open(dir) /\ Harmless(command[c].todo)
  BY <1>3, <1>4 DEF WriterInv
<1>8. ~overEmpty => Open(s)
  BY <1>0, <1>4, <1>7, StillOpen, Constants
<1> HIDE DEF rows, r, s
<1>9. /\ DirTypes' /\ command'[c] = r /\ \A e \in Commands \ {c} : command'[e] = command[e]
  BY <1>1, <1>2, <1>5, <1>6, Typed, Before
<1>10. command'[c].stage = "timed" /\ command'[c].todo = command[c].todo
  BY <1>5, <1>9
<1>11. StagingInv(c)' /\ LeftCleanable(c)' /\ dir' # NoDir
  BY <1>1, <1>6, <1>10, Constants DEF StagingInv, PlanStaged, RunStaged, LeftCleanable
<1>12. ~overEmpty => WriterInv(c)' /\ Coherent(dir')
  BY <1>1, <1>4, <1>6, <1>7, <1>8, <1>10, OpenCoheres DEF WriterInv
<1> QED BY <1>1, <1>4, <1>6, <1>9, <1>11, <1>12, StepOf

LEMMA NatIsInt == \A n : n \in Nat => n \in Int
  OBVIOUS

LEMMA ScriptsTyped ==
  ASSUME NEW k \in Nat
  PROVE  /\ D!SuccessScript(k) \in Seq(D!Files \X Int)
         /\ D!FailureScript(k) \in Seq(D!Files \X Int)
<1>1. D!EmptyDir["sentinel"].at # 1
  BY Constants DEF D!None, D!Files
<1>2. k \in Int
  OBVIOUS
<1>3. /\ D!SuccessScript(k) \in Seq(D!Files \X Int)
      /\ Progress(D!EmptyDir, 0, D!SuccessScript(k), SuccessFiles, Final(k, 1))
  BY <1>1, <1>2, SuccessPlanned
<1>4. /\ D!FailureScript(k) \in Seq(D!Files \X Int)
      /\ Progress(D!EmptyDir, 0, D!FailureScript(k), FailureFiles, Final(k, 0))
  BY <1>1, <1>2, FailurePlanned
<1> QED BY <1>3, <1>4

LEMMA FinalizeKeeps ==
  ASSUME DirInv, NEW c \in Commands, NEW verb \in {"materialize", "replay", "run"},
         NEW library \in [by : {0, c}, at : Int], library.by = 0 => library = D!None,
         NEW sealing, NEW script, D!Finalize(c, verb, library, sealing, script),
         \/ /\ sealing = "sealing" /\ script = D!SuccessScript(Recorded(c)) /\ library.at = 1
         \/ /\ sealing = "sealing failure" /\ script = D!FailureScript(Recorded(c))
            /\ library.at < 1
  PROVE  DirInv'
<1> DEFINE r == Changed(c, sealing, script, command[c].rows)
           s == [dir EXCEPT !["library"] = library]
<1>0. /\ Fits(command[c]) /\ command[c].rows \in Nat /\ command[c].verb \in Verbs
      /\ Recorded(c) \in Nat
  BY Before, Constants DEF Recorded
<1>1. /\ command' = Turned(c, sealing, script) /\ dir' = s
      /\ UNCHANGED <<staging, runStaging, overEmpty>>
  BY DEF D!Finalize, Turned
<1>2. command' = [command EXCEPT ![c] = r]
  BY <1>1, Turns
<1>3. OnDir(c) /\ Working(c)
  BY DEF D!Finalize, OnDir, Working
<1>4. /\ dir \in Dirs
      /\ ~overEmpty => /\ WriterInv(c) /\ Mine(dir, c)
                       /\ \A e \in Commands \ {c} : ~OnDir(e)
  BY <1>3, Owner
<1>5. script \in Seq(D!Files \X Int) /\ sealing \in {"sealing", "sealing failure"}
  BY <1>0, ScriptsTyped
<1>6. Fits(r) /\ r.stage = sealing /\ r.verb = command[c].verb /\ r.todo = script
      /\ r.rows = command[c].rows
  BY <1>0, <1>5 DEF Changed, Fits, CommandRecord, CommandStages, Writing
<1>7. /\ s \in Dirs /\ s["library"] = library /\ \A f \in D!Files \ {"library"} : s[f] = dir[f]
  BY <1>4, Constants DEF Dirs
<1>8. Mine(dir, c) => Mine(s, c)
  BY <1>7 DEF Mine
<1>9. ~overEmpty => Open(dir)
  BY <1>3, <1>4 DEF WriterInv
<1>10. ~overEmpty => s["sentinel"].at # 1 /\ s["reports"] = D!None
  BY <1>7, <1>9, Constants DEF Open
<1> HIDE DEF r, s
<1>11. /\ DirTypes' /\ command'[c] = r /\ \A e \in Commands \ {c} : command'[e] = command[e]
  BY <1>1, <1>2, <1>6, <1>7, Typed, Before
<1>12. /\ command'[c].stage = sealing /\ command'[c].todo = script
       /\ Recorded(c)' = Recorded(c)
  BY <1>6, <1>11 DEF Recorded
<1>13. StagingInv(c)' /\ LeftCleanable(c)' /\ dir' # NoDir
  BY <1>1, <1>5, <1>7, <1>12, Constants DEF StagingInv, PlanStaged, RunStaged, LeftCleanable
<1>14. ASSUME ~overEmpty PROVE WriterInv(c)' /\ Coherent(dir')
  <2>1. CASE sealing = "sealing"
    <3>1. script = D!SuccessScript(Recorded(c)) /\ library.at = 1
      BY <2>1
    <3>2. Progress(s, c, script, SuccessFiles, Final(Recorded(c), 1))
      BY <1>0, <1>10, <1>14, <3>1, SuccessPlanned
    <3> QED BY <1>1, <1>4, <1>7, <1>8, <1>10, <1>12, <1>14, <2>1, <3>1, <3>2
            DEF WriterInv, Working, Coherent
  <2>2. CASE sealing = "sealing failure"
    <3>1. script = D!FailureScript(Recorded(c)) /\ library.at < 1
      BY <2>2
    <3>2. Progress(s, c, script, FailureFiles, Final(Recorded(c), 0))
      <4> DEFINE k == Recorded(c)
      <4>1. k \in Int
        BY <1>0, NatIsInt
      <4>2. script = D!FailureScript(k)
        BY <3>1
      <4>3. s["sentinel"].at # 1
        BY <1>10, <1>14
      <4> HIDE DEF k
      <4>4. Progress(s, c, D!FailureScript(k), FailureFiles, Final(k, 0))
        BY <4>1, <4>3, FailurePlanned
      <4> QED BY <4>2, <4>4 DEF k
    <3> QED BY <1>1, <1>4, <1>7, <1>8, <1>10, <1>12, <1>14, <2>2, <3>1, <3>2
            DEF WriterInv, Working, Coherent
  <2> QED BY <1>5, <2>1, <2>2
<1> QED BY <1>1, <1>4, <1>7, <1>8, <1>11, <1>13, <1>14, StepOf

LEMMA WorkEndsKeeps == ASSUME DirInv, NEW c \in Commands, D!WorkEnds(c) PROVE DirInv'
<1>0. /\ D!Filled(c) \in [by : {0, c}, at : Int] /\ D!Emptied(c) \in [by : {0, c}, at : Int]
      /\ D!None \in [by : {0, c}, at : Int] /\ c # 0
      /\ D!Filled(c).at = 1 /\ D!Emptied(c).at < 1 /\ D!None.at < 1
      /\ D!Filled(c).by = c /\ D!Emptied(c).by = c
  BY Constants DEF D!Filled, D!Emptied, D!None
<1>1. CASE D!FinalizeSuccess(c)
  <2>1. D!Finalize(c, "materialize", D!Filled(c), "sealing", D!SuccessScript(Rows))
    BY <1>1 DEF D!FinalizeSuccess
  <2>2. Recorded(c) = Rows
    BY <2>1 DEF D!Finalize, Recorded
  <2> QED BY <1>0, <2>1, <2>2, FinalizeKeeps
<1>2. CASE D!FinalizeRunReplaySuccess(c)
  <2>1. D!Finalize(c, "replay", D!Filled(c), "sealing", D!SuccessScript(Rows))
    BY <1>2 DEF D!FinalizeRunReplaySuccess
  <2>2. Recorded(c) = Rows
    BY <2>1 DEF D!Finalize, Recorded
  <2> QED BY <1>0, <2>1, <2>2, FinalizeKeeps
<1>3. CASE D!FinalizeWallClockSuccess(c)
  <2>1. D!Finalize(c, "run", D!Filled(c), "sealing", D!SuccessScript(command[c].rows))
    BY <1>3 DEF D!FinalizeWallClockSuccess
  <2>2. Recorded(c) = command[c].rows
    BY <2>1 DEF D!Finalize, Recorded
  <2> QED BY <1>0, <2>1, <2>2, FinalizeKeeps
<1>4. CASE D!FinalizeFailure(c)
  <2>1. D!Finalize(c, "materialize", D!Emptied(c), "sealing failure", D!FailureScript(Rows))
    BY <1>4 DEF D!FinalizeFailure
  <2>2. Recorded(c) = Rows
    BY <2>1 DEF D!Finalize, Recorded
  <2> QED BY <1>0, <2>1, <2>2, FinalizeKeeps
<1>5. CASE D!FinalizeFailurePhaseB(c)
  <2>1. D!Finalize(c, "materialize", D!None, "sealing failure", D!FailureScript(Rows))
    BY <1>5 DEF D!FinalizeFailurePhaseB
  <2>2. Recorded(c) = Rows
    BY <2>1 DEF D!Finalize, Recorded
  <2> QED BY <1>0, <2>1, <2>2, FinalizeKeeps
<1>6. CASE D!FinalizeRunReplayPhaseAFailure(c)
  <2>1. D!Finalize(c, "replay", D!Emptied(c), "sealing failure", D!FailureScript(Rows))
    BY <1>6 DEF D!FinalizeRunReplayPhaseAFailure
  <2>2. Recorded(c) = Rows
    BY <2>1 DEF D!Finalize, Recorded
  <2> QED BY <1>0, <2>1, <2>2, FinalizeKeeps
<1>7. CASE D!FinalizeRunReplayPhaseBFailure(c)
  <2>1. D!Finalize(c, "replay", D!None, "sealing failure", D!FailureScript(Rows))
    BY <1>7 DEF D!FinalizeRunReplayPhaseBFailure
  <2>2. Recorded(c) = Rows
    BY <2>1 DEF D!Finalize, Recorded
  <2> QED BY <1>0, <2>1, <2>2, FinalizeKeeps
<1>8. CASE D!FinalizeWallClockPhaseBFailure(c)
  <2>1. D!Finalize(c, "run", D!None, "sealing failure", D!FailureScript(command[c].rows))
    BY <1>8 DEF D!FinalizeWallClockPhaseBFailure
  <2>2. Recorded(c) = command[c].rows
    BY <2>1 DEF D!Finalize, Recorded
  <2> QED BY <1>0, <2>1, <2>2, FinalizeKeeps
<1> QED BY <1>1, <1>2, <1>3, <1>4, <1>5, <1>6, <1>7, <1>8 DEF D!WorkEnds

LEMMA CleanKeeps == ASSUME DirInv, D!Clean PROVE DirInv'
<1>1. /\ dir' = NoDir /\ UNCHANGED <<staging, runStaging, command, overEmpty>>
      /\ \A c \in Commands : ~D!Live(c)
  BY DEF D!Clean
<1>2. \A c \in Commands : ~OnDir(c) /\ OnDir(c)' = OnDir(c)
  BY <1>1 DEF OnDir, D!Live
<1>3. DirTypes'
  BY <1>1 DEF DirInv, DirTypes
<1>4. \A c \in Commands : StagingInv(c)'
  BY <1>1 DEF DirInv, StagingInv, PlanStaged, RunStaged
<1>5. OwnInv'
  BY <1>1, <1>2 DEF OwnInv
<1> QED BY <1>2, <1>3, <1>4, <1>5 DEF DirInv

(***************************************************************************)
(* The invariant, and what follows from it.                                *)
(***************************************************************************)

LEMMA DirInitially == ASSUME D!DirInit PROVE DirInv
<1>1. /\ dir = NoDir /\ runStaging = NoDir /\ staging = [c \in Commands |-> NoDir]
      /\ command = [c \in Commands |-> D!Unborn] /\ overEmpty = FALSE
  BY DEF D!DirInit
<1>2. D!Unborn \in CommandRecord /\ D!Unborn.stage = "unborn" /\ D!Unborn.todo = <<>>
  BY DEF D!Unborn, CommandRecord, Verbs, CommandStages
<1>3. DirTypes
  BY <1>1, <1>2 DEF DirTypes
<1>4. ASSUME NEW c \in Commands PROVE StagingInv(c) /\ ~OnDir(c)
  BY <1>1, <1>2 DEF StagingInv, PlanStaged, RunStaged, OnDir
<1> QED BY <1>1, <1>3, <1>4 DEF DirInv, OwnInv

LEMMA DirStands == ASSUME DirInv, UNCHANGED directory PROVE DirInv'
<1>1. UNCHANGED <<dir, staging, runStaging, command, overEmpty>>
  BY DEF directory
<1>2. DirTypes'
  BY <1>1 DEF DirInv, DirTypes
<1>3. \A c \in Commands : StagingInv(c)' /\ OnDir(c)' = OnDir(c)
  BY <1>1 DEF DirInv, StagingInv, PlanStaged, RunStaged, OnDir
<1>4. ~overEmpty => OwnInv'
  BY <1>1 DEF DirInv, OwnInv, OnDir, WriterInv, Working, Recorded, LeftCleanable
<1> QED BY <1>1, <1>2, <1>3, <1>4 DEF DirInv

LEMMA DirStep == ASSUME DirInv, [OutputsNext]_vars PROVE DirInv'
<1>1. CASE D!DirNext
  <2>1. ASSUME NEW c \in Commands, NEW k \in 0..Rows, D!StartPlan(c, k) PROVE DirInv'
    BY <2>1, StartPlanKeeps
  <2>2. ASSUME NEW c \in Commands, D!StartMaterialize(c) PROVE DirInv'
    BY <2>2, StartMaterializeKeeps
  <2>3. ASSUME NEW c \in Commands, D!StartRunReplay(c) PROVE DirInv'
    BY <2>3, StartRunReplayKeeps
  <2>4. ASSUME NEW c \in Commands, D!StartRun(c) PROVE DirInv'
    BY <2>4, StartRunKeeps
  <2>5. ASSUME NEW c \in Commands, D!WriteFile(c) PROVE DirInv'
    BY <2>5, WriteFileKeeps
  <2>6. ASSUME NEW c \in Commands, D!WritingEnds(c) PROVE DirInv'
    BY <2>6, WritingEndsKeeps
  <2>7. ASSUME NEW c \in Commands, D!PublishPlan(c) PROVE DirInv'
    BY <2>7, PublishPlanKeeps
  <2>8. ASSUME NEW c \in Commands, D!RunPhaseA(c) PROVE DirInv'
    BY <2>8, RunPhaseAKeeps
  <2>9. ASSUME NEW c \in Commands, D!PublishRun(c) PROVE DirInv'
    BY <2>9, PublishRunKeeps
  <2>10. ASSUME NEW c \in Commands, D!AppendRow(c) PROVE DirInv'
    BY <2>10, AppendRowKeeps
  <2>11. ASSUME NEW c \in Commands, D!WorkEnds(c) PROVE DirInv'
    BY <2>11, WorkEndsKeeps
  <2>12. ASSUME NEW c \in Commands, D!WriteFails(c) PROVE DirInv'
    BY <2>12, WriteFailsKeeps
  <2>13. ASSUME NEW c \in Commands, D!Kill(c) PROVE DirInv'
    BY <2>13, KillKeeps
  <2> QED BY <1>1, <2>1, <2>2, <2>3, <2>4, <2>5, <2>6, <2>7, <2>8, <2>9, <2>10, <2>11, <2>12,
             <2>13, CleanKeeps DEF D!DirNext
<1>2. CASE UNCHANGED directory
  BY <1>2, DirStands
<1> QED BY <1>1, <1>2 DEF OutputsNext, vars

(***************************************************************************)
(* The results.                                                            *)
(***************************************************************************)

\* One command at a time writes to the directory, what it has still to write completes
\* what the sentinel will promise, and every staging directory is its owner's alone.
THEOREM DirectoryInvariant == OutputsSpec => []DirInv
<1>1. OutputsInit => DirInv
  BY DirInitially DEF OutputsInit
<1>2. DirInv /\ [OutputsNext]_vars => DirInv'
  BY DirStep
<1> QED BY <1>1, <1>2, PTL DEF OutputsSpec

\* Commands that race for one --out never mix their files in it: the whole of cli/commands
\* and materializer/persistence, for any number of commands, entries and kills.
THEOREM NoMixedDirectory == OutputsSpec => []OneAuthor
<1>1. DirInv => OneAuthor
  BY DEF DirInv, OwnInv, OneAuthor, Mine
<1> QED BY <1>1, DirectoryInvariant, PTL

\* What a complete sentinel promises of the metadata beside it holds at every moment.
THEOREM SealsAreCoherent == OutputsSpec => []SealedIsCoherent
<1>1. DirInv => SealedIsCoherent
  BY DEF DirInv, OwnInv, SealedIsCoherent, Coherent, D!Complete, D!Failed
<1> QED BY <1>1, DirectoryInvariant, PTL

\* A failure that a command catches never leaves a directory that clean refuses.
THEOREM CaughtFailuresClean == OutputsSpec => []CaughtFailureIsCleanable
<1>1. ASSUME DirInv, NEW c \in Commands, command[c].stage = "failed", dir # NoDir, ~overEmpty,
             \E f \in D!Files : dir[f].by = c
      PROVE  D!Cleanable
  <2>1. dir["sentinel"].by = c /\ dir["replay"].by = c /\ c # 0
    BY <1>1, Constants DEF DirInv, OwnInv, LeftCleanable
  <2> QED BY <1>1, <2>1 DEF D!Cleanable, D!None
<1>2. DirInv => CaughtFailureIsCleanable
  BY <1>1 DEF CaughtFailureIsCleanable
<1> QED BY <1>2, DirectoryInvariant, PTL

(***************************************************************************)
(* The types and the bounds of all three scenes.                           *)
(***************************************************************************)

\* The journal of a fixture never outgrows the plan, glued or not.
TextFits == text.len <= 3 * Boundary[Units] /\ current \in 0..Boundary[Units]

LEMMA EntriesFit ==
  ASSUME NEW u \in 0..Units
  PROVE  Boundary[u] \in 0..Boundary[Units] /\ Boundary[Units] \in Nat
  BY BoundaryTyped, BoundaryMonotone, PlanAssumption

LEMMA TextFitsStep == ASSUME StepInv, TextFits, [Next]_stepVars PROVE TextFits'
<1> USE DEF StepInv
<1>1. CASE UNCHANGED <<text, current>>
  BY <1>1 DEF TextFits
<1>2. CASE ReplaceManifest
  <2>1. PICK u \in 0..Units : step.target = Boundary[u]
    BY <1>2 DEF ReplaceManifest, StepAtWork, Active
  <2> QED BY <1>2, <2>1, EntriesFit DEF ReplaceManifest, TextFits
<1>3. CASE AppendLines \/ Interrupt
  <2>1. PICK u, v \in 0..Units :
          u <= v /\ step.from = Boundary[u] /\ step.target = Boundary[v]
    BY <1>3 DEF AppendLines, Interrupt, StepAtWork, Active
  <2>2. PICK a, b \in Nat : a = Boundary[u] /\ b = Boundary[v]
    BY <2>1, BoundaryTyped
  <2>3. /\ a <= b /\ b <= Boundary[Units] /\ Boundary[Units] \in Nat
        /\ NewPieces = 3 * (b - a) /\ Entries = a
    BY <1>3, <2>1, <2>2, BoundaryMonotone, EntriesFit
       DEF NewPieces, AppendLines, Interrupt, StepAtWork, Active
  <2>4. UNCHANGED text \/ \E w \in 0..(3 * (b - a)) : text' = Appended(w)
    BY <1>3, <2>3 DEF AppendLines, Interrupt
  <2>5. UNCHANGED current
    BY <1>3 DEF AppendLines, Interrupt
  <2>6. ASSUME NEW w \in 0..(3 * (b - a)), text' = Appended(w)
        PROVE  text'.len <= 3 * Boundary[Units]
    <3>1. CASE w > 0 /\ text.len % 3 = 2
      BY <2>6, <3>1 DEF Appended, TextFits, StepTypes
    <3>2. CASE ~(w > 0 /\ text.len % 3 = 2)
      <4>1. text' = [text EXCEPT !.len = @ + w]
        BY <2>6, <3>2 DEF Appended
      <4>2. PICK n, m \in Nat : n = text.len /\ m = w /\ m <= 3 * (b - a)
        BY <2>3 DEF StepTypes
      <4>3. text'.len = n + m
        BY <4>1, <4>2 DEF StepTypes
      <4>4. CASE n % 3 = 2
        <5>1. m = 0
          BY <3>2, <4>2, <4>4
        <5> QED BY <4>2, <4>3, <5>1 DEF TextFits
      <4>5. CASE n % 3 = 0
        <5>1. (n + 1) \div 3 = a
          BY <2>3, <4>2 DEF Entries
        <5>2. n = 3 * a
          BY <4>5, <5>1
        <5> QED BY <2>3, <4>2, <4>3, <5>2
      <4>6. n % 3 # 1
        BY <1>3, <4>2 DEF AppendLines, Interrupt, StepAtWork, Active, Parses
      <4> QED BY <4>2, <4>4, <4>5, <4>6
    <3> QED BY <3>1, <3>2
  <2> QED BY <2>4, <2>5, <2>6 DEF TextFits
<1> QED BY <1>1, <1>2, <1>3
        DEF Next, Write, StartStep, ReplaceBundle, ReplaceReport, stepVars, fixture

\* No command has recorded more entries than its journal has.
RowsInv == \A c \in Commands : command[c].rows <= Rows

LEMMA RowsKept ==
  ASSUME DirInv, RowsInv, NEW c \in Commands, NEW r, r.rows <= Rows,
         command' = [command EXCEPT ![c] = r]
  PROVE  RowsInv'
<1>1. \A e \in Commands : command'[e] = IF e = c THEN r ELSE command[e]
  BY Record
<1> QED BY <1>1 DEF RowsInv

LEMMA RowsStep == ASSUME DirInv, RowsInv, D!DirNext PROVE RowsInv'
<1>1. ASSUME NEW c \in Commands, NEW stage, NEW todo, command' = Turned(c, stage, todo)
      PROVE  RowsInv'
  <2>1. Changed(c, stage, todo, command[c].rows).rows <= Rows
    BY DEF Changed, RowsInv
  <2> QED BY <1>1, <2>1, Turns, RowsKept
<1>2. ASSUME NEW c \in Commands, NEW stage, command' = [command EXCEPT ![c].stage = stage]
      PROVE  RowsInv'
  <2>1. PICK r : r = Changed(c, stage, command[c].todo, command[c].rows)
    OBVIOUS
  <2>2. r.rows <= Rows
    BY <2>1 DEF Changed, RowsInv
  <2>3. command' = [command EXCEPT ![c] = r]
    BY <1>2, <2>1, StageChanges
  <2> QED BY <2>2, <2>3, RowsKept
<1>3. ASSUME NEW c \in Commands, NEW todo, command' = [command EXCEPT ![c].todo = todo]
      PROVE  RowsInv'
  <2>1. PICK r : r = Changed(c, command[c].stage, todo, command[c].rows)
    OBVIOUS
  <2>2. r.rows <= Rows
    BY <2>1 DEF Changed, RowsInv
  <2>3. command' = [command EXCEPT ![c] = r]
    BY <1>3, <2>1, TodoChanges
  <2> QED BY <2>2, <2>3, RowsKept
<1>4. ASSUME NEW c \in Commands, NEW verb, NEW stage, NEW todo, D!Born(c, verb, stage, todo)
      PROVE  RowsInv'
  <2>1. [verb |-> verb, stage |-> stage, todo |-> todo, rows |-> 0].rows <= Rows
    BY Constants
  <2> QED BY <1>4, <2>1, RowsKept DEF D!Born
<1>5. ASSUME NEW c \in Commands, NEW outcome, command' = D!Ended(c, outcome) PROVE RowsInv'
  BY <1>1, <1>5 DEF D!Ended, Turned
<1>6. ASSUME NEW c \in Commands, NEW k \in 0..Rows, D!StartPlan(c, k) PROVE RowsInv'
  BY <1>4, <1>6 DEF D!StartPlan
<1>7. ASSUME NEW c \in Commands,
             D!StartMaterialize(c) \/ D!StartRunReplay(c) \/ D!StartRun(c)
      PROVE  RowsInv'
  BY <1>4, <1>7 DEF D!StartMaterialize, D!StartRunReplay, D!StartRun
<1>8. ASSUME NEW c \in Commands, D!WriteFile(c) PROVE RowsInv'
  BY <1>3, <1>8 DEF D!WriteFile
<1>9. ASSUME NEW c \in Commands, D!WritingEnds(c) PROVE RowsInv'
  BY <1>2, <1>9 DEF D!WritingEnds
<1>10. ASSUME NEW c \in Commands, D!PublishPlan(c) \/ D!WriteFails(c) \/ D!Kill(c) PROVE RowsInv'
  BY <1>5, <1>10 DEF D!PublishPlan, D!WriteFails, D!Kill
<1>11. ASSUME NEW c \in Commands, D!RunPhaseA(c) PROVE RowsInv'
  BY <1>1, <1>5, <1>11 DEF D!RunPhaseA, Turned
<1>12. ASSUME NEW c \in Commands, D!PublishRun(c) PROVE RowsInv'
  BY <1>2, <1>5, <1>12 DEF D!PublishRun
<1>13. ASSUME NEW c \in Commands, D!AppendRow(c) PROVE RowsInv'
  <2>1. command[c].rows < Rows /\ command[c].rows \in Nat /\ Rows \in Nat
    BY <1>13, Before, Constants DEF D!AppendRow
  <2>2. command' = [command EXCEPT ![c] = Changed(c, command[c].stage, command[c].todo,
                                                  command[c].rows + 1)]
    BY <1>13, RowsChange DEF D!AppendRow
  <2>3. Changed(c, command[c].stage, command[c].todo, command[c].rows + 1).rows <= Rows
    BY <2>1 DEF Changed
  <2> QED BY <2>2, <2>3, RowsKept
<1>14. ASSUME NEW c \in Commands, D!WorkEnds(c) PROVE RowsInv'
  <2>1. \E stage, todo : command' = Turned(c, stage, todo)
    BY <1>14 DEF D!WorkEnds, D!FinalizeSuccess, D!FinalizeRunReplaySuccess,
                 D!FinalizeWallClockSuccess, D!FinalizeFailure, D!FinalizeFailurePhaseB,
                 D!FinalizeRunReplayPhaseAFailure, D!FinalizeRunReplayPhaseBFailure,
                 D!FinalizeWallClockPhaseBFailure, D!Finalize, Turned
  <2> QED BY <1>1, <2>1
<1>15. ASSUME D!Clean PROVE RowsInv'
  BY <1>15 DEF D!Clean, RowsInv
<1> QED BY <1>6, <1>7, <1>8, <1>9, <1>10, <1>11, <1>12, <1>13, <1>14, <1>15 DEF D!DirNext

\* A whole media file is some import's, and a copy in the making its maker's.
MediaInv ==
    /\ \A d \in Digests : media[d].whole => media[d].by # 0
    /\ \A i \in Imports : job[i].stage = "copying" => media[Head(job[i].todo)].by = i

LEMMA MediaStep == ASSUME EmissionInv, MediaInv, E!EmissionNext PROVE MediaInv'
<1>1. /\ job = [j \in Jobs |-> job[j]] /\ Batches \cap Imports = {} /\ 0 \notin Imports
      /\ media \in [Digests -> [by : {0} \cup Imports, whole : BOOLEAN]]
      /\ Imports \subseteq Jobs
  BY OutputsAssumption DEF EmissionInv, EmissionTypes, Jobs
<1>3. ASSUME NEW b \in Batches,
             E!StartBatch(b) \/ E!WriteScenario(b) \/ E!EndBatch(b) \/ E!RollbackBatch(b)
      PROVE  MediaInv'
  <2>1. b \in Jobs /\ \A k \in Imports : k # b
    BY <1>1 DEF Jobs
  <2>2. UNCHANGED media /\ \A k \in Imports : job'[k] = job[k]
    BY <1>1, <1>3, <2>1
       DEF E!StartBatch, E!Starts, E!WriteScenario, E!Quits, E!EndBatch, E!RollbackBatch
  <2> QED BY <2>2 DEF MediaInv
<1>4. ASSUME NEW i \in Imports PROVE job[i] \in ImportJob /\ i \in Jobs /\ i # 0 /\ ImportInv(i)
  BY <1>1 DEF EmissionInv, EmissionTypes
<1>5. ASSUME NEW i \in Imports, UNCHANGED media, job'[i].stage # "copying",
             \A k \in Imports \ {i} : job'[k] = job[k]
      PROVE  MediaInv'
  BY <1>5 DEF MediaInv
<1>6. ASSUME NEW i \in Imports, E!Quits(i), UNCHANGED media PROVE MediaInv'
  <2>1. job'[i].stage # "copying" /\ \A k \in Imports \ {i} : job'[k] = job[k]
    BY <1>1, <1>4, <1>6 DEF E!Quits, ImportJob
  <2> QED BY <1>5, <1>6, <2>1
<1>7. ASSUME NEW i \in Imports, E!StartImport(i) \/ E!ReportImport(i) \/ E!WriteImport(i)
      PROVE  MediaInv'
  <2>1. UNCHANGED media
    BY <1>7 DEF E!StartImport, E!ReportImport, E!WriteImport
  <2>2. \/ E!Quits(i) \/ E!Starts(i, "staging", E!Needs[i])
        \/ \E stage \in {"ok", "written"} : job' = [job EXCEPT ![i].stage = stage]
    BY <1>7 DEF E!StartImport, E!ReportImport, E!WriteImport
  <2>3. job'[i].stage # "copying" /\ \A k \in Imports \ {i} : job'[k] = job[k]
    <3>1. CASE E!Quits(i)
      BY <1>1, <1>4, <3>1 DEF E!Quits, ImportJob
    <3>2. CASE E!Starts(i, "staging", E!Needs[i])
      BY <1>1, <1>4, <3>2 DEF E!Starts, ImportJob
    <3>3. CASE \E stage \in {"ok", "written"} : job' = [job EXCEPT ![i].stage = stage]
      BY <1>1, <1>4, <3>3 DEF ImportJob
    <3> QED BY <2>2, <3>1, <3>2, <3>3
  <2> QED BY <1>5, <2>1, <2>3
<1>8. ASSUME NEW i \in Imports, E!StageMedia(i) PROVE MediaInv'
  <2>1. PICK d : d = Head(job[i].todo)
    OBVIOUS
  <2>2. d \in Digests
    BY <1>4, <1>8, <2>1, HeadAndTail DEF E!StageMedia, ImportJob
  <2>3. CASE media[d] = E!NoMedia
    <3>1. /\ media' = [media EXCEPT ![d] = [by |-> i, whole |-> FALSE]]
          /\ job' = [job EXCEPT ![i].stage = "copying", ![i].wrote = @ \cup {d}]
      BY <1>8, <2>1, <2>3 DEF E!StageMedia, E!NoMedia
    <3>2. job'[i].todo = job[i].todo /\ \A k \in Imports \ {i} : job'[k] = job[k]
      BY <1>1, <1>4, <3>1 DEF ImportJob
    <3>3. /\ media'[d] = [by |-> i, whole |-> FALSE]
          /\ \A e \in Digests \ {d} : media'[e] = media[e]
      BY <1>1, <2>2, <3>1
    <3>4. \A e \in Digests : media'[e].whole => media'[e].by # 0
      BY <3>3 DEF MediaInv
    <3>5. ASSUME NEW k \in Imports, job'[k].stage = "copying"
          PROVE  media'[Head(job'[k].todo)].by = k
      <4>1. CASE k = i
        BY <2>1, <3>2, <3>3, <4>1
      <4>2. CASE k # i
        <5>1. job'[k] = job[k] /\ media[Head(job[k].todo)].by = k /\ k # 0
          BY <1>4, <3>2, <3>5, <4>2 DEF MediaInv
        <5>2. Head(job[k].todo) # d
          BY <2>3, <5>1 DEF E!NoMedia, E!Nobody
        <5>3. Head(job[k].todo) \in Digests
          BY <1>4, <3>5, <5>1, HeadAndTail DEF ImportInv, ImportJob
        <5> QED BY <3>3, <5>1, <5>2, <5>3
      <4> QED BY <4>1, <4>2
    <3> QED BY <3>4, <3>5 DEF MediaInv
  <2>4. CASE media[d] # E!NoMedia
    <3>1. \/ E!Quits(i) /\ UNCHANGED media
          \/ /\ job' = [job EXCEPT ![i].todo = Tail(@), ![i].uses = @ \cup {d}]
             /\ UNCHANGED media /\ job[i].stage = "staging"
      BY <1>8, <2>1, <2>4 DEF E!StageMedia
    <3>2. CASE job' = [job EXCEPT ![i].todo = Tail(@), ![i].uses = @ \cup {d}]
               /\ UNCHANGED media /\ job[i].stage = "staging"
      <4>1. job'[i].stage = "staging" /\ \A k \in Imports \ {i} : job'[k] = job[k]
        BY <1>1, <1>4, <3>2 DEF ImportJob
      <4> QED BY <1>5, <3>2, <4>1
    <3> QED BY <1>6, <3>1, <3>2
  <2> QED BY <2>3, <2>4
<1>9. ASSUME NEW i \in Imports, E!CopyMedia(i) PROVE MediaInv'
  <2>1. PICK d : d = Head(job[i].todo)
    OBVIOUS
  <2>2. d \in Digests /\ media[d].by = i
    BY <1>4, <1>9, <2>1, HeadAndTail DEF E!CopyMedia, ImportInv, ImportJob, MediaInv
  <2>3. CASE /\ media' = [media EXCEPT ![d].whole = TRUE]
             /\ job' = [job EXCEPT ![i].stage = "staging", ![i].todo = Tail(@),
                                   ![i].uses = @ \cup {d}]
    <3>1. job'[i].stage = "staging" /\ \A k \in Imports \ {i} : job'[k] = job[k]
      BY <1>1, <1>4, <2>3 DEF ImportJob
    <3>2. /\ media'[d].by = i /\ \A e \in Digests \ {d} : media'[e] = media[e]
          /\ \A e \in Digests : media'[e].by = media[e].by
      BY <1>1, <2>2, <2>3
    <3>3. \A e \in Digests : media'[e].whole => media'[e].by # 0
      BY <1>4, <3>2 DEF MediaInv
    <3>4. ASSUME NEW k \in Imports, job'[k].stage = "copying"
          PROVE  media'[Head(job'[k].todo)].by = k
      <4>1. k # i /\ job'[k] = job[k] /\ media[Head(job[k].todo)].by = k
        BY <3>1, <3>4 DEF MediaInv
      <4>2. Head(job[k].todo) \in Digests
        BY <1>4, <3>4, <4>1, HeadAndTail DEF ImportInv, ImportJob
      <4> QED BY <3>2, <4>1, <4>2
    <3> QED BY <3>3, <3>4 DEF MediaInv
  <2> QED BY <1>6, <1>9, <2>1, <2>3 DEF E!CopyMedia
<1>10. ASSUME NEW i \in Imports, E!RollbackImport(i) PROVE MediaInv'
  <2>1. CASE job[i].wrote = {}
    <3>1. UNCHANGED media /\ job'[i].stage # "copying"
          /\ \A k \in Imports \ {i} : job'[k] = job[k]
      <4>1. UNCHANGED media /\ job' = [job EXCEPT ![i].stage = "failed"]
        BY <1>10, <2>1 DEF E!RollbackImport
      <4> QED BY <1>1, <1>4, <4>1 DEF ImportJob
    <3> QED BY <1>5, <3>1
  <2>2. CASE job[i].wrote # {}
    <3>1. PICK d \in job[i].wrote : /\ media' = [media EXCEPT ![d] = E!NoMedia]
                                    /\ job' = [job EXCEPT ![i].wrote = @ \ {d}]
      BY <1>10, <2>2 DEF E!RollbackImport
    <3>2. d \in Digests /\ media[d].by = i /\ job[i].stage = "rollback"
      BY <1>4, <1>10 DEF ImportInv, ImportJob, E!RollbackImport
    <3>3. job'[i].stage = "rollback" /\ \A k \in Imports \ {i} : job'[k] = job[k]
      BY <1>1, <1>4, <3>1, <3>2 DEF ImportJob
    <3>4. /\ ~media'[d].whole /\ \A e \in Digests \ {d} : media'[e] = media[e]
      BY <1>1, <3>1, <3>2 DEF E!NoMedia
    <3>5. \A e \in Digests : media'[e].whole => media'[e].by # 0
      BY <3>4 DEF MediaInv
    <3>6. ASSUME NEW k \in Imports, job'[k].stage = "copying"
          PROVE  media'[Head(job'[k].todo)].by = k
      <4>1. k # i /\ job'[k] = job[k] /\ media[Head(job[k].todo)].by = k
        BY <3>3, <3>6 DEF MediaInv
      <4>2. Head(job[k].todo) # d
        BY <3>2, <4>1
      <4>3. Head(job[k].todo) \in Digests
        BY <1>4, <3>6, <4>1, HeadAndTail DEF ImportInv, ImportJob
      <4> QED BY <3>4, <4>1, <4>2, <4>3
    <3> QED BY <3>5, <3>6 DEF MediaInv
  <2> QED BY <2>1, <2>2
<1>11. ASSUME NEW j \in Jobs, E!Stop(j) PROVE MediaInv'
  <2>1. UNCHANGED media /\ job' = [job EXCEPT ![j].stage = "killed"]
    BY <1>11 DEF E!Stop
  <2>2. CASE j \in Imports
    <3>1. job'[j].stage = "killed" /\ \A k \in Imports \ {j} : job'[k] = job[k]
      BY <1>1, <1>4, <2>1, <2>2 DEF ImportJob
    <3> QED BY <1>5, <2>1, <2>2, <3>1
  <2>3. CASE j \notin Imports
    <3>1. \A k \in Imports : job'[k] = job[k]
      BY <1>1, <2>1, <2>3
    <3> QED BY <2>1, <3>1 DEF MediaInv
  <2> QED BY <2>2, <2>3
<1> QED BY <1>3, <1>7, <1>8, <1>9, <1>10, <1>11 DEF E!EmissionNext, E!Jobs, Jobs

TypesInv == StepInv /\ TextFits /\ RowsInv /\ MediaInv

LEMMA TypesInitially == ASSUME OutputsInit PROVE TypesInv
<1>1. \E u \in 0..Units : WrittenAt(u)
  BY PlanAssumption DEF OutputsInit, Init
<1>2. Init
  BY <1>1 DEF OutputsInit, Init
<1>3. StepInv /\ TextFits
  <2>1. PICK u \in 0..Units : WrittenAt(u)
    BY <1>1
  <2>2. text.len = 3 * Boundary[u] /\ current = Boundary[u]
    BY <2>1 DEF WrittenAt
  <2> QED BY <1>2, <2>2, InvInit, EntriesFit DEF TextFits
<1>4. RowsInv
  BY Constants DEF OutputsInit, D!DirInit, D!Unborn, RowsInv
<1>5. MediaInv
  <2>1. /\ \A d \in Digests : media[d] = E!NoMedia
        /\ \A i \in Imports : job[i].stage = "unborn"
    BY DEF OutputsInit, E!EmissionInit, E!Jobs
  <2> QED BY <2>1 DEF MediaInv, E!NoMedia
<1> QED BY <1>3, <1>4, <1>5 DEF TypesInv

LEMMA TypesStep ==
  ASSUME DirInv, EmissionInv, TypesInv, [OutputsNext]_vars
  PROVE  TypesInv'
<1>1. [Next]_stepVars
  BY DEF OutputsNext, vars
<1>2. StepInv' /\ TextFits'
  BY <1>1, InvNext, TextFitsStep DEF TypesInv
<1>3. RowsInv'
  <2>1. CASE UNCHANGED directory
    BY <2>1 DEF directory, TypesInv, RowsInv
  <2> QED BY <2>1, RowsStep DEF OutputsNext, vars, TypesInv
<1>4. MediaInv'
  <2>1. CASE UNCHANGED emission
    BY <2>1 DEF emission, TypesInv, MediaInv
  <2> QED BY <2>1, MediaStep DEF OutputsNext, vars, TypesInv
<1> QED BY <1>2, <1>3, <1>4 DEF TypesInv

\* The bounds the three programs keep without checking them: what a fixture
\* describes is within its plan, a command records no entry its journal has not,
\* and a media file that is whole has an import that wrote it.
THEOREM OutputsTypeOK == OutputsSpec => []TypeOK
<1>1. DirInv /\ EmissionInv /\ TypesInv => TypeOK
  <2> SUFFICES ASSUME DirInv, EmissionInv, TypesInv PROVE TypeOK
    OBVIOUS
  <2>1. bundle \in [applied : 0..Boundary[Units], digest : 0..Boundary[Units]]
    BY EntriesFit DEF TypesInv, StepInv, StepTypes, BundleReplays, Replays
  <2>2. \A d \in Digests : media[d].whole => media[d].by \in Imports
    BY DEF EmissionInv, EmissionTypes, TypesInv, MediaInv
  <2> QED BY <2>1, <2>2 DEF TypeOK, TypesInv, TextFits, StepInv, StepTypes, RowsInv
<1> QED BY <1>1, TypesInitially, TypesStep, DirectoryInvariant, EmissionInvariant, PTL
        DEF OutputsSpec
=============================================================================
