--------------------------- MODULE ImportSelection ---------------------------
(***************************************************************************)
(* What an import makes of the media files it found: the caps that drop    *)
(* some, the works the rest belong to, the caps on those, and the contents *)
(* to copy, each once.  An input is its files in path order with the       *)
(* options of the command; a file is known by its place in that order.     *)
(* Of its names a file keeps what they mean: its kind, the number of its   *)
(* work's directory in path order, its episode, and whether the            *)
(* directories above it make sense.                                        *)
(* An option that was not given is a bound no input reaches.               *)
(***************************************************************************)
EXTENDS Integers, Sequences, FiniteSets

\* plan_staging: long files go, a sample takes so many of each container, and
\* a deduplicating import one file of each content.
PlanStaging(in) ==
    LET F == in.files
        short == {k \in DOMAIN F : F[k].seconds <= in.maxSeconds}
    IN  {k \in short :
            /\ in.mode = "sample" =>
                  Cardinality({j \in short : j < k /\ F[j].container = F[k].container})
                      < in.maxWorks
            /\ in.mode = "dedup" => \A j \in short : j < k => F[j].digest # F[k].digest}

\* build_topology: the files that belong somewhere; of two for one episode the
\* first.
BuildTopology(in) ==
    LET F == in.files
        anchored == {k \in PlanStaging(in) : F[k].anchored}
    IN  {k \in anchored :
            F[k].kind = "series" =>
                \A j \in anchored : j < k /\ F[j].kind = "series" =>
                    <<F[j].work, F[j].episode>> # <<F[k].work, F[k].episode>>}

\* Works are listed series first, then movies, then artists: movies by their
\* directories, the others by their first files.
Listed(in, j, k) ==
    LET F == in.files
        first(n) == CHOOSE m \in BuildTopology(in) :
                       /\ F[m].kind = F[n].kind /\ F[m].work = F[n].work
                       /\ \A l \in BuildTopology(in) :
                             F[l].kind = F[n].kind /\ F[l].work = F[n].work => m <= l
        rank == [series |-> 1, movie |-> 2, artist |-> 3]
    IN  \/ rank[F[j].kind] < rank[F[k].kind]
        \/ /\ F[j].kind = F[k].kind
           /\ IF F[k].kind = "movie" THEN F[j].work < F[k].work ELSE first(j) < first(k)

\* apply_work_caps: a movie keeps its first variants, the import its first works.
ApplyWorkCaps(in) ==
    LET F == in.files
    IN  {k \in BuildTopology(in) :
            /\ F[k].kind = "movie" =>
                  Cardinality({j \in BuildTopology(in) :
                     j < k /\ F[j].kind = "movie" /\ F[j].work = F[k].work}) < in.maxVariants
            /\ Cardinality({<<F[j].kind, F[j].work>> :
                  j \in {j \in BuildTopology(in) : Listed(in, j, k)}}) < in.maxWorks}

\* compute_staging copies the first accepted file of every content that a work
\* still refers to; the file in media/ is named by the content and by the
\* container of the file that was copied.
Copied(in) ==
    LET F == in.files
    IN  {k \in PlanStaging(in) :
            /\ \E n \in ApplyWorkCaps(in) : F[n].digest = F[k].digest
            /\ \A j \in PlanStaging(in) : j < k => F[j].digest # F[k].digest}

BundleName(in, k) == <<in.files[k].digest, in.files[k].container>>

ComputeStaging(in) ==
    LET staged[k \in 0..Len(in.files)] ==
            IF k = 0 THEN <<>>
            ELSE IF k \in Copied(in) THEN Append(staged[k - 1], BundleName(in, k))
            ELSE staged[k - 1]
    IN  staged[Len(in.files)]

\* _rewrite_bundle_paths: the media file that the asset made of file k names;
\* none if no file of its content is copied.
ImportSource(in, k) ==
    {BundleName(in, j) : j \in {j \in Copied(in) : in.files[j].digest = in.files[k].digest}}
=============================================================================
