----------------------------- MODULE MCOutputs -----------------------------
(***************************************************************************)
(* The instance of Outputs: a plan of three step units, one of them a slow *)
(* copy with two entries; two commands for one --out; two batches and      *)
(* two imports that overlap in a name or a media file.                     *)
(***************************************************************************)
EXTENDS Outputs

MCBoundary == [u \in 0..3 |-> <<0, 1, 3, 4>>[u + 1]]
MCTargets == [b \in {1, 2} |-> IF b = 1 THEN <<"s1", "s2">> ELSE <<"s3", "s2">>]
\* Two libraries: one deduplicated, with two copies of a content in different
\* containers and a second file for one episode; the other capped, so that a
\* variant and an artist are dropped.
File(kind, work, episode, container, digest) ==
    [kind |-> kind, work |-> work, episode |-> episode, container |-> container,
     digest |-> digest, seconds |-> 10, anchored |-> TRUE]
MCInputs == [i \in {3, 4} |->
    IF i = 3
    THEN [mode |-> "dedup", maxWorks |-> 9, maxVariants |-> 4, maxSeconds |-> 10,
          files |-> <<File("movie", 1, 0, "mp4", "x"), File("movie", 1, 0, "mkv", "x"),
                      [File("movie", 2, 0, "mkv", "z") EXCEPT !.seconds = 11],
                      File("series", 3, 1, "mkv", "y"), File("series", 3, 1, "mkv", "w")>>]
    ELSE [mode |-> "full", maxWorks |-> 2, maxVariants |-> 1, maxSeconds |-> 99,
          files |-> <<[File("artist", 1, 0, "flac", "v") EXCEPT !.anchored = FALSE],
                      File("artist", 2, 0, "flac", "w"),
                      File("movie", 3, 0, "mkv", "y"), File("movie", 3, 0, "mkv", "x"),
                      File("movie", 4, 0, "mkv", "z"), File("movie", 4, 0, "mp4", "z")>>]]
MCDigests == {<<"x", "mp4">>, <<"y", "mkv">>, <<"z", "mkv">>}
MCOutOf == [i \in {3, 4} |-> IF i = 3 THEN "s4" ELSE "s5"]
=============================================================================
