------------------------------ MODULE MCAuthoring ------------------------------
(***************************************************************************)
(* Eight scenarios, one per part of the vocabulary: two seasons, a flat    *)
(* series, two discs, a movie with two roots and a copy under way, a       *)
(* subtitled episode, one with two subtitles of a language, one moved to   *)
(* names with an empty extension and with none, and a podcast with an      *)
(* episode of two files; and the lanes of the generator, with the bounds   *)
(* of the generated timelines.                                             *)
(***************************************************************************)
EXTENDS Scenarios

Root(name) == <<name>>

File(dir, name, ext) ==
    [dir |-> dir, folder |-> 0, stem |-> <<0, 0, name, "">>, ext |-> <<"", ext>>]

MCAsset(id, bundle, role, subtitles) ==
    [id |-> id, bundle |-> bundle, label |-> "1080p", role |-> role, container |-> "mkv",
     subtitles |-> subtitles]

Parent(id, number, title, assets) ==
    [id |-> id, number |-> number, absolute |-> number, date |-> number, slug |-> 0,
     stale |-> FALSE, title |-> title, assets |-> assets]

Group(id, owner, number, parents) ==
    [id |-> id, owner |-> owner, number |-> number, parents |-> parents]

Declared(kind, foldered, naming, groups) ==
    [kind |-> kind, foldered |-> foldered, naming |-> naming, groups |-> groups,
     roots |-> [main |-> <<"lib">>, cold |-> <<"lib", "cold">>], primary |-> "main",
     archive |-> "archive"]

On(op, target) == [op |-> op, target |-> target]
To(op, target, path) == [op |-> op, target |-> target, to |-> path]
Copy(target, path, temp) == [op |-> "slow_copy_start", target |-> target, to |-> path, temp |-> temp]
Number(op, target, n) == [op |-> op, target |-> target, number |-> n, absolute |-> 0]
Into(op, target, group, n) ==
    [op |-> op, target |-> target, group |-> group, number |-> n, absolute |-> 0]
Swap(op, target, other) == [op |-> op, target |-> target, other |-> other]
Sidecar(op, target, kind, language, path) ==
    [op |-> op, target |-> target, kind |-> kind, language |-> language, to |-> path]

\* Two episodes of one title in two seasons, and another episode in the first.
Series ==
    [scenario |-> Declared("episode", TRUE, "sxxexx_title",
        <<Group("s1", "show", 1,
             <<Parent("e1", 1, "Pilot", <<MCAsset("a", "b1", "main", <<>>)>>),
               Parent("e2", 2, "Pilot", <<MCAsset("b", "b2", "main", <<>>)>>)>>),
          Group("s2", "show", 2,
             <<Parent("e3", 1, "Pilot", <<MCAsset("c", "b3", "main", <<>>)>>)>>)>>),
     events |->
        {Number("renumber_episode", "e1", 3), Number("renumber_episode", "e2", 1),
         Into("move_episode_to_season", "e1", "s2", 1),
         Into("move_episode_to_season", "e1", "s2", 2),
         Into("move_episode_to_season", "e3", "s1", 1),
         On("rename_season", "s1"),
         Swap("swap_episode_numbers", "e1", "e2"), Swap("swap_episode_numbers", "e1", "e3"),
         To("move_asset", "a",
            [dir |-> <<"lib">>, folder |-> 2, stem |-> <<2, 1, "Pilot", "1080p">>,
             ext |-> <<"", "mkv">>]),
         To("move_asset", "c",
            [dir |-> <<"lib">>, folder |-> 1, stem |-> <<1, 3, "Pilot", "1080p">>,
             ext |-> <<"", "mkv">>]),
         On("delete_file", "b"), On("delete_file", "c"), On("delete_file", "e1"),
         On("rename_season", "e1"), Number("renumber_disc", "s1", 3),
         To("add_file", "c",
            [dir |-> <<"lib">>, folder |-> 1, stem |-> <<1, 1, "Pilot", "1080p">>,
             ext |-> <<"", "mkv">>])}]

\* The same numbers in a flat library that counts on through the seasons.
Absolute ==
    [scenario |-> Declared("episode", FALSE, "absolute_3_digit_title",
        <<Group("s1", "show", 1,
             <<Parent("e1", 1, "Pilot", <<MCAsset("a", "b1", "main", <<>>)>>),
               Parent("e2", 2, "Pilot", <<MCAsset("b", "b2", "main", <<>>)>>)>>)>>),
     events |->
        {Number("renumber_episode", "e1", 3),
         [Number("renumber_episode", "e1", 3) EXCEPT !.absolute = 2],
         [Number("renumber_episode", "e1", 4) EXCEPT !.absolute = 3],
         [Number("renumber_episode", "e2", 1) EXCEPT !.absolute = 1],
         Swap("swap_episode_numbers", "e1", "e2"), On("rename_season", "s1"),
         On("delete_file", "b")}]

\* Two discs of two tracks.
Album ==
    [scenario |-> Declared("track", TRUE, "disc_track_number_title",
        <<Group("d1", "album", 1,
             <<Parent("t1", 1, "Song", <<MCAsset("a", "b1", "main", <<>>)>>),
               Parent("t2", 2, "Song", <<MCAsset("b", "b2", "main", <<>>)>>)>>),
          Group("d2", "album", 2,
             <<Parent("t3", 1, "Song", <<MCAsset("c", "b3", "main", <<>>)>>)>>)>>),
     events |->
        {Number("renumber_disc", "d1", 3), Number("renumber_disc", "d1", 2),
         Number("renumber_disc", "d2", 1),
         Into("move_track_to_disc", "t1", "d2", 2), Into("move_track_to_disc", "t3", "d1", 1),
         Swap("swap_disc_numbers", "d1", "d2"), Swap("swap_track_numbers", "t1", "t2"),
         On("reencode_audio", "a"), On("reencode_video", "a"), On("corrupt_tags", "b"),
         To("rename_file", "a", File(<<"lib">>, "Other", "flac")),
         On("delete_file", "b")}]

\* A movie of two files, two roots, and copies.
Movie ==
    LET Of(tail) == [File(<<"lib">>, "Film", "mkv") EXCEPT !.stem[4] = tail]
    IN  [scenario |-> Declared("movie", FALSE, "title",
            <<Group("m", "", 0,
                 <<Parent("m1", 0, "Film", <<MCAsset("a", "b1", "main", <<>>),
                                             MCAsset("b", "b1", "extra", <<>>)>>)>>)>>),
         events |->
            {Copy("a", File(<<"lib", "cold">>, "Copy", "mkv"), File(<<"lib">>, "Part", "tmp")),
             Copy("b", File(<<"lib", "cold">>, "Copy", "mkv"), File(<<"lib">>, "Part", "tmp")),
             On("archive_file", "a"),
             [op |-> "move_between_roots", target |-> "a", fromRoot |-> "main", toRoot |-> "cold"],
             [op |-> "move_between_roots", target |-> "a", fromRoot |-> "cold", toRoot |-> "main"],
             [op |-> "move_between_roots", target |-> "a", fromRoot |-> "main", toRoot |-> "attic"],
             On("edit_metadata", "a"), On("touch_mtime", "a"),
             [op |-> "remux_container", target |-> "a", container |-> "mp4"],
             On("delete_file", "a"), On("delete_file", "b"),
             To("add_file", "a", Of("")),
             To("rename_file", "a", Of("1080pextra")), To("rename_file", "b", Of("1080pmain"))}]

\* An episode with a declared subtitle and what may be done to sidecars.
Subtitled ==
    LET beside(number, language) ==
            [dir |-> <<"lib">>, folder |-> 1, stem |-> <<1, number, "Pilot", "1080p">>,
             ext |-> <<language, "srt">>]
    IN  [scenario |-> Declared("episode", TRUE, "sxxexx_title",
            <<Group("s1", "show", 1,
                 <<Parent("e1", 1, "Pilot",
                      <<MCAsset("a", "b1", "main", <<[language |-> "en", codec |-> "srt"],
                                                     [language |-> "de", codec |-> "ass"]>>)>>)>>)>>),
         events |->
            {Number("renumber_episode", "e1", 2), Number("renumber_episode", "e1", 1),
             To("move_asset", "a", File(<<"lib">>, "Other", "mkv")),
             [op |-> "remux_container", target |-> "a", container |-> "mp4"],
             Sidecar("create_sidecar", "a", "subtitle", "en", beside(2, "en")),
             Sidecar("create_sidecar", "a", "subtitle", "fr", beside(1, "fr")),
             Sidecar("create_sidecar", "a", "poster", "", beside(1, "en")),
             Sidecar("extract_subtitle", "a", "subtitle", "en", beside(1, "en")),
             On("delete_file", "a")}]

\* Two declared subtitles of one language, of which the engine lists the later one.
Doublet ==
    LET beside(number, codec) ==
            [dir |-> <<"lib">>, folder |-> 1, stem |-> <<1, number, "Pilot", "1080p">>,
             ext |-> <<"en", codec>>]
        subtitles == <<[language |-> "en", codec |-> "ass"], [language |-> "en", codec |-> "srt"]>>
    IN  [scenario |-> Declared("episode", TRUE, "sxxexx_title",
            <<Group("s1", "show", 1,
                 <<Parent("e1", 1, "Pilot", <<MCAsset("a", "b1", "main", subtitles)>>),
                   Parent("e2", 2, "Pilot",
                      <<MCAsset("b", "b2", "main", <<subtitles[2]>>)>>)>>)>>),
         events |->
            {Number("renumber_episode", "e1", 3), Swap("swap_episode_numbers", "e1", "e2"),
             Sidecar("create_sidecar", "a", "subtitle", "en", beside(1, "srt")),
             On("delete_file", "b")}]

\* A subtitled episode whose file is put on names that end in a dot and that have no dot.
Dotted ==
    LET named(ext) == [dir |-> <<"lib">>, folder |-> 1, stem |-> <<1, 1, "Pilot", "1080p">>,
                       ext |-> <<"", ext>>]
    IN  [scenario |-> Declared("episode", TRUE, "sxxexx_title",
            <<Group("s1", "show", 1,
                 <<Parent("e1", 1, "Pilot",
                      <<MCAsset("a", "b1", "main", <<[language |-> "en", codec |-> "srt"]>>)>>),
                   Parent("e2", 2, "Pilot", <<MCAsset("b", "b2", "main", <<>>)>>)>>)>>),
         events |->
            {To("move_asset", "a", named(".")), To("rename_file", "a", named("")),
             To("add_file", "a", named(".")), On("delete_file", "a"),
             Copy("b", File(<<"lib">>, "Cut", "."), File(<<"lib">>, "Part", "tmp")),
             [op |-> "remux_container", target |-> "a", container |-> "mp4"],
             [op |-> "remux_container", target |-> "b", container |-> "mp4"],
             Number("renumber_episode", "e1", 3), On("archive_file", "a"),
             [op |-> "move_between_roots", target |-> "b", fromRoot |-> "main", toRoot |-> "cold"]}]

\* A feed: an episode of two files, and one more.
Podcast ==
    [scenario |-> Declared("podcast_episode", FALSE, "date_slug_title",
        <<Group("feed", "", 0,
             <<Parent("p1", 1, "Talk", <<MCAsset("a", "b1", "main", <<>>),
                                         MCAsset("b", "b1", "cover", <<>>)>>),
               Parent("p2", 2, "Talk", <<MCAsset("c", "b2", "main", <<>>)>>)>>)>>),
     events |->
        {[op |-> "republish_episode", target |-> "p1", date |-> 2, slug |-> 0],
         [op |-> "republish_episode", target |-> "p1", date |-> 3, slug |-> 1],
         [op |-> "republish_episode", target |-> "p2", date |-> 1, slug |-> 0],
         On("mark_episode_stale", "p1"), On("mark_episode_stale", "p2"),
         On("delete_file", "a"), On("delete_file", "c"),
         To("add_file", "c", File(<<"lib">>, "Talk", "mkv")),
         To("move_asset", "a", File(<<"lib">>, "Talk", "mkv"))}]

-----------------------------------------------------------------------------
(* Generated scenarios. *)

\* As many assets as the required events of the lane name, and one that they leave alone.
MCMovies == [smoke |-> 3, core_fs |-> 7, media_rewrite |-> 5, sidecar_subtitle |-> 3,
             malformed |-> 6, negative_oracle |-> 2, filesystem_artifact |-> 2,
             network_lag |-> 4, network_fs_chaos |-> 7]

MCNames == <<"a", "b", "c", "d", "e", "f", "g">>

\* An imported movie of two files, and what the chaos of an earlier import left beside it.
MCImported == Movie.scenario

MCReserved ==
    {[dir |-> <<"lib", "import-chaos">>, folder |-> 0, stem |-> <<0, 1, "a", "">>,
      ext |-> <<"", "mkv">>]}

MCScenes == {Series, Absolute, Album, Movie, Subtitled, Doublet, Dotted, Podcast}

\* Where a sidecar is lost only because its media file was moved.
MCOneSubtitle == {Subtitled}
=============================================================================
