----------------------------- MODULE MCCommandLine -----------------------------
(***************************************************************************)
(* The command line over the whole conformance corpus, and over files that *)
(* are no golden.                                                          *)
(***************************************************************************)
EXTENDS CommandLineProps

MCEvidenceIds ==
  {"ev_1", "ev_original", ev_original_control, "ev_empty", "ev_plain", "ev_text_0", "ev_text_2",
   "ev_wide"}
MCAssetIds == {"asset_original", "asset_empty", "short"}
MCBytes == {0, 3, 10, 17, 24, 31}
MCTexts == {"", "we moved the deal", "cleaned", "First cleaned block.", "Not the named text.",
            "No text's digest.", "Third cleaned block.", "Wide block."}

\* A file of a later minor version, one without its trailer, one with a trailer
\* that counts wrong, a second manifest, a read that fails, no lines, no manifest,
\* and a path where there is no file.
Others ==
  [ahead |-> Archive([major |-> 0, minor |-> 9], <<Plain("vertex"), [kind |-> "unknown"]>>),
   truncated |-> SubSeq(originals("None"), 1, 9),
   miscounted |-> Append(SubSeq(basic, 1, 8), [basic[9] EXCEPT !.counts = ZeroCounts]),
   twice |-> Archive(V0, <<manifest(V0)>>),
   io_error |-> SubSeq(basic, 1, 4) \o <<[kind |-> "io_error"]>>,
   no_lines |-> <<>>,
   no_manifest |-> <<[kind |-> "malformed"]>>,
   missing |-> None]

MCContents == Goldens @@ Others
LinesHeld == UNION {Range(MCContents[path]) : path \in {p \in DOMAIN MCContents : MCContents[p] # None}}
MCHeaders == {line \in LinesHeld : line.kind = "header"}
MCLines == {line \in LinesHeld : line.kind \notin {"header", "trailer"}}

Paths == DOMAIN MCContents

\* One file of every outcome, before or after any file, and in threes.
OneOfEach == {"basic", "ahead", "None", "WholeDigest", "truncated", "missing", "major_version"}

MCCommandLines ==
  [command : {"validate", "info"},
   paths : {<<>>} \union {<<p>> : p \in Paths} \union {<<"basic", "basic">>}]
    \union [command : {"validate"}, paths : (Paths \X OneOfEach) \union (OneOfEach \X Paths)]
    \union [command : {"validate"}, paths : OneOfEach \X OneOfEach \X OneOfEach]
    \union [command : {"version"}, paths : {<<>>, <<"basic">>}]
===============================================================================
