--------------------------- MODULE MCRunPipeline ---------------------------
(* Instance of RunPipeline for TLC. *)
EXTENDS RunPipeline

\* One dataset in the middle has no file.
McDatasets == <<"aime24", "absent", "amobench">>
McAvailable == {"aime24", "amobench"}

McLongest == {1, 2}

\* What a launch may be given as DATA_PATH.
McDataPaths == {"given"}

\* A limit of one drops the longer prompts, zero switches the filter off; a
\* launch with DATA_PATH generates nothing, so its limits make no difference.
McEnvs ==
    [path : {""}, base : {0, 1}, rewrite : {1}, merge : {TRUE}, eval : {TRUE}]
      \cup [path : McDataPaths, base : {1}, rewrite : {1}, merge : {TRUE}, eval : {FALSE}]
      \cup [path : McDataPaths, base : {1}, rewrite : {1}, merge : {FALSE}, eval : {TRUE}]
=============================================================================
