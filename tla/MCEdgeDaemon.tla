---------------------------- MODULE MCEdgeDaemon ----------------------------
(***************************************************************************)
(* Small instances of EdgeDaemon.                                          *)
(***************************************************************************)
EXTENDS EdgeDaemon

\* A printer that prints, and may print again.
PrintEdges ==
    {<<"", "printing">>, <<"printing", "complete">>, <<"complete", "printing">>}

\* A printer that pauses, resumes or gives up, and prints again.
PauseEdges ==
    {<<"", "printing">>, <<"printing", "paused">>, <<"paused", "printing">>,
     <<"paused", "complete">>, <<"complete", "printing">>}

AllUploadFailures == UploadFailures
=============================================================================
