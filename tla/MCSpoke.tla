------------------------------ MODULE MCSpoke ------------------------------
(***************************************************************************)
(* A small instance of Spoke.                                              *)
(***************************************************************************)
EXTENDS Spoke

\* A printer that prints, and may print again.
PrintEdges ==
    {<<"", "printing">>, <<"printing", "complete">>, <<"complete", "printing">>}
=============================================================================
