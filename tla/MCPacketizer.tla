---------------------------- MODULE MCPacketizer ----------------------------
(***************************************************************************)
(* Small instances of Packetizer.  The states "cancelled" and "error" are  *)
(* left out of both sets of edges: the code treats them like "complete".   *)
(***************************************************************************)
EXTENDS Packetizer

\* What a printer that reports every change goes through.
KlipperEdges ==
    {<<"", "standby">>, <<"", "printing">>, <<"", "paused">>,
     <<"standby", "printing">>, <<"printing", "paused">>, <<"paused", "printing">>,
     <<"printing", "complete">>, <<"paused", "complete">>,
     <<"complete", "standby">>, <<"complete", "printing">>}

\* What the packetizer can see when deltas in between were dropped.
AnyEdges == PrintStates \X {"standby", "printing", "paused", "complete"}

AllFailures == Failures
NoFailures == {}
=============================================================================
