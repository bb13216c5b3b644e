---------------------------- MODULE MCAsyncLogger ----------------------------
(* AsyncLogger with buffers of three bytes and messages of one and of two, *)
(* batches that are cut when they are longer than two, and days of two     *)
(* seconds; LogStream with lines of forty bytes, each before the logger is *)
(* started.                                                                *)
EXTENDS AsyncLogger, LogStream

MCInit == Init /\ InputInit

MCNext ==
  \/ Formatted /\ UNCHANGED vars
  \/ input = Nothing /\ UNCHANGED input /\ Next

MCSpec == MCInit /\ [][MCNext]_<<vars, input>> /\ Fairness
=============================================================================
