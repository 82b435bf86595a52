---------------------------- MODULE MCServerRuntime ----------------------------
(* ServerRuntime on a few request slots.                                    *)
EXTENDS ServerRuntime

MCRequests == Queries \cup Refreshes
==============================================================================
