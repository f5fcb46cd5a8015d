----------------------------- MODULE MCLogPipe -----------------------------
(* Two clients, one of which may find the pipe busy with its last entry, and *)
(* a thread of the app.                                                      *)
EXTENDS LogPipe, TLC

CONSTANTS c1, c2, t1

MCMaxEntries == c1 :> 2 @@ c2 :> 1 @@ t1 :> 1
=============================================================================
