-------------------------- MODULE DocumentedClaims --------------------------
(* What the documentation says of the edit workflow and the code does not keep. *)
EXTENDS MCEditWorkflow

\* system-memory/README.md: an accept marks the session "as index-stale until a
\* rebuild succeeds".  RecordDecision sets the flag to whether this decision
\* accepts, so a later reject takes the mark away with no rebuild.
DecisionKeepsStale ==
    [][\A f \in Files :
         manifest[f].open /\ manifest[f].indexStale /\ records' # records
            => manifest'[f].indexStale]_vars
=============================================================================
