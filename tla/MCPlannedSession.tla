-------------------------- MODULE MCPlannedSession --------------------------
(* A declaration and its caller: they build when both use the same name.   *)
EXTENDS PlannedSession, TLC

CONSTANTS declaration, caller, oldName, newName, c1

MCFiles == {declaration, caller}
MCTexts == {oldName, newName}
MCGoodTrees == {[f \in MCFiles |-> t] : t \in MCTexts}
MCCallers == {c1}

\* GoodTrees is the same with the files or the names exchanged.
MCSymmetry == Permutations(MCFiles) \cup Permutations(MCTexts)
=============================================================================
