--------------------------- MODULE MCIndexRefresh ---------------------------
(* A library with one or two files, and an application that uses one of them. *)
EXTENDS IndexRefresh, TLC

CONSTANTS a, x, b, Lib, App, s1, s2, c1, c2

MCFiles == {a, x, b}
MCTwoFiles == {a, b}
MCProjects == {Lib, App}
MCSessions == {s1, s2}
MCOwner == [f \in Files |-> IF f = b THEN App ELSE Lib]
MCUses == [p \in MCProjects |-> IF p = App THEN {a} ELSE {}]

\* One session edits a file of each project, the other the rest of the library.
MCPlannedAcross == [s \in Sessions |-> Files \cap IF s = s1 THEN {a, b} ELSE {x}]

\* One session edits the library, the other the application.
MCPlannedApart == [s \in Sessions |-> IF s = s1 THEN {a, x} ELSE {b}]

MCDeclared == [s \in Sessions |-> MCOwner]

\* The project file that the plan names for b is not there.
MCDeclaredInPart == [s \in Sessions |-> [f \in Files |-> IF f = b THEN NoProject ELSE Lib]]

\* Every project opens, or none does, or the library does not.
MCLoads == {{}, MCProjects}
MCLoadsInPart == MCLoads \cup {{App}}

MCCallers == {c1, c2}
MCSymmetry == Permutations(MCCallers)
=============================================================================
