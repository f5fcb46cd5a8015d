---------------------------- MODULE FileContent ----------------------------
(***************************************************************************)
(* What the workflow can tell apart in a file: its text, and how the lines *)
(* of that text end.  FileHash.Compute separates any two contents;         *)
(* FileHash.ComputeNormalizedFile separates two texts and ignores the line *)
(* endings.  Hash collisions are not modelled, so a content stands for its *)
(* own hash.                                                               *)
(***************************************************************************)

CONSTANTS
    Contents,     \* the file contents of an instance: records [text, eol]
    EmptyText,    \* the text of an empty file
    Absent,       \* stands in place of a content where there is no file
    NewFileHash   \* the "<new-file>" baseline hash; equal to no file's hash

\* A file of length zero.
Blank == [text |-> EmptyText, eol |-> "none"]

\* Equal normalized hashes: the texts agree once CRLF and CR are read as LF.
SameText(c, d) == c.text = d.text

\* DetectDominantLineEnding: CRLF wins ties, so "none" and an even mix give CRLF.
DominantLineEnding(c) == IF c.eol = "lf" THEN "lf" ELSE "crlf"

\* NormalizeLineEndingsForFile: every line ending of c becomes eol; a text
\* without line endings is left as it is.
NormalizeLineEndingsForFile(c, eol) ==
    IF c.eol = "none" THEN c ELSE [c EXCEPT !.eol = eol]

\* What WriteCandidateContent writes over `existing` when the caller asks for c:
\* the line endings of a non-empty existing candidate win over those of c.
CandidateText(c, existing) ==
    NormalizeLineEndingsForFile(
        c,
        IF existing \in {Absent, Blank}
        THEN DominantLineEnding(c)
        ELSE DominantLineEnding(existing))

ASSUME ContentAssumption ==
    /\ Blank \in Contents
    /\ Absent \notin Contents
    /\ NewFileHash \notin Contents
    /\ NewFileHash # Absent

\* The instance holds whatever a rewrite of its contents can produce.
ASSUME RewriteAssumption ==
    \A c \in Contents, d \in Contents \cup {Absent} : CandidateText(c, d) \in Contents
=============================================================================
