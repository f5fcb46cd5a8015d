--------------------------- MODULE MCEditWorkflow ---------------------------
(* One file: empty, or with one text. *)
EXTENDS EditWorkflow

MCContents ==
    {[text |-> "", eol |-> "none"], [text |-> "x", eol |-> "crlf"]}

\* The same text with both kinds of line endings.
MCContentsEol == MCContents \cup {[text |-> "x", eol |-> "lf"]}

MCPlainDecisions == [word : {"accepted", "rejected"}, padded : {FALSE}]

\* Accept, reject, and a reject with blanks around the word.
MCDecisionTexts == MCPlainDecisions \cup {[word |-> "rejected", padded |-> TRUE]}

\* All but the parity of the operator's saves: no guard reads it, and properties
\* ask only whether a step changes it, so states that differ in it alone are alike.
MCView == <<watched, working, manifest, records, operatorSaved>>
=============================================================================
