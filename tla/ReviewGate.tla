----------------------------- MODULE ReviewGate -----------------------------
(***************************************************************************)
(* What the edit workflow promises the person who reviews: source code     *)
(* changes only by that person's hand (a blank placeholder aside), every   *)
(* file has at most one proposal open for review, and a proposal is        *)
(* approved only after it was validated and shown, while the source holds  *)
(* its text.  What was approved or closed stays so.                        *)
(*                                                                         *)
(* The parity of the reviewer's writes tells them from the workflow's: a   *)
(* step that leaves it alone is not the reviewer's, whatever it does.      *)
(* An action says what a step may do to a proposal, not how it comes       *)
(* about, so it names the values of the next state.                        *)
(***************************************************************************)
EXTENDS FileContent

CONSTANTS
    Files,   \* the watched source files
    Ids      \* identifiers of proposals

VARIABLES
    source,      \* file |-> its content, or Absent
    saves,       \* history: parity of the number of times the reviewer wrote a file
    proposals    \* id |-> proposal

Unused == [phase |-> "none"]

Proposal == [phase : {"open", "approved", "closed"}, file : Files,
             content : Contents, isNew : BOOLEAN, ready : BOOLEAN]

IsOpen(i) == proposals[i].phase = "open"

FileOf(i) == proposals[i].file

Init ==
    /\ source \in [Files -> Contents \cup {Absent}]
    /\ saves = FALSE
    /\ proposals = [i \in Ids |-> Unused]

\* A new candidate closes the one that was open for the same file.
Propose(i) ==
    /\ proposals[i].phase = "none"
    /\ UNCHANGED <<source, saves>>
    /\ proposals'[i] \in Proposal
    /\ proposals'[i].phase = "open"
    /\ ~proposals'[i].ready
    /\ IF proposals'[i].isNew
       THEN source[FileOf(i)'] = Absent
       ELSE source[FileOf(i)'] \notin {Absent, proposals'[i].content}
    /\ proposals' =
         [j \in Ids |->
            IF j = i THEN proposals'[i]
            ELSE IF IsOpen(j) /\ FileOf(j) = FileOf(i)'
            THEN [proposals[j] EXCEPT !.phase = "closed"]
            ELSE proposals[j]]

\* The outcome of validating and showing an open proposal.
Review(i) ==
    /\ UNCHANGED <<source, saves>>
    /\ proposals' = [proposals EXCEPT ![i].ready = ~@]

\* A new file is reviewed against a blank file that is put in its place.
ShowPlaceholder(i) ==
    /\ UNCHANGED <<saves, proposals>>
    /\ proposals[i].isNew
    /\ source[FileOf(i)] = Absent
    /\ source' = [source EXCEPT ![FileOf(i)] = Blank]

Approve(i) ==
    /\ UNCHANGED <<source, saves>>
    /\ proposals[i].ready
    /\ source[FileOf(i)] # Absent
    /\ SameText(source[FileOf(i)], proposals[i].content)
    /\ proposals' = [proposals EXCEPT ![i].phase = "approved"]

\* Closing the proposal of a new file may take its blank placeholder away.
Close(i) ==
    /\ UNCHANGED saves
    /\ proposals' = [proposals EXCEPT ![i].phase = "closed"]
    /\ \/ UNCHANGED source
       \/ /\ proposals[i].isNew
          /\ source[FileOf(i)] = Blank
          /\ source' = [source EXCEPT ![FileOf(i)] = Absent]

ReviewerWrites(f) ==
    /\ saves' = ~saves
    /\ UNCHANGED proposals
    /\ source'[f] \in Contents \cup {Absent}
    /\ source' = [source EXCEPT ![f] = source'[f]]

Next ==
    \/ \E f \in Files : ReviewerWrites(f)
    \/ \E i \in Ids :
         /\ IsOpen(i)
         /\ ShowPlaceholder(i) \/ Review(i) \/ Approve(i) \/ Close(i)
    \/ \E i \in Ids : Propose(i)

Spec == Init /\ [][Next]_<<source, saves, proposals>>
=============================================================================
