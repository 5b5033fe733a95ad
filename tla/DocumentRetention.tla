-------------------------- MODULE DocumentRetention --------------------------
(***************************************************************************)
(* What the backend promises about the document of a session: it is kept   *)
(* until a reviewer has decided, the decision is taken once, and a purge    *)
(* that reports completion has left no trace of the document.  A purge that *)
(* could not delete a file ends too, and says that the document was kept.   *)
(* ReviewAndClosure implements this specification.                          *)
(***************************************************************************)

CONSTANTS Decisions,   \* what a reviewer may decide
          Undecided,   \* no decision: not an element of Decisions
          Files,       \* traces on disk
          Columns      \* traces in the database row

VARIABLES phase,       \* "open", "decided", "purging", "purged" or "kept"
          decision,    \* the reviewer's, Undecided before it
          traces       \* what is left of the document and of its contents

vars == <<phase, decision, traces>>

Init ==
    /\ phase = "open"
    /\ decision = Undecided
    /\ traces \in SUBSET (Files \cup Columns)

\* The verification writes what it found in the document into the row.
Collect ==
    /\ phase = "open"
    /\ \E found \in SUBSET Columns : traces' = traces \cup found
    /\ UNCHANGED <<phase, decision>>

Decide(d) ==
    /\ phase = "open"
    /\ phase' = "decided"
    /\ decision' = d
    /\ UNCHANGED traces

StartPurge ==
    /\ phase = "decided"
    /\ phase' = "purging"
    /\ UNCHANGED <<decision, traces>>

Erase ==
    /\ phase = "purging"
    /\ \E gone \in SUBSET Files : traces' = traces \ gone
    /\ UNCHANGED <<phase, decision>>

\* The files are gone: the row is cleared in the step that reports completion.
Complete ==
    /\ phase = "purging"
    /\ traces \cap Files = {}
    /\ phase' = "purged"
    /\ traces' = {}
    /\ UNCHANGED decision

GiveUp ==
    /\ phase = "purging"
    /\ phase' = "kept"
    /\ UNCHANGED <<decision, traces>>

Next ==
    \/ Collect
    \/ \E d \in Decisions : Decide(d)
    \/ StartPurge
    \/ Erase
    \/ Complete
    \/ GiveUp

Spec == Init /\ [][Next]_vars
=============================================================================
