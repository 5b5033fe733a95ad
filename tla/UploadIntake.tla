----------------------------- MODULE UploadIntake -----------------------------
(***************************************************************************)
(* How a session gets its document: upload tokens, the upload request, the *)
(* files it writes and the row it commits.                                 *)
(*   backend/app/sessions/routes.py          upload-token, upload          *)
(*   backend/app/security/pdf_validator.py   validation, flattening        *)
(*   backend/app/workflow/repository.py      transition_state              *)
(* Requests are served concurrently and any of them may die.  Each upload  *)
(* writes files under names of its own, which are uuids, so a file is known *)
(* by its upload and its part.  What happens to the session afterwards is   *)
(* one action here, and ReviewAndClosure and VerificationExecution in full. *)
(***************************************************************************)
EXTENDS Naturals, SessionStates

CONSTANTS Sessions,
          Tokens,       \* requests for an upload token, and the tokens they issue
          Uploads,      \* upload requests, each served once
          NoSession, NoUpload,   \* NULL
          FlatteningEnabled,     \* PDF_SAFE_FLATTEN_ACTIVE_CONTENT
          MaxFaults     \* bound: requests that die, lose the disk or the database

ASSUME IntakeAssumption ==
    /\ Tokens \cap Uploads = {}
    /\ NoSession \notin Sessions
    /\ NoUpload \notin Uploads
    /\ FlatteningEnabled \in BOOLEAN
    /\ MaxFaults \in Nat

VARIABLES status,       \* of each session
          file_path,    \* of each session: the upload that wrote the file it names
          tokens,       \* the committed rows of session_upload_tokens
          disk,         \* the files of each upload
          pc,           \* where each request is, at the end its answer
          subject,      \* of a token request: its session
          presented,    \* of an upload: the token
          pdf,          \* of an upload: what it sends
          content,      \* of an upload: the bytes it stores, the file's or its copy's
          accepted,     \* of each session: the upload committed for it (history)
          faults        \* faults so far (bound)

sessionVars == <<status, file_path, accepted>>
requestVars == <<pc, subject, presented, pdf, content>>
vars == <<sessionVars, tokens, disk, requestVars, faults>>

-----------------------------------------------------------------------------

\* What validate_pdf_report() tells of a file: size, signature, pages and
\* encryption are in order; it has active or embedded content.
Pdf == [valid : BOOLEAN, active : BOOLEAN]

Parts == {"original", "document", "sidecar"}
Contents == {"none", "partial", "active", "inert"}

Answers == {"ok", "refused", "error"}
Places == {"idle", "opening", "issuing", "quarantining", "storing", "describing",
           "selecting", "updating"} \cup Answers

Token == [session_id : Sessions \cup {NoSession}, is_used : BOOLEAN, expired : BOOLEAN]

TypeOK ==
    /\ status \in [Sessions -> SessionState]
    /\ file_path \in [Sessions -> Uploads \cup {NoUpload}]
    /\ accepted \in [Sessions -> Uploads \cup {NoUpload}]
    /\ tokens \in [Tokens -> Token]
    /\ disk \in [Uploads -> [Parts -> Contents]]
    /\ pc \in [Tokens \cup Uploads -> Places]
    /\ subject \in [Tokens -> Sessions]
    /\ presented \in [Uploads -> Tokens]
    /\ pdf \in [Uploads -> Pdf]
    /\ content \in [Uploads -> {"none", "active", "inert"}]
    /\ faults \in Nat

\* Every session has been created, which is all create_session() does.
Init ==
    /\ status = [s \in Sessions |-> "CREATED"]
    /\ file_path = [s \in Sessions |-> NoUpload]
    /\ accepted = [s \in Sessions |-> NoUpload]
    /\ tokens = [t \in Tokens |->
                    [session_id |-> NoSession, is_used |-> FALSE, expired |-> FALSE]]
    /\ disk = [u \in Uploads |-> [p \in Parts |-> "none"]]
    /\ pc = [r \in Tokens \cup Uploads |-> "idle"]
    /\ subject \in [Tokens -> Sessions]
    /\ presented \in [Uploads -> Tokens]
    /\ pdf \in [Uploads -> Pdf]
    /\ content = [u \in Uploads |-> "none"]
    /\ faults = 0

Goes(r, place) == pc' = [pc EXCEPT ![r] = place]
SessionOf(u) == tokens[presented[u]].session_id

-----------------------------------------------------------------------------
(* POST /sessions/{id}/upload-token                                        *)

\* The status the route reads decides whether it will open the session.
RequestToken(t) ==
    /\ pc[t] = "idle"
    /\ \/ status[subject[t]] = "CREATED" /\ Goes(t, "opening")
       \/ status[subject[t]] = "UPLOAD_PENDING" /\ Goes(t, "issuing")
       \/ /\ status[subject[t]] \notin {"CREATED", "UPLOAD_PENDING"}
          /\ Goes(t, "refused")
    /\ UNCHANGED <<sessionVars, tokens, disk, subject, presented, pdf, content, faults>>

\* The INSERT and the COMMIT of the token.
Issue(t) == tokens' = [tokens EXCEPT ![t].session_id = subject[t]]

\* transition_state() to UPLOAD_PENDING, committed with the token.  A session never
\* returns to CREATED, so its SELECT and its UPDATE together compare with CREATED.
OpenUpload(t) ==
    /\ pc[t] = "opening"
    /\ \/ /\ status[subject[t]] = "CREATED"
          /\ status' = [status EXCEPT ![subject[t]] = "UPLOAD_PENDING"]
          /\ Issue(t)
          /\ Goes(t, "ok")
       \/ /\ status[subject[t]] # "CREATED"
          /\ Goes(t, "error")
          /\ UNCHANGED <<status, tokens>>
    /\ UNCHANGED <<file_path, accepted, disk, subject, presented, pdf, content, faults>>

\* A session read as UPLOAD_PENDING gets one more token, whatever it is by now.
IssueToken(t) ==
    /\ pc[t] = "issuing"
    /\ Issue(t)
    /\ Goes(t, "ok")
    /\ UNCHANGED <<sessionVars, disk, subject, presented, pdf, content, faults>>

\* Ten minutes pass.
TokenExpires(t) ==
    /\ tokens[t].session_id # NoSession
    /\ tokens' = [tokens EXCEPT ![t].expired = TRUE]
    /\ UNCHANGED <<sessionVars, disk, requestVars, faults>>

-----------------------------------------------------------------------------
(* POST /upload                                                            *)

\* The token may be uploaded with, as far as its SELECT tells.
Usable(t) ==
    tokens[t].session_id # NoSession /\ ~tokens[t].is_used /\ ~tokens[t].expired

Stored(u, bytes) == content' = [content EXCEPT ![u] = bytes]

\* The checks of the token and of the file.  make_image_only_pdf() replaces a file
\* with active content by images of its pages, and validates the bytes of the copy
\* as strictly as those of a file that needs none: they may be refused, or not made.
ReceiveUpload(u) ==
    /\ pc[u] = "idle"
    /\ \/ /\ Usable(presented[u]) /\ pdf[u].valid /\ ~pdf[u].active
          /\ Stored(u, "inert")
          /\ Goes(u, "storing")
       \/ /\ Usable(presented[u]) /\ pdf[u].valid /\ pdf[u].active
          /\ FlatteningEnabled
          /\ \E copy \in {"active", "inert"} :
                /\ Stored(u, copy)
                /\ Goes(u, IF copy = "inert" THEN "quarantining" ELSE "refused")
       \/ /\ ~Usable(presented[u]) \/ ~pdf[u].valid \/ pdf[u].active
          /\ Goes(u, "refused")
          /\ UNCHANGED content
    /\ UNCHANGED <<sessionVars, tokens, disk, subject, presented, pdf, faults>>

Write(u, part, bytes) == disk' = [disk EXCEPT ![u][part] = bytes]

QuarantineOriginal(u) ==
    /\ pc[u] = "quarantining"
    /\ Write(u, "original", "active")
    /\ Goes(u, "storing")
    /\ UNCHANGED <<sessionVars, tokens, subject, presented, pdf, content, faults>>

StoreDocument(u) ==
    /\ pc[u] = "storing"
    /\ Write(u, "document", content[u])
    /\ Goes(u, IF pdf[u].active THEN "describing" ELSE "selecting")
    /\ UNCHANGED <<sessionVars, tokens, subject, presented, pdf, content, faults>>

\* write_pdf_security_sidecar(): it names the original.
WriteSidecar(u) ==
    /\ pc[u] = "describing"
    /\ Write(u, "sidecar", "inert")
    /\ Goes(u, "selecting")
    /\ UNCHANGED <<sessionVars, tokens, subject, presented, pdf, content, faults>>

\* The SELECT of transition_state().
SelectStatus(u) ==
    /\ pc[u] = "selecting"
    /\ Goes(u, IF ValidTransition(status[SessionOf(u)], "UPLOADED_PENDING_REVIEW")
               THEN "updating" ELSE "error")
    /\ UNCHANGED <<sessionVars, tokens, disk, subject, presented, pdf, content, faults>>

\* The values of the UPDATE, and the token the COMMIT flushes.
Accept(u) ==
    /\ status' = [status EXCEPT ![SessionOf(u)] = "UPLOADED_PENDING_REVIEW"]
    /\ file_path' = [file_path EXCEPT ![SessionOf(u)] = u]
    /\ accepted' = [accepted EXCEPT ![SessionOf(u)] = u]
    /\ tokens' = [tokens EXCEPT ![presented[u]].is_used = TRUE]

\* Mutant: the UPDATE does not compare the status again.
UpdateSessionUnguarded(u) ==
    /\ pc[u] = "updating"
    /\ Accept(u)
    /\ Goes(u, "ok")
    /\ UNCHANGED <<disk, subject, presented, pdf, content, faults>>

\* Mutant: a conflict is not an error.
UpdateSessionIgnoringConflicts(u) ==
    /\ pc[u] = "updating"
    /\ \/ /\ status[SessionOf(u)] = "UPLOAD_PENDING"
          /\ Accept(u)
       \/ /\ status[SessionOf(u)] # "UPLOAD_PENDING"
          /\ UNCHANGED <<sessionVars, tokens>>
    /\ Goes(u, "ok")
    /\ UNCHANGED <<disk, subject, presented, pdf, content, faults>>

\* The UPDATE of transition_state() and the COMMIT: of the uploads that have seen
\* UPLOAD_PENDING one still finds it.
UpdateSession(u) ==
    /\ pc[u] = "updating"
    /\ \/ /\ status[SessionOf(u)] = "UPLOAD_PENDING"
          /\ Accept(u)
          /\ Goes(u, "ok")
       \/ /\ status[SessionOf(u)] # "UPLOAD_PENDING"
          /\ Goes(u, "error")
          /\ UNCHANGED <<sessionVars, tokens>>
    /\ UNCHANGED <<disk, subject, presented, pdf, content, faults>>

-----------------------------------------------------------------------------
(* Faults, and the rest of the session's life                              *)

\* The part an upload is writing.
Writing ==
    [quarantining |-> "original", storing |-> "document", describing |-> "sidecar"]

\* An upload dies or fails.  A file it was writing may stay in part; an UPDATE may
\* have been committed, and only the answer is lost.
UploadFails(u) ==
    /\ faults < MaxFaults
    /\ faults' = faults + 1
    /\ Goes(u, "error")
    /\ \/ /\ pc[u] \in DOMAIN Writing
          /\ Write(u, Writing[pc[u]], "partial")
          /\ UNCHANGED <<sessionVars, tokens>>
       \/ /\ pc[u] \in {"selecting", "updating"} \cup DOMAIN Writing
          /\ UNCHANGED <<sessionVars, tokens, disk>>
       \/ /\ pc[u] = "updating"
          /\ status[SessionOf(u)] = "UPLOAD_PENDING"
          /\ Accept(u)
          /\ UNCHANGED disk
    /\ UNCHANGED <<subject, presented, pdf, content>>

\* A token request does: before its COMMIT, or after it.
TokenRequestFails(t) ==
    /\ faults < MaxFaults
    /\ faults' = faults + 1
    /\ Goes(t, "error")
    /\ \/ /\ pc[t] \in {"opening", "issuing"}
          /\ UNCHANGED <<status, tokens>>
       \/ /\ pc[t] = "opening" /\ status[subject[t]] = "CREATED"
          /\ status' = [status EXCEPT ![subject[t]] = "UPLOAD_PENDING"]
          /\ Issue(t)
       \/ /\ pc[t] = "issuing"
          /\ Issue(t)
          /\ UNCHANGED status
    /\ UNCHANGED <<file_path, accepted, disk, subject, presented, pdf, content>>

\* Verification, review and closure move an uploaded session on.
Proceed(s, new) ==
    /\ status[s] \notin {"CREATED", "UPLOAD_PENDING"}
    /\ new # "PURGE_COMPLETE"
    /\ ValidTransition(status[s], new)
    /\ status' = [status EXCEPT ![s] = new]
    /\ UNCHANGED <<file_path, accepted, tokens, disk, requestVars, faults>>

\* The parts that close_session() deletes before this one.
DeletedBefore ==
    [original |-> {}, sidecar |-> {"original"}, document |-> {"original", "sidecar"}]

\* Mutant: the sidecar goes before the original it names.
DeletePartSidecarFirst(s, part) ==
    /\ status[s] = "PENDING_CLEANUP"
    /\ disk[file_path[s]][part] # "none"
    /\ part = "document" => disk[file_path[s]]["sidecar"] = "none"
    /\ Write(file_path[s], part, "none")
    /\ UNCHANGED <<sessionVars, tokens, requestVars, faults>>

\* close_session() deletes the file the row names, after the original that the sidecar
\* beside it names and the sidecar: a file at a time, while the row still names it.
DeletePart(s, part) ==
    /\ status[s] = "PENDING_CLEANUP"
    /\ disk[file_path[s]][part] # "none"
    /\ \A earlier \in DeletedBefore[part] : disk[file_path[s]][earlier] = "none"
    /\ Write(file_path[s], part, "none")
    /\ UNCHANGED <<sessionVars, tokens, requestVars, faults>>

\* Its last commit forgets the file.  A purge that fails is a Proceed to FAILED_PURGED,
\* and one that died leaves PENDING_CLEANUP: the row goes on naming the file.
Purge(s) ==
    /\ status[s] = "PENDING_CLEANUP"
    /\ disk[file_path[s]] = [p \in Parts |-> "none"]
    /\ status' = [status EXCEPT ![s] = "PURGE_COMPLETE"]
    /\ file_path' = [file_path EXCEPT ![s] = NoUpload]
    /\ UNCHANGED <<accepted, tokens, disk, requestVars, faults>>

-----------------------------------------------------------------------------

ServeTokenRequest(t) == RequestToken(t) \/ OpenUpload(t) \/ IssueToken(t)

ServeUpload(u) ==
    \/ ReceiveUpload(u) \/ QuarantineOriginal(u) \/ StoreDocument(u) \/ WriteSidecar(u)
    \/ SelectStatus(u) \/ UpdateSession(u)

Next ==
    \/ \E t \in Tokens : ServeTokenRequest(t) \/ TokenRequestFails(t) \/ TokenExpires(t)
    \/ \E u \in Uploads : ServeUpload(u) \/ UploadFails(u)
    \/ \E s \in Sessions, new \in SessionState : Proceed(s, new)
    \/ \E s \in Sessions, part \in Parts : DeletePart(s, part)
    \/ \E s \in Sessions : Purge(s)

Spec == Init /\ [][Next]_vars

-----------------------------------------------------------------------------
(* Properties                                                              *)

\* However many tokens a session has and uploads present them, one is accepted: its
\* token alone is used, and only once the session has left UPLOAD_PENDING.
OneUploadAccepted ==
    /\ \A s \in Sessions :
          accepted[s] = NoUpload <=> status[s] \in {"CREATED", "UPLOAD_PENDING"}
    /\ \A t \in Tokens : tokens[t].is_used =>
          accepted[tokens[t].session_id] \in {u \in Uploads : presented[u] = t}
    /\ \A t, v \in Tokens :
          /\ tokens[t].is_used /\ tokens[v].is_used
          /\ tokens[t].session_id = tokens[v].session_id
          => t = v

\* The document of an upload is on disk and inert; one that was flattened has its
\* original and the sidecar beside it.
Whole(u) ==
    /\ disk[u]["document"] = "inert"
    /\ pdf[u].active => disk[u]["original"] = "active" /\ disk[u]["sidecar"] = "inert"

\* Until its purge begins a session names a document that is whole, and never one with
\* active content; and wherever a purge fails or dies, what is left of the document can
\* still be found: the row names the file, and the sidecar beside it the original.
DocumentWhole ==
    \A s \in Sessions : accepted[s] # NoUpload =>
        LET u == accepted[s]
        IN  /\ status[s] \notin {"PENDING_CLEANUP", "PURGE_COMPLETE", "FAILED_PURGED"} =>
                  file_path[s] = u /\ Whole(u)
            /\ file_path[s] # u => disk[u] = [p \in Parts |-> "none"]
            /\ disk[u]["original"] # "none" => disk[u]["sidecar"] = "inert"

\* An upload answered with 200 is the one the session was given, and one refused by a
\* check left nothing on disk and nothing in the row.
UploadAnswersTruthful ==
    \A u \in Uploads :
        /\ pc[u] = "ok" => accepted[SessionOf(u)] = u
        /\ pc[u] = "refused" =>
              /\ disk[u] = [p \in Parts |-> "none"]
              /\ \A s \in Sessions : accepted[s] # u

\* A session goes through its states as the table says: no token request or upload
\* that read it earlier reopens it, and its document is never replaced: a file goes
\* only while it is in cleanup, and its name only when that is complete.
NeverReopened ==
    [][\A s \in Sessions :
          /\ status'[s] # status[s] => ValidTransition(status[s], status'[s])
          /\ accepted[s] # NoUpload => accepted'[s] = accepted[s]
          /\ file_path[s] # NoUpload =>
                /\ file_path'[s] = file_path[s] \/ status'[s] = "PURGE_COMPLETE"
                /\ \A part \in Parts :
                      \/ disk'[file_path[s]][part] = disk[file_path[s]][part]
                      \/ status[s] = "PENDING_CLEANUP" /\ disk'[file_path[s]][part] = "none"]_vars

=============================================================================
