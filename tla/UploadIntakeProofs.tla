-------------------------- MODULE UploadIntakeProofs --------------------------
(***************************************************************************)
(* Proofs about UploadIntake, for any number of sessions, tokens, uploads   *)
(* and faults: its type invariant, that one upload of a session is accepted, *)
(* that the row names whole documents only, that answers are truthful, and   *)
(* that no session is reopened.                                             *)
(*                                                                          *)
(* The inductive invariant IntakeInv follows an upload through its writes:   *)
(* at each place it says which of its files are whole, so that they all are *)
(* when the row comes to name them; that an accepted upload has ended, so    *)
(* that nothing writes to its files any more; and that the row names them    *)
(* until a purge has deleted them all.                                      *)
(***************************************************************************)
EXTENDS UploadIntake, TLAPS

-----------------------------------------------------------------------------
(* The inductive invariant                                                 *)

Serving == {"quarantining", "storing", "describing", "selecting", "updating"}

\* A token is of the session it was requested for, and used by the accepted upload.
TokenOK(t) ==
    /\ tokens[t].session_id \in {NoSession, subject[t]}
    /\ tokens[t].is_used =>
          /\ tokens[t].session_id # NoSession
          /\ accepted[tokens[t].session_id] \in {u \in Uploads : presented[u] = t}

UploadOK(u) ==
    /\ pc[u] \in Serving \cup {"ok"} => SessionOf(u) \in Sessions
    /\ pc[u] \in Serving => content[u] = "inert"
    /\ pc[u] \in {"idle", "refused"} => disk[u] = [p \in Parts |-> "none"]
    /\ pc[u] \in {"quarantining", "describing"} => pdf[u].active
    /\ ~pdf[u].active => disk[u]["original"] = "none"
    /\ pdf[u].active =>
          /\ pc[u] \in Serving \ {"quarantining"} => disk[u]["original"] = "active"
          /\ pc[u] \in {"selecting", "updating"} => disk[u]["sidecar"] = "inert"
    /\ pc[u] \in {"describing", "selecting", "updating"} => disk[u]["document"] = "inert"
    /\ pc[u] = "ok" => accepted[SessionOf(u)] = u

\* The document of a session that has one, from its upload to the end of its purge.
DocumentOK(s) ==
    /\ status[s] # "PURGE_COMPLETE" => file_path[s] = accepted[s]
    /\ status[s] \notin {"PENDING_CLEANUP", "PURGE_COMPLETE", "FAILED_PURGED"} =>
          Whole(accepted[s])
    /\ file_path[s] # accepted[s] => disk[accepted[s]] = [p \in Parts |-> "none"]
    /\ disk[accepted[s]]["original"] # "none" => disk[accepted[s]]["sidecar"] = "inert"

SessionOK(s) ==
    /\ accepted[s] = NoUpload <=> status[s] \in {"CREATED", "UPLOAD_PENDING"}
    /\ accepted[s] # NoUpload =>
          /\ pc[accepted[s]] \in {"ok", "error"} /\ SessionOf(accepted[s]) = s
          /\ DocumentOK(s)
    /\ file_path[s] # NoUpload => file_path[s] = accepted[s]

IntakeInv ==
    /\ TypeOK
    /\ \A t \in Tokens : TokenOK(t)
    /\ \A u \in Uploads : UploadOK(u)
    /\ \A s \in Sessions : SessionOK(s)

-----------------------------------------------------------------------------
(* Types                                                                   *)

\* A request goes on, and no other moves.
LEMMA Moves ==
  ASSUME TypeOK, NEW r \in Tokens \cup Uploads, NEW place \in Places, Goes(r, place)
  PROVE  /\ pc' \in [Tokens \cup Uploads -> Places]
         /\ pc'[r] = place
         /\ \A x \in Tokens \cup Uploads : x # r => pc'[x] = pc[x]
  BY DEF TypeOK, Goes

\* The INSERT of a token.
LEMMA TokenIssued ==
  ASSUME TypeOK, NEW t \in Tokens, Issue(t)
  PROVE  /\ tokens' \in [Tokens -> Token]
         /\ tokens'[t].session_id = subject[t]
         /\ tokens'[t].is_used = tokens[t].is_used
         /\ \A v \in Tokens : v # t => tokens'[v] = tokens[v]
  BY DEF TypeOK, Issue, Token

\* A file is written.
LEMMA FileWritten ==
  ASSUME TypeOK, NEW u \in Uploads, NEW part \in Parts, NEW bytes \in Contents,
         Write(u, part, bytes)
  PROVE  /\ disk' \in [Uploads -> [Parts -> Contents]]
         /\ disk'[u][part] = bytes
         /\ \A p \in Parts : p # part => disk'[u][p] = disk[u][p]
         /\ \A v \in Uploads : v # u => disk'[v] = disk[v]
  BY DEF TypeOK, Write

\* The transaction of an accepted upload.
LEMMA UploadAccepted ==
  ASSUME TypeOK, NEW u \in Uploads, SessionOf(u) \in Sessions, Accept(u)
  PROVE  /\ status' \in [Sessions -> SessionState]
         /\ file_path' \in [Sessions -> Uploads \cup {NoUpload}]
         /\ accepted' \in [Sessions -> Uploads \cup {NoUpload}]
         /\ tokens' \in [Tokens -> Token]
         /\ status'[SessionOf(u)] = "UPLOADED_PENDING_REVIEW"
         /\ file_path'[SessionOf(u)] = u
         /\ accepted'[SessionOf(u)] = u
         /\ \A s \in Sessions : s # SessionOf(u) =>
               status'[s] = status[s] /\ file_path'[s] = file_path[s] /\ accepted'[s] = accepted[s]
         /\ \A t \in Tokens : tokens'[t].session_id = tokens[t].session_id
         /\ tokens'[presented[u]].is_used
         /\ \A t \in Tokens : t # presented[u] => tokens'[t] = tokens[t]
<1>1. presented[u] \in Tokens
  BY DEF TypeOK
<1>2. "UPLOADED_PENDING_REVIEW" \in SessionState
  BY DEF SessionState
<1> QED
  BY <1>1, <1>2 DEF TypeOK, Accept, Token

-----------------------------------------------------------------------------
(* What a step has to show                                                 *)

\* A step of a token request: no upload or accepted document is touched.
LEMMA TokenFrame ==
  ASSUME IntakeInv, IntakeAssumption, TypeOK',
         UNCHANGED <<file_path, accepted, disk, subject, presented, pdf, content>>,
         \A u \in Uploads : pc'[u] = pc[u],
         \A t \in Tokens :
            /\ tokens'[t].is_used = tokens[t].is_used
            /\ \/ tokens'[t].session_id = tokens[t].session_id
               \/ tokens'[t].session_id = subject[t],
         \A s \in Sessions :
            \/ status'[s] = status[s]
            \/ status[s] = "CREATED" /\ status'[s] = "UPLOAD_PENDING"
  PROVE  IntakeInv'
<1>1. \A t \in Tokens :
         tokens[t].session_id # NoSession => tokens'[t].session_id = tokens[t].session_id
  BY DEF IntakeInv, TokenOK
<1>2. \A u \in Uploads : presented[u] \in Tokens /\ presented'[u] = presented[u]
  BY DEF IntakeInv, TypeOK
<1>3. \A t \in Tokens : TokenOK(t)'
  <2> SUFFICES ASSUME NEW t \in Tokens PROVE TokenOK(t)'
    OBVIOUS
  <2>1. TokenOK(t)
    BY DEF IntakeInv
  <2>2. tokens'[t].session_id \in {NoSession, subject'[t]}
    BY <2>1 DEF TokenOK
  <2> QED
    BY <1>1, <2>1, <2>2 DEF TokenOK
<1>4. \A u \in Uploads : SessionOf(u) \in Sessions => SessionOf(u)' = SessionOf(u)
  BY <1>1, <1>2 DEF SessionOf, IntakeAssumption
<1>5. \A u \in Uploads : UploadOK(u)'
  <2> SUFFICES ASSUME NEW u \in Uploads PROVE UploadOK(u)'
    OBVIOUS
  <2>1. UploadOK(u)
    BY DEF IntakeInv
  <2> QED
    BY <1>4, <2>1 DEF UploadOK
<1>6. \A s \in Sessions : SessionOK(s)'
  <2> SUFFICES ASSUME NEW s \in Sessions PROVE SessionOK(s)'
    OBVIOUS
  <2>1. SessionOK(s) /\ accepted[s] \in Uploads \cup {NoUpload}
    BY DEF IntakeInv, TypeOK
  <2>2. (accepted[s] = NoUpload <=> status[s] \in {"CREATED", "UPLOAD_PENDING"})'
    BY <2>1 DEF SessionOK
  <2>3. (accepted[s] # NoUpload =>
            pc[accepted[s]] \in {"ok", "error"} /\ SessionOf(accepted[s]) = s)'
    BY <1>4, <2>1 DEF SessionOK
  <2>4. (file_path[s] # NoUpload => file_path[s] = accepted[s])'
    BY <2>1 DEF SessionOK
  <2>5. (accepted[s] # NoUpload => DocumentOK(s))'
    BY <2>1 DEF SessionOK, DocumentOK, Whole
  <2> QED
    BY <2>2, <2>3, <2>4, <2>5 DEF SessionOK
<1> QED
  BY <1>3, <1>5, <1>6 DEF IntakeInv

\* A step of an upload that has not been accepted: only its own files are written.
LEMMA UploadFrame ==
  ASSUME IntakeInv, IntakeAssumption, TypeOK', NEW u \in Uploads,
         pc[u] \in {"idle"} \cup Serving,
         UNCHANGED <<sessionVars, tokens, subject, presented, pdf>>,
         \A v \in Uploads : v # u =>
            pc'[v] = pc[v] /\ disk'[v] = disk[v] /\ content'[v] = content[v],
         UploadOK(u)'
  PROVE  IntakeInv'
<1>1. \A t \in Tokens : TokenOK(t)'
  BY DEF IntakeInv, TokenOK, sessionVars
<1>2. \A v \in Uploads : UploadOK(v)'
  <2> SUFFICES ASSUME NEW v \in Uploads, v # u PROVE UploadOK(v)'
    OBVIOUS
  <2>1. UploadOK(v)
    BY DEF IntakeInv
  <2> QED
    BY <2>1 DEF UploadOK, SessionOf, sessionVars
<1>3. \A s \in Sessions : SessionOK(s)'
  <2> SUFFICES ASSUME NEW s \in Sessions PROVE SessionOK(s)'
    OBVIOUS
  <2>1. SessionOK(s) /\ accepted[s] \in Uploads \cup {NoUpload}
    BY DEF IntakeInv, TypeOK
  <2>2. accepted[s] # u
    BY <2>1 DEF SessionOK, Serving, IntakeAssumption, IntakeInv, TypeOK
  <2> QED
    BY <2>1, <2>2 DEF SessionOK, DocumentOK, Whole, SessionOf, sessionVars
<1> QED
  BY <1>1, <1>2, <1>3 DEF IntakeInv

\* The step that accepts an upload: the session was not given a document before.
LEMMA AcceptFrame ==
  ASSUME IntakeInv, IntakeAssumption, NEW u \in Uploads, NEW place \in {"ok", "error"},
         pc[u] = "updating", status[SessionOf(u)] = "UPLOAD_PENDING",
         Accept(u), Goes(u, place),
         UNCHANGED <<disk, subject, presented, pdf, content>>, faults' \in Nat
  PROVE  IntakeInv'
<1> DEFINE s0 == SessionOf(u)
<1>1. s0 \in Sessions /\ Whole(u) /\ UploadOK(u) /\ TypeOK
  BY DEF IntakeInv, UploadOK, Serving, Whole
<1>2. /\ pc' \in [Tokens \cup Uploads -> Places]
      /\ pc'[u] = place
      /\ \A x \in Tokens \cup Uploads : x # u => pc'[x] = pc[x]
  BY <1>1, Moves DEF Places, Answers
<1>3. TypeOK'
  BY <1>1, <1>2, UploadAccepted DEF TypeOK
<1>4. accepted[s0] = NoUpload
  BY <1>1 DEF IntakeInv, SessionOK
<1>5. \A v \in Uploads : SessionOf(v)' = SessionOf(v)
  BY <1>1, UploadAccepted DEF SessionOf, TypeOK
<1>6. \A t \in Tokens : TokenOK(t)'
  <2> SUFFICES ASSUME NEW t \in Tokens PROVE TokenOK(t)'
    OBVIOUS
  <2>1. TokenOK(t)
    BY DEF IntakeInv
  <2>2. tokens'[t].session_id = tokens[t].session_id
    BY <1>1, UploadAccepted
  <2>3. CASE t = presented[u]
    <3>1. tokens'[t].session_id = s0
      BY <2>2, <2>3 DEF SessionOf
    <3>2. accepted'[s0] = u
      BY <1>1, UploadAccepted
    <3>3. s0 # NoSession
      BY <1>1 DEF IntakeAssumption
    <3> QED
      BY <2>1, <2>2, <2>3, <3>1, <3>2, <3>3 DEF TokenOK
  <2>4. CASE t # presented[u]
    <3>1. tokens'[t] = tokens[t]
      BY <1>1, <2>4, UploadAccepted
    <3>2. tokens[t].is_used => tokens[t].session_id \in Sessions /\ tokens[t].session_id # s0
      BY <1>1, <1>4, <2>1 DEF TokenOK, TypeOK, Token, IntakeAssumption
    <3>3. tokens[t].is_used => accepted'[tokens[t].session_id] = accepted[tokens[t].session_id]
      BY <1>1, <3>2, UploadAccepted
    <3> QED
      BY <2>1, <3>1, <3>3 DEF TokenOK
  <2> QED
    BY <2>3, <2>4
<1>7. \A v \in Uploads : UploadOK(v)'
  <2> SUFFICES ASSUME NEW v \in Uploads PROVE UploadOK(v)'
    OBVIOUS
  <2>1. UploadOK(v)
    BY DEF IntakeInv
  <2>2. CASE v = u
    BY <1>1, <1>2, <1>5, <2>2, UploadAccepted DEF UploadOK, Serving
  <2>3. CASE v # u
    <3>1. pc'[v] = pc[v]
      BY <1>2, <2>3
    <3>2. pc[v] = "ok" => SessionOf(v) # s0 /\ SessionOf(v) \in Sessions
      BY <1>4, <2>1 DEF UploadOK, IntakeAssumption
    <3>3. pc[v] = "ok" => accepted'[SessionOf(v)] = accepted[SessionOf(v)]
      BY <1>1, <3>2, UploadAccepted
    <3> QED
      BY <1>5, <2>1, <3>1, <3>3 DEF UploadOK
  <2> QED
    BY <2>2, <2>3
<1>8. \A s \in Sessions : SessionOK(s)'
  <2> SUFFICES ASSUME NEW s \in Sessions PROVE SessionOK(s)'
    OBVIOUS
  <2>1. SessionOK(s) /\ accepted[s] \in Uploads \cup {NoUpload}
    BY DEF IntakeInv, TypeOK
  <2>2. CASE s = s0
    <3>1. /\ status'[s] = "UPLOADED_PENDING_REVIEW"
          /\ file_path'[s] = u
          /\ accepted'[s] = u
      BY <1>1, <2>2, UploadAccepted
    <3>2. Whole(u)' /\ u # NoUpload
      BY <1>1 DEF Whole, IntakeAssumption
    <3>3. disk'[u]["original"] # "none" => disk'[u]["sidecar"] = "inert"
      BY <1>1 DEF Whole, UploadOK
    <3>4. DocumentOK(s)'
      BY <3>1, <3>2, <3>3 DEF DocumentOK
    <3> QED
      BY <1>2, <1>5, <2>2, <3>1, <3>2, <3>4 DEF SessionOK
  <2>3. CASE s # s0
    <3>1. status'[s] = status[s] /\ file_path'[s] = file_path[s] /\ accepted'[s] = accepted[s]
      BY <1>1, <2>3, UploadAccepted
    <3>2. accepted[s] # u
      BY <2>1, <2>3 DEF SessionOK, IntakeAssumption
    <3>3. accepted[s] # NoUpload => pc'[accepted[s]] = pc[accepted[s]]
      BY <1>2, <2>1, <3>2
    <3> QED
      BY <1>5, <2>1, <3>1, <3>3 DEF SessionOK, DocumentOK, Whole
  <2> QED
    BY <2>2, <2>3
<1> QED
  BY <1>3, <1>6, <1>7, <1>8 DEF IntakeInv

-----------------------------------------------------------------------------
(* The steps                                                               *)

LEMMA TokenSteps ==
  ASSUME IntakeInv, IntakeAssumption, NEW t \in Tokens,
         ServeTokenRequest(t) \/ TokenRequestFails(t) \/ TokenExpires(t)
  PROVE  IntakeInv'
<1> USE DEF IntakeInv
<1>1. \A u \in Uploads : u # t
  BY DEF IntakeAssumption
<1>2. subject[t] \in Sessions /\ "UPLOAD_PENDING" \in SessionState
  BY DEF TypeOK, SessionState
<1>3. CASE RequestToken(t)
  <2>1. PICK place \in {"opening", "issuing", "refused"} : Goes(t, place)
    BY <1>3 DEF RequestToken
  <2>2. pc' \in [Tokens \cup Uploads -> Places] /\ \A u \in Uploads : pc'[u] = pc[u]
    BY <1>1, <2>1, Moves DEF Places, Answers
  <2>3. TypeOK'
    BY <1>3, <2>2 DEF RequestToken, TypeOK, sessionVars
  <2> QED
    BY <1>3, <2>2, <2>3, TokenFrame DEF RequestToken, sessionVars
<1>4. CASE /\ pc[t] = "opening" /\ status[subject[t]] = "CREATED"
           /\ status' = [status EXCEPT ![subject[t]] = "UPLOAD_PENDING"]
           /\ Issue(t)
           /\ Goes(t, "ok") \/ Goes(t, "error")
           /\ UNCHANGED <<file_path, accepted, disk, subject, presented, pdf, content>>
           /\ faults' \in Nat
  <2>1. pc' \in [Tokens \cup Uploads -> Places] /\ \A u \in Uploads : pc'[u] = pc[u]
    BY <1>1, <1>4, Moves DEF Places, Answers
  <2>2. /\ status' \in [Sessions -> SessionState]
        /\ \A s \in Sessions :
              \/ status'[s] = status[s]
              \/ status[s] = "CREATED" /\ status'[s] = "UPLOAD_PENDING"
    BY <1>2, <1>4 DEF TypeOK
  <2>3. TypeOK'
    BY <1>4, <2>1, <2>2, TokenIssued DEF TypeOK
  <2> QED
    BY <1>4, <2>1, <2>2, <2>3, TokenIssued, TokenFrame
<1>5. CASE /\ Issue(t)
           /\ Goes(t, "ok") \/ Goes(t, "error")
           /\ UNCHANGED <<sessionVars, disk, subject, presented, pdf, content>>
           /\ faults' \in Nat
  <2>1. pc' \in [Tokens \cup Uploads -> Places] /\ \A u \in Uploads : pc'[u] = pc[u]
    BY <1>1, <1>5, Moves DEF Places, Answers
  <2>2. TypeOK'
    BY <1>5, <2>1, TokenIssued DEF TypeOK, sessionVars
  <2> QED
    BY <1>5, <2>1, <2>2, TokenIssued, TokenFrame DEF sessionVars
<1>6. CASE /\ Goes(t, "error")
           /\ UNCHANGED <<sessionVars, tokens, disk, subject, presented, pdf, content>>
           /\ faults' \in Nat
  <2>1. pc' \in [Tokens \cup Uploads -> Places] /\ \A u \in Uploads : pc'[u] = pc[u]
    BY <1>1, <1>6, Moves DEF Places, Answers
  <2>2. TypeOK'
    BY <1>6, <2>1 DEF TypeOK, sessionVars
  <2> QED
    BY <1>6, <2>1, <2>2, TokenFrame DEF sessionVars
<1>7. CASE OpenUpload(t)
  <2>1. faults' = faults /\ faults \in Nat
    BY <1>7 DEF OpenUpload, TypeOK
  <2>2. CASE status[subject[t]] = "CREATED"
    BY <1>4, <1>7, <2>1, <2>2 DEF OpenUpload
  <2>3. CASE status[subject[t]] # "CREATED"
    BY <1>6, <1>7, <2>1, <2>3 DEF OpenUpload, sessionVars
  <2> QED
    BY <2>2, <2>3
<1>8. CASE IssueToken(t)
  BY <1>5, <1>8 DEF IssueToken, TypeOK
<1>9. CASE TokenRequestFails(t)
  <2>1. faults' \in Nat
    BY <1>9 DEF TokenRequestFails, TypeOK
  <2> QED
    BY <1>4, <1>5, <1>6, <1>9, <2>1 DEF TokenRequestFails, sessionVars
<1>10. CASE TokenExpires(t)
  <2>1. /\ tokens' \in [Tokens -> Token]
        /\ \A v \in Tokens : /\ tokens'[v].session_id = tokens[v].session_id
                             /\ tokens'[v].is_used = tokens[v].is_used
    <3>1. tokens' = [tokens EXCEPT ![t] = [tokens[t] EXCEPT !.expired = TRUE]]
      BY <1>10 DEF TokenExpires
    <3>2. tokens[t] \in Token /\ [tokens[t] EXCEPT !.expired = TRUE] \in Token
      <4>1. tokens[t] \in Token
        BY DEF TypeOK
      <4> QED
        BY <4>1 DEF Token
    <3>3. \A v \in Tokens : tokens'[v] = IF v = t THEN [tokens[t] EXCEPT !.expired = TRUE]
                                               ELSE tokens[v]
      BY <3>1 DEF TypeOK
    <3>4. tokens' \in [Tokens -> Token]
      BY <3>1, <3>2 DEF TypeOK
    <3> QED
      BY <3>2, <3>3, <3>4 DEF Token
  <2>2. TypeOK'
    BY <1>10, <2>1 DEF TokenExpires, TypeOK, sessionVars, requestVars
  <2> QED
    BY <1>10, <2>1, <2>2, TokenFrame DEF TokenExpires, sessionVars, requestVars
<1> QED
  BY <1>3, <1>7, <1>8, <1>9, <1>10 DEF ServeTokenRequest

LEMMA ReceiveSteps ==
  ASSUME IntakeInv, IntakeAssumption, NEW u \in Uploads, ReceiveUpload(u)
  PROVE  IntakeInv'
<1>1. TypeOK /\ UploadOK(u)
  BY DEF IntakeInv
<1>2. PICK place \in {"storing", "quarantining", "refused"} :
         /\ Goes(u, place)
         /\ place # "refused" => Usable(presented[u]) /\ Stored(u, "inert")
         /\ place = "storing" => ~pdf[u].active
         /\ place = "quarantining" => pdf[u].active
  BY DEF ReceiveUpload
<1>3. /\ pc' \in [Tokens \cup Uploads -> Places]
      /\ pc'[u] = place
      /\ \A x \in Tokens \cup Uploads : x # u => pc'[x] = pc[x]
  BY <1>1, <1>2, Moves DEF Places, Answers
<1>4. /\ pc[u] = "idle"
      /\ UNCHANGED <<sessionVars, tokens, disk, subject, presented, pdf, faults>>
  BY DEF ReceiveUpload
<1>5. /\ content' \in [Uploads -> {"none", "active", "inert"}]
      /\ place # "refused" => content'[u] = "inert"
      /\ \A v \in Uploads : v # u => content'[v] = content[v]
  <2>1. PICK bytes \in {"none", "active", "inert"} : Stored(u, bytes) \/ content' = content
    BY DEF ReceiveUpload
  <2> QED
    BY <1>1, <1>2, <2>1 DEF Stored, TypeOK
<1>6. TypeOK'
  BY <1>1, <1>3, <1>4, <1>5 DEF TypeOK, sessionVars
<1>7. place # "refused" => SessionOf(u) \in Sessions /\ SessionOf(u)' = SessionOf(u)
  BY <1>1, <1>2, <1>4 DEF Usable, SessionOf, TypeOK, Token
<1>8. disk'[u] = [p \in Parts |-> "none"] /\ disk'[u]["original"] = "none" /\ pdf' = pdf
  BY <1>1, <1>4 DEF UploadOK, Parts
<1>9. UploadOK(u)'
  BY <1>2, <1>3, <1>4, <1>5, <1>7, <1>8 DEF UploadOK, Serving
<1> QED
  BY <1>3, <1>4, <1>5, <1>6, <1>9, UploadFrame

\* A write, whole or in part, or a failure without one.
LEMMA WriteSteps ==
  ASSUME IntakeInv, IntakeAssumption, NEW u \in Uploads,
         \/ QuarantineOriginal(u) \/ StoreDocument(u) \/ WriteSidecar(u) \/ SelectStatus(u)
         \/ UploadFails(u)
  PROVE  IntakeInv'
<1>1. TypeOK /\ UploadOK(u)
  BY DEF IntakeInv
<1>2. CASE QuarantineOriginal(u)
  <2>1. /\ pc[u] = "quarantining" /\ Goes(u, "storing") /\ Write(u, "original", "active")
        /\ UNCHANGED <<sessionVars, tokens, subject, presented, pdf, content, faults>>
    BY <1>2 DEF QuarantineOriginal
  <2>2. /\ pc' \in [Tokens \cup Uploads -> Places]
        /\ pc'[u] = "storing"
        /\ \A x \in Tokens \cup Uploads : x # u => pc'[x] = pc[x]
    BY <1>1, <2>1, Moves DEF Places
  <2>3. /\ disk' \in [Uploads -> [Parts -> Contents]]
        /\ disk'[u]["original"] = "active"
        /\ \A v \in Uploads : v # u => disk'[v] = disk[v]
    BY <1>1, <2>1, FileWritten DEF Parts, Contents
  <2>4. TypeOK'
    BY <1>1, <2>1, <2>2, <2>3 DEF TypeOK, sessionVars
  <2>5. UploadOK(u)'
    BY <1>1, <2>1, <2>2, <2>3 DEF UploadOK, Serving, SessionOf, sessionVars
  <2> QED
    BY <2>1, <2>2, <2>3, <2>4, <2>5, UploadFrame DEF Serving
<1>3. CASE StoreDocument(u)
  <2>1. /\ pc[u] = "storing" /\ Write(u, "document", content[u])
        /\ UNCHANGED <<sessionVars, tokens, subject, presented, pdf, content, faults>>
    BY <1>3 DEF StoreDocument
  <2>2. PICK place \in {"describing", "selecting"} :
           Goes(u, place) /\ (place = "describing" <=> pdf[u].active)
    BY <1>3 DEF StoreDocument
  <2>3. /\ pc' \in [Tokens \cup Uploads -> Places]
        /\ pc'[u] = place
        /\ \A x \in Tokens \cup Uploads : x # u => pc'[x] = pc[x]
    BY <1>1, <2>2, Moves DEF Places
  <2>4. content[u] = "inert"
    BY <1>1, <2>1 DEF UploadOK, Serving
  <2>5. /\ disk' \in [Uploads -> [Parts -> Contents]]
        /\ disk'[u]["document"] = "inert"
        /\ disk'[u]["original"] = disk[u]["original"]
        /\ \A v \in Uploads : v # u => disk'[v] = disk[v]
    BY <1>1, <2>1, <2>4, FileWritten DEF Parts, Contents
  <2>6. TypeOK'
    BY <1>1, <2>1, <2>3, <2>5 DEF TypeOK, sessionVars
  <2>7. UploadOK(u)'
    BY <1>1, <2>1, <2>2, <2>3, <2>5 DEF UploadOK, Serving, SessionOf, sessionVars
  <2> QED
    BY <2>1, <2>3, <2>5, <2>6, <2>7, UploadFrame DEF Serving
<1>4. CASE WriteSidecar(u)
  <2>1. /\ pc[u] = "describing" /\ Goes(u, "selecting") /\ Write(u, "sidecar", "inert")
        /\ UNCHANGED <<sessionVars, tokens, subject, presented, pdf, content, faults>>
    BY <1>4 DEF WriteSidecar
  <2>2. /\ pc' \in [Tokens \cup Uploads -> Places]
        /\ pc'[u] = "selecting"
        /\ \A x \in Tokens \cup Uploads : x # u => pc'[x] = pc[x]
    BY <1>1, <2>1, Moves DEF Places
  <2>3. /\ disk' \in [Uploads -> [Parts -> Contents]]
        /\ disk'[u]["sidecar"] = "inert"
        /\ disk'[u]["original"] = disk[u]["original"]
        /\ disk'[u]["document"] = disk[u]["document"]
        /\ \A v \in Uploads : v # u => disk'[v] = disk[v]
    BY <1>1, <2>1, FileWritten DEF Parts, Contents
  <2>4. TypeOK'
    BY <1>1, <2>1, <2>2, <2>3 DEF TypeOK, sessionVars
  <2>5. UploadOK(u)'
    BY <1>1, <2>1, <2>2, <2>3 DEF UploadOK, Serving, SessionOf, sessionVars
  <2> QED
    BY <2>1, <2>2, <2>3, <2>4, <2>5, UploadFrame DEF Serving
<1>5. CASE SelectStatus(u)
  <2>1. /\ pc[u] = "selecting"
        /\ UNCHANGED <<sessionVars, tokens, disk, subject, presented, pdf, content, faults>>
    BY <1>5 DEF SelectStatus
  <2>2. PICK place \in {"updating", "error"} : Goes(u, place)
    BY <1>5 DEF SelectStatus
  <2>3. /\ pc' \in [Tokens \cup Uploads -> Places]
        /\ pc'[u] = place
        /\ \A x \in Tokens \cup Uploads : x # u => pc'[x] = pc[x]
    BY <1>1, <2>2, Moves DEF Places, Answers
  <2>4. TypeOK'
    BY <1>1, <2>1, <2>3 DEF TypeOK, sessionVars
  <2>5. UploadOK(u)'
    BY <1>1, <2>1, <2>3 DEF UploadOK, Serving, SessionOf, sessionVars
  <2> QED
    BY <2>1, <2>3, <2>4, <2>5, UploadFrame DEF Serving
<1>6. CASE UploadFails(u)
  <2>1. /\ Goes(u, "error") /\ faults' \in Nat
        /\ UNCHANGED <<subject, presented, pdf, content>>
    BY <1>1, <1>6 DEF UploadFails, TypeOK
  <2>2. /\ pc' \in [Tokens \cup Uploads -> Places]
        /\ pc'[u] = "error"
        /\ \A x \in Tokens \cup Uploads : x # u => pc'[x] = pc[x]
    BY <1>1, <2>1, Moves DEF Places, Answers
  <2>3. (~pdf[u].active => disk'[u]["original"] = "none") => UploadOK(u)'
    BY <2>1, <2>2 DEF UploadOK, Serving
  <2>4. CASE /\ pc[u] \in DOMAIN Writing
             /\ Write(u, Writing[pc[u]], "partial")
             /\ UNCHANGED <<sessionVars, tokens>>
    <3>1. Writing[pc[u]] \in Parts /\ pc[u] \in Serving /\ "partial" \in Contents
      BY <2>4 DEF Writing, Parts, Serving, Contents
    <3>2. /\ disk' \in [Uploads -> [Parts -> Contents]]
          /\ \A p \in Parts : p # Writing[pc[u]] => disk'[u][p] = disk[u][p]
          /\ \A v \in Uploads : v # u => disk'[v] = disk[v]
      BY <1>1, <2>4, <3>1, FileWritten
    <3>3. ~pdf[u].active => disk'[u]["original"] = "none"
      BY <1>1, <2>4, <3>2 DEF UploadOK, Writing, Parts
    <3>4. TypeOK'
      BY <1>1, <2>1, <2>2, <2>4, <3>2 DEF TypeOK, sessionVars
    <3> QED
      BY <2>1, <2>2, <2>3, <2>4, <3>1, <3>2, <3>3, <3>4, UploadFrame
  <2>5. CASE /\ pc[u] \in {"selecting", "updating"} \cup DOMAIN Writing
             /\ UNCHANGED <<sessionVars, tokens, disk>>
    <3>1. pc[u] \in Serving
      BY <2>5 DEF Writing, Serving
    <3>2. TypeOK'
      BY <1>1, <2>1, <2>2, <2>5 DEF TypeOK, sessionVars
    <3>3. UploadOK(u)'
      BY <1>1, <2>3, <2>5 DEF UploadOK
    <3> QED
      BY <2>1, <2>2, <2>5, <3>1, <3>2, <3>3, UploadFrame
  <2>6. CASE /\ pc[u] = "updating" /\ status[SessionOf(u)] = "UPLOAD_PENDING"
             /\ Accept(u) /\ UNCHANGED disk
    BY <2>1, <2>6, AcceptFrame
  <2> QED
    BY <1>6, <2>4, <2>5, <2>6 DEF UploadFails
<1> QED
  BY <1>2, <1>3, <1>4, <1>5, <1>6

LEMMA UpdateSteps ==
  ASSUME IntakeInv, IntakeAssumption, NEW u \in Uploads, UpdateSession(u)
  PROVE  IntakeInv'
<1>1. TypeOK /\ UploadOK(u)
  BY DEF IntakeInv
<1>2. /\ pc[u] = "updating" /\ faults' \in Nat
      /\ UNCHANGED <<disk, subject, presented, pdf, content>>
  BY <1>1 DEF UpdateSession, TypeOK
<1>3. CASE status[SessionOf(u)] = "UPLOAD_PENDING"
  BY <1>2, <1>3, AcceptFrame DEF UpdateSession
<1>4. CASE status[SessionOf(u)] # "UPLOAD_PENDING"
  <2>1. Goes(u, "error") /\ UNCHANGED <<sessionVars, tokens>>
    BY <1>4 DEF UpdateSession
  <2>2. /\ pc' \in [Tokens \cup Uploads -> Places]
        /\ pc'[u] = "error"
        /\ \A x \in Tokens \cup Uploads : x # u => pc'[x] = pc[x]
    BY <1>1, <2>1, Moves DEF Places, Answers
  <2>3. TypeOK'
    BY <1>1, <1>2, <2>1, <2>2 DEF TypeOK, sessionVars
  <2>4. UploadOK(u)'
    BY <1>1, <1>2, <2>2 DEF UploadOK, Serving
  <2> QED
    BY <1>2, <2>1, <2>2, <2>3, <2>4, UploadFrame DEF Serving
<1> QED
  BY <1>3, <1>4

\* A session goes on, or its document is purged: other sessions keep theirs.
LEMMA SessionSteps ==
  ASSUME IntakeInv, IntakeAssumption, NEW s \in Sessions, NEW new \in SessionState,
         NEW part \in Parts, Proceed(s, new) \/ DeletePart(s, part) \/ Purge(s)
  PROVE  IntakeInv'
<1>1. TypeOK /\ SessionOK(s)
  BY DEF IntakeInv
<1>2. CASE Proceed(s, new)
  <2>1. /\ status[s] \notin {"CREATED", "UPLOAD_PENDING"}
        /\ ValidTransition(status[s], new)
        /\ status' = [status EXCEPT ![s] = new]
        /\ UNCHANGED <<file_path, accepted, tokens, disk, requestVars, faults>>
    BY <1>2 DEF Proceed
  <2>2. new \notin {"CREATED", "UPLOAD_PENDING"}
    BY <2>1 DEF ValidTransition, ALLOWED_TRANSITIONS, VERIFIED_STATES, HUMAN_FINAL_STATES,
             LEASE_ACQUIRABLE_STATES
  <2>3. TypeOK'
    BY <1>1, <2>1 DEF TypeOK, requestVars
  <2>4. \A t \in Tokens : TokenOK(t)'
    BY <2>1 DEF IntakeInv, TokenOK, requestVars
  <2>5. \A u \in Uploads : UploadOK(u)'
    BY <2>1 DEF IntakeInv, UploadOK, SessionOf, requestVars
  <2>6. \A x \in Sessions : SessionOK(x)'
    <3> SUFFICES ASSUME NEW x \in Sessions PROVE SessionOK(x)'
      OBVIOUS
    <3>1. SessionOK(x)
      BY DEF IntakeInv
    <3>2. status'[x] \in {"CREATED", "UPLOAD_PENDING"} <=> status[x] \in {"CREATED", "UPLOAD_PENDING"}
      BY <1>1, <2>1, <2>2 DEF TypeOK
    <3>3. CASE x = s
      <4>1. /\ status[s] \in {"PENDING_CLEANUP", "FAILED_PURGED"} => new \in {"FAILED_PURGED"}
            /\ status[s] # "PURGE_COMPLETE" /\ new # "PURGE_COMPLETE"
            /\ status'[s] = new
        BY <1>1, <1>2, <2>1
        DEF Proceed, ValidTransition, ALLOWED_TRANSITIONS, VERIFIED_STATES, HUMAN_FINAL_STATES,
            LEASE_ACQUIRABLE_STATES, TypeOK
      <4>2. accepted[s] # NoUpload => DocumentOK(s)'
        BY <2>1, <3>1, <3>3, <4>1 DEF SessionOK, DocumentOK, Whole, requestVars
      <4> QED
        BY <2>1, <3>1, <3>2, <3>3, <4>2 DEF SessionOK, SessionOf, requestVars
    <3>4. CASE x # s
      <4>1. status'[x] = status[x]
        BY <1>1, <2>1, <3>4 DEF TypeOK
      <4> QED
        BY <2>1, <3>1, <4>1 DEF SessionOK, DocumentOK, Whole, SessionOf, requestVars
    <3> QED
      BY <3>3, <3>4
  <2> QED
    BY <2>3, <2>4, <2>5, <2>6 DEF IntakeInv
<1>3. CASE DeletePart(s, part) \/ Purge(s)
  <2> DEFINE u0 == accepted[s]
  <2>1. /\ status[s] = "PENDING_CLEANUP"
        /\ UNCHANGED <<accepted, tokens, requestVars, faults>>
    BY <1>3 DEF DeletePart, Purge, sessionVars
  <2>2. u0 # NoUpload /\ u0 \in Uploads /\ file_path[s] = u0 /\ DocumentOK(s)
    BY <1>1, <2>1 DEF SessionOK, DocumentOK, TypeOK
  <2>3. pc[u0] \in {"ok", "error"} /\ SessionOf(u0) = s
    BY <1>1, <2>2 DEF SessionOK
  <2>4. \A t \in Tokens : TokenOK(t)'
    BY <2>1 DEF IntakeInv, TokenOK, requestVars
  \* Whichever step it is, only the files of this session's upload may go.
  <2>5. ASSUME TypeOK',
               disk' \in [Uploads -> [Parts -> Contents]],
               \A u \in Uploads : u # u0 => disk'[u] = disk[u],
               \A p \in Parts : disk'[u0][p] \in {disk[u0][p], "none"},
               \A x \in Sessions : x # s =>
                  status'[x] = status[x] /\ file_path'[x] = file_path[x],
               status'[s] \notin {"CREATED", "UPLOAD_PENDING"},
               file_path'[s] \in {NoUpload, u0},
               DocumentOK(s)'
        PROVE  IntakeInv'
    <3>1. ASSUME NEW u \in Uploads PROVE UploadOK(u)'
      <4>1. UploadOK(u) /\ pc'[u] = pc[u] /\ SessionOf(u)' = SessionOf(u)
        BY <2>1 DEF IntakeInv, SessionOf, requestVars
      <4>2. CASE u = u0
        <5>1. pdf'[u] = pdf[u] /\ "original" \in Parts
          BY <2>1 DEF requestVars, Parts
        <5> QED
          BY <2>1, <2>3, <2>5, <4>1, <4>2, <5>1 DEF UploadOK, Serving
      <4>3. CASE u # u0
        <5>1. disk'[u] = disk[u]
          BY <2>5, <4>3
        <5> QED
          BY <2>1, <4>1, <5>1 DEF UploadOK, requestVars
      <4> QED
        BY <4>2, <4>3
    <3>2. ASSUME NEW x \in Sessions PROVE SessionOK(x)'
      <4>1. SessionOK(x) /\ accepted[x] \in Uploads \cup {NoUpload}
        BY <1>1 DEF IntakeInv, TypeOK
      <4>2. accepted[x] # NoUpload =>
               pc'[accepted[x]] \in {"ok", "error"} /\ SessionOf(accepted[x])' = x
        BY <2>1, <4>1 DEF SessionOK, SessionOf, requestVars
      <4>3. CASE x = s
        BY <2>1, <2>2, <2>5, <4>1, <4>2, <4>3 DEF SessionOK
      <4>4. CASE x # s
        <5>1. accepted[x] # u0
          BY <2>2, <2>3, <4>1, <4>4 DEF SessionOK
        <5>2. accepted[x] # NoUpload => disk'[accepted[x]] = disk[accepted[x]]
          BY <2>5, <4>1, <5>1
        <5>3. status'[x] = status[x] /\ file_path'[x] = file_path[x]
          BY <2>5, <4>4
        <5>4. accepted[x] # NoUpload => DocumentOK(x)'
          BY <2>1, <4>1, <5>2, <5>3 DEF SessionOK, DocumentOK, Whole, requestVars
        <5> QED
          BY <2>1, <4>1, <4>2, <5>3, <5>4 DEF SessionOK
      <4> QED
        BY <4>3, <4>4
    <3> QED
      BY <2>4, <2>5, <3>1, <3>2 DEF IntakeInv
  <2>6. CASE DeletePart(s, part)
    <3>1. Write(u0, part, "none") /\ UNCHANGED sessionVars
      BY <2>2, <2>6 DEF DeletePart
    <3>2. /\ disk' \in [Uploads -> [Parts -> Contents]]
          /\ disk'[u0][part] = "none"
          /\ \A p \in Parts : p # part => disk'[u0][p] = disk[u0][p]
          /\ \A u \in Uploads : u # u0 => disk'[u] = disk[u]
      BY <1>1, <2>2, <3>1, FileWritten DEF Contents
    <3>3. TypeOK'
      BY <1>1, <2>1, <3>1, <3>2 DEF TypeOK, requestVars, sessionVars
    <3>4. part = "sidecar" => disk[u0]["original"] = "none"
      BY <2>2, <2>6 DEF DeletePart, DeletedBefore
    <3>5. disk'[u0]["original"] # "none" => disk'[u0]["sidecar"] = "inert"
      BY <2>2, <3>2, <3>4 DEF DocumentOK, Parts
    <3>6. DocumentOK(s)'
      BY <2>1, <2>2, <3>1, <3>5 DEF DocumentOK, sessionVars
    <3> QED
      BY <2>1, <2>2, <2>5, <3>1, <3>2, <3>3, <3>6 DEF sessionVars
  <2>7. CASE Purge(s)
    <3>1. /\ disk' = disk /\ disk[u0] = [p \in Parts |-> "none"]
          /\ status' = [status EXCEPT ![s] = "PURGE_COMPLETE"]
          /\ file_path' = [file_path EXCEPT ![s] = NoUpload]
      BY <2>2, <2>7 DEF Purge
    <3>2. TypeOK'
      BY <1>1, <2>1, <3>1 DEF TypeOK, requestVars, SessionState
    <3>3. /\ status'[s] = "PURGE_COMPLETE" /\ file_path'[s] = NoUpload
          /\ \A x \in Sessions : x # s => status'[x] = status[x] /\ file_path'[x] = file_path[x]
      BY <1>1, <3>1 DEF TypeOK
    <3>4. DocumentOK(s)'
      BY <2>1, <3>1, <3>3 DEF DocumentOK, Parts
    <3>5. disk \in [Uploads -> [Parts -> Contents]]
      BY <1>1 DEF TypeOK
    <3> QED
      BY <2>5, <3>1, <3>2, <3>3, <3>4, <3>5
  <2> QED
    BY <1>3, <2>6, <2>7
<1> QED
  BY <1>2, <1>3

-----------------------------------------------------------------------------
(* Theorems                                                                *)

LEMMA InvInit ==
  ASSUME IntakeAssumption, Init
  PROVE  IntakeInv
<1>1. TypeOK
  BY DEF Init, TypeOK, SessionState, Token, Contents, Places
<1>2. \A t \in Tokens : TokenOK(t)
  BY DEF Init, TokenOK
<1>3. \A u \in Uploads : UploadOK(u)
  BY DEF Init, UploadOK, Serving, Parts
<1>4. \A s \in Sessions : SessionOK(s)
  BY DEF Init, SessionOK
<1> QED
  BY <1>1, <1>2, <1>3, <1>4 DEF IntakeInv

LEMMA InvStep ==
  ASSUME IntakeAssumption, IntakeInv, [Next]_vars
  PROVE  IntakeInv'
<1>1. CASE UNCHANGED vars
  <2>1. TypeOK'
    BY <1>1 DEF IntakeInv, TypeOK, vars, sessionVars, requestVars
  <2>2. \A t \in Tokens : TokenOK(t)'
    BY <1>1 DEF IntakeInv, TokenOK, vars, sessionVars, requestVars
  <2>3. \A u \in Uploads : UploadOK(u)'
    BY <1>1 DEF IntakeInv, UploadOK, SessionOf, vars, sessionVars, requestVars
  <2>4. \A s \in Sessions : SessionOK(s)'
    BY <1>1
    DEF IntakeInv, SessionOK, DocumentOK, Whole, SessionOf, vars, sessionVars, requestVars
  <2> QED
    BY <2>1, <2>2, <2>3, <2>4 DEF IntakeInv
<1>2. CASE \E t \in Tokens : ServeTokenRequest(t) \/ TokenRequestFails(t) \/ TokenExpires(t)
  BY <1>2, TokenSteps
<1>3. CASE \E u \in Uploads : ServeUpload(u) \/ UploadFails(u)
  BY <1>3, ReceiveSteps, WriteSteps, UpdateSteps DEF ServeUpload
<1>4. "CREATED" \in SessionState /\ "document" \in Parts
  BY DEF SessionState, Parts
<1>5. CASE \E s \in Sessions, new \in SessionState : Proceed(s, new)
  BY <1>4, <1>5, SessionSteps
<1>6. CASE \E s \in Sessions, part \in Parts : DeletePart(s, part) \/ Purge(s)
  BY <1>4, <1>6, SessionSteps
<1> QED
  BY <1>1, <1>2, <1>3, <1>4, <1>5, <1>6 DEF Next

\* The strengthened invariant holds of every reachable state.
THEOREM IntakeInvariant == Spec => []IntakeInv
<1>1. Init => IntakeInv
  BY IntakeAssumption, InvInit
<1>2. IntakeInv /\ [Next]_vars => IntakeInv'
  BY IntakeAssumption, InvStep
<1> QED
  BY <1>1, <1>2, PTL DEF Spec

\* The rows, the files and the requests hold only what the code puts there.
THEOREM TypeCorrect == Spec => []TypeOK
<1>1. IntakeInv => TypeOK
  BY DEF IntakeInv
<1> QED
  BY <1>1, IntakeInvariant, PTL

\* However many tokens are issued for a session and uploads present them, one upload
\* is accepted and its token alone is used.
THEOREM OneUploadIsAccepted == Spec => []OneUploadAccepted
<1>1. IntakeInv => OneUploadAccepted
  <2> SUFFICES ASSUME IntakeInv PROVE OneUploadAccepted
    OBVIOUS
  <2>1. \A s \in Sessions :
           accepted[s] = NoUpload <=> status[s] \in {"CREATED", "UPLOAD_PENDING"}
    BY DEF IntakeInv, SessionOK
  <2>2. \A t \in Tokens : tokens[t].is_used =>
           accepted[tokens[t].session_id] \in {u \in Uploads : presented[u] = t}
    BY DEF IntakeInv, TokenOK
  <2>3. ASSUME NEW t \in Tokens, NEW v \in Tokens, tokens[t].is_used, tokens[v].is_used,
               tokens[t].session_id = tokens[v].session_id
        PROVE  t = v
    BY <2>2, <2>3
  <2> QED
    BY <2>1, <2>2, <2>3 DEF OneUploadAccepted
<1> QED
  BY <1>1, IntakeInvariant, PTL

\* Until its purge begins a session names a document that is whole and inert, and what a
\* purge that failed or died has left of it is still named.
THEOREM DocumentsAreWhole == Spec => []DocumentWhole
<1>1. IntakeInv => DocumentWhole
  BY DEF IntakeInv, SessionOK, DocumentOK, DocumentWhole
<1> QED
  BY <1>1, IntakeInvariant, PTL

\* 200 means that the document is the session's, a refusal that nothing was kept.
THEOREM AnswersAreTruthful == Spec => []UploadAnswersTruthful
<1>1. IntakeInv => UploadAnswersTruthful
  <2> SUFFICES ASSUME IntakeInv, NEW u \in Uploads
               PROVE  /\ pc[u] = "ok" => accepted[SessionOf(u)] = u
                      /\ pc[u] = "refused" =>
                            /\ disk[u] = [p \in Parts |-> "none"]
                            /\ \A s \in Sessions : accepted[s] # u
    BY DEF UploadAnswersTruthful
  <2>1. UploadOK(u) /\ u # NoUpload
    BY IntakeAssumption DEF IntakeInv, IntakeAssumption
  <2>2. ASSUME NEW s \in Sessions, accepted[s] = u PROVE pc[u] # "refused"
    BY <2>1, <2>2 DEF IntakeInv, SessionOK
  <2> QED
    BY <2>1, <2>2 DEF UploadOK
<1> QED
  BY <1>1, IntakeInvariant, PTL

\* No request that read a session earlier reopens it or replaces its document.
THEOREM SessionsNeverReopened == Spec => NeverReopened
<1> DEFINE Kept(s) ==
      /\ status'[s] # status[s] => ValidTransition(status[s], status'[s])
      /\ accepted[s] # NoUpload => accepted'[s] = accepted[s]
      /\ file_path[s] # NoUpload =>
            /\ file_path'[s] = file_path[s] \/ status'[s] = "PURGE_COMPLETE"
            /\ \A part \in Parts :
                  \/ disk'[file_path[s]][part] = disk[file_path[s]][part]
                  \/ status[s] = "PENDING_CLEANUP" /\ disk'[file_path[s]][part] = "none"
<1>1. ASSUME IntakeInv, [Next]_vars, NEW s \in Sessions PROVE Kept(s)
  <2> USE <1>1
  <2>1. /\ TypeOK /\ SessionOK(s)
        /\ accepted[s] # NoUpload => accepted[s] \in Uploads
    BY DEF IntakeInv, TypeOK
  <2>2. CASE UNCHANGED <<sessionVars, disk>>
    BY <2>2 DEF sessionVars
  <2>3. ASSUME NEW t \in Tokens, pc[t] = "opening", status[subject[t]] = "CREATED",
               status' = [status EXCEPT ![subject[t]] = "UPLOAD_PENDING"],
               UNCHANGED <<file_path, accepted, disk>>
        PROVE  Kept(s)
    <3>1. ValidTransition("CREATED", "UPLOAD_PENDING")
      BY DEF ValidTransition, ALLOWED_TRANSITIONS
    <3> QED
      BY <2>1, <2>3, <3>1 DEF TypeOK
  <2>4. ASSUME NEW u \in Uploads, pc[u] \in Serving, NEW part \in Parts, NEW bytes \in Contents,
               Write(u, part, bytes), UNCHANGED sessionVars
        PROVE  Kept(s)
    <3>1. file_path[s] # NoUpload => file_path[s] \in Uploads /\ file_path[s] # u
      BY <2>1, <2>4 DEF SessionOK, Serving
    <3> QED
      BY <2>1, <2>4, <3>1, FileWritten DEF sessionVars
  <2>5. ASSUME NEW u \in Uploads, pc[u] = "updating", status[SessionOf(u)] = "UPLOAD_PENDING",
               Accept(u), UNCHANGED disk
        PROVE  Kept(s)
    <3>1. SessionOf(u) \in Sessions
      BY <2>5 DEF IntakeInv, UploadOK, Serving
    <3>2. CASE s = SessionOf(u)
      <4>1. accepted[s] = NoUpload /\ file_path[s] = NoUpload
        BY <2>1, <2>5, <3>2 DEF SessionOK
      <4>2. ValidTransition("UPLOAD_PENDING", "UPLOADED_PENDING_REVIEW")
        BY DEF ValidTransition, ALLOWED_TRANSITIONS
      <4>3. status'[s] = "UPLOADED_PENDING_REVIEW"
        BY <2>1, <2>5, <3>1, <3>2, UploadAccepted
      <4> QED
        BY <2>5, <3>2, <4>1, <4>2, <4>3
    <3>3. CASE s # SessionOf(u)
      BY <2>1, <2>5, <3>1, <3>3, UploadAccepted
    <3> QED
      BY <3>2, <3>3
  <2>6. ASSUME NEW x \in Sessions, NEW new \in SessionState, Proceed(x, new)
        PROVE  Kept(s)
    BY <2>1, <2>6 DEF Proceed, TypeOK
  <2>7. ASSUME NEW x \in Sessions, Purge(x) PROVE Kept(s)
    <3>1. ValidTransition("PENDING_CLEANUP", "PURGE_COMPLETE")
      BY DEF ValidTransition, ALLOWED_TRANSITIONS
    <3>2. CASE x = s
      BY <2>1, <2>7, <3>1, <3>2 DEF Purge, TypeOK
    <3>3. CASE x # s
      BY <2>1, <2>7, <3>3 DEF Purge, TypeOK
    <3> QED
      BY <3>2, <3>3
  <2>11. ASSUME NEW x \in Sessions, NEW part \in Parts, DeletePart(x, part) PROVE Kept(s)
    <3>1. status[x] = "PENDING_CLEANUP" /\ Write(file_path[x], part, "none")
          /\ UNCHANGED sessionVars
      BY <2>11 DEF DeletePart
    <3>2. SessionOK(x) /\ file_path[x] \in Uploads /\ file_path[x] = accepted[x]
      BY <3>1 DEF IntakeInv, SessionOK, DocumentOK, TypeOK
    <3>3. /\ disk'[file_path[x]][part] = "none"
          /\ \A p \in Parts : p # part => disk'[file_path[x]][p] = disk[file_path[x]][p]
          /\ \A v \in Uploads : v # file_path[x] => disk'[v] = disk[v]
      BY <2>1, <3>1, <3>2, FileWritten DEF Contents
    <3>4. file_path[s] = file_path[x] => s = x
      BY <2>1, <3>2, IntakeAssumption DEF SessionOK, IntakeAssumption
    <3>5. file_path[s] \in Uploads \cup {NoUpload}
      BY <2>1 DEF TypeOK
    <3> QED
      BY <3>1, <3>3, <3>4, <3>5 DEF sessionVars
  <2>8. CASE \E t \in Tokens : ServeTokenRequest(t) \/ TokenRequestFails(t) \/ TokenExpires(t)
    BY <2>2, <2>3, <2>8 DEF ServeTokenRequest, RequestToken, OpenUpload, IssueToken,
       TokenRequestFails, TokenExpires, sessionVars
  <2>9. CASE \E u \in Uploads : ServeUpload(u) \/ UploadFails(u)
    <3> PICK u \in Uploads : ServeUpload(u) \/ UploadFails(u)
      BY <2>9
    <3>1. CASE ReceiveUpload(u) \/ SelectStatus(u)
      BY <2>2, <3>1 DEF ReceiveUpload, SelectStatus
    <3>2. CASE QuarantineOriginal(u) \/ StoreDocument(u) \/ WriteSidecar(u)
      <4>1. content[u] \in Contents /\ {"active", "inert"} \subseteq Contents
        BY <2>1 DEF TypeOK, Contents
      <4> QED
        BY <2>4, <3>2, <4>1 DEF QuarantineOriginal, StoreDocument, WriteSidecar, Parts, Serving
    <3>3. CASE UpdateSession(u)
      BY <2>2, <2>5, <3>3 DEF UpdateSession
    <3>4. CASE UploadFails(u)
      <4>1. CASE pc[u] \in DOMAIN Writing /\ Write(u, Writing[pc[u]], "partial")
                 /\ UNCHANGED <<sessionVars, tokens>>
        <5>1. Writing[pc[u]] \in Parts /\ pc[u] \in Serving /\ "partial" \in Contents
          BY <4>1 DEF Writing, Parts, Serving, Contents
        <5> QED
          BY <2>4, <4>1, <5>1
      <4> QED
        BY <2>2, <2>5, <3>4, <4>1 DEF UploadFails
    <3> QED
      BY <3>1, <3>2, <3>3, <3>4 DEF ServeUpload
  <2>10. CASE UNCHANGED vars
    BY <2>2, <2>10 DEF vars
  <2> QED
    BY <2>6, <2>7, <2>8, <2>9, <2>10, <2>11 DEF Next
<1>2. IntakeInv /\ [Next]_vars => [\A s \in Sessions : Kept(s)]_vars
  BY <1>1
<1> QED
  BY <1>2, IntakeInvariant, PTL DEF Spec, NeverReopened
=============================================================================
