--------------------------- MODULE ProjectsProofs ---------------------------
(***************************************************************************)
(* Proofs about projects on their way to the public, for any number of     *)
(* projects, attachments, plans and requests.                              *)
(***************************************************************************)
EXTENDS Projects, FiniteSetTheorems, TLAPS

\* Is the request about to insert milestones of p?
Inserting(p) == {r \in Requests : req[r].pc = "plan" /\ p \in req[r].of}

\* Is q a creation that has not stored the project yet?
Creates(q) == q.op = "create" /\ q.pc \in {"rules", "write"}

\* What a request has with it where it stands.
Sound(q) ==
    /\ q.pc # "idle" => \E p \in Campaigns : q.of = {p}
    /\ q.op = "create" => q.pc \in {"rules", "write", "plan"}
    /\ q.pc \in {"rules", "write"} /\ q.op \in {"create", "ask", "upload"} => q.files \in Files
    /\ q.pc = "rules" /\ q.op = "update" => q.files \in Files
    /\ q.pc \in {"delete", "plan"} => q.plan \in Plans
    /\ q.pc = "status" => q.to \in ProjectStatus
    /\ q.pc = "creator" => q.op = "submit"

\* A creation is the only one of its project, which is not stored before; every
\* other request is about a stored project.
Existing ==
    /\ \A r \in Requests : \A p \in req[r].of : Creates(req[r]) <=> project[p] = NoProject
    /\ \A r, s \in Requests :
         r # s /\ req[r].op = "create" /\ req[s].op = "create" => req[r].of \cap req[s].of = {}

\* The plans stored and those about to be: a project not stored has neither, and a
\* request inserts only after a deletion or as the creation.
PlansOK ==
    \A p \in Campaigns :
        /\ project[p] = NoProject => milestones[p] = {}
        /\ IsFiniteSet(milestones[p])
        /\ Cardinality(milestones[p]) + Cardinality(Inserting(p)) <= Cardinality(Requests)

IInv == ServerOK /\ (\A r \in Requests : Sound(req[r])) /\ Existing /\ PlansOK

LEMMA NoProjectIsNoRow == NoProject \notin Row
<1>1. \A d \in Row : d.status \in ProjectStatus
  BY DEF Row
<1>2. NoProject.status = "none" /\ "none" \notin ProjectStatus
  BY DEF NoProject, ProjectStatus
<1> QED BY <1>1, <1>2

LEMMA IdleType ==
    Idle \in RequestRow /\ Idle.pc = "idle" /\ Idle.of = {} /\ Idle.op = "none" /\ Sound(Idle)
<1>1. Idle \in RequestRow
  BY DEF Idle, RequestRow
<1> QED BY <1>1 DEF Idle, Sound

LEMMA InsertingFinite ==
    ASSUME NEW p
    PROVE  /\ IsFiniteSet(Inserting(p)) /\ Cardinality(Inserting(p)) \in Nat
           /\ IsFiniteSet(Requests) /\ Cardinality(Requests) \in Nat
           /\ Cardinality(Inserting(p)) <= Cardinality(Requests)
<1>1. Inserting(p) \in SUBSET Requests
  BY DEF Inserting
<1> QED BY <1>1, RequestsAssumption, FS_Subset, FS_CardinalityType

LEMMA InitInv == Init => IInv
<1> SUFFICES ASSUME Init PROVE IInv
  OBVIOUS
<1>1. ServerOK
  BY IdleType DEF Init, ServerOK, Standing, CreatorVerificationStatus
<1>2. \A r \in Requests : req[r] = Idle
  BY DEF Init
<1>3. Existing /\ \A r \in Requests : Sound(req[r])
  BY <1>2, IdleType DEF Existing
<1>4. PlansOK
  <2> SUFFICES ASSUME NEW p \in Campaigns
               PROVE  /\ milestones[p] = {} /\ IsFiniteSet(milestones[p])
                      /\ Cardinality(milestones[p]) + Cardinality(Inserting(p))
                           <= Cardinality(Requests)
    BY DEF PlansOK
  <2>1. milestones[p] = {}
    BY DEF Init
  <2> QED BY <2>1, InsertingFinite, FS_EmptySet
<1> QED BY <1>1, <1>3, <1>4 DEF IInv

-----------------------------------------------------------------------------

\* What is known of a request.
LEMMA Facts ==
    ASSUME IInv, NEW r \in Requests
    PROVE  /\ req[r] \in RequestRow /\ Sound(req[r]) /\ req[r].of \subseteq Campaigns
           /\ project \in [Campaigns -> Row \cup {NoProject}]
           /\ milestones \in [Campaigns -> SUBSET Plans]
           /\ \A p \in req[r].of : Creates(req[r]) <=> project[p] = NoProject
           /\ wanted \in [Campaigns -> Plans \cup {NoPlan}] /\ calm \in BOOLEAN
           /\ required \subseteq Titles /\ standing \in Standing /\ plainIds \in BOOLEAN
  BY DEF IInv, ServerOK, Existing, RequestRow

\* The other variables keep their types.
OthersTyped ==
    /\ required' \subseteq Titles /\ standing' \in Standing /\ plainIds' \in BOOLEAN
    /\ calm' \in BOOLEAN /\ wanted' \in [Campaigns -> Plans \cup {NoPlan}]

\* A request goes on as q; no project comes or goes.
LEMMA GoesOnWith ==
    ASSUME IInv, NEW r \in Requests, NEW q \in RequestRow, req' = [req EXCEPT ![r] = q],
           Sound(q), OthersTyped, milestones' \in [Campaigns -> SUBSET Plans], PlansOK',
           project' \in [Campaigns -> Row \cup {NoProject}],
           \A p \in Campaigns : project'[p] = NoProject <=> project[p] = NoProject,
           \A p \in q.of : Creates(q) <=> project[p] = NoProject,
           q.op = "create" =>
             \A s \in Requests : s # r /\ req[s].op = "create" => q.of \cap req[s].of = {}
    PROVE  IInv'
<1>1. ServerOK'
  BY DEF IInv, ServerOK, OthersTyped
<1>2. req'[r] = q /\ \A s \in Requests \ {r} : req'[s] = req[s]
  BY DEF IInv, ServerOK
<1>3. \A s \in Requests : Sound(req'[s])
  BY <1>2, Facts
<1>4. \A s \in Requests : req'[s].of \subseteq Campaigns
  BY <1>2, Facts DEF RequestRow
<1>5. Existing'
  <2>1. ASSUME NEW s \in Requests, NEW p \in req'[s].of
        PROVE  Creates(req'[s]) <=> project'[p] = NoProject
    BY <1>2, <1>4, Facts
  <2>2. ASSUME NEW s \in Requests, NEW t \in Requests, s # t,
               req'[s].op = "create", req'[t].op = "create"
        PROVE  req'[s].of \cap req'[t].of = {}
    <3>1. CASE s # r /\ t # r
      BY <1>2, <2>2, <3>1 DEF IInv, Existing
    <3>2. CASE s = r
      BY <1>2, <2>2, <3>2
    <3>3. CASE t = r
      BY <1>2, <2>2, <3>3
    <3> QED BY <3>1, <3>2, <3>3
  <2> QED BY <2>1, <2>2 DEF Existing, Creates
<1> QED BY <1>1, <1>3, <1>5 DEF IInv

\* The same when it does not go on to an insertion.
LEMMA GoesOn ==
    ASSUME IInv, NEW r \in Requests, NEW q \in RequestRow, req' = [req EXCEPT ![r] = q],
           Sound(q), q.pc # "plan", OthersTyped, UNCHANGED milestones,
           project' \in [Campaigns -> Row \cup {NoProject}],
           \A p \in Campaigns : project'[p] = NoProject <=> project[p] = NoProject,
           \A p \in q.of : Creates(q) <=> project[p] = NoProject,
           q.op = "create" =>
             \A s \in Requests : s # r /\ req[s].op = "create" => q.of \cap req[s].of = {}
    PROVE  IInv'
<1>1. PlansOK'
  <2> SUFFICES ASSUME NEW p \in Campaigns
               PROVE  /\ project'[p] = NoProject => milestones[p] = {}
                      /\ IsFiniteSet(milestones[p])
                      /\ Cardinality(milestones[p]) + Cardinality(Inserting(p)')
                           <= Cardinality(Requests)
    BY DEF PlansOK
  <2>1. Inserting(p)' \in SUBSET Inserting(p)
    BY DEF Inserting, IInv, ServerOK
  <2>2. Cardinality(Inserting(p)') <= Cardinality(Inserting(p)) /\ Cardinality(Inserting(p)') \in Nat
    BY <2>1, InsertingFinite, FS_Subset, FS_CardinalityType
  <2>3. /\ project[p] = NoProject => milestones[p] = {}
        /\ IsFiniteSet(milestones[p]) /\ Cardinality(milestones[p]) \in Nat
        /\ Cardinality(milestones[p]) + Cardinality(Inserting(p)) <= Cardinality(Requests)
    BY FS_CardinalityType DEF IInv, PlansOK
  <2> QED BY <2>2, <2>3, InsertingFinite
<1>2. milestones' \in [Campaigns -> SUBSET Plans]
  BY DEF IInv, ServerOK
<1> QED BY <1>1, <1>2, GoesOnWith

\* A request ends.
LEMMA Ends ==
    ASSUME IInv, NEW r \in Requests, Finish(r), OthersTyped, UNCHANGED milestones,
           project' \in [Campaigns -> Row \cup {NoProject}],
           \A p \in Campaigns : project'[p] = NoProject <=> project[p] = NoProject
    PROVE  IInv'
  BY IdleType, GoesOn DEF Finish

\* The requests stay where they are.
LEMMA Stays ==
    ASSUME IInv, UNCHANGED <<req, milestones>>, OthersTyped,
           project' \in [Campaigns -> Row \cup {NoProject}],
           \A p \in Campaigns : project'[p] = NoProject <=> project[p] = NoProject
    PROVE  IInv'
<1>1. ServerOK'
  BY DEF IInv, ServerOK, OthersTyped
<1>2. \A s \in Requests : req[s].of \subseteq Campaigns
  BY Facts
<1>3. Existing'
  BY <1>2 DEF IInv, Existing, Creates
<1>4. PlansOK'
  BY DEF IInv, PlansOK, Inserting
<1> QED BY <1>1, <1>3, <1>4 DEF IInv

\* What holds when the project is left alone.
LEMMA Untouched ==
    ASSUME IInv, UNCHANGED project
    PROVE  /\ project' \in [Campaigns -> Row \cup {NoProject}]
           /\ \A p \in Campaigns : project'[p] = NoProject <=> project[p] = NoProject
  BY DEF IInv, ServerOK

\* What holds when a stored project is written.
LEMMA Written ==
    ASSUME IInv, NEW p \in Campaigns, project[p] # NoProject, NEW row \in Row,
           project' = [project EXCEPT ![p] = row]
    PROVE  /\ project' \in [Campaigns -> Row \cup {NoProject}]
           /\ \A c \in Campaigns : project'[c] = NoProject <=> project[c] = NoProject
  BY NoProjectIsNoRow DEF IInv, ServerOK

\* The fields of a stored project, changed one by one.
LEMMA RowType ==
    ASSUME NEW row \in Row
    PROVE  /\ \A s \in ProjectStatus : [row EXCEPT !.status = s] \in Row
           /\ \A f \in Files : [row EXCEPT !.files = f] \in Row
           /\ [row EXCEPT !.logged = TRUE] \in Row
           /\ row.files \in Files /\ row.status \in ProjectStatus
  BY DEF Row

-----------------------------------------------------------------------------
\* Requests arrive.

LEMMA ListedType == \A filled \in SUBSET Titles : Listed(filled) \in Files
  BY DEF Listed, Files

\* A new request q about p.
LEMMA Arrived ==
    ASSUME IInv, NEW r \in Requests, NEW p \in Campaigns, NEW q \in RequestRow,
           req' = [req EXCEPT ![r] = q], q.of = {p}, OthersTyped, UNCHANGED projectVars,
           \/ /\ q.op = "create" /\ q.pc = "rules" /\ q.files \in Files /\ project[p] = NoProject
              /\ \A other \in Requests : req[other].op = "create" => p \notin req[other].of
           \/ q.op # "create" /\ q.pc = "find" /\ project[p] # NoProject
    PROVE  IInv'
<1>1. Sound(q)
  BY DEF Sound
<1>2. \A c \in q.of : Creates(q) <=> project[c] = NoProject
  BY DEF Creates
<1> QED BY <1>1, <1>2, GoesOn, Untouched DEF projectVars

LEMMA ArrivesInv ==
    ASSUME IInv, NEW r \in Requests, NEW p \in Campaigns, Arrives(r, p), Begins,
           UNCHANGED <<projectVars, required, standing>>, UNCHANGED plainIds
    PROVE  IInv'
<1>0. /\ wanted \in [Campaigns -> Plans \cup {NoPlan}]
      /\ required' \subseteq Titles /\ standing' \in Standing /\ plainIds' \in BOOLEAN
  BY Facts
<1>00. calm' \in BOOLEAN
  BY DEF Begins, IInv, ServerOK
<1>1. ASSUME NEW filled \in SUBSET Titles, NEW m \in Plans \cup {NoPlan},
             CreateArrives(r, p, filled, m)
      PROVE  IInv'
  <2> DEFINE q == [Idle EXCEPT !.pc = "rules", !.op = "create", !.of = {p},
                               !.files = Listed(filled), !.plan = m]
  <2>1. q \in RequestRow
    BY ListedType DEF Idle, RequestRow, Ops
  <2>2. q.of = {p} /\ q.op = "create" /\ q.pc = "rules" /\ q.files \in Files
    BY ListedType DEF Idle
  <2>3. req' = [req EXCEPT ![r] = q]
    BY <1>1 DEF CreateArrives
  <2> HIDE DEF q
  <2>4. OthersTyped
    BY <1>0, <1>00, <1>1 DEF OthersTyped, CreateArrives
  <2> QED BY <1>1, <2>1, <2>2, <2>3, <2>4, Arrived DEF CreateArrives
<1>2. ASSUME NEW files \in {Keep} \cup {Listed(filled) : filled \in SUBSET Titles},
             NEW anew \in BOOLEAN, NEW m \in Plans \cup {NoPlan},
             UpdateArrives(r, p, files, anew, m)
      PROVE  IInv'
  <2> DEFINE q == [Idle EXCEPT !.pc = "find", !.op = "update", !.of = {p},
                               !.files = files, !.anew = anew, !.plan = m]
  <2>1. q \in RequestRow
    BY ListedType DEF Idle, RequestRow, Ops
  <2>2. q.of = {p} /\ q.op = "update" /\ q.pc = "find"
    BY DEF Idle
  <2>3. req' = [req EXCEPT ![r] = q]
    BY <1>2 DEF UpdateArrives
  <2> HIDE DEF q
  <2>4. OthersTyped
    BY <1>0, <1>00, <1>2 DEF OthersTyped, UpdateArrives
  <2> QED BY <1>2, <2>1, <2>2, <2>3, <2>4, Arrived DEF UpdateArrives
<1>3. ASSUME NEW op \in {"submit", "decide", "ask", "upload"},
             NEW to \in {"none"} \cup ProjectStatus, NEW named \in SUBSET Titles,
             OtherArrives(r, p, op, to, named)
      PROVE  IInv'
  <2> DEFINE q == [Idle EXCEPT !.pc = "find", !.op = op, !.of = {p}, !.to = to, !.named = named]
  <2>1. q \in RequestRow
    BY DEF Idle, RequestRow, Ops
  <2>2. q.of = {p} /\ q.op = op /\ q.pc = "find"
    BY DEF Idle
  <2>3. req' = [req EXCEPT ![r] = q]
    BY <1>3 DEF OtherArrives
  <2> HIDE DEF q
  <2>4. OthersTyped
    BY <1>0, <1>00, <1>3 DEF OthersTyped, OtherArrives
  <2>5. q.op # "create" /\ q.pc = "find" /\ project[p] # NoProject
    BY <1>3, <2>2 DEF OtherArrives
  <2> QED BY <2>1, <2>2, <2>3, <2>4, <2>5, Arrived
<1>4. CASE OtherArrives(r, p, "submit", "none", {})
  <2>1. {} \in SUBSET Titles
    OBVIOUS
  <2> QED BY <1>3, <1>4, <2>1
<1>5. CASE \E to \in ProjectStatus : OtherArrives(r, p, "decide", to, {})
  <2>1. PICK to \in ProjectStatus : OtherArrives(r, p, "decide", to, {})
    BY <1>5
  <2>2. {} \in SUBSET Titles
    OBVIOUS
  <2> QED BY <1>3, <2>1, <2>2
<1>6. CASE \E t \in Titles, op \in {"ask", "upload"} : OtherArrives(r, p, op, "none", {t})
  BY <1>3, <1>6
<1> QED BY <1>1, <1>2, <1>4, <1>5, <1>6 DEF Arrives

-----------------------------------------------------------------------------
\* Requests go on.

LEMMA SameOthers ==
    ASSUME IInv, UNCHANGED <<required, standing, history>>, UNCHANGED plainIds
    PROVE  OthersTyped /\ calm' = calm /\ wanted' = wanted
  BY DEF IInv, ServerOK, OthersTyped, history

\* A request goes on with another pc and other fields; the projects stay.
LEMMA Advances ==
    ASSUME IInv, NEW r \in Requests, NEW q \in RequestRow, req' = [req EXCEPT ![r] = q],
           q.of = req[r].of, q.op = req[r].op, q.pc # "plan", Sound(q),
           Creates(q) = Creates(req[r]), OthersTyped, UNCHANGED projectVars
    PROVE  IInv'
<1>1. \A p \in q.of : Creates(q) <=> project[p] = NoProject
  BY Facts
<1>2. q.op = "create" =>
        \A s \in Requests : s # r /\ req[s].op = "create" => q.of \cap req[s].of = {}
  BY DEF IInv, Existing
<1> QED BY <1>1, <1>2, GoesOn, Untouched DEF projectVars

\* q is row gone on to pc, with other files or the same.
MovedTo(row, pc, files, q) ==
    \/ q = [row EXCEPT !.pc = pc] /\ files = row.files
    \/ q = [row EXCEPT !.pc = pc, !.files = files]

LEMMA GotoType ==
    ASSUME NEW row \in RequestRow,
           NEW pc \in {"idle", "find", "rules", "write", "delete", "plan", "creator", "status"},
           NEW files \in Files \cup {Keep}, NEW q, MovedTo(row, pc, files, q)
    PROVE  /\ q \in RequestRow /\ q.pc = pc /\ q.of = row.of /\ q.op = row.op
           /\ q.files = files /\ q.plan = row.plan /\ q.to = row.to
<1>1. CASE q = [row EXCEPT !.pc = pc] /\ files = row.files
  BY <1>1 DEF RequestRow
<1>2. CASE q = [row EXCEPT !.pc = pc, !.files = files]
  BY <1>2 DEF RequestRow
<1> QED BY <1>1, <1>2 DEF MovedTo

\* Lists of attachments stay lists.
LEMMA FilesTypes ==
    ASSUME NEW files \in Files
    PROVE  /\ WithRequired(files) \in Files
           /\ \A titles : WithAsked(files, titles) \in Files /\ WithUploaded(files, titles) \in Files
  BY DEF Files, WithRequired, WithAsked, WithUploaded

\* The steps that only move a request.
LEMMA MovesInv ==
    ASSUME IInv, NEW r \in Requests, UNCHANGED plainIds,
           \/ ReadRules(r) \/ FindForUpdate(r) \/ FindForSubmit(r) \/ CheckCreator(r)
           \/ CheckAttachments(r) \/ FindForDecide(r) \/ FindForAttachment(r) \/ Throw(r)
    PROVE  IInv'
<1>0. OthersTyped /\ UNCHANGED projectVars
  BY SameOthers DEF ReadRules, FindForUpdate, FindForSubmit, CheckCreator, CheckAttachments,
                    FindForDecide, FindForAttachment, Throw
<1>00. project' = project /\ milestones' = milestones
  BY <1>0 DEF projectVars
<1>1. CASE Finish(r)
  BY <1>0, <1>00, <1>1, Ends, Untouched
<1>2. ASSUME NEW pc \in {"rules", "status", "write"}, Goto(r, pc), ~Creates(req[r]),
             pc = "rules" => req[r].op = "submit", pc = "write" => req[r].op = "update",
             pc = "status" => req[r].to \in ProjectStatus, req[r].pc # "idle", req[r].op # "create"
      PROVE  IInv'
  <2> DEFINE q == [req[r] EXCEPT !.pc = pc]
  <2>00. MovedTo(req[r], pc, req[r].files, q) /\ req' = [req EXCEPT ![r] = q]
    BY <1>2 DEF Goto, MovedTo
  <2> HIDE DEF q
  <2>0. req[r] \in RequestRow /\ req[r].files \in Files \cup {Keep}
    BY Facts DEF RequestRow
  <2>1. /\ q \in RequestRow /\ q.pc = pc /\ q.of = req[r].of /\ q.op = req[r].op
        /\ q.files = req[r].files /\ q.plan = req[r].plan /\ q.to = req[r].to
    <3>1. pc \in {"idle", "find", "rules", "write", "delete", "plan", "creator", "status"}
      OBVIOUS
    <3> QED BY <2>00, <2>0, <3>1, GotoType
  <2>3. Sound(q) /\ Creates(q) = Creates(req[r])
    BY <1>2, <2>1, Facts DEF Sound, Creates
  <2> QED BY <1>0, <1>2, <2>00, <2>1, <2>3, Advances
<1>3. ASSUME NEW files \in Files, NEW pc \in {"rules", "write", "creator"},
             req' = [req EXCEPT ![r].pc = pc, ![r].files = files], req[r].pc \in {"find", "rules"},
             req[r].op = "create" => pc = "write" /\ req[r].pc = "rules",
             pc = "creator" => req[r].op = "submit"
      PROVE  IInv'
  <2> DEFINE q == [req[r] EXCEPT !.pc = pc, !.files = files]
  <2>00. MovedTo(req[r], pc, files, q) /\ req' = [req EXCEPT ![r] = q]
    BY <1>3 DEF MovedTo
  <2> HIDE DEF q
  <2>1. /\ q \in RequestRow /\ q.pc = pc /\ q.of = req[r].of /\ q.op = req[r].op
        /\ q.files = files /\ q.plan = req[r].plan /\ q.to = req[r].to
    <3>1. /\ pc \in {"idle", "find", "rules", "write", "delete", "plan", "creator", "status"}
          /\ files \in Files \cup {Keep}
      OBVIOUS
    <3> QED BY <2>00, <3>1, GotoType, Facts
  <2>3. Sound(q) /\ Creates(q) = Creates(req[r])
    BY <1>3, <2>1, Facts DEF Sound, Creates
  <2> QED BY <1>0, <1>3, <2>00, <2>1, <2>3, Advances
<1>4. CASE ReadRules(r)
  <2>1. req[r].files \in Files
    BY <1>4, Facts DEF ReadRules, Sound
  <2>2. WithRequired(req[r].files) \in Files
    BY <2>1, FilesTypes
  <2> QED BY <1>3, <1>4, <2>2 DEF ReadRules
<1>5. CASE FindForUpdate(r)
  <2>1. PICK p \in req[r].of :
          IF ~plainIds \/ project[p].status \notin OwnerEditable THEN Finish(r)
          ELSE IF req[r].files = Keep /\ ~req[r].anew THEN Goto(r, "write")
          ELSE req' = [req EXCEPT ![r].pc = "rules",
                                  ![r].files = IF req[r].files = Keep THEN project[p].files ELSE req[r].files]
    BY <1>5 DEF FindForUpdate
  <2>2. req[r].pc = "find" /\ req[r].op = "update" /\ ~Creates(req[r])
    BY <1>5 DEF FindForUpdate, Creates
  <2>3. project[p] \in Row /\ project[p].files \in Files
    BY <2>2, Facts, RowType
  <2>4. (IF req[r].files = Keep THEN project[p].files ELSE req[r].files) \in Files
    BY <2>3, Facts DEF RequestRow
  <2> QED BY <1>1, <1>2, <1>3, <2>1, <2>2, <2>4
<1>6. CASE FindForSubmit(r)
  <2>1. PICK p \in req[r].of :
          IF ~plainIds \/ project[p].status \notin {"DRAFT", "CHANGES_REQUESTED"} THEN Finish(r)
          ELSE req' = [req EXCEPT ![r].pc = "creator", ![r].files = project[p].files]
    BY <1>6 DEF FindForSubmit
  <2>2. req[r].pc = "find" /\ req[r].op = "submit" /\ ~Creates(req[r])
    BY <1>6 DEF FindForSubmit, Creates
  <2>3. project[p].files \in Files
    BY <2>2, Facts, RowType
  <2> QED BY <1>1, <1>3, <2>1, <2>2, <2>3
<1>7. CASE FindForAttachment(r)
  <2>1. PICK p \in req[r].of :
          IF req[r].op = "upload" /\ ~plainIds THEN Finish(r)
          ELSE req' = [req EXCEPT ![r].pc = "write",
                         ![r].files = IF req[r].op = "ask" THEN WithAsked(project[p].files, req[r].named)
                                      ELSE WithUploaded(project[p].files, req[r].named)]
    BY <1>7 DEF FindForAttachment
  <2>2. req[r].pc = "find" /\ req[r].op \in {"ask", "upload"} /\ ~Creates(req[r])
    BY <1>7 DEF FindForAttachment, Creates
  <2>3. project[p].files \in Files
    BY <2>2, Facts, RowType
  <2>4. (IF req[r].op = "ask" THEN WithAsked(project[p].files, req[r].named)
         ELSE WithUploaded(project[p].files, req[r].named)) \in Files
    BY <2>3, FilesTypes
  <2> QED BY <1>1, <1>3, <2>1, <2>2, <2>4
<1>8. CASE CheckCreator(r)
  <2>1. req[r].pc = "creator" /\ (Goto(r, "rules") \/ Finish(r))
    BY <1>8 DEF CheckCreator
  <2>2. req[r].op = "submit" /\ ~Creates(req[r])
    BY <2>1, Facts DEF Sound, Creates
  <2> QED BY <1>1, <1>2, <2>1, <2>2
<1>9. CASE CheckAttachments(r)
  <2>1. req[r].pc = "rules" /\ req[r].op = "submit" /\ ~Creates(req[r])
    BY <1>9 DEF CheckAttachments, Creates
  <2>2. CASE req' = [req EXCEPT ![r].pc = "status", ![r].to = "PENDING_REVIEW"]
    <3> DEFINE q == [req[r] EXCEPT !.pc = "status", !.to = "PENDING_REVIEW"]
    <3>1. "PENDING_REVIEW" \in ProjectStatus
      BY DEF ProjectStatus
    <3>2. /\ q \in RequestRow /\ q.pc = "status" /\ q.of = req[r].of /\ q.op = req[r].op
          /\ q.to = "PENDING_REVIEW" /\ req' = [req EXCEPT ![r] = q]
      BY <2>2, <3>1, Facts DEF RequestRow
    <3> HIDE DEF q
    <3>3. Sound(q) /\ Creates(q) = Creates(req[r])
      BY <2>1, <3>1, <3>2, Facts DEF Sound, Creates
    <3> QED BY <1>0, <3>2, <3>3, Advances
  <2> QED BY <1>1, <1>9, <2>2 DEF CheckAttachments
<1>10. CASE FindForDecide(r)
  <2>1. req[r].pc = "find" /\ req[r].op = "decide" /\ ~Creates(req[r])
    BY <1>10 DEF FindForDecide, Creates
  <2>2. req[r].to \in {"APPROVED", "REJECTED", "CHANGES_REQUESTED"} => req[r].to \in ProjectStatus
    BY DEF ProjectStatus
  <2> QED BY <1>1, <1>2, <1>10, <2>1, <2>2 DEF FindForDecide
<1>11. CASE Throw(r)
  BY <1>1, <1>11 DEF Throw
<1> QED BY <1>4, <1>5, <1>6, <1>7, <1>8, <1>9, <1>10, <1>11

-----------------------------------------------------------------------------
\* The steps that write.

\* What is known when request r is about to write project p.
LEMMA About ==
    ASSUME IInv, NEW r \in Requests, req[r].pc # "idle"
    PROVE  \E p \in Campaigns :
             /\ req[r].of = {p}
             /\ Creates(req[r]) <=> project[p] = NoProject
             /\ ~Creates(req[r]) => project[p] \in Row /\ project[p] # NoProject
  BY Facts DEF Sound

\* r goes on to a step that inserts no milestones.
LEMMA GoesTo ==
    ASSUME IInv, NEW r \in Requests, NEW pc \in {"delete"}, Goto(r, pc), ~Creates(req[r]),
           req[r].op # "create", req[r].plan \in Plans, req[r].pc # "idle",
           OthersTyped, UNCHANGED milestones,
           project' \in [Campaigns -> Row \cup {NoProject}],
           \A p \in Campaigns : project'[p] = NoProject <=> project[p] = NoProject
    PROVE  IInv'
<1> DEFINE q == [req[r] EXCEPT !.pc = pc]
<1>1. MovedTo(req[r], pc, req[r].files, q) /\ req' = [req EXCEPT ![r] = q]
  BY DEF Goto, MovedTo
<1> HIDE DEF q
<1>2. req[r] \in RequestRow /\ req[r].files \in Files \cup {Keep} /\ pc = "delete"
  BY Facts DEF RequestRow
<1>3. /\ q \in RequestRow /\ q.pc = pc /\ q.of = req[r].of /\ q.op = req[r].op
      /\ q.files = req[r].files /\ q.plan = req[r].plan /\ q.to = req[r].to
  BY <1>1, <1>2, GotoType
<1>4. Sound(q) /\ ~Creates(q)
  BY <1>2, <1>3, Facts DEF Sound, Creates
<1>5. \A p \in q.of : Creates(q) <=> project[p] = NoProject
  BY <1>3, <1>4, Facts
<1> QED BY <1>1, <1>2, <1>3, <1>4, <1>5, GoesOn

LEMMA SetFieldsInv ==
    ASSUME IInv, NEW r \in Requests, SetFields(r), UNCHANGED plainIds
    PROVE  IInv'
<1>1. OthersTyped /\ UNCHANGED milestones /\ req[r].pc = "write" /\ req[r].op = "update"
  BY SameOthers DEF SetFields
<1>2. ~Creates(req[r]) /\ req[r].op # "create" /\ req[r].pc # "idle"
  BY <1>1 DEF Creates
<1>3. PICK p \in Campaigns : req[r].of = {p} /\ project[p] \in Row /\ project[p] # NoProject
  BY <1>2, About
<1>4. /\ project' \in [Campaigns -> Row \cup {NoProject}]
      /\ \A c \in Campaigns : project'[c] = NoProject <=> project[c] = NoProject
  <2>1. CASE req[r].files = Keep
    <3>1. UNCHANGED project
      BY <2>1 DEF SetFields
    <3> QED BY <3>1, Untouched
  <2>2. CASE req[r].files # Keep
    <3> DEFINE row == [project[p] EXCEPT !.files = req[r].files]
    <3>1. req[r].files \in Files
      BY <2>2, Facts DEF RequestRow
    <3>2. row \in Row
      BY <1>3, <3>1, RowType
    <3>3. project' = [c \in Campaigns |-> IF c = p THEN row ELSE project[c]]
      BY <1>3, <2>2 DEF SetFields
    <3> HIDE DEF row
    <3>4. project' = [project EXCEPT ![p] = row]
      BY <3>3, Facts
    <3> QED BY <1>3, <3>2, <3>4, Written
  <2> QED BY <2>1, <2>2
<1>5. CASE req[r].plan = NoPlan
  <2>1. Finish(r)
    BY <1>5 DEF SetFields
  <2> QED BY <1>1, <1>4, <2>1, Ends
<1>6. CASE req[r].plan # NoPlan
  <2>1. Goto(r, "delete") /\ req[r].plan \in Plans
    BY <1>6, Facts DEF SetFields, RequestRow
  <2> QED BY <1>1, <1>2, <1>4, <2>1, GoesTo
<1> QED BY <1>5, <1>6

LEMMA SetStatusInv ==
    ASSUME IInv, NEW r \in Requests, SetStatus(r), UNCHANGED plainIds
    PROVE  IInv'
<1>1. OthersTyped /\ UNCHANGED milestones /\ Finish(r) /\ req[r].pc = "status"
  BY SameOthers DEF SetStatus
<1>2. ~Creates(req[r]) /\ req[r].pc # "idle" /\ req[r].to \in ProjectStatus
  BY <1>1, Facts DEF Creates, Sound
<1>3. PICK p \in Campaigns : req[r].of = {p} /\ project[p] \in Row /\ project[p] # NoProject
  BY <1>2, About
<1> DEFINE row == [project[p] EXCEPT !.status = req[r].to]
<1>4. row \in Row
  BY <1>2, <1>3, RowType
<1>5. project' = [project EXCEPT ![p] = row]
  BY <1>3 DEF SetStatus
<1> HIDE DEF row
<1> QED BY <1>1, <1>3, <1>4, <1>5, Written, Ends

LEMMA WriteAttachmentsInv ==
    ASSUME IInv, NEW r \in Requests, WriteAttachments(r), UNCHANGED plainIds
    PROVE  IInv'
<1>1. /\ OthersTyped /\ UNCHANGED milestones /\ Finish(r)
      /\ req[r].pc = "write" /\ req[r].op \in {"ask", "upload"}
  BY SameOthers DEF WriteAttachments
<1>2. ~Creates(req[r]) /\ req[r].pc # "idle" /\ req[r].files \in Files
  BY <1>1, Facts DEF Creates, Sound
<1>3. PICK p \in Campaigns : req[r].of = {p} /\ project[p] \in Row /\ project[p] # NoProject
  BY <1>2, About
<1> DEFINE row == [project[p] EXCEPT !.files = req[r].files]
<1>4. row \in Row
  BY <1>2, <1>3, RowType
<1>5. project' = [project EXCEPT ![p] = row]
  BY <1>3 DEF WriteAttachments
<1> HIDE DEF row
<1> QED BY <1>1, <1>3, <1>4, <1>5, Written, Ends

\* What others do meanwhile.
LEMMA OthersInv ==
    ASSUME IInv, Others, Begins, UNCHANGED plainIds
    PROVE  IInv'
<1>0. /\ calm' \in BOOLEAN /\ plainIds' \in BOOLEAN
      /\ wanted \in [Campaigns -> Plans \cup {NoPlan}]
      /\ required \subseteq Titles /\ standing \in Standing
  BY DEF Begins, IInv, ServerOK
<1>1. ASSUME NEW p \in Campaigns, NEW row, row = [project[p] EXCEPT !.logged = TRUE]
                                        \/ row = [project[p] EXCEPT !.status = "FUNDING"],
             project[p] # NoProject, project' = [project EXCEPT ![p] = row],
             UNCHANGED <<milestones, required, standing, req, wanted>>
      PROVE  IInv'
  <2>1. project[p] \in Row /\ "FUNDING" \in ProjectStatus
    BY <1>1 DEF IInv, ServerOK, ProjectStatus
  <2>2. row \in Row
    BY <1>1, <2>1, RowType
  <2>3. OthersTyped
    BY <1>0, <1>1 DEF OthersTyped
  <2> QED BY <1>1, <2>2, <2>3, Written, Stays
<1>2. ASSUME NEW p \in Campaigns, AddVerificationLog(p) \/ Deploy(p) PROVE IInv'
  BY <1>1, <1>2 DEF AddVerificationLog, Deploy
<1>3. ASSUME UNCHANGED <<projectVars, req, wanted>>, required' \subseteq Titles,
             standing' \in Standing
      PROVE  IInv'
  BY <1>0, <1>3, Untouched, Stays DEF OthersTyped, projectVars
<1>4. ASSUME NEW t \in Titles, UpdateRequirement(t) PROVE IInv'
  BY <1>0, <1>3, <1>4 DEF UpdateRequirement
<1>5. ASSUME NEW s \in CreatorVerificationStatus, standing' = [standing EXCEPT !.creator = s],
             UNCHANGED <<projectVars, required, req, wanted>>
      PROVE  IInv'
  <2>1. standing' \in Standing
    BY <1>0, <1>5 DEF Standing
  <2> QED BY <1>0, <1>3, <1>5, <2>1
<1>6. CASE SubmitCreatorVerification
  BY <1>5, <1>6 DEF SubmitCreatorVerification, CreatorVerificationStatus
<1>7. ASSUME NEW s \in {"VERIFIED", "REJECTED"}, UpdateCreatorVerificationStatus(s) PROVE IInv'
  BY <1>5, <1>7 DEF UpdateCreatorVerificationStatus, CreatorVerificationStatus
<1>8. ASSUME NEW active \in BOOLEAN, NEW kyc \in BOOLEAN, ChangeAccount(active, kyc) PROVE IInv'
  <2>1. standing' \in Standing
    BY <1>0, <1>8 DEF Standing, ChangeAccount
  <2> QED BY <1>0, <1>3, <1>8, <2>1 DEF ChangeAccount
<1> QED BY <1>2, <1>4, <1>6, <1>7, <1>8 DEF Others

-----------------------------------------------------------------------------
\* The steps that change who inserts milestones.

\* Where nothing is stored of a plan, PlansOK asks for nothing.
LEMMA EmptyPlan ==
    ASSUME NEW p
    PROVE  IsFiniteSet({}) /\ Cardinality({}) + Cardinality(Inserting(p)) <= Cardinality(Requests)
  BY InsertingFinite, FS_EmptySet

\* r goes on to insert the milestones of its plan.
LEMMA PlanType ==
    ASSUME IInv, NEW r \in Requests, Goto(r, "plan"), req[r].plan \in Plans
    PROVE  \E q \in RequestRow :
             /\ req' = [req EXCEPT ![r] = q] /\ q.of = req[r].of /\ q.op = req[r].op
             /\ q.pc = "plan" /\ q.plan = req[r].plan
<1> DEFINE q == [req[r] EXCEPT !.pc = "plan"]
<1>1. MovedTo(req[r], "plan", req[r].files, q) /\ req' = [req EXCEPT ![r] = q]
  BY DEF Goto, MovedTo
<1> HIDE DEF q
<1>2. req[r] \in RequestRow /\ req[r].files \in Files \cup {Keep}
  BY Facts DEF RequestRow
<1>3. /\ q \in RequestRow /\ q.pc = "plan" /\ q.of = req[r].of /\ q.op = req[r].op
      /\ q.plan = req[r].plan
  BY <1>1, <1>2, GotoType
<1> QED BY <1>1, <1>3

LEMMA DeleteMilestonesInv ==
    ASSUME IInv, NEW r \in Requests, DeleteMilestones(r), UNCHANGED plainIds
    PROVE  IInv'
<1>1. /\ req[r].pc = "delete" /\ Goto(r, "plan") /\ UNCHANGED project
      /\ UNCHANGED <<required, standing, calm>>
      /\ wanted' = [p \in Campaigns |-> IF p \in req[r].of THEN req[r].plan ELSE wanted[p]]
      /\ milestones' = [p \in Campaigns |-> IF p \in req[r].of THEN {} ELSE milestones[p]]
  BY DEF DeleteMilestones
<1>2. req[r].plan \in Plans /\ req[r].op # "create" /\ ~Creates(req[r])
  BY <1>1, Facts DEF Sound, Creates
<1>3. OthersTyped
  BY <1>1, <1>2, Facts DEF OthersTyped
<1>4. PICK q \in RequestRow :
        /\ req' = [req EXCEPT ![r] = q] /\ q.of = req[r].of /\ q.op = req[r].op
        /\ q.pc = "plan" /\ q.plan = req[r].plan
  BY <1>1, <1>2, PlanType
<1>5. Sound(q) /\ ~Creates(q)
  BY <1>1, <1>2, <1>4, Facts DEF Sound, Creates
<1>6. milestones' \in [Campaigns -> SUBSET Plans]
  BY <1>1, Facts
<1>7. PlansOK'
  <2> SUFFICES ASSUME NEW p \in Campaigns
               PROVE  /\ project[p] = NoProject => milestones'[p] = {}
                      /\ IsFiniteSet(milestones'[p])
                      /\ Cardinality(milestones'[p]) + Cardinality(Inserting(p)')
                           <= Cardinality(Requests)
    BY <1>1 DEF PlansOK
  <2>1. Inserting(p)' \in SUBSET Requests
    BY DEF Inserting
  <2>2. Cardinality(Inserting(p)') <= Cardinality(Requests) /\ Cardinality(Inserting(p)') \in Nat
    BY <2>1, RequestsAssumption, FS_Subset, FS_CardinalityType
  <2>3. CASE p \in req[r].of
    <3>1. milestones'[p] = {}
      BY <1>1, <2>3
    <3> QED BY <2>2, <3>1, FS_EmptySet
  <2>4. CASE p \notin req[r].of
    <3>1. milestones'[p] = milestones[p]
      BY <1>1, <2>4
    <3>2. Inserting(p)' = Inserting(p)
      BY <1>4, <2>4 DEF Inserting, IInv, ServerOK
    <3>3. /\ project[p] = NoProject => milestones[p] = {}
          /\ IsFiniteSet(milestones[p])
          /\ Cardinality(milestones[p]) + Cardinality(Inserting(p)) <= Cardinality(Requests)
      BY DEF IInv, PlansOK
    <3> QED BY <3>1, <3>2, <3>3
  <2> QED BY <2>3, <2>4
<1>8. \A p \in q.of : Creates(q) <=> project[p] = NoProject
  BY <1>2, <1>4, <1>5, Facts
<1> QED BY <1>1, <1>2, <1>3, <1>4, <1>5, <1>6, <1>7, <1>8, Untouched, GoesOnWith

LEMMA InsertMilestonesInv ==
    ASSUME IInv, NEW r \in Requests, InsertMilestones(r), UNCHANGED plainIds
    PROVE  IInv'
<1>1. /\ req[r].pc = "plan" /\ Finish(r) /\ UNCHANGED project
      /\ milestones' = [p \in Campaigns |-> IF p \in req[r].of
                          THEN milestones[p] \cup {req[r].plan} ELSE milestones[p]]
  BY DEF InsertMilestones
<1>2. OthersTyped
  BY SameOthers DEF InsertMilestones
<1>3. req[r].plan \in Plans /\ ~Creates(req[r])
  BY <1>1, Facts DEF Sound, Creates
<1>4. milestones' \in [Campaigns -> SUBSET Plans]
  BY <1>1, <1>3, Facts
<1>5. req' = [req EXCEPT ![r] = Idle]
  BY <1>1 DEF Finish
<1>6. PlansOK'
  <2> SUFFICES ASSUME NEW p \in Campaigns
               PROVE  /\ project[p] = NoProject => milestones'[p] = {}
                      /\ IsFiniteSet(milestones'[p])
                      /\ Cardinality(milestones'[p]) + Cardinality(Inserting(p)')
                           <= Cardinality(Requests)
    BY <1>1 DEF PlansOK
  <2>1. /\ project[p] = NoProject => milestones[p] = {}
        /\ IsFiniteSet(milestones[p]) /\ Cardinality(milestones[p]) \in Nat
        /\ Cardinality(milestones[p]) + Cardinality(Inserting(p)) <= Cardinality(Requests)
    BY FS_CardinalityType DEF IInv, PlansOK
  <2>2. Inserting(p)' = Inserting(p) \ {r}
    BY <1>5, IdleType DEF Inserting, IInv, ServerOK
  <2>3. CASE p \in req[r].of
    <3>1. milestones'[p] = milestones[p] \cup {req[r].plan} /\ project[p] # NoProject
      BY <1>1, <1>3, <2>3, Facts
    <3>2. /\ IsFiniteSet(milestones'[p])
          /\ Cardinality(milestones'[p]) \in Nat
          /\ Cardinality(milestones'[p]) <= Cardinality(milestones[p]) + 1
      <4>1. IsFiniteSet(milestones[p]) /\ Cardinality(milestones[p]) \in Nat
        BY <2>1
      <4>2. CASE req[r].plan \in milestones[p]
        <5>1. milestones'[p] = milestones[p]
          BY <3>1, <4>2
        <5> QED BY <4>1, <5>1
      <4>3. CASE req[r].plan \notin milestones[p]
        <5>1. /\ IsFiniteSet(milestones[p] \cup {req[r].plan})
              /\ Cardinality(milestones[p] \cup {req[r].plan}) = Cardinality(milestones[p]) + 1
          BY <4>1, <4>3, FS_AddElement
        <5> QED BY <3>1, <4>1, <5>1
      <4> QED BY <4>2, <4>3
    <3>3. r \in Inserting(p)
      BY <1>1, <2>3 DEF Inserting
    <3>4. Cardinality(Inserting(p)') = Cardinality(Inserting(p)) - 1
      BY <2>2, <3>3, InsertingFinite, FS_RemoveElement
    <3> QED BY <2>1, <3>1, <3>2, <3>4, InsertingFinite
  <2>4. CASE p \notin req[r].of
    <3>1. milestones'[p] = milestones[p]
      BY <1>1, <2>4
    <3>2. Inserting(p)' = Inserting(p)
      BY <2>2, <2>4 DEF Inserting
    <3> QED BY <2>1, <3>1, <3>2
  <2> QED BY <2>3, <2>4
<1>7. \A p \in Idle.of : Creates(Idle) <=> project[p] = NoProject
  BY IdleType
<1> QED BY <1>2, <1>4, <1>5, <1>6, <1>7, IdleType, Untouched, <1>1, GoesOnWith

LEMMA InsertProjectInv ==
    ASSUME IInv, NEW r \in Requests, InsertProject(r), UNCHANGED plainIds
    PROVE  IInv'
<1>1. /\ OthersTyped /\ UNCHANGED milestones
      /\ req[r].pc = "write" /\ req[r].op = "create" /\ Creates(req[r])
  BY SameOthers DEF InsertProject, Creates
<1>2. PICK p \in Campaigns : req[r].of = {p} /\ project[p] = NoProject
  BY <1>1, About
<1> DEFINE row == [status |-> "PENDING_REVIEW", files |-> req[r].files, logged |-> FALSE]
<1>3. req[r].files \in Files
  BY <1>1, Facts DEF Sound
<1>4. row \in Row /\ project' = [project EXCEPT ![p] = row]
  BY <1>2, <1>3 DEF InsertProject, Row, ProjectStatus
<1> HIDE DEF row
<1>5. /\ project'[p] # NoProject /\ \A c \in Campaigns \ {p} : project'[c] = project[c]
      /\ project' \in [Campaigns -> Row \cup {NoProject}]
  BY <1>4, Facts, NoProjectIsNoRow
<1>6. PICK q \in RequestRow :
        /\ req' = [req EXCEPT ![r] = q] /\ Sound(q) /\ ~Creates(q) /\ q.of \subseteq {p}
        /\ q.op = "create" => q.of = {p}
  <2>1. CASE req[r].plan = NoPlan
    <3>1. req' = [req EXCEPT ![r] = Idle]
      BY <2>1 DEF InsertProject, Finish
    <3>2. ~Creates(Idle)
      BY IdleType DEF Creates
    <3> QED BY <3>1, <3>2, IdleType
  <2>2. CASE req[r].plan # NoPlan
    <3>1. Goto(r, "plan") /\ req[r].plan \in Plans
      BY <2>2, Facts DEF InsertProject, RequestRow
    <3>2. PICK q \in RequestRow :
            /\ req' = [req EXCEPT ![r] = q] /\ q.of = req[r].of /\ q.op = req[r].op
            /\ q.pc = "plan" /\ q.plan = req[r].plan
      BY <3>1, PlanType
    <3>3. Sound(q) /\ ~Creates(q)
      BY <1>1, <1>2, <3>1, <3>2 DEF Sound, Creates
    <3> QED BY <1>2, <3>2, <3>3
  <2> QED BY <2>1, <2>2
<1>7. req'[r] = q /\ \A s \in Requests \ {r} : req'[s] = req[s]
  BY <1>6 DEF IInv, ServerOK
<1>8. ServerOK'
  BY <1>1, <1>5, <1>6 DEF IInv, ServerOK, OthersTyped
<1>9. \A s \in Requests : Sound(req'[s])
  BY <1>6, <1>7, Facts
<1>10. Existing'
  <2>1. ASSUME NEW s \in Requests, NEW c \in req'[s].of
        PROVE  Creates(req'[s]) <=> project'[c] = NoProject
    <3>1. CASE s = r
      BY <1>5, <1>6, <1>7, <2>1, <3>1
    <3>2. CASE s # r
      <4>1. req'[s] = req[s] /\ c \in Campaigns
        BY <1>7, <2>1, <3>2, Facts
      <4>2. c # p
        <5> SUFFICES ASSUME c = p PROVE FALSE
          OBVIOUS
        <5>1. Creates(req[s])
          BY <1>2, <2>1, <4>1, Facts
        <5> QED BY <1>1, <1>2, <2>1, <3>2, <4>1, <5>1 DEF IInv, Existing, Creates
      <4> QED BY <1>5, <2>1, <4>1, <4>2, Facts
    <3> QED BY <3>1, <3>2
  <2>2. ASSUME NEW s \in Requests, NEW t \in Requests, s # t,
               req'[s].op = "create", req'[t].op = "create"
        PROVE  req'[s].of \cap req'[t].of = {}
    <3>1. \A u \in Requests : u # r /\ req[u].op = "create" => p \notin req[u].of
      BY <1>1, <1>2 DEF IInv, Existing
    <3>2. CASE s # r /\ t # r
      BY <1>7, <2>2, <3>2 DEF IInv, Existing
    <3>3. CASE s = r
      BY <1>6, <1>7, <2>2, <3>1, <3>3
    <3>4. CASE t = r
      BY <1>6, <1>7, <2>2, <3>1, <3>4
    <3> QED BY <3>2, <3>3, <3>4
  <2> QED BY <2>1, <2>2 DEF Existing, Creates
<1>11. PlansOK'
  <2> SUFFICES ASSUME NEW c \in Campaigns
               PROVE  /\ project'[c] = NoProject => milestones[c] = {}
                      /\ IsFiniteSet(milestones[c])
                      /\ Cardinality(milestones[c]) + Cardinality(Inserting(c)')
                           <= Cardinality(Requests)
    BY <1>1 DEF PlansOK
  <2>1. Inserting(c)' \in SUBSET Requests
    BY DEF Inserting
  <2>2. Cardinality(Inserting(c)') <= Cardinality(Requests) /\ Cardinality(Inserting(c)') \in Nat
    BY <2>1, RequestsAssumption, FS_Subset, FS_CardinalityType
  <2>3. CASE c = p
    <3>1. milestones[c] = {}
      BY <1>2, <2>3 DEF IInv, PlansOK
    <3> QED BY <2>2, <3>1, FS_EmptySet, InsertingFinite
  <2>4. CASE c # p
    <3>1. Inserting(c)' = Inserting(c)
      BY <1>2, <1>6, <1>7, <2>4 DEF Inserting
    <3>2. /\ project[c] = NoProject => milestones[c] = {}
          /\ IsFiniteSet(milestones[c])
          /\ Cardinality(milestones[c]) + Cardinality(Inserting(c)) <= Cardinality(Requests)
      BY DEF IInv, PlansOK
    <3> QED BY <1>5, <2>4, <3>1, <3>2
  <2> QED BY <2>3, <2>4
<1> QED BY <1>8, <1>9, <1>10, <1>11 DEF IInv

-----------------------------------------------------------------------------

\* A step of the specification preserves the invariant.
LEMMA StepInv == IInv /\ [Next]_vars => IInv'
<1> SUFFICES ASSUME IInv, [Next]_vars PROVE IInv'
  OBVIOUS
<1>1. CASE UNCHANGED vars
  <2>1. OthersTyped /\ UNCHANGED <<req, milestones, project>>
    BY <1>1 DEF vars, OthersTyped, IInv, ServerOK
  <2> QED BY <2>1, Untouched, Stays
<1>2. ASSUME NEW r \in Requests, Step(r), UNCHANGED plainIds PROVE IInv'
  BY <1>2, MovesInv, InsertProjectInv, SetFieldsInv, DeleteMilestonesInv, InsertMilestonesInv,
     SetStatusInv, WriteAttachmentsInv DEF Step
<1>3. ASSUME NEW r \in Requests, NEW p \in Campaigns, Arrives(r, p), Begins,
             UNCHANGED <<projectVars, required, standing>>, UNCHANGED plainIds
      PROVE  IInv'
  BY <1>3, ArrivesInv
<1>4. CASE Others /\ Begins /\ UNCHANGED plainIds
  BY <1>4, OthersInv
<1> QED BY <1>1, <1>2, <1>3, <1>4 DEF Next

\* The invariant, which is inductive.
THEOREM Invariant == Spec => []IInv
<1>1. Init => IInv
  BY InitInv
<1>2. IInv /\ [Next]_vars => IInv'
  BY StepInv
<1> QED BY <1>1, <1>2, PTL DEF Spec

\* The history variable holds requests.
OvertakenOK == overtaken \subseteq Requests

LEMMA OvertakenInvariant == Spec => []OvertakenOK
<1>1. Init => OvertakenOK
  BY DEF Init, OvertakenOK
<1>2. OvertakenOK /\ [Next]_vars => OvertakenOK'
  <2>1. ASSUME Next PROVE OvertakenOK'
    <3>1. Overtake
      BY <2>1 DEF Next
    <3> QED BY <3>1 DEF Overtake, OvertakenOK
  <2>2. ASSUME OvertakenOK, UNCHANGED vars PROVE OvertakenOK'
    BY <2>2 DEF vars, OvertakenOK
  <2> QED BY <2>1, <2>2
<1> QED BY <1>1, <1>2, PTL DEF Spec

\* Whatever requests overlap and throw, the projects, their milestones and the
\* requests about them have their types.
THEOREM ProjectsTypes == Spec => []TypeOK
<1>1. IInv /\ OvertakenOK => TypeOK
  BY DEF IInv, TypeOK, OvertakenOK
<1> QED BY <1>1, Invariant, OvertakenInvariant, PTL

\* An update deletes the milestones and inserts its own by two writes of
\* different collections; however these interleave and wherever they fail, a
\* project keeps no more plans than requests can be in progress at a time: every
\* deletion makes room for those about to insert.
THEOREM PlansStayFew == Spec => []PlansBounded
<1>1. IInv => PlansBounded
  <2> SUFFICES ASSUME IInv, NEW p \in Campaigns
               PROVE  Cardinality(milestones[p]) <= Cardinality(Requests)
    BY DEF PlansBounded
  <2>1. /\ Cardinality(milestones[p]) \in Nat
        /\ Cardinality(milestones[p]) + Cardinality(Inserting(p)) <= Cardinality(Requests)
    BY FS_CardinalityType DEF IInv, PlansOK
  <2> QED BY <2>1, InsertingFinite
<1> QED BY <1>1, Invariant, PTL

-----------------------------------------------------------------------------
\* While nothing overlaps.

\* What a request q about a project whose document is row may rely on when it is
\* alone: want is the plan sent last, eligible says whether the creator is, needed
\* are the attachments required.
Careful(q, row, want, eligible, needed) ==
    /\ q.pc = "status" => q.op \in {"submit", "decide"}
    /\ q.pc = "status" /\ q.op = "decide" => q.to \in {"APPROVED", "REJECTED", "CHANGES_REQUESTED"}
    /\ q.pc \in {"creator", "rules", "status"} /\ q.op = "submit" =>
         row.status \in {"DRAFT", "CHANGES_REQUESTED"}
    /\ q.pc \in {"creator", "rules"} /\ q.op = "submit" => q.files = row.files
    /\ q.pc \in {"rules", "status"} /\ q.op = "submit" => eligible
    /\ q.pc = "status" /\ q.op = "submit" =>
         q.to = "PENDING_REVIEW" /\ \A t \in needed : row.files[t] = "filled"
    /\ q.pc = "plan" \/ Creates(q) => q.plan = want

Alone == \A r, s \in Requests : r # s => req[r] = Idle \/ req[s] = Idle

AllCareful ==
    \A r \in Requests : \A p \in req[r].of :
        Careful(req[r], project[p], wanted[p], Eligible, required)

OnePlan == \A p \in Campaigns : milestones[p] \subseteq {wanted[p]}

CalmInv == calm => Alone /\ AllCareful /\ OnePlan

\* Why q, gone on to pc, may rely on what Careful says.
MayTurn(q, pc, files, row, want, eligible) ==
    /\ pc = "status" =>
         q.op = "decide" /\ q.to \in {"APPROVED", "REJECTED", "CHANGES_REQUESTED"}
    /\ pc \in {"creator", "rules"} /\ q.op = "submit" =>
         row.status \in {"DRAFT", "CHANGES_REQUESTED"} /\ files = row.files
    /\ pc = "rules" /\ q.op = "submit" => eligible
    /\ pc = "plan" \/ (q.op = "create" /\ pc \in {"rules", "write"}) => q.plan = want

\* The only request goes on as q.
LEMMA CalmGoes ==
    ASSUME IInv, CalmInv, calm, NEW r \in Requests, req[r] # Idle, NEW q,
           req' = [req EXCEPT ![r] = q], OnePlan',
           \A p \in q.of : Careful(q, project'[p], wanted'[p], Eligible', required')
    PROVE  CalmInv'
<1>1. req[r] # Idle /\ Alone
  BY DEF CalmInv
<1>2. \A s \in Requests \ {r} : req[s] = Idle
  BY <1>1 DEF Alone
<1>3. req'[r] = q /\ \A s \in Requests \ {r} : req'[s] = Idle
  BY <1>2 DEF IInv, ServerOK
<1>4. Alone'
  BY <1>3, IdleType DEF Alone, Idle
<1>5. \A s \in Requests : \A p \in req'[s].of : s = r
  BY <1>3, IdleType
<1>6. AllCareful'
  BY <1>3, <1>5 DEF AllCareful
<1> QED BY <1>4, <1>6 DEF CalmInv

\* The only request ends.
LEMMA CalmEnds ==
    ASSUME IInv, CalmInv, calm, NEW r \in Requests, req[r] # Idle, Finish(r), OnePlan'
    PROVE  CalmInv'
  BY CalmGoes, IdleType DEF Finish

\* Where the plans stay, they are still of one.
LEMMA PlanStays ==
    ASSUME OnePlan, milestones' = milestones, wanted' = wanted
    PROVE  OnePlan'
  BY DEF OnePlan

\* What is known of a request q gone on from req[r] to pc.
LEMMA CalmMoves ==
    ASSUME IInv, CalmInv, calm, NEW r \in Requests, req[r].pc # "idle", NEW q,
           NEW pc \in {"idle", "find", "rules", "write", "delete", "plan", "creator", "status"},
           NEW files \in Files \cup {Keep}, MovedTo(req[r], pc, files, q),
           req' = [req EXCEPT ![r] = q], UNCHANGED <<milestones, required, standing, history>>,
           \A p \in req[r].of : MayTurn(req[r], pc, files, project'[p], wanted[p], Eligible)
    PROVE  CalmInv'
<1>1. req[r] \in RequestRow
  BY Facts
<1>2. /\ q.pc = pc /\ q.of = req[r].of /\ q.op = req[r].op /\ q.files = files
      /\ q.plan = req[r].plan /\ q.to = req[r].to
  BY <1>1, GotoType
<1>3. wanted' = wanted /\ required' = required /\ Eligible' = Eligible /\ milestones' = milestones
  BY DEF history, Eligible
<1>4. OnePlan'
  BY <1>3, PlanStays DEF CalmInv
<1>5. ASSUME NEW p \in q.of PROVE Careful(q, project'[p], wanted[p], Eligible, required)
  BY <1>2, <1>5 DEF Careful, Creates, MayTurn
<1> QED BY <1>3, <1>4, <1>5, IdleType, CalmGoes

\* A step that only moves r, or ends it.
LEMMA CalmTurns ==
    ASSUME IInv, CalmInv, calm, NEW r \in Requests, req[r].pc # "idle",
           UNCHANGED <<milestones, required, standing, history>>,
           \/ Finish(r)
           \/ \E pc \in {"rules", "write", "creator", "status", "delete", "plan"},
                 files \in Files \cup {Keep} :
                /\ \/ Goto(r, pc) /\ files = req[r].files
                   \/ req' = [req EXCEPT ![r].pc = pc, ![r].files = files]
                /\ \A p \in req[r].of :
                     MayTurn(req[r], pc, files, project'[p], wanted[p], Eligible)
    PROVE  CalmInv'
<1>1. CASE Finish(r)
  <2>1. OnePlan'
    BY PlanStays DEF CalmInv, history
  <2> QED BY <1>1, <2>1, IdleType, CalmEnds
<1>2. CASE ~Finish(r)
  <2>1. PICK pc \in {"rules", "write", "creator", "status", "delete", "plan"},
             files \in Files \cup {Keep} :
          /\ \/ Goto(r, pc) /\ files = req[r].files
             \/ req' = [req EXCEPT ![r].pc = pc, ![r].files = files]
          /\ \A p \in req[r].of :
               MayTurn(req[r], pc, files, project'[p], wanted[p], Eligible)
    BY <1>2
  <2>2. \E q : MovedTo(req[r], pc, files, q) /\ req' = [req EXCEPT ![r] = q]
    <3>1. CASE Goto(r, pc) /\ files = req[r].files
      <4>1. MovedTo(req[r], pc, files, [req[r] EXCEPT !.pc = pc])
        BY <3>1 DEF MovedTo
      <4>2. req' = [req EXCEPT ![r] = [req[r] EXCEPT !.pc = pc]]
        BY <3>1 DEF Goto
      <4> QED BY <4>1, <4>2
    <3>2. CASE req' = [req EXCEPT ![r].pc = pc, ![r].files = files]
      <4>1. MovedTo(req[r], pc, files, [req[r] EXCEPT !.pc = pc, !.files = files])
        BY DEF MovedTo
      <4>2. req' = [req EXCEPT ![r] = [req[r] EXCEPT !.pc = pc, !.files = files]]
        BY <3>2
      <4> QED BY <4>1, <4>2
    <3> QED BY <2>1, <3>1, <3>2
  <2>3. PICK q : MovedTo(req[r], pc, files, q) /\ req' = [req EXCEPT ![r] = q]
    BY <2>2
  <2>4. pc \in {"idle", "find", "rules", "write", "delete", "plan", "creator", "status"}
    OBVIOUS
  <2> QED BY <2>1, <2>3, <2>4, CalmMoves
<1> QED BY <1>1, <1>2

\* What the only request may rely on.
LEMMA CalmFacts ==
    ASSUME IInv, CalmInv, calm, NEW r \in Requests, req[r].pc # "idle"
    PROVE  \E p \in Campaigns :
             /\ req[r].of = {p}
             /\ Careful(req[r], project[p], wanted[p], Eligible, required)
             /\ Creates(req[r]) <=> project[p] = NoProject
             /\ ~Creates(req[r]) => project[p] \in Row
             /\ req[r].files \in Files \cup {Keep}
<1>1. PICK p \in Campaigns :
        /\ req[r].of = {p}
        /\ Creates(req[r]) <=> project[p] = NoProject
        /\ ~Creates(req[r]) => project[p] \in Row /\ project[p] # NoProject
  BY About
<1>2. Careful(req[r], project[p], wanted[p], Eligible, required)
  BY <1>1 DEF CalmInv, AllCareful
<1>3. req[r].files \in Files \cup {Keep}
  BY Facts DEF RequestRow
<1> QED BY <1>1, <1>2, <1>3

LEMMA CalmMovesInv ==
    ASSUME IInv, CalmInv, calm, NEW r \in Requests,
           \/ ReadRules(r) \/ FindForUpdate(r) \/ FindForSubmit(r) \/ CheckCreator(r)
           \/ FindForDecide(r) \/ FindForAttachment(r)
    PROVE  CalmInv'
<1>1. /\ UNCHANGED <<milestones, required, standing, history>> /\ UNCHANGED project
      /\ req[r].pc # "idle"
  BY DEF ReadRules, FindForUpdate, FindForSubmit, CheckCreator, FindForDecide,
         FindForAttachment, projectVars
<1>2. PICK p \in Campaigns :
        /\ req[r].of = {p}
        /\ Careful(req[r], project[p], wanted[p], Eligible, required)
        /\ Creates(req[r]) <=> project[p] = NoProject
        /\ ~Creates(req[r]) => project[p] \in Row
        /\ req[r].files \in Files \cup {Keep}
  BY <1>1, CalmFacts
<1>3. CASE ReadRules(r)
  <2>1. WithRequired(req[r].files) \in Files
    <3>1. req[r].files \in Files
      BY <1>3, Facts DEF ReadRules, Sound
    <3> QED BY <3>1, FilesTypes
  <2>2. req[r].op = "create" => req[r].plan = wanted[p]
    BY <1>2, <1>3 DEF ReadRules, Careful, Creates
  <2> QED BY <1>1, <1>2, <1>3, <2>1, <2>2, CalmTurns DEF ReadRules, MayTurn
<1>4. CASE FindForUpdate(r)
  <2>1. req[r].pc = "find" /\ req[r].op = "update" /\ ~Creates(req[r])
    BY <1>4 DEF FindForUpdate, Creates
  <2>2. project[p].files \in Files
    BY <1>2, <2>1, RowType
  <2> DEFINE files == IF req[r].files = Keep THEN project[p].files ELSE req[r].files
  <2>3. /\ files \in Files \cup {Keep}
        /\ \/ Finish(r) \/ Goto(r, "write")
           \/ req' = [req EXCEPT ![r].pc = "rules", ![r].files = files]
    BY <1>2, <1>4, <2>2 DEF FindForUpdate
  <2> HIDE DEF files
  <2> QED BY <1>1, <1>2, <2>1, <2>3, CalmTurns DEF MayTurn
<1>5. CASE FindForSubmit(r)
  <2>1. req[r].pc = "find" /\ req[r].op = "submit" /\ ~Creates(req[r])
    BY <1>5 DEF FindForSubmit, Creates
  <2>2. project[p].files \in Files
    BY <1>2, <2>1, RowType
  <2>3. \/ Finish(r)
        \/ /\ project[p].status \in {"DRAFT", "CHANGES_REQUESTED"}
           /\ req' = [req EXCEPT ![r].pc = "creator", ![r].files = project[p].files]
    BY <1>2, <1>5 DEF FindForSubmit
  <2> QED BY <1>1, <1>2, <2>1, <2>2, <2>3, CalmTurns DEF MayTurn
<1>6. CASE CheckCreator(r)
  <2>1. req[r].pc = "creator" /\ (Finish(r) \/ (Eligible /\ Goto(r, "rules")))
    BY <1>6 DEF CheckCreator
  <2>2. req[r].op = "submit"
    BY <2>1, Facts DEF Sound
  <2>3. project[p].status \in {"DRAFT", "CHANGES_REQUESTED"} /\ req[r].files = project[p].files
    BY <1>2, <2>1, <2>2 DEF Careful
  <2> QED BY <1>1, <1>2, <2>1, <2>2, <2>3, CalmTurns DEF MayTurn
<1>7. CASE FindForDecide(r)
  <2>1. /\ req[r].pc = "find" /\ req[r].op = "decide"
        /\ \/ Finish(r)
           \/ req[r].to \in {"APPROVED", "REJECTED", "CHANGES_REQUESTED"} /\ Goto(r, "status")
    BY <1>7 DEF FindForDecide
  <2> QED BY <1>1, <1>2, <2>1, CalmTurns DEF MayTurn
<1>8. CASE FindForAttachment(r)
  <2>1. req[r].pc = "find" /\ req[r].op \in {"ask", "upload"} /\ ~Creates(req[r])
    BY <1>8 DEF FindForAttachment, Creates
  <2> DEFINE files == IF req[r].op = "ask" THEN WithAsked(project[p].files, req[r].named)
                      ELSE WithUploaded(project[p].files, req[r].named)
  <2>2. files \in Files
    BY <1>2, <2>1, RowType, FilesTypes
  <2>3. Finish(r) \/ req' = [req EXCEPT ![r].pc = "write", ![r].files = files]
    BY <1>2, <1>8 DEF FindForAttachment
  <2> HIDE DEF files
  <2> QED BY <1>1, <1>2, <2>1, <2>2, <2>3, CalmTurns DEF MayTurn
<1> QED BY <1>3, <1>4, <1>5, <1>6, <1>7, <1>8

LEMMA CalmWritesInv ==
    ASSUME IInv, CalmInv, calm, NEW r \in Requests,
           \/ InsertProject(r) \/ SetFields(r) \/ SetStatus(r) \/ WriteAttachments(r)
           \/ CheckAttachments(r)
    PROVE  CalmInv'
<1>1. /\ UNCHANGED <<milestones, required, standing, history>> /\ req[r].pc # "idle"
      /\ CheckAttachments(r) => UNCHANGED project
  BY DEF InsertProject, SetFields, SetStatus, WriteAttachments, CheckAttachments, projectVars
<1>2. PICK p \in Campaigns :
        /\ req[r].of = {p}
        /\ Careful(req[r], project[p], wanted[p], Eligible, required)
        /\ Creates(req[r]) <=> project[p] = NoProject
        /\ ~Creates(req[r]) => project[p] \in Row
        /\ req[r].files \in Files \cup {Keep}
  BY <1>1, CalmFacts
<1>3. CASE Finish(r)
  BY <1>1, <1>3, CalmTurns
<1>4. CASE InsertProject(r)
  <2>1. req[r].plan = wanted[p]
    BY <1>2, <1>4 DEF InsertProject, Careful, Creates
  <2>2. Finish(r) \/ Goto(r, "plan")
    BY <1>4 DEF InsertProject
  <2> QED BY <1>1, <1>2, <2>1, <2>2, CalmTurns DEF MayTurn
<1>5. CASE SetFields(r)
  <2>1. Finish(r) \/ Goto(r, "delete")
    BY <1>5 DEF SetFields
  <2> QED BY <1>1, <1>2, <2>1, CalmTurns DEF MayTurn
<1>6. CASE SetStatus(r) \/ WriteAttachments(r)
  BY <1>3, <1>6 DEF SetStatus, WriteAttachments
<1>7. CASE CheckAttachments(r) /\ ~Finish(r)
  <2>1. /\ req[r].pc = "rules" /\ req[r].op = "submit" /\ Complete(req[r].files)
        /\ req' = [req EXCEPT ![r].pc = "status", ![r].to = "PENDING_REVIEW"]
    BY <1>7 DEF CheckAttachments
  <2>2. /\ project[p].status \in {"DRAFT", "CHANGES_REQUESTED"} /\ Eligible
        /\ req[r].files = project[p].files
    BY <1>2, <2>1 DEF Careful
  <2> DEFINE q == [req[r] EXCEPT !.pc = "status", !.to = "PENDING_REVIEW"]
  <2>3. /\ q.pc = "status" /\ q.op = "submit" /\ q.of = {p} /\ q.to = "PENDING_REVIEW"
        /\ req' = [req EXCEPT ![r] = q]
    BY <1>2, <2>1, Facts DEF RequestRow
  <2> HIDE DEF q
  <2>4. wanted' = wanted /\ required' = required /\ Eligible' = Eligible /\ project' = project
    BY <1>1, <1>7 DEF history, Eligible
  <2>5. OnePlan'
    BY <1>1, <2>4, PlanStays DEF CalmInv
  <2>6. Careful(q, project[p], wanted[p], Eligible, required)
    BY <2>1, <2>2, <2>3 DEF Careful, Creates, Complete
  <2> QED BY <1>1, <2>3, <2>4, <2>5, <2>6, IdleType, CalmGoes
<1> QED BY <1>3, <1>4, <1>5, <1>6, <1>7

LEMMA CalmPlansInv ==
    ASSUME IInv, CalmInv, calm, NEW r \in Requests, DeleteMilestones(r) \/ InsertMilestones(r)
    PROVE  CalmInv'
<1>1. req[r].pc # "idle"
  BY DEF DeleteMilestones, InsertMilestones
<1>2. PICK p \in Campaigns :
        /\ req[r].of = {p}
        /\ Careful(req[r], project[p], wanted[p], Eligible, required)
        /\ Creates(req[r]) <=> project[p] = NoProject
        /\ ~Creates(req[r]) => project[p] \in Row
        /\ req[r].files \in Files \cup {Keep}
  BY <1>1, CalmFacts
<1>3. CASE DeleteMilestones(r)
  <2>1. /\ req[r].pc = "delete" /\ Goto(r, "plan")
        /\ wanted' = [c \in Campaigns |-> IF c = p THEN req[r].plan ELSE wanted[c]]
        /\ milestones' = [c \in Campaigns |-> IF c = p THEN {} ELSE milestones[c]]
    BY <1>2, <1>3 DEF DeleteMilestones
  <2>2. OnePlan'
    BY <2>1 DEF OnePlan, CalmInv
  <2>3. req[r].plan \in Plans
    BY <2>1, Facts DEF Sound
  <2>4. PICK q \in RequestRow :
          /\ req' = [req EXCEPT ![r] = q] /\ q.of = req[r].of /\ q.op = req[r].op
          /\ q.pc = "plan" /\ q.plan = req[r].plan
    BY <2>1, <2>3, PlanType
  <2>5. Careful(q, project'[p], wanted'[p], Eligible', required')
    BY <2>1, <2>4 DEF Careful, Creates
  <2> QED BY <1>1, <1>2, <2>2, <2>4, <2>5, IdleType, CalmGoes
<1>4. CASE InsertMilestones(r)
  <2>1. /\ req[r].pc = "plan" /\ Finish(r) /\ wanted' = wanted
        /\ milestones' = [c \in Campaigns |-> IF c = p THEN milestones[c] \cup {req[r].plan}
                                              ELSE milestones[c]]
    BY <1>2, <1>4 DEF InsertMilestones, history
  <2>2. req[r].plan = wanted[p]
    BY <1>2, <2>1 DEF Careful
  <2>3. OnePlan'
    BY <2>1, <2>2 DEF OnePlan, CalmInv
  <2> QED BY <1>1, <2>1, <2>3, IdleType, CalmEnds
<1> QED BY <1>3, <1>4

LEMMA CalmThrowInv ==
    ASSUME IInv, CalmInv, calm, NEW r \in Requests, Throw(r)
    PROVE  CalmInv'
<1>1. OnePlan'
  BY PlanStays DEF CalmInv, Throw, projectVars, history
<1> QED BY <1>1, CalmEnds DEF Throw

\* Something begins while all is quiet.
LEMMA CalmBegins ==
    ASSUME IInv, CalmInv, calm, Quiet,
           \/ Others
           \/ \E r \in Requests, p \in Campaigns :
                Arrives(r, p) /\ UNCHANGED <<projectVars, required, standing>>
    PROVE  CalmInv'
<1>1. CASE Others
  <2>1. req' = req /\ milestones' = milestones /\ wanted' = wanted
    BY <1>1 DEF Others, AddVerificationLog, Deploy, UpdateRequirement, SubmitCreatorVerification,
                UpdateCreatorVerificationStatus, ChangeAccount, projectVars
  <2>2. Alone' /\ AllCareful'
    BY <2>1, IdleType DEF Quiet, Alone, AllCareful, Idle
  <2>3. OnePlan'
    BY <2>1, PlanStays DEF CalmInv
  <2> QED BY <2>2, <2>3 DEF CalmInv
<1>2. ASSUME NEW r \in Requests, NEW p \in Campaigns, Arrives(r, p),
             UNCHANGED <<projectVars, required, standing>>
      PROVE  CalmInv'
  <2>1. \E q : /\ req' = [req EXCEPT ![r] = q] /\ q.of = {p}
               /\ \/ q.pc = "find" /\ wanted' = wanted
                  \/ /\ q.pc = "rules" /\ q.op = "create" /\ project[p] = NoProject
                     /\ wanted' = [wanted EXCEPT ![p] = q.plan]
    <3>1. ASSUME NEW filled \in SUBSET Titles, NEW m \in Plans \cup {NoPlan},
                 CreateArrives(r, p, filled, m)
          PROVE  \E q : /\ req' = [req EXCEPT ![r] = q] /\ q.of = {p}
                        /\ q.pc = "rules" /\ q.op = "create" /\ project[p] = NoProject
                        /\ wanted' = [wanted EXCEPT ![p] = q.plan]
      <4> DEFINE q == [Idle EXCEPT !.pc = "rules", !.op = "create", !.of = {p},
                                   !.files = Listed(filled), !.plan = m]
      <4>1. q.of = {p} /\ q.pc = "rules" /\ q.op = "create" /\ q.plan = m
        BY DEF Idle
      <4>2. req' = [req EXCEPT ![r] = q]
        BY <3>1 DEF CreateArrives
      <4> HIDE DEF q
      <4> QED BY <3>1, <4>1, <4>2 DEF CreateArrives
    <3>2. ASSUME NEW files, NEW anew, NEW m, UpdateArrives(r, p, files, anew, m)
          PROVE  \E q : req' = [req EXCEPT ![r] = q] /\ q.of = {p} /\ q.pc = "find" /\ wanted' = wanted
      <4> DEFINE q == [Idle EXCEPT !.pc = "find", !.op = "update", !.of = {p},
                                   !.files = files, !.anew = anew, !.plan = m]
      <4>1. q.of = {p} /\ q.pc = "find"
        BY DEF Idle
      <4>2. req' = [req EXCEPT ![r] = q]
        BY <3>2 DEF UpdateArrives
      <4> HIDE DEF q
      <4> QED BY <3>2, <4>1, <4>2 DEF UpdateArrives
    <3>3. ASSUME NEW op, NEW to, NEW named, OtherArrives(r, p, op, to, named)
          PROVE  \E q : req' = [req EXCEPT ![r] = q] /\ q.of = {p} /\ q.pc = "find" /\ wanted' = wanted
      <4> DEFINE q == [Idle EXCEPT !.pc = "find", !.op = op, !.of = {p}, !.to = to, !.named = named]
      <4>1. q.of = {p} /\ q.pc = "find"
        BY DEF Idle
      <4>2. req' = [req EXCEPT ![r] = q]
        BY <3>3 DEF OtherArrives
      <4> HIDE DEF q
      <4> QED BY <3>3, <4>1, <4>2 DEF OtherArrives
    <3>4. \/ \E filled \in SUBSET Titles, m \in Plans \cup {NoPlan} : CreateArrives(r, p, filled, m)
          \/ \E files, anew, m : UpdateArrives(r, p, files, anew, m)
          \/ \E op, to, named : OtherArrives(r, p, op, to, named)
      BY <1>2 DEF Arrives
    <3> QED BY <3>1, <3>2, <3>3, <3>4
  <2>2. PICK q : /\ req' = [req EXCEPT ![r] = q] /\ q.of = {p}
                 /\ \/ q.pc = "find" /\ wanted' = wanted
                    \/ /\ q.pc = "rules" /\ q.op = "create" /\ project[p] = NoProject
                       /\ wanted' = [wanted EXCEPT ![p] = q.plan]
    BY <2>1
  <2>3. req'[r] = q /\ \A s \in Requests \ {r} : req'[s] = Idle
    BY <2>2 DEF IInv, ServerOK, Quiet
  <2>4. Alone'
    BY <2>3 DEF Alone, Idle
  <2>5. Careful(q, project'[p], wanted'[p], Eligible', required')
    <3>1. CASE q.pc = "find"
      BY <3>1 DEF Careful, Creates
    <3>2. CASE q.pc # "find"
      <4>1. wanted'[p] = q.plan
        BY <2>2, <3>2, Facts DEF IInv, ServerOK
      <4> QED BY <2>2, <3>2, <4>1 DEF Careful, Creates
    <3> QED BY <3>1, <3>2
  <2>6. AllCareful'
    <3>1. \A s \in Requests : \A c \in req'[s].of : s = r /\ c = p
      BY <2>2, <2>3, IdleType
    <3> QED BY <2>3, <2>5, <3>1 DEF AllCareful
  <2>7. OnePlan'
    <3>1. milestones' = milestones /\ OnePlan
      BY <1>2 DEF projectVars, CalmInv
    <3>2. CASE wanted' = wanted
      BY <3>1, <3>2, PlanStays
    <3>3. CASE project[p] = NoProject /\ wanted' = [wanted EXCEPT ![p] = q.plan]
      <4>1. milestones[p] = {}
        BY <3>3 DEF IInv, PlansOK
      <4>2. \A c \in Campaigns : c # p => wanted'[c] = wanted[c]
        BY <3>3 DEF IInv, ServerOK
      <4> QED BY <3>1, <4>1, <4>2 DEF OnePlan
    <3> QED BY <2>2, <3>2, <3>3
  <2> QED BY <2>4, <2>6, <2>7 DEF CalmInv
<1> QED BY <1>1, <1>2

-----------------------------------------------------------------------------

LEMMA CalmStepInv == IInv /\ CalmInv /\ [Next]_vars => CalmInv'
<1> SUFFICES ASSUME IInv, CalmInv, [Next]_vars, calm' PROVE CalmInv'
  BY DEF CalmInv
<1>1. CASE UNCHANGED vars
  BY <1>1 DEF vars, CalmInv, Alone, AllCareful, OnePlan, Eligible
<1>2. ASSUME NEW r \in Requests, Step(r) PROVE CalmInv'
  <2>1. calm
    BY <1>2 DEF Step, ReadRules, InsertProject, FindForUpdate, SetFields, DeleteMilestones,
      InsertMilestones, FindForSubmit, CheckCreator, CheckAttachments, FindForDecide, SetStatus,
      FindForAttachment, WriteAttachments, Throw, history
  <2> QED BY <1>2, <2>1, CalmMovesInv, CalmWritesInv, CalmPlansInv, CalmThrowInv DEF Step
<1>3. ASSUME NEW r \in Requests, NEW p \in Campaigns, Arrives(r, p), Begins,
             UNCHANGED <<projectVars, required, standing>>
      PROVE  CalmInv'
  BY <1>3, CalmBegins DEF Begins
<1>4. CASE Others /\ Begins
  BY <1>4, CalmBegins DEF Begins
<1> QED BY <1>1, <1>2, <1>3, <1>4 DEF Next

LEMMA CalmInvariant == Spec => [](IInv /\ CalmInv)
<1>1. Init => IInv /\ CalmInv
  <2>1. Init => CalmInv
    BY IdleType DEF Init, CalmInv, Alone, AllCareful, OnePlan
  <2> QED BY <2>1, InitInv
<1>2. IInv /\ CalmInv /\ [Next]_vars => (IInv /\ CalmInv)'
  BY StepInv, CalmStepInv
<1> QED BY <1>1, <1>2, PTL DEF Spec

\* While nothing overlaps, the milestones stored are of the plan sent last, wherever
\* the deletion or the insertion throws.
THEOREM MilestonesAreOfOnePlan == Spec => []MilestonesOfOnePlan
<1>1. IInv /\ CalmInv => MilestonesOfOnePlan
  BY DEF CalmInv, OnePlan, MilestonesOfOnePlan
<1> QED BY <1>1, CalmInvariant, PTL

\* The steps that change the status of a stored project.
LEMMA StatusSteps ==
    ASSUME IInv, [Next]_vars, NEW p \in Campaigns, project[p] # NoProject,
           project'[p].status # project[p].status
    PROVE  \/ project'[p].status = "FUNDING"
           \/ \E r \in Requests : /\ SetStatus(r) /\ req[r].of = {p} /\ ~Creates(req[r])
                                 /\ project'[p].status = req[r].to
<1>0. project[p] \in Row /\ project \in [Campaigns -> Row \cup {NoProject}]
  BY DEF IInv, ServerOK
<1>1. CASE UNCHANGED vars
  BY <1>1 DEF vars
<1>2. ASSUME NEW c \in Campaigns, NEW row,
             project' = [project EXCEPT ![c] = row], c = p => row.status = project[p].status
      PROVE  FALSE
  BY <1>0, <1>2
<1>3. ASSUME NEW r \in Requests, Step(r)
      PROVE  \E s \in Requests : /\ SetStatus(s) /\ req[s].of = {p} /\ ~Creates(req[s])
                               /\ project'[p].status = req[s].to
  <2>1. CASE UNCHANGED project
    BY <2>1
  <2>2. CASE InsertProject(r)
    <3>1. Creates(req[r]) /\ req[r].pc # "idle"
      BY <2>2 DEF InsertProject, Creates
    <3>2. PICK c \in Campaigns : req[r].of = {c} /\ project[c] = NoProject
      BY <3>1, About
    <3>3. c # p
      BY <3>2
    <3> QED BY <1>0, <2>2, <3>2, <3>3 DEF InsertProject
  <2>3. CASE SetFields(r)
    <3>1. [project[p] EXCEPT !.files = req[r].files].status = project[p].status
      BY <1>0 DEF Row
    <3> QED BY <1>0, <2>3, <3>1 DEF SetFields
  <2>4. CASE WriteAttachments(r)
    <3>1. req[r].pc # "idle"
      BY <2>4 DEF WriteAttachments
    <3>2. PICK c \in Campaigns : req[r].of = {c}
      BY <3>1, About
    <3>3. [project[p] EXCEPT !.files = req[r].files].status = project[p].status
      BY <1>0 DEF Row
    <3> QED BY <1>0, <2>4, <3>2, <3>3 DEF WriteAttachments
  <2>5. CASE SetStatus(r)
    <3>1. req[r].pc = "status" /\ ~Creates(req[r]) /\ req[r].pc # "idle"
      BY <2>5 DEF SetStatus, Creates
    <3>2. PICK c \in Campaigns : req[r].of = {c} /\ project[c] \in Row
      BY <3>1, About
    <3>3. project' = [project EXCEPT ![c].status = req[r].to]
      BY <2>5, <3>2 DEF SetStatus
    <3>4. CASE c = p
      <4>1. [project[c] EXCEPT !.status = req[r].to].status = req[r].to
        BY <3>2 DEF Row
      <4>2. project'[p].status = req[r].to
        BY <1>0, <3>3, <3>4, <4>1
      <4> QED BY <2>5, <3>1, <3>2, <3>4, <4>2
    <3>5. CASE c # p
      BY <1>0, <3>3, <3>5
    <3> QED BY <3>4, <3>5
  <2> QED BY <1>3, <2>1, <2>2, <2>3, <2>4, <2>5 DEF Step, ReadRules, FindForUpdate,
        DeleteMilestones, InsertMilestones, FindForSubmit, CheckCreator, CheckAttachments,
        FindForDecide, FindForAttachment, Throw, projectVars
<1>4. CASE Others
  <2>1. CASE UNCHANGED project
    BY <2>1
  <2>2. ASSUME NEW c \in Campaigns, AddVerificationLog(c) PROVE FALSE
    <3>1. [project[p] EXCEPT !.logged = TRUE].status = project[p].status
      BY <1>0 DEF Row
    <3> QED BY <1>0, <2>2, <3>1 DEF AddVerificationLog
  <2>3. ASSUME NEW c \in Campaigns, Deploy(c) PROVE project'[p].status = "FUNDING"
    <3>1. [project[p] EXCEPT !.status = "FUNDING"].status = "FUNDING"
      BY <1>0 DEF Row
    <3> QED BY <1>0, <2>3, <3>1 DEF Deploy
  <2> QED BY <1>4, <2>1, <2>2, <2>3 DEF Others, UpdateRequirement, SubmitCreatorVerification,
                                      UpdateCreatorVerificationStatus, ChangeAccount, projectVars
<1>5. CASE UNCHANGED project
  BY <1>5
<1> QED BY <1>1, <1>3, <1>4, <1>5 DEF Next, projectVars

\* What is known of the request that writes a status while nothing overlaps.
LEMMA StatusCareful ==
    ASSUME IInv, CalmInv, calm, NEW r \in Requests, NEW p \in Campaigns, SetStatus(r),
           req[r].of = {p}
    PROVE  \/ /\ req[r].op = "decide"
              /\ req[r].to \in {"APPROVED", "REJECTED", "CHANGES_REQUESTED"}
           \/ /\ req[r].op = "submit" /\ req[r].to = "PENDING_REVIEW" /\ Eligible
              /\ project[p].status \in {"DRAFT", "CHANGES_REQUESTED"} /\ Complete(project[p].files)
<1>1. req[r].pc = "status" /\ Careful(req[r], project[p], wanted[p], Eligible, required)
  BY DEF SetStatus, CalmInv, AllCareful
<1> QED BY <1>1 DEF Careful, Complete

\* "Complete and verify KYC before submitting a project": the creator and the
\* attachments are checked by reads before the write, and while nothing overlaps
\* what was read still holds when the project goes back to review.
THEOREM SubmissionsAreComplete == Spec => SubmittedIsComplete
<1>1. IInv /\ CalmInv /\ [Next]_vars =>
        [\A p \in Campaigns :
           Moves(p, ProjectStatus \ {"PENDING_REVIEW"}, {"PENDING_REVIEW"})
             => Eligible /\ Complete(project[p].files)]_vars
  <2> SUFFICES ASSUME IInv, CalmInv, [Next]_vars, NEW p \in Campaigns, calm,
                      project[p].status \in ProjectStatus \ {"PENDING_REVIEW"},
                      project'[p].status = "PENDING_REVIEW"
               PROVE  Eligible /\ Complete(project[p].files)
    BY DEF Moves
  <2>1. project[p] # NoProject
    BY DEF NoProject, ProjectStatus
  <2>2. PICK r \in Requests : /\ SetStatus(r) /\ req[r].of = {p} /\ ~Creates(req[r])
                             /\ project'[p].status = req[r].to
    BY <2>1, StatusSteps
  <2> QED BY <2>2, StatusCareful
<1> QED BY <1>1, CalmInvariant, PTL DEF Spec, SubmittedIsComplete

-----------------------------------------------------------------------------
\* Decisions, whatever overlaps.

\* Is the request a submission that has read its project?
Past(q) == q.op = "submit" /\ q.pc \in {"creator", "rules", "status"}

\* A submission that was not overtaken read what is stored, and only submissions and
\* decisions write a status.
LateOK ==
    \A r \in Requests :
        /\ Past(req[r]) /\ r \notin overtaken =>
             \A p \in req[r].of : project[p].status \in {"DRAFT", "CHANGES_REQUESTED"}
        /\ req[r].pc = "status" => req[r].op \in {"submit", "decide"}

LEMMA LateInit == Init => LateOK
  BY IdleType DEF Init, LateOK, Past

\* How a request r may move.
LateMove(r) ==
    \/ req'[r] = req[r]
    \/ ~Past(req'[r]) /\ (req'[r].pc = "status" => req'[r].op = "decide")
    \/ Past(req[r]) /\ Past(req'[r]) /\ req'[r].of = req[r].of
    \/ /\ req'[r].pc # "status" /\ req'[r].of = req[r].of /\ UNCHANGED project
       /\ \A p \in req[r].of : project[p].status \in {"DRAFT", "CHANGES_REQUESTED"}

LEMMA LateStepMoves ==
    ASSUME IInv, NEW r \in Requests, Step(r)
    PROVE  LateMove(r) /\ \A s \in Requests \ {r} : req'[s] = req[s]
<1>0. req[r] \in RequestRow /\ Sound(req[r]) /\ req \in [Requests -> RequestRow]
  BY Facts DEF IInv, ServerOK
<1>1. CASE Finish(r)
  BY <1>0, <1>1, IdleType DEF Finish, LateMove, Past
<1>2. ASSUME NEW pc, Goto(r, pc), pc \in {"write", "delete", "plan"} \/ Past(req[r])
               \/ (pc = "status" /\ req[r].op = "decide"),
             pc \in {"write", "delete", "plan", "rules", "status"}
      PROVE  LateMove(r) /\ \A s \in Requests \ {r} : req'[s] = req[s]
  BY <1>0, <1>2 DEF Goto, LateMove, Past, RequestRow
<1>3. CASE ReadRules(r) \/ WriteAttachments(r) \/ SetStatus(r) \/ InsertMilestones(r) \/ Throw(r)
           \/ DeleteMilestones(r) \/ SetFields(r) \/ InsertProject(r) \/ FindForAttachment(r)
  BY <1>0, <1>1, <1>2, <1>3 DEF ReadRules, WriteAttachments, SetStatus, InsertMilestones, Throw,
     DeleteMilestones, SetFields, InsertProject, FindForAttachment, LateMove, Past, RequestRow
<1>4. CASE FindForUpdate(r)
  <2>1. CASE \E files : req' = [req EXCEPT ![r].pc = "rules", ![r].files = files]
    BY <1>0, <1>4, <2>1 DEF FindForUpdate, LateMove, Past, RequestRow
  <2> QED BY <1>1, <1>2, <1>4, <2>1 DEF FindForUpdate
<1>5. CASE CheckCreator(r)
  BY <1>0, <1>1, <1>2, <1>5 DEF CheckCreator, Past, Sound
<1>6. CASE CheckAttachments(r)
  BY <1>0, <1>1, <1>6 DEF CheckAttachments, LateMove, Past, RequestRow
<1>7. CASE FindForDecide(r)
  BY <1>1, <1>2, <1>7 DEF FindForDecide
<1>8. CASE FindForSubmit(r)
  <2>1. PICK p \in req[r].of :
          IF ~plainIds \/ project[p].status \notin {"DRAFT", "CHANGES_REQUESTED"} THEN Finish(r)
          ELSE req' = [req EXCEPT ![r].pc = "creator", ![r].files = project[p].files]
    BY <1>8 DEF FindForSubmit
  <2>2. \A c \in req[r].of : c = p
    BY <1>0, <1>8, <2>1 DEF Sound, FindForSubmit
  <2>3. CASE /\ req' = [req EXCEPT ![r].pc = "creator", ![r].files = project[p].files]
             /\ project[p].status \in {"DRAFT", "CHANGES_REQUESTED"}
    BY <1>0, <1>8, <2>2, <2>3 DEF FindForSubmit, LateMove, RequestRow, projectVars
  <2> QED BY <1>1, <2>1, <2>3
<1> QED BY <1>3, <1>4, <1>5, <1>6, <1>7, <1>8 DEF Step

LEMMA LateMoves ==
    ASSUME IInv, [Next]_vars, NEW r \in Requests
    PROVE  LateMove(r)
<1>0. req \in [Requests -> RequestRow]
  BY DEF IInv, ServerOK
<1>1. ASSUME NEW s \in Requests, Step(s) PROVE LateMove(r)
  BY <1>1, LateStepMoves DEF LateMove
<1>2. ASSUME NEW s \in Requests, NEW p \in Campaigns, Arrives(s, p) PROVE LateMove(r)
  <2>1. \A q : req' = [req EXCEPT ![s] = q] /\ ~Past(q) /\ q.pc # "status" => LateMove(r)
    BY <1>0 DEF LateMove
  <2>2. ASSUME NEW filled, NEW m, CreateArrives(s, p, filled, m) PROVE LateMove(r)
    <3> DEFINE q == [Idle EXCEPT !.pc = "rules", !.op = "create", !.of = {p},
                                 !.files = Listed(filled), !.plan = m]
    <3>1. ~Past(q) /\ q.pc # "status"
      BY DEF Idle, Past
    <3>2. req' = [req EXCEPT ![s] = q]
      BY <2>2 DEF CreateArrives
    <3> HIDE DEF q
    <3> QED BY <2>1, <3>1, <3>2
  <2>3. ASSUME NEW files, NEW anew, NEW m, UpdateArrives(s, p, files, anew, m) PROVE LateMove(r)
    <3> DEFINE q == [Idle EXCEPT !.pc = "find", !.op = "update", !.of = {p},
                                 !.files = files, !.anew = anew, !.plan = m]
    <3>1. ~Past(q) /\ q.pc # "status"
      BY DEF Idle, Past
    <3>2. req' = [req EXCEPT ![s] = q]
      BY <2>3 DEF UpdateArrives
    <3> HIDE DEF q
    <3> QED BY <2>1, <3>1, <3>2
  <2>4. ASSUME NEW op, NEW to, NEW named, OtherArrives(s, p, op, to, named) PROVE LateMove(r)
    <3> DEFINE q == [Idle EXCEPT !.pc = "find", !.op = op, !.of = {p}, !.to = to, !.named = named]
    <3>1. ~Past(q) /\ q.pc # "status"
      BY DEF Idle, Past
    <3>2. req' = [req EXCEPT ![s] = q]
      BY <2>4 DEF OtherArrives
    <3> HIDE DEF q
    <3> QED BY <2>1, <3>1, <3>2
  <2> QED BY <1>2, <2>2, <2>3, <2>4 DEF Arrives
<1>3. CASE Others \/ UNCHANGED vars
  BY <1>3 DEF Others, AddVerificationLog, Deploy, UpdateRequirement, SubmitCreatorVerification,
     UpdateCreatorVerificationStatus, ChangeAccount, vars, LateMove
<1> QED BY <1>1, <1>2, <1>3 DEF Next

LEMMA LateStep == IInv /\ LateOK /\ [Next]_vars => LateOK'
<1> SUFFICES ASSUME IInv, LateOK, [Next]_vars PROVE LateOK'
  OBVIOUS
<1>1. CASE UNCHANGED vars
  BY <1>1 DEF vars, LateOK
<1>2. ASSUME NEW r \in Requests, Next, Past(req'[r]), r \notin overtaken'
      PROVE  \A p \in req'[r].of : project'[p].status \in {"DRAFT", "CHANGES_REQUESTED"}
  <2>1. req'[r] # Idle
    BY <1>2, IdleType DEF Past
  <2>2. /\ r \notin overtaken
        /\ req[r].pc # "find" => \A p \in req[r].of : project'[p].status = project[p].status
    BY <1>2, <2>1 DEF Next, Overtake
  <2>3. CASE Past(req[r]) /\ req'[r].of = req[r].of
    BY <2>2, <2>3 DEF LateOK, Past
  <2>4. CASE /\ req'[r].of = req[r].of /\ UNCHANGED project
             /\ \A p \in req[r].of : project[p].status \in {"DRAFT", "CHANGES_REQUESTED"}
    BY <2>4
  <2> QED BY <1>2, <2>3, <2>4, LateMoves DEF LateMove
<1>3. ASSUME NEW r \in Requests, req'[r].pc = "status"
      PROVE  req'[r].op \in {"submit", "decide"}
  BY <1>3, LateMoves DEF LateMove, LateOK, Past
<1> QED BY <1>1, <1>2, <1>3 DEF LateOK

\* projects.service.ts, submitProject and decide: a decision on a project is taken back
\* only by another call of decide, or by a submission that had read the project before
\* its status changed, whatever requests overlap and throw: a submission that reads it
\* afterwards finds it neither a draft nor sent back.
THEOREM DecisionsAreKept == Spec => DecisionsStand
<1>1. IInv /\ LateOK /\ [Next]_vars =>
        [\A p \in Campaigns, s \in {"APPROVED", "REJECTED", "FUNDING"} :
           project[p].status = s /\ project'[p].status \notin {s, "FUNDING"}
             => \E r \in Requests :
                  p \in req[r].of /\ (req[r].op = "decide" \/ r \in overtaken)]_vars
  <2> SUFFICES ASSUME IInv, LateOK, [Next]_vars, NEW p \in Campaigns,
                      NEW s \in {"APPROVED", "REJECTED", "FUNDING"}, project[p].status = s,
                      project'[p].status \notin {s, "FUNDING"}
               PROVE  \E r \in Requests :
                        p \in req[r].of /\ (req[r].op = "decide" \/ r \in overtaken)
    OBVIOUS
  <2>1. project[p] # NoProject
    BY DEF NoProject
  <2>2. PICK r \in Requests : SetStatus(r) /\ req[r].of = {p}
    BY <2>1, StatusSteps
  <2>3. req[r].op = "decide" \/ Past(req[r])
    BY <2>2 DEF LateOK, Past, SetStatus
  <2>4. Past(req[r]) => r \in overtaken
    BY <2>2 DEF LateOK
  <2> QED BY <2>2, <2>3, <2>4
<1>2. Init => LateOK
  BY LateInit
<1>3. IInv /\ LateOK /\ [Next]_vars => LateOK'
  BY LateStep
<1> QED BY <1>1, <1>2, <1>3, Invariant, PTL DEF Spec, DecisionsStand
=============================================================================
