------------------------------ MODULE Projects ------------------------------
(***************************************************************************)
(* How a project gets to the public: ProjectsService over the projects and *)
(* milestones collections, and what it reads of the creator and of the     *)
(* administrators' attachment requirements.  A request reads the project,  *)
(* awaits more, and then writes without looking again.                     *)
(***************************************************************************)
EXTENDS Naturals, FiniteSets

CONSTANTS
    Campaigns,       \* project ids
    Titles,          \* titles of attachments
    Plans,           \* lists of milestones a creator may send
    Requests,        \* requests in progress at a time
    KycBypass        \* KYC_BYPASS

ASSUME RequestsAssumption == IsFiniteSet(Requests)
ASSUME KycBypassAssumption == KycBypass \in BOOLEAN

VARIABLES
    project,      \* [Campaigns -> the project's document, or NoProject]
    milestones,   \* [Campaigns -> the plans whose milestones are stored]
    required,     \* titles of the active, required attachment requirements
    standing,     \* what the creators' user document says
    plainIds,     \* does findById answer creatorId as an id?
    req,          \* [Requests -> the request in progress]
    \* History.
    calm,         \* so far no two requests overlapped
    wanted,       \* [Campaigns -> the plan sent last]
    overtaken     \* requests whose project changed status after they had read it

projectVars == <<project, milestones>>

history == <<calm, wanted>>

vars == <<project, milestones, required, standing, plainIds, req, calm, wanted,
          overtaken>>

ProjectStatus == {"DRAFT", "PENDING_REVIEW", "APPROVED", "REJECTED", "CHANGES_REQUESTED",
                  "FUNDING", "FUNDED", "FUNDING_FAILED", "CLOSED"}

OwnerEditable == {"DRAFT", "PENDING_REVIEW", "CHANGES_REQUESTED", "APPROVED"}

\* An attachment is missing, listed without a file, or listed with its url.
Files == [Titles -> {"missing", "listed", "filled"}]

\* An update without a list of attachments.
Keep == [t \in Titles |-> "kept"]

\* status, attachments, and is there a verification log?
Row == [status : ProjectStatus, files : Files, logged : BOOLEAN]

NoProject == [status |-> "none"]

CreatorVerificationStatus == {"NOT_SUBMITTED", "PENDING", "VERIFIED", "REJECTED"}

\* isActive and not isBlocked, kyc.status, creatorVerification.status.
Standing == [active : BOOLEAN, kyc : BOOLEAN, creator : CreatorVerificationStatus]

NoPlan == "no plan"

ASSUME PlansAssumption == NoPlan \notin Plans

\* files: the attachments sent or about to be stored; anew: a new category; named:
\* the attachment asked for or uploaded; to: the status to give.
Idle == [pc |-> "idle", op |-> "none", of |-> {}, files |-> Keep, anew |-> FALSE,
         plan |-> NoPlan, named |-> {}, to |-> "none"]

Ops == {"create", "update", "submit", "decide", "ask", "upload"}

RequestRow ==
    [pc : {"idle", "find", "rules", "write", "delete", "plan", "creator", "status"},
     op : {"none"} \cup Ops, of : SUBSET Campaigns,
     files : Files \cup {Keep}, anew : BOOLEAN, plan : Plans \cup {NoPlan},
     named : SUBSET Titles, to : {"none"} \cup ProjectStatus]

ServerOK ==
    /\ project \in [Campaigns -> Row \cup {NoProject}]
    /\ milestones \in [Campaigns -> SUBSET Plans]
    /\ required \subseteq Titles
    /\ standing \in Standing
    /\ plainIds \in BOOLEAN
    /\ req \in [Requests -> RequestRow]
    /\ calm \in BOOLEAN
    /\ wanted \in [Campaigns -> Plans \cup {NoPlan}]

TypeOK == ServerOK /\ overtaken \subseteq Requests

\* The repository populates creatorId, so that it is the creator's document; the
\* one the service is tested with answers the id.
Init ==
    /\ project = [p \in Campaigns |-> NoProject]
    /\ milestones = [p \in Campaigns |-> {}]
    /\ required = {}
    /\ standing = [active |-> TRUE, kyc |-> FALSE, creator |-> "NOT_SUBMITTED"]
    /\ plainIds \in BOOLEAN
    /\ req = [r \in Requests |-> Idle]
    /\ calm = TRUE
    /\ wanted = [p \in Campaigns |-> NoPlan]
    /\ overtaken = {}

Quiet == \A r \in Requests : req[r] = Idle

\* Something begins: if a request is in progress, the two overlap.
Begins == calm' = (calm /\ Quiet)

Goto(r, pc) == req' = [req EXCEPT ![r].pc = pc]

Finish(r) == req' = [req EXCEPT ![r] = Idle]

Listed(filled) == [t \in Titles |-> IF t \in filled THEN "filled" ELSE "missing"]

-----------------------------------------------------------------------------
\* Requests arrive.

\* A creator sends a project with the attachments filled and a plan, or none.
CreateArrives(r, p, filled, m) ==
    /\ req[r] = Idle /\ project[p] = NoProject
    /\ \A other \in Requests : req[other].op = "create" => p \notin req[other].of
    /\ req' = [req EXCEPT ![r] = [Idle EXCEPT !.pc = "rules", !.op = "create", !.of = {p},
                                              !.files = Listed(filled), !.plan = m]]
    /\ wanted' = [wanted EXCEPT ![p] = m]

\* The creator changes it: with or without a list of attachments, a new category
\* (anew) or a plan.
UpdateArrives(r, p, files, anew, m) ==
    /\ req[r] = Idle /\ project[p] # NoProject
    /\ req' = [req EXCEPT ![r] = [Idle EXCEPT !.pc = "find", !.op = "update", !.of = {p},
                                              !.files = files, !.anew = anew, !.plan = m]]
    /\ UNCHANGED wanted

\* submit, a decision by whoever calls admin/projects/:id/decision, a request for
\* an attachment or an upload for one.
OtherArrives(r, p, op, to, named) ==
    /\ req[r] = Idle /\ project[p] # NoProject
    /\ op \in {"submit", "decide", "ask", "upload"}
    /\ req' = [req EXCEPT ![r] = [Idle EXCEPT !.pc = "find", !.op = op, !.of = {p},
                                              !.to = to, !.named = named]]
    /\ UNCHANGED wanted

-----------------------------------------------------------------------------
\* The attachments.

\* applyAttachmentRequirements: what is required is listed.
WithRequired(files) ==
    [t \in Titles |-> IF files[t] = "missing" /\ t \in required THEN "listed" ELSE files[t]]

\* requestAttachment keeps the url of an attachment already there.
WithAsked(files, titles) ==
    [t \in Titles |-> IF files[t] = "missing" /\ t \in titles THEN "listed" ELSE files[t]]

\* uploadAttachment stores the file and sets the url to ''; the id of the file is
\* not in the schema of the attachments and is dropped.
WithUploaded(files, titles) ==
    [t \in Titles |-> IF t \in titles THEN "listed" ELSE files[t]]

\* ensureRequiredAttachments.
Complete(files) == \A t \in required : files[t] = "filled"

\* ensureCreatorEligible.
Eligible == KycBypass \/ (standing.active /\ standing.kyc /\ standing.creator = "VERIFIED")

-----------------------------------------------------------------------------
\* createProject and updateProject.

\* The requirements are read: what will be stored is settled.
ReadRules(r) ==
    /\ req[r].pc = "rules" /\ req[r].op \in {"create", "update"}
    /\ req' = [req EXCEPT ![r].pc = "write", ![r].files = WithRequired(req[r].files)]
    /\ UNCHANGED <<projectVars, required, standing, history>>

\* A new project waits for its review.
InsertProject(r) ==
    /\ req[r].pc = "write" /\ req[r].op = "create"
    /\ \E p \in req[r].of : project' =
         [project EXCEPT ![p] = [status |-> "PENDING_REVIEW", files |-> req[r].files,
                                 logged |-> FALSE]]
    /\ IF req[r].plan = NoPlan THEN Finish(r) ELSE Goto(r, "plan")
    /\ UNCHANGED <<milestones, required, standing, history>>

\* The creator's own project in an editable status: what is not sent is taken
\* from what was read.
FindForUpdate(r) ==
    /\ req[r].pc = "find" /\ req[r].op = "update"
    /\ \E p \in req[r].of :
         IF ~plainIds \/ project[p].status \notin OwnerEditable THEN Finish(r)
         ELSE IF req[r].files = Keep /\ ~req[r].anew THEN Goto(r, "write")
         ELSE req' = [req EXCEPT ![r].pc = "rules", 
                                 ![r].files = IF @ = Keep THEN project[p].files ELSE @]
    /\ UNCHANGED <<projectVars, required, standing, history>>

SetFields(r) ==
    /\ req[r].pc = "write" /\ req[r].op = "update"
    /\ project' = IF req[r].files = Keep THEN project
                  ELSE [p \in Campaigns |-> IF p \in req[r].of
                          THEN [project[p] EXCEPT !.files = req[r].files] ELSE project[p]]
    /\ IF req[r].plan = NoPlan THEN Finish(r) ELSE Goto(r, "delete")
    /\ UNCHANGED <<milestones, required, standing, history>>

\* Mutant of DeleteMilestones: the new plan comes to the old one.
DeleteMilestonesNot(r) ==
    /\ req[r].pc = "delete"
    /\ wanted' = [p \in Campaigns |-> IF p \in req[r].of THEN req[r].plan ELSE wanted[p]]
    /\ Goto(r, "plan")
    /\ UNCHANGED <<projectVars, required, standing, calm>>

DeleteMilestones(r) ==
    /\ req[r].pc = "delete"
    /\ milestones' = [p \in Campaigns |-> IF p \in req[r].of THEN {} ELSE milestones[p]]
    /\ wanted' = [p \in Campaigns |-> IF p \in req[r].of THEN req[r].plan ELSE wanted[p]]
    /\ Goto(r, "plan")
    /\ UNCHANGED <<project, required, standing, calm>>

InsertMilestones(r) ==
    /\ req[r].pc = "plan"
    /\ milestones' = [p \in Campaigns |-> IF p \in req[r].of
                        THEN milestones[p] \cup {req[r].plan} ELSE milestones[p]]
    /\ Finish(r)
    /\ UNCHANGED <<project, required, standing, history>>

-----------------------------------------------------------------------------
\* submitProject and decide.

\* Mutant of FindForSubmit: any project of the creator may be submitted.
FindForSubmitAny(r) ==
    /\ req[r].pc = "find" /\ req[r].op = "submit"
    /\ \E p \in req[r].of :
         IF ~plainIds THEN Finish(r)
         ELSE req' = [req EXCEPT ![r].pc = "creator", ![r].files = project[p].files]
    /\ UNCHANGED <<projectVars, required, standing, history>>

FindForSubmit(r) ==
    /\ req[r].pc = "find" /\ req[r].op = "submit"
    /\ \E p \in req[r].of :
         IF ~plainIds \/ project[p].status \notin {"DRAFT", "CHANGES_REQUESTED"} THEN Finish(r)
         ELSE req' = [req EXCEPT ![r].pc = "creator", ![r].files = project[p].files]
    /\ UNCHANGED <<projectVars, required, standing, history>>

CheckCreator(r) ==
    /\ req[r].pc = "creator"
    /\ IF Eligible THEN Goto(r, "rules") ELSE Finish(r)
    /\ UNCHANGED <<projectVars, required, standing, history>>

\* Mutant of CheckAttachments: that an attachment is listed is enough.
CheckAttachmentsListed(r) ==
    /\ req[r].pc = "rules" /\ req[r].op = "submit"
    /\ IF \A t \in required : req[r].files[t] # "missing"
       THEN req' = [req EXCEPT ![r].pc = "status", ![r].to = "PENDING_REVIEW"]
       ELSE Finish(r)
    /\ UNCHANGED <<projectVars, required, standing, history>>

CheckAttachments(r) ==
    /\ req[r].pc = "rules" /\ req[r].op = "submit"
    /\ IF Complete(req[r].files)
       THEN req' = [req EXCEPT ![r].pc = "status", ![r].to = "PENDING_REVIEW"]
       ELSE Finish(r)
    /\ UNCHANGED <<projectVars, required, standing, history>>

\* Whatever its status, a project may be decided on; who decides is not asked.
FindForDecide(r) ==
    /\ req[r].pc = "find" /\ req[r].op = "decide"
    /\ IF req[r].to \in {"APPROVED", "REJECTED", "CHANGES_REQUESTED"}
       THEN Goto(r, "status") ELSE Finish(r)
    /\ UNCHANGED <<projectVars, required, standing, history>>

\* The last write of both.
SetStatus(r) ==
    /\ req[r].pc = "status"
    /\ \E p \in req[r].of : project' = [project EXCEPT ![p].status = req[r].to]
    /\ Finish(r)
    /\ UNCHANGED <<milestones, required, standing, history>>

-----------------------------------------------------------------------------
\* Attachments asked for and uploaded.

FindForAttachment(r) ==
    /\ req[r].pc = "find" /\ req[r].op \in {"ask", "upload"}
    /\ \E p \in req[r].of :
         IF req[r].op = "upload" /\ ~plainIds THEN Finish(r)
         ELSE req' = [req EXCEPT ![r].pc = "write",
                        ![r].files = IF req[r].op = "ask" THEN WithAsked(project[p].files, req[r].named)
                                     ELSE WithUploaded(project[p].files, req[r].named)]
    /\ UNCHANGED <<projectVars, required, standing, history>>

WriteAttachments(r) ==
    /\ req[r].pc = "write" /\ req[r].op \in {"ask", "upload"}
    /\ \E p \in req[r].of :
         project' = [project EXCEPT ![p].files = req[r].files]
    /\ Finish(r)
    /\ UNCHANGED <<milestones, required, standing, history>>

-----------------------------------------------------------------------------
\* Single writes, and what others do meanwhile.

AddVerificationLog(p) ==
    /\ project[p] # NoProject
    /\ project' = [project EXCEPT ![p].logged = TRUE]
    /\ UNCHANGED <<milestones, required, standing, req, wanted>>

\* An administrator creates, activates or deactivates a requirement.
UpdateRequirement(t) ==
    /\ required' = IF t \in required THEN required \ {t} ELSE required \cup {t}
    /\ UNCHANGED <<projectVars, standing, req, wanted>>

SubmitCreatorVerification ==
    /\ standing' = [standing EXCEPT !.creator = "PENDING"]
    /\ UNCHANGED <<projectVars, required, req, wanted>>

UpdateCreatorVerificationStatus(s) ==
    /\ standing' = [standing EXCEPT !.creator = s]
    /\ UNCHANGED <<projectVars, required, req, wanted>>

\* blockUser, and KYC's verdict.
ChangeAccount(active, kyc) ==
    /\ standing' = [standing EXCEPT !.active = active, !.kyc = kyc]
    /\ UNCHANGED <<projectVars, required, req, wanted>>

\* The deployment script opens the project for investments.
Deploy(p) ==
    /\ project[p] # NoProject
    /\ project' = [project EXCEPT ![p].status = "FUNDING"]
    /\ UNCHANGED <<milestones, required, standing, req, wanted>>

\* An awaited call throws, or the process ends.
Throw(r) ==
    /\ req[r] # Idle
    /\ Finish(r)
    /\ UNCHANGED <<projectVars, required, standing, history>>

-----------------------------------------------------------------------------

Step(r) ==
    \/ ReadRules(r) \/ InsertProject(r) \/ FindForUpdate(r) \/ SetFields(r)
    \/ DeleteMilestones(r) \/ InsertMilestones(r)
    \/ FindForSubmit(r) \/ CheckCreator(r) \/ CheckAttachments(r)
    \/ FindForDecide(r) \/ SetStatus(r)
    \/ FindForAttachment(r) \/ WriteAttachments(r)
    \/ Throw(r)

Arrives(r, p) ==
    \/ \E filled \in SUBSET Titles, m \in Plans \cup {NoPlan} : CreateArrives(r, p, filled, m)
    \/ \E files \in {Keep} \cup {Listed(filled) : filled \in SUBSET Titles},
          anew \in BOOLEAN, m \in Plans \cup {NoPlan} : UpdateArrives(r, p, files, anew, m)
    \/ OtherArrives(r, p, "submit", "none", {})
    \/ \E to \in ProjectStatus : OtherArrives(r, p, "decide", to, {})
    \/ \E t \in Titles, op \in {"ask", "upload"} :
         OtherArrives(r, p, op, "none", {t})

Others ==
    \/ \E p \in Campaigns : AddVerificationLog(p) \/ Deploy(p)
    \/ \E t \in Titles : UpdateRequirement(t)
    \/ SubmitCreatorVerification
    \/ \E s \in {"VERIFIED", "REJECTED"} : UpdateCreatorVerificationStatus(s)
    \/ \E active, kyc \in BOOLEAN : ChangeAccount(active, kyc)

\* A request that has read its project is overtaken when the status changes.
Overtake ==
    overtaken' = {q \in Requests :
        /\ req'[q] # Idle
        /\ \/ q \in overtaken
           \/ /\ req[q].pc # "find"
              /\ \E p \in req[q].of : project'[p].status # project[p].status}

Next ==
    /\ \/ \E r \in Requests : Step(r)
       \/ \E r \in Requests, p \in Campaigns :
            Arrives(r, p) /\ Begins /\ UNCHANGED <<projectVars, required, standing>>
       \/ Others /\ Begins
    /\ UNCHANGED plainIds
    /\ Overtake

Spec == Init /\ [][Next]_vars

-----------------------------------------------------------------------------

\* While nothing overlaps, the milestones stored are of the plan sent last,
\* although they are deleted and inserted by two writes and either may throw.
MilestonesOfOnePlan ==
    calm => \A p \in Campaigns : Quiet => milestones[p] \subseteq {wanted[p]}

\* Whatever overlaps or throws, a project gets no more plans than requests were in
\* progress at a time.
PlansBounded ==
    \A p \in Campaigns : Cardinality(milestones[p]) <= Cardinality(Requests)

\* p goes from a status of one set to one of another, and nothing overlaps.
Moves(p, from, to) ==
    calm /\ project[p].status \in from /\ project'[p].status \in to

\* "Complete and verify KYC before submitting a project": while nothing overlaps,
\* a project goes back to review only from an eligible creator with every
\* required attachment.
SubmittedIsComplete ==
    [][\A p \in Campaigns :
         Moves(p, ProjectStatus \ {"PENDING_REVIEW"}, {"PENDING_REVIEW"})
           => Eligible /\ Complete(project[p].files)]_vars

\* A decision stands, whatever overlaps or throws: only a call of decide takes it
\* back, whoever makes it, or a submission that had read the project before its
\* status changed; never a request that read it afterwards.  Only the deployment
\* goes beyond it.
DecisionsStand ==
    [][\A p \in Campaigns, s \in {"APPROVED", "REJECTED", "FUNDING"} :
         project[p].status = s /\ project'[p].status \notin {s, "FUNDING"}
           => \E r \in Requests :
                p \in req[r].of /\ (req[r].op = "decide" \/ r \in overtaken)]_vars
=============================================================================
