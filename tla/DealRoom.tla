------------------------------ MODULE DealRoom ------------------------------
(***************************************************************************)
(* deal-room.service.ts: one document of a project's deal room.  It has a  *)
(* list of who may do what; granting and revoking read the list and write  *)
(* it anew, deleting sets the state.  Every request finds the document and *)
(* is held against it (deal-room.policy.ts), acts, and is logged.          *)
(***************************************************************************)
EXTENDS Naturals, FiniteSets

CONSTANTS
    Visits,          \* requests, each used once
    People,
    Investors,       \* the people with the role that entries may name
    Admins,
    Levels,          \* ranks of AccessLevel in use
    VisitsTogether   \* requests in progress at the same time (a bound)

ASSUME DealRoomAssumption ==
    /\ Investors \subseteq People /\ Admins \subseteq People /\ People # {}
    /\ 4 \in Levels /\ Levels \subseteq 1..4
    /\ "INVESTOR" \notin People /\ VisitsTogether \in Nat

VARIABLES
    document,    \* the DealDocument: state and acl
    accessLog,   \* the requests that are logged
    visit,       \* [Visits -> the request: who asks what, and the list it read]
    lapsed,      \* has the time come when the shorter entries expire?
    \* History.
    out,         \* people revoked by name and not granted since
    late         \* people revoked while another request was about to write its list

dealRoom == <<document, accessLog, visit, lapsed, out, late>>

READ == 1
DOWNLOAD == 2
MANAGE == 4

Entry == [who : People \cup {"INVESTOR"}, level : Levels, expires : BOOLEAN]

Ops == {"upload", "view", "download", "grant", "revoke", "revokeAll", "delete"}

Visit == [pc : {"new", "find", "act", "log", "done", "over"}, op : Ops,
          by : People, entry : Entry, acl : SUBSET Entry]

DealRoomTypeOK ==
    /\ document \in [state : {"none", "DRAFT", "REVOKED"}, acl : SUBSET Entry]
    /\ accessLog \subseteq Visits
    /\ visit \in [Visits -> Visit]
    /\ lapsed \in BOOLEAN /\ out \subseteq People /\ late \subseteq People

EntryOf(p) == [who |-> p, level |-> MANAGE, expires |-> FALSE]

Unused == LET p == CHOOSE p \in People : TRUE
          IN  [pc |-> "new", op |-> "view", by |-> p, entry |-> EntryOf(p), acl |-> {}]

DealRoomInit ==
    /\ document = [state |-> "none", acl |-> {}]
    /\ accessLog = {} /\ lapsed = FALSE /\ out = {} /\ late = {}
    /\ visit = [v \in Visits |-> Unused]

Visiting == {v \in Visits : visit[v].pc \in {"find", "act", "log"}}

GoesTo(v, pc) == visit' = [visit EXCEPT ![v].pc = pc]

\* The request answers or throws, and is forgotten.
Leaves(v, pc) == visit' = [visit EXCEPT ![v] = [Unused EXCEPT !.pc = pc]]

-----------------------------------------------------------------------------
\* deal-room.policy.ts.

Names(entry, p) == entry.who = p \/ (entry.who = "INVESTOR" /\ p \in Investors)

HasAccess(p, level) ==
    /\ document.state = "DRAFT"
    /\ \/ p \in Admins
       \/ \E entry \in document.acl :
            Names(entry, p) /\ entry.level >= level /\ ~(entry.expires /\ lapsed)

Needed(op) == CASE op = "view" -> READ [] op = "download" -> DOWNLOAD [] OTHER -> MANAGE

-----------------------------------------------------------------------------

\* A request arrives; entry is what a grant adds or, by who, whom a revocation names.
AskRoom(v, op, by, entry) ==
    /\ visit[v].pc = "new" /\ Cardinality(Visiting) < VisitsTogether
    /\ (op = "upload") = (document.state = "none")
    /\ op # "grant" => entry.who \in People /\ entry = EntryOf(entry.who)
    /\ op \notin {"grant", "revoke"} => entry.who = by
    /\ visit' = [visit EXCEPT ![v] =
         [pc |-> IF op = "upload" THEN "act" ELSE "find", op |-> op, by |-> by,
          entry |-> entry, acl |-> {}]]
    /\ UNCHANGED <<document, accessLog, lapsed, out, late>>

\* createDocument: the uploader manages it.  (Each upload makes another document;
\* this is the one whose upload was first.)
Upload(v) ==
    /\ visit[v].pc = "act" /\ visit[v].op = "upload"
    /\ IF document.state = "none"
       THEN document' = [state |-> "DRAFT", acl |-> {EntryOf(visit[v].by)}] /\ GoesTo(v, "log")
       ELSE UNCHANGED document /\ Leaves(v, "over")
    /\ UNCHANGED <<accessLog, lapsed, out, late>>

\* Mutant of Remaining: one entry of the grantee is removed.
RemainingButOne(op, entry) ==
    LET theirs == {e \in document.acl : e.who = entry.who}
    IN  IF op = "grant" THEN document.acl \cup {entry}
        ELSE IF op = "revoke"
        THEN document.acl \ (IF theirs = {} THEN {} ELSE {CHOOSE e \in theirs : TRUE})
        ELSE {}

\* The list to be written.  Entries of a role stay when a grantee is revoked.
Remaining(op, entry) ==
    IF op = "grant" THEN document.acl \cup {entry}
    ELSE IF op = "revoke" THEN {e \in document.acl : e.who # entry.who}
    ELSE {}

\* getDocumentForUser.
FindDocument(v) ==
    /\ visit[v].pc = "find"
    /\ IF HasAccess(visit[v].by, Needed(visit[v].op))
       THEN visit' = [visit EXCEPT ![v].pc = "act",
                        ![v].acl = IF visit[v].op \in {"grant", "revoke", "revokeAll"}
                                   THEN Remaining(visit[v].op, visit[v].entry) ELSE {}]
       ELSE Leaves(v, "over")
    /\ UNCHANGED <<document, accessLog, lapsed, out, late>>

\* getPresignedUrl.
Presign(v) ==
    /\ visit[v].pc = "act" /\ visit[v].op \in {"view", "download"}
    /\ GoesTo(v, "log")
    /\ UNCHANGED <<document, accessLog, lapsed, out, late>>

\* Whom a request revokes.
Revoked(op, who) ==
    IF op = "grant" THEN {} ELSE IF op = "revoke" THEN {who} \cap People ELSE People

Writing(v) == visit[v].pc = "act" /\ visit[v].op \in {"grant", "revoke", "revokeAll"}

\* updateDocumentAcl of grantAccess and revokeAccess.
WriteAcl(v) ==
    /\ Writing(v)
    /\ document' = [document EXCEPT !.acl = visit[v].acl]
    /\ LET revoked == Revoked(visit[v].op, visit[v].entry.who)
       IN  /\ out' = (out \cup revoked) \
                      (IF visit[v].op = "grant" THEN {visit[v].entry.who} ELSE {})
           /\ late' = IF \E w \in Visits \ {v} : Writing(w) THEN late \cup revoked ELSE late
    /\ GoesTo(v, "log")
    /\ UNCHANGED <<accessLog, lapsed>>

\* deleteDocument: save() writes the state, which is what differs.
DeleteDocument(v) ==
    /\ visit[v].pc = "act" /\ visit[v].op = "delete"
    /\ document' = [document EXCEPT !.state = "REVOKED"]
    /\ GoesTo(v, "log")
    /\ UNCHANGED <<accessLog, lapsed, out, late>>

\* createAccessLog; then the request answers.
LogAccess(v) ==
    /\ visit[v].pc = "log"
    /\ accessLog' = accessLog \cup {v}
    /\ Leaves(v, "done")
    /\ UNCHANGED <<document, lapsed, out, late>>

Lapse ==
    /\ ~lapsed /\ lapsed' = TRUE
    /\ UNCHANGED <<document, accessLog, visit, out, late>>

\* A call throws, or the server stops.
Abort(v) ==
    /\ v \in Visiting
    /\ Leaves(v, "over")
    /\ UNCHANGED <<document, accessLog, lapsed, out, late>>

DealRoomNext ==
    \/ \E v \in Visits :
         \/ \E op \in Ops, by \in People, entry \in Entry : AskRoom(v, op, by, entry)
         \/ Upload(v) \/ FindDocument(v) \/ Presign(v) \/ WriteAcl(v) \/ DeleteDocument(v)
         \/ LogAccess(v) \/ Abort(v)
    \/ Lapse

DealRoomSpec == DealRoomInit /\ [][DealRoomNext]_dealRoom

-----------------------------------------------------------------------------

\* Somebody whose entries were revoked by name, and who was not granted any since,
\* has none, unless another request was about to write its list when the
\* revocation was written.
RevokedStayOut == \A p \in out \ late : \A entry \in document.acl : entry.who # p
=============================================================================
