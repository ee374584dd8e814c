--------------------------- MODULE MilestoneLocks ---------------------------
(***************************************************************************)
(* Administrators' approvals of one milestone (approveMilestone and        *)
(* addMilestoneApproval).  Each looks for the milestone's lock, creates    *)
(* one if there is none, and saves the lock with its approval.  Assigning  *)
(* the array makes Mongoose's save() write all of it, where the document   *)
(* still has the version that was read, and increment the version.         *)
(***************************************************************************)
EXTENDS Naturals, Sequences, FiniteSets

CONSTANTS
    Approvals,   \* requests to approve the milestone
    Together     \* requests in progress at the same time (a bound)

ASSUME ApprovalsAssumption == IsFiniteSet(Approvals) /\ Together \in Nat

VARIABLES
    locks,       \* the milestone's MilestoneLock documents, as created
    pc,          \* [Approvals -> what the request does next]
    read         \* [Approvals -> the lock it holds: index, approvals, version]

vars == <<locks, pc, read>>

Lock == [approvals : SUBSET Approvals, version : Nat]

TypeOK ==
    /\ locks \in Seq(Lock)
    /\ pc \in [Approvals -> {"new", "find", "create", "save", "confirm", "done", "failed"}]
    /\ read \in [Approvals -> [at : Nat, approvals : SUBSET Approvals, version : Nat]]

NewLock == [approvals |-> {}, version |-> 0]

Init ==
    /\ locks = <<>>
    /\ pc = [a \in Approvals |-> "new"]
    /\ read = [a \in Approvals |-> [at |-> 0, approvals |-> {}, version |-> 0]]

InProgress == {a \in Approvals : pc[a] \in {"find", "create", "save", "confirm"}}

Goto(a, step) == pc' = [pc EXCEPT ![a] = step]

Hold(a, n, lock) ==
    read' = [read EXCEPT ![a] = [at |-> n, approvals |-> lock.approvals, version |-> lock.version]]

Arrive(a) ==
    /\ pc[a] = "new" /\ Cardinality(InProgress) < Together
    /\ Goto(a, "find")
    /\ UNCHANGED <<locks, read>>

\* Mutant of FindLock: a lock is created whether or not there is one.
FindLockNever(a) ==
    /\ pc[a] = "find"
    /\ Goto(a, "create")
    /\ UNCHANGED <<locks, read>>

\* findMilestoneLock: one of the milestone's locks, if there is any.
FindLock(a) ==
    /\ pc[a] = "find"
    /\ \/ /\ locks = <<>>
          /\ Goto(a, "create") /\ read' = read
       \/ \E n \in DOMAIN locks : Goto(a, "save") /\ Hold(a, n, locks[n])
    /\ UNCHANGED locks

CreateLock(a) ==
    /\ pc[a] = "create"
    /\ locks' = Append(locks, NewLock)
    /\ Goto(a, "save") /\ Hold(a, Len(locks) + 1, NewLock)

\* Mutant of SaveLock: the version is not compared.
SaveLockBlind(a) ==
    /\ pc[a] = "save"
    /\ locks' = [locks EXCEPT ![read[a].at] =
                    [approvals |-> read[a].approvals \cup {a}, version |-> @.version + 1]]
    /\ Goto(a, "confirm")
    /\ UNCHANGED read

SaveLock(a) ==
    /\ pc[a] = "save"
    /\ IF locks[read[a].at].version = read[a].version
       THEN /\ locks' = [locks EXCEPT ![read[a].at] =
                            [approvals |-> read[a].approvals \cup {a}, version |-> @.version + 1]]
            /\ Goto(a, "confirm")
       ELSE locks' = locks /\ Goto(a, "failed")
    /\ UNCHANGED read

\* RELEASE_CONFIRMED is logged and the approval reported.
Confirm(a) ==
    /\ pc[a] = "confirm"
    /\ Goto(a, "done")
    /\ UNCHANGED <<locks, read>>

\* A call throws, or the server stops.
Throw(a) ==
    /\ a \in InProgress
    /\ Goto(a, "failed")
    /\ UNCHANGED <<locks, read>>

Next ==
    \E a \in Approvals :
        Arrive(a) \/ FindLock(a) \/ CreateLock(a) \/ SaveLock(a) \/ Confirm(a) \/ Throw(a)

Spec == Init /\ [][Next]_vars

-----------------------------------------------------------------------------

Has(n, a) == a \in locks[n].approvals

\* An approval that was saved or reported is in one lock, and stays there,
\* whichever other approvals were read before it and saved after it.
ApprovalsKept ==
    \A a \in Approvals : pc[a] \in {"confirm", "done"} =>
        \E n \in DOMAIN locks : Has(n, a) /\ \A m \in DOMAIN locks : Has(m, a) => m = n

\* Nothing makes a milestone's lock unique: there are as many as approvals that
\* looked for one at the same time, and no more however many follow.
LocksBounded == Len(locks) <= Together

-----------------------------------------------------------------------------
(* The inductive strengthening.                                            *)

Creating == {a \in Approvals : pc[a] = "create"}

\* A lock about to be created counts as created.
BoundOK ==
    /\ Cardinality(InProgress) <= Together
    /\ Len(locks) + Cardinality(Creating) <= Together

\* What a request holds is current, or older than the lock's version.
HeldOK ==
    \A a \in Approvals : pc[a] = "save" =>
        /\ read[a].at \in DOMAIN locks
        /\ read[a].version <= locks[read[a].at].version
        /\ read[a].version = locks[read[a].at].version =>
             read[a].approvals = locks[read[a].at].approvals

\* An approval is stored by its own save only.
StoredOK ==
    \A a \in Approvals : \A n \in DOMAIN locks : Has(n, a) =>
        /\ pc[a] \in {"confirm", "done", "failed"}
        /\ \A m \in DOMAIN locks : Has(m, a) => m = n

IInv == TypeOK /\ BoundOK /\ HeldOK /\ StoredOK /\ ApprovalsKept
=============================================================================
