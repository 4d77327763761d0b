---------------------------- MODULE ApprovalQueue ----------------------------
(***************************************************************************)
(* The review item of one ticket: created by _enqueue_supervisor_review of *)
(* graph/nodes.py, viewed, edited, approved and rejected through the       *)
(* handlers of api/supervisor.py over ApprovalRequestRepository, and       *)
(* audited by services/audit.py.                                           *)
(*                                                                         *)
(* A call loads the row into an ORM object, assigns to it, flushes,        *)
(* commits and then writes its audit row in a transaction of its own.  The *)
(* flush writes only the columns that now differ from what was loaded; in  *)
(* PostgreSQL (READ COMMITTED) it waits for the row's lock and then        *)
(* applies to the row as last committed.  Calls of several supervisors     *)
(* interleave at every await.                                              *)
(***************************************************************************)
EXTENDS Naturals, Sequences, FiniteSets

CONSTANTS
    Calls,             \* requests of supervisors to the endpoints
    Users,             \* the supervisors
    NoUser,            \* approved_by / reviewer NULL
    Texts,             \* draft responses a supervisor may write
    AIDraft,           \* the agent's draft
    Comments,          \* comments of a decision
    NoComment,         \* comments NULL
    NoCall,            \* nobody: the row lock is free, decided_at is NULL
    NoRow,             \* the ticket has no review item
    MaxAuditFailures,  \* bound: log_audit_event fails and swallows the error
    MaxDbFailures,     \* bound: a flush or commit raises
    MaxCrashes         \* bound: the server process dies and is restarted

ASSUME Markers ==
    /\ NoUser \notin Users
    /\ NoComment \notin Comments
    /\ NoCall \notin Calls

ASSUME Bounds == MaxAuditFailures \in Nat /\ MaxDbFailures \in Nat /\ MaxCrashes \in Nat

VARIABLES
    row,      \* PostgreSQL: the ticket's approval_requests row, as committed
    lock,     \* PostgreSQL: the call whose transaction holds the row's lock
    enqueue,  \* where the workflow's _persist coroutine stands
    pc,       \* where each call's handler stands
    op,       \* the endpoint it called
    user,     \* the supervisor who called it
    loaded,   \* the row its session loaded
    object,   \* its ORM object, from which the response is built
    commits,  \* the calls that committed a change, in commit order
    audit,    \* audit_logs rows in commit order: a call, or NoCall for the AI draft
    auditFailures, dbFailures, crashes

callVars == <<pc, op, user, loaded, object>>
faultVars == <<auditFailures, dbFailures, crashes>>
vars == <<row, lock, enqueue, callVars, commits, audit, faultVars>>

Decisions == {"approve", "reject"}
Ops == Decisions \cup {"edit", "view"}
InSession == {"load", "flush", "commit"}
Active == InSession \cup {"audit"}

\* Answered, answered 500, or cut off by a crash.
Over == {"done", "failed", "lost"}

\* The columns that a supervisor may change; decidedAt is the deciding call's now().
Rows == [status     : {"pending", "approved", "rejected"},
         draft      : Texts \cup {AIDraft},
         approvedBy : Users \cup {NoUser},
         comments   : Comments \cup {NoComment},
         decidedAt  : Calls \cup {NoCall}]

ASSUME NoRowIsNone == NoRow \notin Rows

Init ==
    /\ row = NoRow
    /\ lock = NoCall
    /\ enqueue = "persist"
    /\ pc = [c \in Calls |-> "idle"]
    /\ op = [c \in Calls |-> "view"]
    /\ user = [c \in Calls |-> NoUser]
    /\ loaded = [c \in Calls |-> NoRow]
    /\ object = [c \in Calls |-> NoRow]
    /\ commits = <<>>
    /\ audit = <<>>
    /\ auditFailures = 0 /\ dbFailures = 0 /\ crashes = 0

Goto(c, label) == pc' = [pc EXCEPT ![c] = label]

-----------------------------------------------------------------------------
(* The workflow enqueues its draft *)

NewItem == [status |-> "pending", draft |-> AIDraft, approvedBy |-> NoUser,
            comments |-> NoComment, decidedAt |-> NoCall]

\* create_pending and commit; a failure is swallowed by the caller, also one that
\* only lost the reply to a COMMIT that took effect.
CreatePending ==
    /\ enqueue = "persist"
    /\ \/ /\ row' = NewItem
          /\ enqueue' = "audit"
          /\ UNCHANGED dbFailures
       \/ /\ dbFailures < MaxDbFailures
          /\ dbFailures' = dbFailures + 1
          /\ enqueue' = "done"
          /\ row' \in {row, NewItem}
    /\ UNCHANGED <<lock, callVars, commits, audit, auditFailures, crashes>>

\* log_audit_event: one INSERT and COMMIT, or a warning.  A COMMIT whose reply is lost
\* leaves what a success leaves: the row is there and the handler goes on.
LogAuditEvent(entry) ==
    \/ audit' = Append(audit, entry) /\ UNCHANGED auditFailures
    \/ /\ auditFailures < MaxAuditFailures
       /\ auditFailures' = auditFailures + 1
       /\ UNCHANGED audit

AuditDraftCreated ==
    /\ enqueue = "audit"
    /\ LogAuditEvent(NoCall)
    /\ enqueue' = "done"
    /\ UNCHANGED <<row, lock, callVars, commits, dbFailures, crashes>>

-----------------------------------------------------------------------------
(* The supervisor endpoints *)

Receive(c) ==
    /\ pc[c] = "idle"
    /\ \E o \in Ops, u \in Users :
          /\ op' = [op EXCEPT ![c] = o]
          /\ user' = [user EXCEPT ![c] = u]
    /\ Goto(c, "load")
    /\ UNCHANGED <<row, lock, enqueue, loaded, object, commits, audit, faultVars>>

\* Mutant of Decided: the status is the endpoint's name.
DecidedByName(c) ==
    {[row EXCEPT !.status = op[c], !.approvedBy = user[c], !.comments = comment,
                 !.decidedAt = c] : comment \in Comments \cup {NoComment}}

\* The object after decide, or update_draft, has assigned to it.
Decided(c) ==
    {[row EXCEPT !.status = IF op[c] = "approve" THEN "approved" ELSE "rejected",
                 !.approvedBy = user[c],
                 !.comments = comment,
                 !.decidedAt = c] : comment \in Comments \cup {NoComment}}

Redrafted == {[row EXCEPT !.draft = text] : text \in Texts \cup {AIDraft}}

Assigned(c) ==
    IF op[c] \in Decisions THEN Decided(c)
    ELSE IF op[c] = "edit" THEN Redrafted ELSE {row}

\* _get_or_404; what is assigned next happens before the handler yields.
Load(c) ==
    /\ pc[c] = "load"
    /\ IF row = NoRow
       THEN Goto(c, "done") /\ UNCHANGED <<loaded, object>>
       ELSE /\ loaded' = [loaded EXCEPT ![c] = row]
            /\ \E o \in Assigned(c) : object' = [object EXCEPT ![c] = o]
            /\ Goto(c, IF op[c] = "view" THEN "audit" ELSE "flush")
    /\ UNCHANGED <<row, lock, enqueue, op, user, commits, audit, faultVars>>

\* Mutant of Changed: an absent comment is not written.
ChangedExcludingNone(c) ==
    {f \in DOMAIN object[c] : object[c][f] # loaded[c][f] /\ object[c][f] # NoComment}

\* The columns an UPDATE is emitted for.
Changed(c) == {f \in DOMAIN object[c] : object[c][f] # loaded[c][f]}

\* flush: no UPDATE if nothing differs, else one that takes the row's lock.
Flush(c) ==
    /\ pc[c] = "flush"
    /\ IF Changed(c) = {} THEN UNCHANGED lock
                          ELSE lock = NoCall /\ lock' = c
    /\ Goto(c, "commit")
    /\ UNCHANGED <<row, enqueue, op, user, loaded, object, commits, audit, faultVars>>

\* Mutant of Written: the whole object is written back.
WrittenWhole(c) == object[c]

\* Mutant of Written: a reviewer that is already there stays.
WrittenKeepingReviewer(c) ==
    [f \in DOMAIN row |->
        IF f \in Changed(c) /\ ~(f = "approvedBy" /\ row.approvedBy # NoUser)
        THEN object[c][f] ELSE row[f]]

\* The row as the UPDATE leaves it: its columns, on the row as last committed.
Written(c) == [f \in DOMAIN row |-> IF f \in Changed(c) THEN object[c][f] ELSE row[f]]

\* The COMMIT of c is carried out by the database.
TakesEffect(c) ==
    /\ row' = Written(c)
    /\ commits' = IF Changed(c) = {} THEN commits ELSE Append(commits, c)

Commit(c) ==
    /\ pc[c] = "commit"
    /\ TakesEffect(c)
    /\ lock' = IF lock = c THEN NoCall ELSE lock
    /\ Goto(c, "audit")
    /\ UNCHANGED <<enqueue, op, user, loaded, object, audit, faultVars>>

\* A statement or the COMMIT raises: rolled back, or committed with the reply lost.
Fails(c) ==
    /\ dbFailures < MaxDbFailures
    /\ dbFailures' = dbFailures + 1
    /\ \/ UNCHANGED <<row, commits>>
       \/ pc[c] = "commit" /\ TakesEffect(c)

\* Mutant of SessionFails: the audit row is written all the same.
SessionFailsAudited(c) ==
    /\ pc[c] \in InSession
    /\ Fails(c)
    /\ lock' = IF lock = c THEN NoCall ELSE lock
    /\ Goto(c, "audit")
    /\ UNCHANGED <<enqueue, op, user, loaded, object, audit, auditFailures, crashes>>

\* Mutant of SessionFails: the transaction is left open.
SessionFailsOpen(c) ==
    /\ pc[c] \in InSession
    /\ Fails(c)
    /\ Goto(c, "failed")
    /\ UNCHANGED <<lock, enqueue, op, user, loaded, object, audit, auditFailures, crashes>>

\* The session is closed and the answer is a 500.
SessionFails(c) ==
    /\ pc[c] \in InSession
    /\ Fails(c)
    /\ lock' = IF lock = c THEN NoCall ELSE lock
    /\ Goto(c, "failed")
    /\ UNCHANGED <<enqueue, op, user, loaded, object, audit, auditFailures, crashes>>

\* Mutant of AuditAndAnswer: edits are not audited.
AuditDecisions(c) ==
    /\ pc[c] = "audit"
    /\ IF op[c] = "edit" THEN UNCHANGED <<audit, auditFailures>> ELSE LogAuditEvent(c)
    /\ Goto(c, "done")
    /\ UNCHANGED <<row, lock, enqueue, op, user, loaded, object, commits, dbFailures, crashes>>

\* The answer is built from the object, whatever became of the audit row.
AuditAndAnswer(c) ==
    /\ pc[c] = "audit"
    /\ LogAuditEvent(c)
    /\ Goto(c, "done")
    /\ UNCHANGED <<row, lock, enqueue, op, user, loaded, object, commits, dbFailures, crashes>>

\* Open transactions are rolled back, committed ones stay, and nobody is answered.
Crash ==
    /\ crashes < MaxCrashes
    /\ enqueue # "done" \/ \E c \in Calls : pc[c] \in Active
    /\ crashes' = crashes + 1
    /\ lock' = NoCall
    /\ enqueue' = "done"
    /\ pc' = [c \in Calls |-> IF pc[c] \in Active THEN "lost" ELSE pc[c]]
    /\ UNCHANGED <<row, op, user, loaded, object, commits, audit, auditFailures, dbFailures>>

Handle(c) == Load(c) \/ Flush(c) \/ Commit(c) \/ SessionFails(c) \/ AuditAndAnswer(c)

Enqueue == CreatePending \/ AuditDraftCreated

Next == Enqueue \/ (\E c \in Calls : Receive(c) \/ Handle(c)) \/ Crash

Spec == Init /\ [][Next]_vars

\* The event loop resumes every coroutine; PostgreSQL grants a free lock.
FairSpec == Spec /\ WF_vars(Enqueue) /\ \A c \in Calls : WF_vars(Handle(c))

-----------------------------------------------------------------------------
(* Properties *)

TypeOK ==
    /\ row \in Rows \cup {NoRow}
    /\ lock \in Calls \cup {NoCall}
    /\ enqueue \in {"persist", "audit", "done"}
    /\ pc \in [Calls -> {"idle"} \cup Active \cup Over]
    /\ op \in [Calls -> Ops]
    /\ user \in [Calls -> Users \cup {NoUser}]
    /\ loaded \in [Calls -> Rows \cup {NoRow}]
    /\ object \in [Calls -> Rows \cup {NoRow}]
    /\ commits \in Seq(Calls)
    /\ audit \in Seq(Calls \cup {NoCall})
    /\ auditFailures \in 0..MaxAuditFailures
    /\ dbFailures \in 0..MaxDbFailures
    /\ crashes \in 0..MaxCrashes

\* The last of these calls among the first n commits is at position i; 0 for none.
IsLast(i, ops, n) ==
    /\ i \in 0..n
    /\ i > 0 => op[commits[i]] \in ops
    /\ \A j \in i + 1 .. n : op[commits[j]] \notin ops

\* The row as decision c means to leave it, its draft aside.
Records(c) ==
    \A f \in {"status", "approvedBy", "comments", "decidedAt"} : row[f] = object[c][f]

\* list_pending.
InQueue == row # NoRow /\ row.status = "pending"

\* Decisions that did not overlap are whole: when the last one had loaded what the
\* one before it committed, status, reviewer, comments and time are all its own,
\* although only the columns it changed were written.
SerialDecisionsAreWhole ==
    \A i \in 1..Len(commits), before \in 0..Len(commits) :
        /\ IsLast(i, Decisions, Len(commits)) /\ IsLast(before, Decisions, i - 1)
        /\ loaded[commits[i]].decidedAt = IF before = 0 THEN NoCall ELSE commits[before]
        => Records(commits[i])

\* Status and reviewer are torn only by re-deciding: among decisions that all
\* found the item pending, the last to commit gives status, reviewer and time.
FirstDecisionsAgree ==
    (\A i \in 1..Len(commits) : op[commits[i]] \in Decisions => loaded[commits[i]].status = "pending")
        => \A i \in 1..Len(commits) : IsLast(i, Decisions, Len(commits)) =>
              \A f \in {"status", "approvedBy", "decidedAt"} : row[f] = object[commits[i]][f]

\* No decision, however it overlaps an edit, undoes the edit: the draft is that of
\* the last edit to commit.
LastEditStands ==
    row # NoRow =>
        \A i \in 0..Len(commits) : IsLast(i, {"edit"}, Len(commits)) =>
            row.draft = IF i = 0 THEN AIDraft ELSE object[commits[i]].draft

\* An answer is built from the session's object, and the object is the row that the
\* commit left, all of it, if the call had loaded what the last decision and the last
\* edit before it committed: an answer is out of date only when calls overlapped.
AnswersAreCurrent ==
    \A n \in 1..Len(commits), decision, edit \in 0..Len(commits) :
        /\ n = Len(commits)
        /\ IsLast(decision, Decisions, n - 1) /\ IsLast(edit, {"edit"}, n - 1)
        /\ loaded[commits[n]].decidedAt = IF decision = 0 THEN NoCall ELSE commits[decision]
        /\ loaded[commits[n]].draft = IF edit = 0 THEN AIDraft ELSE object[commits[edit]].draft
        => row = object[commits[n]]

\* A decided item never shows up in the queue again, whatever edits or decisions
\* that had loaded it as pending commit afterwards.
DecidedLeavesQueue ==
    (\E i \in 1..Len(commits) : op[commits[i]] \in Decisions) => ~InQueue

\* An audit row is never false and never doubled: it stands for a call that
\* viewed, or that committed (or had nothing to change), and is written once.
AuditIsTrue ==
    \A i \in 1..Len(audit) :
        /\ audit[i] = NoCall => row # NoRow
        /\ audit[i] # NoCall =>
              /\ pc[audit[i]] = "done" /\ loaded[audit[i]] # NoRow
              /\ op[audit[i]] = "view" \/ Changed(audit[i]) = {}
                    \/ \E j \in 1..Len(commits) : commits[j] = audit[i]
        /\ \A j \in 1..Len(audit) : audit[i] = audit[j] => i = j

\* The calls that ended this way with a committed change and without an audit row.
Unaudited(end) ==
    {c \in Calls : /\ pc[c] = end
                   /\ \E i \in 1..Len(commits) : commits[i] = c
                   /\ \A i \in 1..Len(audit) : audit[i] # c}

\* A change whose caller was answered misses its audit row only through a swallowed
\* failure of the audit write, one whose caller was told 500 only through a COMMIT
\* whose reply was lost, each counted.  A crash excuses the calls that it cut off and
\* no others.
MissingAuditIsAccounted ==
    /\ Cardinality(Unaudited("done")) <= auditFailures
    /\ Cardinality(Unaudited("failed")) <= dbFailures

\* approval_request.py:99, "editing is a distinct step *before* approval".
EditOnlyBeforeDecision ==
    [][(row # NoRow /\ row'.draft # row.draft) => row.status = "pending"]_vars

\* approval_request.py:86, decide: "Record a supervisor's approve/reject decision".
DecisionIsRecorded ==
    \A i \in 1..Len(commits) : IsLast(i, Decisions, Len(commits)) => Records(commits[i])

\* Every call is answered, or fails: the one row lock is always given back.
CallsFinish == \A c \in Calls : pc[c] = "load" ~> pc[c] \in Over
=============================================================================
