------------------------- MODULE ApprovalQueue_proofs -------------------------
(***************************************************************************)
(* Theorems about ApprovalQueue, for any number of calls and of faults.    *)
(***************************************************************************)
EXTENDS QueueRefinement, TLAPS, FiniteSetTheorems

-----------------------------------------------------------------------------
(* Rows and sequences *)

\* The columns of a decision, and all of them.
DecisionColumns == {"status", "approvedBy", "comments", "decidedAt"}
Columns == DecisionColumns \cup {"draft"}

\* A row has these columns ...
LEMMA RowDomain ==
    ASSUME NEW r \in Rows
    PROVE  DOMAIN r = Columns
  BY DEF Rows, Columns, DecisionColumns

\* ... and these values in them.
LEMMA RowFields ==
    ASSUME NEW r \in Rows
    PROVE  /\ r["status"] = r.status /\ r.status \in {"pending", "approved", "rejected"}
           /\ r["draft"] = r.draft /\ r.draft \in Texts \cup {AIDraft}
           /\ r["approvedBy"] = r.approvedBy /\ r.approvedBy \in Users \cup {NoUser}
           /\ r["comments"] = r.comments /\ r.comments \in Comments \cup {NoComment}
           /\ r["decidedAt"] = r.decidedAt /\ r.decidedAt \in Calls \cup {NoCall}
  BY DEF Rows

\* An UPDATE of some columns leaves a row.
LEMMA Merged ==
    ASSUME NEW r \in Rows, NEW o \in Rows, NEW F
    PROVE  [f \in DOMAIN r |-> IF f \in F THEN o[f] ELSE r[f]] \in Rows
<1> DEFINE m == [f \in DOMAIN r |-> IF f \in F THEN o[f] ELSE r[f]]
<1>1. m = [status |-> m["status"], draft |-> m["draft"], approvedBy |-> m["approvedBy"],
           comments |-> m["comments"], decidedAt |-> m["decidedAt"]]
  BY RowDomain DEF Columns, DecisionColumns
<1> QED
  BY RowDomain, RowFields, <1>1 DEF Rows, Columns, DecisionColumns

\* A sequence with one element more.
LEMMA Appended ==
    ASSUME NEW S, NEW s \in Seq(S), NEW x \in S
    PROVE  /\ Append(s, x) \in Seq(S) /\ Len(s) \in Nat /\ Len(Append(s, x)) = Len(s) + 1
           /\ \A i \in 1..Len(s) : Append(s, x)[i] = s[i] /\ s[i] \in S
           /\ Append(s, x)[Len(s) + 1] = x
  OBVIOUS

\* A function with one value replaced.
LEMMA Updated ==
    ASSUME NEW S, NEW T, NEW f \in [S -> T], NEW x \in S, NEW v \in T
    PROVE  /\ [f EXCEPT ![x] = v] \in [S -> T]
           /\ [f EXCEPT ![x] = v][x] = v
           /\ \A y \in S \ {x} : [f EXCEPT ![x] = v][y] = f[y]
  OBVIOUS

-----------------------------------------------------------------------------
(* The inductive invariant *)

\* The status that a decision gives.
StatusFor(o) == IF o = "approve" THEN "approved" ELSE "rejected"

\* What a call means to do to the row that it loaded.
Intent(c) ==
    /\ op[c] \in Decisions =>
          /\ object[c].status = StatusFor(op[c])
          /\ object[c].approvedBy = user[c] /\ user[c] \in Users
          /\ object[c].decidedAt = c
          /\ object[c].draft = loaded[c].draft
    /\ op[c] = "edit" => \A f \in DecisionColumns : object[c][f] = loaded[c][f]

\* What a call has loaded, where it stands.
Placed(c) ==
    /\ pc[c] \in {"idle", "load"} => loaded[c] = NoRow
    /\ pc[c] \in {"flush", "commit", "audit"} => loaded[c] # NoRow
    /\ pc[c] \in {"flush", "commit"} => op[c] # "view"
    /\ pc[c] # "idle" => user[c] \in Users
    /\ loaded[c] # NoRow => row # NoRow /\ object[c] # NoRow /\ Intent(c)

\* A call that committed is past it, and was not one that only views.
CommitsInv ==
    \A i \in 1..Len(commits) :
        /\ pc[commits[i]] \in {"audit"} \cup Over
        /\ loaded[commits[i]] # NoRow
        /\ op[commits[i]] # "view"

CallInv == CommitsInv /\ \A c \in Calls : Placed(c)

IsCommitted(c) == \E i \in 1..Len(commits) : commits[i] = c

\* A row that awaits a decision bears no mark of one.
Undecided(r) == r.status = "pending" => r.approvedBy = NoUser /\ r.decidedAt = NoCall

\* decidedAt names the last decision to commit; a snapshot that names the same one has
\* the row's decision, and one whose decision is still to come finds the row decided.
RowInv ==
    /\ row # NoRow =>
          /\ Undecided(row)
          /\ row.status = "pending" => \A i \in 1..Len(commits) : op[commits[i]] \notin Decisions
          /\ \A i \in 0..Len(commits) : IsLast(i, Decisions, Len(commits)) =>
                row.decidedAt = IF i = 0 THEN NoCall ELSE commits[i]
          /\ row.decidedAt = NoCall \/ IsCommitted(row.decidedAt)
    /\ \A c \in Calls : loaded[c] # NoRow =>
          /\ Undecided(loaded[c])
          /\ row.status = "pending" => loaded[c].status = "pending"
          /\ loaded[c].decidedAt = NoCall \/ IsCommitted(loaded[c].decidedAt)
          /\ row.decidedAt = loaded[c].decidedAt =>
                \A f \in DecisionColumns : row[f] = loaded[c][f]

\* The last decision and the last edit.
LastInv == SerialDecisionsAreWhole /\ FirstDecisionsAgree /\ LastEditStands

\* What waits for its audit row has none yet, and deserves one.
AuditInv ==
    /\ AuditIsTrue
    /\ enqueue = "persist" => row = NoRow
    /\ enqueue = "audit" => row # NoRow
    /\ enqueue # "done" => \A i \in 1..Len(audit) : audit[i] # NoCall
    /\ \A c \in Calls : pc[c] = "audit" =>
          op[c] = "view" \/ Changed(c) = {} \/ IsCommitted(c)

\* Each lost audit row, and each failed call, was a failure of its own.
Failed == {c \in Calls : pc[c] = "failed"}

MissingInv ==
    /\ IsFiniteSet(Unaudited("done")) /\ Cardinality(Unaudited("done")) <= auditFailures
    /\ IsFiniteSet(Failed) /\ Cardinality(Failed) <= dbFailures

IInv == TypeOK /\ CallInv /\ RowInv /\ LastInv /\ AuditInv /\ MissingInv

-----------------------------------------------------------------------------
(* Types *)

\* What decide and update_draft leave in the object.
LEMMA AssignedIs ==
    ASSUME TypeOK, row \in Rows, NEW c \in Calls, user[c] \in Users, NEW o \in Assigned(c)
    PROVE  /\ o \in Rows
           /\ op[c] \in Decisions => /\ o.status = StatusFor(op[c])
                                     /\ o.approvedBy = user[c] /\ o.decidedAt = c
                                     /\ o.draft = row.draft
           /\ op[c] = "edit" => \A f \in DecisionColumns : o[f] = row[f]
<1>1. CASE op[c] \in Decisions
  <2>1. PICK comment \in Comments \cup {NoComment} :
           o = [row EXCEPT !.status = IF op[c] = "approve" THEN "approved" ELSE "rejected",
                           !.approvedBy = user[c], !.comments = comment, !.decidedAt = c]
    BY <1>1 DEF Assigned, Decided
  <2>2. (IF op[c] = "approve" THEN "approved" ELSE "rejected") \in {"approved", "rejected"}
    OBVIOUS
  <2> QED
    BY <1>1, <2>1, <2>2 DEF Rows, Decisions, StatusFor
<1>2. CASE op[c] = "edit"
  <2>1. PICK text \in Texts \cup {AIDraft} : o = [row EXCEPT !.draft = text]
    BY <1>2 DEF Assigned, Decisions, Redrafted
  <2> QED
    BY <1>2, <2>1 DEF Rows, Decisions, DecisionColumns
<1>3. CASE op[c] \notin Decisions \cup {"edit"}
  BY <1>3 DEF Assigned
<1> QED
  BY <1>1, <1>2, <1>3

\* log_audit_event keeps the types of what it writes.
LEMMA LogTyped ==
    ASSUME TypeOK, NEW entry \in Calls \cup {NoCall}, LogAuditEvent(entry)
    PROVE  audit' \in Seq(Calls \cup {NoCall}) /\ auditFailures' \in 0..MaxAuditFailures
<1>1. audit \in Seq(Calls \cup {NoCall}) /\ auditFailures \in 0..MaxAuditFailures
      /\ MaxAuditFailures \in Nat
  BY Bounds DEF TypeOK
<1> QED
  BY <1>1, Appended DEF LogAuditEvent

\* The steps keep every type.
LEMMA TypeStep ==
    ASSUME IInv, [Next]_vars
    PROVE  TypeOK'
<1> USE Bounds DEF IInv
<1>1. TypeOK
  OBVIOUS
<1>2. CASE CreatePending
  <2>1. NewItem \in Rows
    BY DEF Rows, NewItem
  <2> QED
    BY <1>1, <1>2, <2>1 DEF CreatePending, TypeOK, callVars
<1>3. CASE AuditDraftCreated
  BY <1>1, <1>3, LogTyped DEF AuditDraftCreated, TypeOK, callVars
<1>4. ASSUME NEW c \in Calls, Receive(c) PROVE TypeOK'
  <2>1. op' \in [Calls -> Ops] /\ user' \in [Calls -> Users \cup {NoUser}]
    BY <1>1, <1>4, Updated DEF Receive, TypeOK
  <2>2. pc' \in [Calls -> {"idle"} \cup Active \cup Over]
    BY <1>1, <1>4 DEF Receive, Goto, TypeOK, Active, InSession
  <2> QED
    BY <1>1, <1>4, <2>1, <2>2 DEF Receive, TypeOK, faultVars
<1>5. ASSUME NEW c \in Calls, Load(c) PROVE TypeOK'
  <2>1. pc' \in [Calls -> {"idle"} \cup Active \cup Over]
    BY <1>1, <1>5 DEF Load, Goto, TypeOK, Active, InSession, Over
  <2>2. loaded' \in [Calls -> Rows \cup {NoRow}] /\ object' \in [Calls -> Rows \cup {NoRow}]
    <3>1. CASE row = NoRow
      BY <1>1, <1>5, <3>1 DEF Load, TypeOK
    <3>2. CASE row # NoRow
      <4>1. row \in Rows
        BY <1>1, <3>2 DEF TypeOK
      <4>2. PICK o \in Assigned(c) : object' = [object EXCEPT ![c] = o]
        BY <1>5, <3>2 DEF Load
      <4>3. pc[c] # "idle" /\ user[c] \in Users
        BY <1>5 DEF Load, CallInv, Placed
      <4>4. o \in Rows
        BY <1>1, <4>1, <4>2, <4>3, AssignedIs
      <4> QED
        BY <1>1, <1>5, <3>2, <4>1, <4>2, <4>4, Updated DEF Load, TypeOK
    <3> QED
      BY <3>1, <3>2
  <2> QED
    BY <1>1, <1>5, <2>1, <2>2 DEF Load, TypeOK, faultVars
<1>6. ASSUME NEW c \in Calls, Flush(c) PROVE TypeOK'
  BY <1>1, <1>6 DEF Flush, Goto, TypeOK, Active, InSession, faultVars
<1>7. ASSUME NEW c \in Calls, pc[c] = "commit", TakesEffect(c)
      PROVE  row' \in Rows \cup {NoRow} /\ commits' \in Seq(Calls)
  <2>1. row \in Rows /\ object[c] \in Rows
    BY <1>1, <1>7 DEF TypeOK, CallInv, Placed
  <2>2. row' \in Rows
    BY <1>7, <2>1, Merged DEF TakesEffect, Written
  <2>3. commits' \in Seq(Calls)
    BY <1>1, <1>7, Appended DEF TakesEffect, TypeOK
  <2> QED
    BY <2>2, <2>3
<1>12. ASSUME NEW c \in Calls, Commit(c) PROVE TypeOK'
  <2>1. row' \in Rows \cup {NoRow} /\ commits' \in Seq(Calls)
    BY <1>7, <1>12 DEF Commit
  <2>2. pc' \in [Calls -> {"idle"} \cup Active \cup Over]
    BY <1>1, <1>12 DEF Commit, Goto, TypeOK, Active
  <2> QED
    BY <1>1, <1>12, <2>1, <2>2 DEF Commit, TypeOK, faultVars
<1>8. ASSUME NEW c \in Calls, SessionFails(c) PROVE TypeOK'
  <2>1. row' \in Rows \cup {NoRow} /\ commits' \in Seq(Calls)
    BY <1>1, <1>7, <1>8 DEF SessionFails, Fails, TypeOK
  <2>2. pc' \in [Calls -> {"idle"} \cup Active \cup Over]
    BY <1>1, <1>8 DEF SessionFails, Goto, TypeOK, Over
  <2>3. dbFailures' \in 0..MaxDbFailures
    BY <1>1, <1>8 DEF SessionFails, Fails, TypeOK
  <2> QED
    BY <1>1, <1>8, <2>1, <2>2, <2>3 DEF SessionFails, TypeOK
<1>9. ASSUME NEW c \in Calls, AuditAndAnswer(c) PROVE TypeOK'
  <2>1. audit' \in Seq(Calls \cup {NoCall}) /\ auditFailures' \in 0..MaxAuditFailures
    BY <1>1, <1>9, LogTyped DEF AuditAndAnswer
  <2> QED
    BY <1>1, <1>9, <2>1 DEF AuditAndAnswer, Goto, TypeOK, Over
<1>10. CASE Crash
  BY <1>1, <1>10 DEF Crash, TypeOK, Over
<1>11. CASE UNCHANGED vars
  BY <1>1, <1>11 DEF vars, callVars, faultVars, TypeOK
<1> QED
  BY <1>2, <1>3, <1>4, <1>5, <1>6, <1>8, <1>9, <1>10, <1>11, <1>12 DEF Next, Enqueue, Handle

-----------------------------------------------------------------------------
(* Calls *)

\* A commit takes effect, whether its caller learns of it or not.
Effective(c) ==
    /\ pc[c] = "commit"
    /\ TakesEffect(c)
    /\ \E l \in {"audit", "failed"} : pc' = [pc EXCEPT ![c] = l]
    /\ UNCHANGED <<enqueue, op, user, loaded, object, audit>>

\* It does when the handler goes on, ...
LEMMA CommitIsEffective == \A c \in Calls : Commit(c) => Effective(c)
  BY DEF Commit, Effective, Goto

\* ... and a failure either lost the reply to one, or leaves row and commits alone.
LEMMA FailureIsEffective ==
    \A c \in Calls : SessionFails(c) => Effective(c) \/ UNCHANGED <<row, commits>>
  BY DEF SessionFails, Fails, Effective, Goto

\* What a step may do to the row, to a call and to the commits.
LEMMA CallsStep ==
    ASSUME IInv, [Next]_vars
    PROVE  \/ /\ UNCHANGED <<row, op, user, loaded, object, commits>>
              /\ \A c \in Calls : \/ pc'[c] = pc[c]
                                  \/ pc[c] \in Active /\ pc'[c] \in {"failed", "lost"}
                                  \/ pc[c] = "audit" /\ pc'[c] = "done"
                                  \/ pc[c] = "flush" /\ pc'[c] = "commit"
                                  \/ pc[c] = "load" /\ pc'[c] = "done"
           \/ CreatePending /\ row' = NewItem
           \/ \E c \in Calls : Receive(c)
           \/ \E c \in Calls : Load(c) /\ row # NoRow
           \/ \E c \in Calls : Effective(c)
<1> USE DEF IInv
<1>1. pc \in [Calls -> {"idle"} \cup Active \cup Over]
  BY DEF TypeOK
<1>2. CASE CreatePending
  BY <1>2 DEF CreatePending, callVars
<1>3. CASE AuditDraftCreated
  BY <1>3 DEF AuditDraftCreated, callVars
<1>4. ASSUME NEW c \in Calls, Load(c), row = NoRow
      PROVE  /\ UNCHANGED <<row, op, user, loaded, object, commits>>
             /\ pc[c] = "load" /\ pc' = [pc EXCEPT ![c] = "done"]
  BY <1>4 DEF Load, Goto
<1>5. ASSUME NEW c \in Calls, Flush(c)
      PROVE  /\ UNCHANGED <<row, op, user, loaded, object, commits>>
             /\ pc[c] = "flush" /\ pc' = [pc EXCEPT ![c] = "commit"]
  BY <1>5 DEF Flush, Goto
<1>6. ASSUME NEW c \in Calls, SessionFails(c), UNCHANGED <<row, commits>>
      PROVE  /\ UNCHANGED <<row, op, user, loaded, object, commits>>
             /\ pc[c] \in Active /\ pc' = [pc EXCEPT ![c] = "failed"]
  BY <1>6 DEF SessionFails, Goto, Active
<1>7. ASSUME NEW c \in Calls, AuditAndAnswer(c)
      PROVE  /\ UNCHANGED <<row, op, user, loaded, object, commits>>
             /\ pc[c] = "audit" /\ pc' = [pc EXCEPT ![c] = "done"]
  BY <1>7 DEF AuditAndAnswer, Goto
<1>8. CASE Crash
  BY <1>1, <1>8 DEF Crash
<1>9. CASE UNCHANGED vars
  BY <1>9 DEF vars, callVars
<1>10. \A c \in Calls : Commit(c) => Effective(c)
  BY CommitIsEffective
<1>11. \A c \in Calls : SessionFails(c) => Effective(c) \/ UNCHANGED <<row, commits>>
  BY FailureIsEffective
<1> QED
  BY <1>1, <1>2, <1>3, <1>4, <1>5, <1>6, <1>7, <1>8, <1>9, <1>10, <1>11
     DEF Next, Enqueue, Handle

\* The first row is new, and there is nothing that refers to one.
LEMMA Created ==
    ASSUME IInv, CreatePending, row' = NewItem
    PROVE  /\ row' = [status |-> "pending", draft |-> AIDraft, approvedBy |-> NoUser,
                      comments |-> NoComment, decidedAt |-> NoCall]
           /\ row = NoRow /\ row' # NoRow /\ row' \in Rows
           /\ UNCHANGED <<pc, op, user, loaded, object, commits, audit>>
           /\ Len(commits) = 0 /\ \A c \in Calls : loaded[c] = NoRow
<1> USE DEF IInv
<1>1. /\ row' = [status |-> "pending", draft |-> AIDraft, approvedBy |-> NoUser,
                 comments |-> NoComment, decidedAt |-> NoCall]
      /\ UNCHANGED <<pc, op, user, loaded, object, commits, audit>> /\ enqueue = "persist"
  BY DEF CreatePending, callVars, NewItem
<1>2. row' \in Rows /\ row' # NoRow
  BY <1>1, NoRowIsNone DEF Rows
<1>3. row = NoRow
  BY <1>1 DEF AuditInv
<1>4. \A c \in Calls : loaded[c] = NoRow
  BY <1>3 DEF CallInv, Placed
<1>5. Len(commits) \in Nat /\ \A i \in 1..Len(commits) : commits[i] \in Calls
  BY DEF TypeOK
<1>6. Len(commits) = 0
  BY <1>4, <1>5 DEF CallInv, CommitsInv
<1> QED
  BY <1>1, <1>2, <1>3, <1>4, <1>6

\* A call that loads takes the row as it is.
LEMMA Loads ==
    ASSUME IInv, NEW c \in Calls, Load(c), row # NoRow
    PROVE  /\ pc[c] = "load" /\ row \in Rows /\ loaded[c] = NoRow
           /\ UNCHANGED <<row, op, user, commits, audit>>
           /\ pc'[c] = IF op[c] = "view" THEN "audit" ELSE "flush"
           /\ loaded'[c] = row /\ object'[c] \in Rows /\ Intent(c)'
           /\ \A x \in Calls \ {c} :
                 loaded'[x] = loaded[x] /\ object'[x] = object[x] /\ pc'[x] = pc[x]
<1> USE DEF IInv
<1>1. /\ pc[c] = "load" /\ row \in Rows /\ loaded[c] = NoRow /\ user[c] \in Users
      /\ UNCHANGED <<row, op, user, commits, audit>>
  BY DEF Load, TypeOK, CallInv, Placed
<1>2. PICK o \in Assigned(c) : object' = [object EXCEPT ![c] = o]
  BY DEF Load
<1>3. loaded' = [loaded EXCEPT ![c] = row]
      /\ pc' = [pc EXCEPT ![c] = IF op[c] = "view" THEN "audit" ELSE "flush"]
  BY DEF Load, Goto
<1>4. /\ loaded'[c] = row /\ object'[c] = o
      /\ pc'[c] = IF op[c] = "view" THEN "audit" ELSE "flush"
      /\ \A x \in Calls \ {c} : loaded'[x] = loaded[x] /\ object'[x] = object[x] /\ pc'[x] = pc[x]
  BY <1>2, <1>3 DEF TypeOK
<1>5. /\ o \in Rows
      /\ op[c] \in Decisions => /\ o.status = StatusFor(op[c])
                                /\ o.approvedBy = user[c] /\ o.decidedAt = c
                                /\ o.draft = row.draft
      /\ op[c] = "edit" => \A f \in DecisionColumns : o[f] = row[f]
  BY <1>1, AssignedIs
<1>6. Intent(c)'
  BY <1>1, <1>4, <1>5 DEF Intent
<1> QED
  BY <1>1, <1>4, <1>5, <1>6

\* A commit writes the columns that differ from what was loaded, and nothing else.
LEMMA Commits ==
    ASSUME IInv, NEW c \in Calls, Effective(c)
    PROVE  /\ pc[c] = "commit" /\ op[c] \in Decisions \cup {"edit"}
           /\ row \in Rows /\ row' \in Rows /\ loaded[c] \in Rows /\ object[c] \in Rows
           /\ Intent(c) /\ ~IsCommitted(c)
           /\ \A f \in Columns :
                 row'[f] = IF object[c][f] # loaded[c][f] THEN object[c][f] ELSE row[f]
           /\ commits' = IF Changed(c) = {} THEN commits ELSE Append(commits, c)
           /\ UNCHANGED <<op, user, loaded, object, audit>>
           /\ \E l \in {"audit", "failed"} : pc' = [pc EXCEPT ![c] = l]
<1> USE DEF IInv
<1>1. /\ pc[c] = "commit" /\ Placed(c)
      /\ UNCHANGED <<op, user, loaded, object, audit>>
      /\ \E l \in {"audit", "failed"} : pc' = [pc EXCEPT ![c] = l]
      /\ commits' = IF Changed(c) = {} THEN commits ELSE Append(commits, c)
      /\ row' = [f \in DOMAIN row |-> IF f \in Changed(c) THEN object[c][f] ELSE row[f]]
  BY DEF Effective, TakesEffect, Written, CallInv
<1>2. row \in Rows /\ loaded[c] \in Rows /\ object[c] \in Rows /\ Intent(c)
  BY <1>1 DEF Placed, TypeOK
<1>3. op[c] \in Decisions \cup {"edit"}
  BY <1>1 DEF Placed, TypeOK, Ops
<1>4. ~IsCommitted(c)
  <2>1. \A i \in 1..Len(commits) : pc[commits[i]] # "commit"
    BY DEF CallInv, CommitsInv, Over
  <2> QED
    BY <1>1, <2>1 DEF IsCommitted
<1>5. row' \in Rows
  <2>1. \A F : [f \in DOMAIN row |-> IF f \in F THEN object[c][f] ELSE row[f]] \in Rows
    BY <1>2, Merged
  <2> QED
    BY <1>1, <2>1, Zenon
<1>6. DOMAIN row = Columns /\ DOMAIN object[c] = Columns
  BY <1>2, RowDomain
<1>7. \A f \in Columns : row'[f] = IF object[c][f] # loaded[c][f] THEN object[c][f] ELSE row[f]
  BY <1>1, <1>6 DEF Changed
<1> QED
  BY <1>1, <1>2, <1>3, <1>4, <1>5, <1>7

\* The calls stay placed, and past their commits.
LEMMA CallInvStep ==
    ASSUME IInv, [Next]_vars
    PROVE  CallInv'
<1> USE DEF IInv
<1>1. CommitsInv /\ (\A c \in Calls : Placed(c)) /\ commits \in Seq(Calls)
      /\ pc \in [Calls -> {"idle"} \cup Active \cup Over]
      /\ Len(commits) \in Nat /\ \A i \in 1..Len(commits) : commits[i] \in Calls
  BY DEF CallInv, TypeOK
<1>2. CASE /\ UNCHANGED <<row, op, user, loaded, object, commits>>
           /\ \A c \in Calls : \/ pc'[c] = pc[c]
                               \/ pc[c] \in Active /\ pc'[c] \in {"failed", "lost"}
                               \/ pc[c] = "audit" /\ pc'[c] = "done"
                               \/ pc[c] = "flush" /\ pc'[c] = "commit"
                               \/ pc[c] = "load" /\ pc'[c] = "done"
  <2>1. CommitsInv'
    BY <1>1, <1>2 DEF CommitsInv, Over
  <2>2. \A c \in Calls : Placed(c)'
    BY <1>1, <1>2 DEF Placed, Intent, Active, InSession, Over
  <2> QED
    BY <2>1, <2>2 DEF CallInv
<1>3. CASE CreatePending /\ row' = NewItem
  BY <1>1, <1>3, Created DEF CallInv, CommitsInv, Placed, Intent
<1>4. ASSUME NEW c \in Calls, Receive(c) PROVE CallInv'
  <2>1. pc[c] = "idle" /\ UNCHANGED <<row, loaded, object, commits>>
        /\ pc' = [pc EXCEPT ![c] = "load"]
    BY <1>4 DEF Receive, Goto
  <2>2. PICK o \in Ops, u \in Users : op' = [op EXCEPT ![c] = o] /\ user' = [user EXCEPT ![c] = u]
    BY <1>4 DEF Receive
  <2>3. user'[c] \in Users /\ \A x \in Calls \ {c} : op'[x] = op[x] /\ user'[x] = user[x]
    BY <2>2 DEF TypeOK
  <2>4. CommitsInv'
    BY <1>1, <2>1, <2>3 DEF CommitsInv, Over
  <2>5. Placed(c)'
    BY <1>1, <2>1, <2>3 DEF Placed
  <2>6. \A x \in Calls \ {c} : Placed(x)'
    BY <1>1, <2>1, <2>3 DEF Placed, Intent
  <2> QED
    BY <2>4, <2>5, <2>6 DEF CallInv
<1>5. ASSUME NEW c \in Calls, Load(c), row # NoRow PROVE CallInv'
  <2>1. Placed(c)'
    BY <1>1, <1>5, Loads, NoRowIsNone DEF Placed
  <2>2. \A x \in Calls \ {c} : Placed(x)'
    BY <1>1, <1>5, Loads DEF Placed, Intent
  <2>3. CommitsInv'
    BY <1>1, <1>5, Loads DEF CommitsInv, Over
  <2> QED
    BY <2>1, <2>2, <2>3 DEF CallInv
<1>6. ASSUME NEW c \in Calls, Effective(c) PROVE CallInv'
  <2>1. /\ pc[c] = "commit" /\ row' # NoRow /\ loaded[c] # NoRow /\ op[c] # "view"
        /\ \E l \in {"audit", "failed"} : pc' = [pc EXCEPT ![c] = l]
        /\ UNCHANGED <<op, user, loaded, object>>
        /\ commits' = commits \/ commits' = Append(commits, c)
    BY <1>6, Commits, NoRowIsNone DEF Decisions
  <2>2. \A x \in Calls : Placed(x)'
    BY <1>1, <2>1 DEF Placed, Intent
  <2>3. /\ pc'[c] \in {"audit"} \cup Over
        /\ \A x \in Calls : pc[x] # "commit" => pc'[x] = pc[x]
    BY <1>1, <2>1 DEF Over
  <2>4. ASSUME NEW i \in 1..Len(commits)
        PROVE  /\ commits[i] \in Calls
               /\ pc'[commits[i]] \in {"audit"} \cup Over
               /\ loaded'[commits[i]] # NoRow /\ op'[commits[i]] # "view"
    <3>1. /\ commits[i] \in Calls /\ pc[commits[i]] \in {"audit"} \cup Over
          /\ loaded[commits[i]] # NoRow /\ op[commits[i]] # "view"
      BY <1>1, <2>4 DEF CommitsInv
    <3> QED
      BY <2>1, <2>3, <3>1 DEF Over
  <2>5. \A i \in 1..Len(commits') : commits'[i] = c \/ \E j \in 1..Len(commits) : commits'[i] = commits[j]
    <3>1. CASE commits' = commits
      BY <3>1
    <3>2. CASE commits' = Append(commits, c)
      <4>1. /\ Len(commits') = Len(commits) + 1 /\ commits'[Len(commits) + 1] = c
            /\ \A j \in 1..Len(commits) : commits'[j] = commits[j]
        BY <1>1, <3>2, Appended
      <4> QED
        BY <1>1, <4>1
    <3> QED
      BY <2>1, <3>1, <3>2
  <2>6. CommitsInv'
    BY <2>1, <2>3, <2>4, <2>5 DEF CommitsInv
  <2> QED
    BY <2>2, <2>6 DEF CallInv
<1> QED
  BY <1>2, <1>3, <1>4, <1>5, <1>6, CallsStep

-----------------------------------------------------------------------------
(* The last decision and the last edit *)

\* A further commit is the last of its kind; the last of the other kinds stays.
LEMMA LastAfter ==
    ASSUME commits \in Seq(Calls), NEW c \in Calls, commits' = Append(commits, c), op' = op,
           NEW ops, NEW i \in 0..Len(commits'), IsLast(i, ops, Len(commits))'
    PROVE  /\ op[c] \in ops => i = Len(commits) + 1 /\ commits'[i] = c
           /\ op[c] \notin ops => /\ i \in 0..Len(commits) /\ IsLast(i, ops, Len(commits))
                                  /\ i > 0 => commits'[i] = commits[i]
<1>1. /\ Len(commits) \in Nat /\ Len(commits') = Len(commits) + 1
      /\ \A j \in 1..Len(commits) : commits'[j] = commits[j]
      /\ commits'[Len(commits) + 1] = c
  BY Appended
<1>2. /\ i > 0 => op[commits'[i]] \in ops
      /\ \A j \in i + 1 .. Len(commits) + 1 : op[commits'[j]] \notin ops
  BY <1>1 DEF IsLast
<1>3. CASE op[c] \in ops
  BY <1>1, <1>2, <1>3
<1>4. CASE op[c] \notin ops
  <2>1. i # Len(commits) + 1
    BY <1>1, <1>2, <1>4
  <2>2. i \in 0..Len(commits)
    BY <1>1, <2>1
  <2>3. \A j \in i + 1 .. Len(commits) : op[commits[j]] \notin ops
    BY <1>1, <1>2, <2>2
  <2>4. i > 0 => commits'[i] = commits[i] /\ op[commits[i]] \in ops
    BY <1>1, <1>2, <2>2
  <2> QED
    BY <1>4, <2>2, <2>3, <2>4 DEF IsLast
<1> QED
  BY <1>3, <1>4

\* A decision writes its time, its status and its reviewer when it found none.
LEMMA DecisionWrites ==
    ASSUME IInv, NEW c \in Calls, Effective(c), op[c] \in Decisions
    PROVE  /\ commits' = Append(commits, c)
           /\ row'.decidedAt = c /\ row'.status \in {"approved", "rejected"}
           /\ row'.draft = row.draft
           /\ loaded[c].status = "pending" =>
                 \A f \in {"status", "approvedBy", "decidedAt"} : row'[f] = object[c][f]
           /\ row.decidedAt = loaded[c].decidedAt =>
                 \A f \in DecisionColumns : row'[f] = object[c][f]
<1> USE DEF IInv
<1>1. /\ row \in Rows /\ row' \in Rows /\ loaded[c] \in Rows /\ object[c] \in Rows
      /\ Intent(c) /\ ~IsCommitted(c)
      /\ \A f \in Columns : row'[f] = IF object[c][f] # loaded[c][f] THEN object[c][f] ELSE row[f]
      /\ commits' = IF Changed(c) = {} THEN commits ELSE Append(commits, c)
  BY Commits
<1>2. /\ object[c].status \in {"approved", "rejected"} /\ object[c].approvedBy \in Users
      /\ object[c].decidedAt = c /\ object[c].draft = loaded[c].draft
  BY <1>1 DEF Intent, StatusFor
<1>3. loaded[c] # NoRow /\ RowInv
  BY <1>1, NoRowIsNone
<1>4. /\ Undecided(loaded[c])
      /\ row.status = "pending" => loaded[c].status = "pending"
      /\ loaded[c].decidedAt = NoCall \/ IsCommitted(loaded[c].decidedAt)
      /\ row.decidedAt = loaded[c].decidedAt =>
            \A f \in DecisionColumns : row[f] = loaded[c][f]
  BY <1>3 DEF RowInv
<1>5. loaded[c].decidedAt # c
  BY <1>1, <1>4, Markers
<1>6. object[c]["decidedAt"] # loaded[c]["decidedAt"]
  BY <1>1, <1>2, <1>5, RowFields
<1>7. commits' = Append(commits, c)
  <2>1. "decidedAt" \in Changed(c)
    BY <1>1, <1>6, RowDomain DEF Changed, Columns, DecisionColumns
  <2> QED
    BY <1>1, <2>1
<1>8. row'["decidedAt"] = c /\ row'["decidedAt"] = object[c]["decidedAt"]
  BY <1>1, <1>2, <1>6, RowFields DEF Columns, DecisionColumns
<1>9. row'["draft"] = row["draft"]
  BY <1>1, <1>2, RowFields DEF Columns, DecisionColumns
<1>10. row'["status"] \in {"approved", "rejected"}
  <2>1. row'["status"] = IF object[c]["status"] # loaded[c]["status"] THEN object[c]["status"]
                                                                   ELSE row["status"]
    BY <1>1 DEF Columns, DecisionColumns
  <2> QED
    BY <1>1, <1>2, <1>4, <2>1, RowFields
<1>11. ASSUME loaded[c].status = "pending"
       PROVE  \A f \in {"status", "approvedBy", "decidedAt"} : row'[f] = object[c][f]
  <2>1. object[c]["status"] # loaded[c]["status"] /\ object[c]["approvedBy"] # loaded[c]["approvedBy"]
    BY <1>1, <1>2, <1>4, <1>11, RowFields, Markers DEF Undecided
  <2> QED
    BY <1>1, <1>8, <2>1 DEF Columns, DecisionColumns
<1>12. ASSUME row.decidedAt = loaded[c].decidedAt
       PROVE  \A f \in DecisionColumns : row'[f] = object[c][f]
  BY <1>1, <1>4, <1>12 DEF Columns
<1> QED
  BY <1>1, <1>7, <1>8, <1>9, <1>10, <1>11, <1>12, RowFields

\* An edit writes the draft, if it changes it.
LEMMA EditWrites ==
    ASSUME IInv, NEW c \in Calls, Effective(c), op[c] = "edit"
    PROVE  /\ \A f \in DecisionColumns : row'[f] = row[f]
           /\ \/ commits' = commits /\ row'.draft = row.draft
              \/ commits' = Append(commits, c) /\ row'.draft = object[c].draft
<1> USE DEF IInv
<1>1. /\ row \in Rows /\ row' \in Rows /\ loaded[c] \in Rows /\ object[c] \in Rows
      /\ Intent(c)
      /\ \A f \in Columns : row'[f] = IF object[c][f] # loaded[c][f] THEN object[c][f] ELSE row[f]
      /\ commits' = IF Changed(c) = {} THEN commits ELSE Append(commits, c)
  BY Commits
<1>2. \A f \in DecisionColumns : object[c][f] = loaded[c][f] /\ row'[f] = row[f]
  BY <1>1 DEF Intent, Columns
<1>3. CASE object[c]["draft"] = loaded[c]["draft"]
  <2>1. Changed(c) = {}
    BY <1>1, <1>2, <1>3, RowDomain DEF Changed, Columns
  <2>2. row'["draft"] = row["draft"]
    BY <1>1, <1>3 DEF Columns
  <2> QED
    BY <1>1, <1>2, <2>1, <2>2, RowFields
<1>4. CASE object[c]["draft"] # loaded[c]["draft"]
  <2>1. "draft" \in Changed(c)
    BY <1>1, <1>4, RowDomain DEF Changed, Columns
  <2>2. row'["draft"] = object[c]["draft"]
    BY <1>1, <1>4 DEF Columns
  <2> QED
    BY <1>1, <1>2, <2>1, <2>2, RowFields
<1> QED
  BY <1>3, <1>4

\* A step that touches no row, no commit and no call that has committed.
LEMMA SameLast ==
    ASSUME IInv, commits' = commits,
           \A i \in 1..Len(commits) : op'[commits[i]] = op[commits[i]]
    PROVE  \A ops : \A n \in 0..Len(commits) : \A i \in 0..Len(commits) :
              IsLast(i, ops, n)' <=> IsLast(i, ops, n)
<1>1. Len(commits) \in Nat
  BY DEF IInv, TypeOK
<1>2. ASSUME NEW ops, NEW n \in 0..Len(commits), NEW i \in 0..Len(commits)
      PROVE  IsLast(i, ops, n)' <=> IsLast(i, ops, n)
  <2>1. i > 0 => op'[commits'[i]] = op[commits[i]]
    BY <1>1
  <2>2. \A j \in i + 1 .. n : op'[commits'[j]] = op[commits[j]]
    BY <1>1
  <2> QED
    BY <2>1, <2>2 DEF IsLast
<1> QED
  BY <1>2

\* A call that arrives has committed nothing.
LEMMA Arrives ==
    ASSUME IInv, NEW c \in Calls, Receive(c)
    PROVE  /\ UNCHANGED <<row, loaded, object, commits, audit>>
           /\ \A i \in 1..Len(commits) : op'[commits[i]] = op[commits[i]]
           /\ \A x \in Calls \ {c} : op'[x] = op[x] /\ user'[x] = user[x] /\ pc'[x] = pc[x]
           /\ pc[c] = "idle" /\ pc'[c] = "load" /\ ~IsCommitted(c)
<1> USE DEF IInv
<1>1. pc[c] = "idle" /\ UNCHANGED <<row, loaded, object, commits, audit>>
      /\ pc' = [pc EXCEPT ![c] = "load"]
  BY DEF Receive, Goto
<1>2. \A i \in 1..Len(commits) : commits[i] \in Calls \ {c}
  <2>1. \A i \in 1..Len(commits) : commits[i] \in Calls
    BY DEF TypeOK
  <2>2. \A i \in 1..Len(commits) : pc[commits[i]] # "idle"
    BY DEF CallInv, CommitsInv, Over
  <2> QED
    BY <1>1, <2>1, <2>2
<1>3. PICK o \in Ops, u \in Users : op' = [op EXCEPT ![c] = o] /\ user' = [user EXCEPT ![c] = u]
  BY DEF Receive
<1>4. \A x \in Calls \ {c} : op'[x] = op[x] /\ user'[x] = user[x] /\ pc'[x] = pc[x]
  BY <1>1, <1>3 DEF TypeOK
<1>5. pc'[c] = "load"
  BY <1>1 DEF TypeOK
<1> QED
  BY <1>1, <1>2, <1>4, <1>5 DEF IsCommitted

\* decidedAt keeps naming the last decision.
LEMMA RowInvStep ==
    ASSUME IInv, [Next]_vars
    PROVE  RowInv'
<1> USE DEF IInv
<1>1. RowInv /\ commits \in Seq(Calls) /\ Len(commits) \in Nat
      /\ \A i \in 1..Len(commits) : commits[i] \in Calls
  BY DEF TypeOK
<1>2. CASE UNCHANGED <<row, op, user, loaded, object, commits>>
  BY <1>1, <1>2 DEF RowInv, Undecided, IsLast, IsCommitted
<1>3. CASE CreatePending /\ row' = NewItem
  <2>1. /\ row'.status = "pending" /\ row'.approvedBy = NoUser /\ row'.decidedAt = NoCall
        /\ Len(commits)' = 0 /\ \A c \in Calls : loaded'[c] = NoRow
    BY <1>3, Created
  <2> QED
    BY <2>1 DEF RowInv, Undecided
<1>4. ASSUME NEW c \in Calls, Receive(c) PROVE RowInv'
  <2>1. UNCHANGED <<row, loaded, commits>>
        /\ \A i \in 1..Len(commits) : op'[commits[i]] = op[commits[i]]
    BY <1>4, Arrives
  <2>2. \A i \in 0..Len(commits) : IsLast(i, Decisions, Len(commits))' <=>
                                  IsLast(i, Decisions, Len(commits))
    BY <1>1, <2>1 DEF IsLast
  <2> QED
    BY <1>1, <2>1, <2>2 DEF RowInv, Undecided, IsCommitted
<1>5. ASSUME NEW c \in Calls, Load(c), row # NoRow PROVE RowInv'
  <2>1. /\ UNCHANGED <<row, op, commits>> /\ loaded'[c] = row
        /\ \A x \in Calls \ {c} : loaded'[x] = loaded[x]
    BY <1>5, Loads
  <2>2. \A i \in 0..Len(commits) : IsLast(i, Decisions, Len(commits))' <=>
                                  IsLast(i, Decisions, Len(commits))
    BY <1>1, <2>1 DEF IsLast
  <2> QED
    BY <1>1, <1>5, <2>1, <2>2 DEF RowInv, Undecided, IsCommitted
<1>6. ASSUME NEW c \in Calls, Effective(c), op[c] \in Decisions PROVE RowInv'
  <2>1. /\ commits' = Append(commits, c) /\ UNCHANGED <<op, loaded>>
        /\ row'.decidedAt = c /\ row'.status \in {"approved", "rejected"}
        /\ ~IsCommitted(c)
    BY <1>6, DecisionWrites, Commits
  <2>2. /\ Len(commits') = Len(commits) + 1 /\ commits'[Len(commits) + 1] = c
        /\ \A j \in 1..Len(commits) : commits'[j] = commits[j]
    BY <1>1, <2>1, Appended
  <2>3. IsCommitted(c)'
    BY <1>1, <2>2 DEF IsCommitted
  <2>4. \A i \in 0..Len(commits') : IsLast(i, Decisions, Len(commits))' =>
           i > 0 /\ commits'[i] = c
    BY <1>1, <1>6, <2>1, LastAfter
  <2>5. ASSUME NEW x \in Calls, loaded[x] # NoRow
        PROVE  /\ Undecided(loaded[x])
               /\ loaded[x].decidedAt = NoCall \/ IsCommitted(loaded[x].decidedAt)'
               /\ loaded[x].decidedAt # c
    <3>1. Undecided(loaded[x]) /\ (loaded[x].decidedAt = NoCall \/ IsCommitted(loaded[x].decidedAt))
      BY <1>1, <2>5 DEF RowInv
    <3>2. loaded[x].decidedAt # c
      BY <2>1, <3>1, Markers
    <3>3. IsCommitted(loaded[x].decidedAt) => \E i \in 1..Len(commits') : commits'[i] = loaded[x].decidedAt
      BY <1>1, <2>2 DEF IsCommitted
    <3> QED
      BY <2>1, <3>1, <3>2, <3>3 DEF IsCommitted
  <2>6. ASSUME NEW x \in Calls, loaded[x] # NoRow
        PROVE  loaded[x].decidedAt = NoCall
                 \/ \E i \in 1..Len(commits') : commits'[i] = loaded[x].decidedAt
    BY <2>5, <2>6, <2>1 DEF IsCommitted
  <2>7. \A x \in Calls : loaded[x] # NoRow =>
           /\ Undecided(loaded[x])'
           /\ row'.status # "pending" /\ row'.decidedAt # loaded'[x].decidedAt
    BY <2>1, <2>5 DEF Undecided
  <2>8. \E i \in 1..Len(commits') : commits'[i] = row'.decidedAt
    BY <2>1, <2>3 DEF IsCommitted
  <2> QED
    BY <2>1, <2>4, <2>6, <2>7, <2>8 DEF RowInv, Undecided, IsCommitted
<1>7. ASSUME NEW c \in Calls, Effective(c), op[c] = "edit" PROVE RowInv'
  <2>1. /\ row \in Rows /\ row' \in Rows /\ UNCHANGED <<op, loaded>>
        /\ \A f \in DecisionColumns : row'[f] = row[f]
        /\ commits' = commits \/ commits' = Append(commits, c)
    BY <1>7, EditWrites, Commits
  <2>2. row'.status = row.status /\ row'.approvedBy = row.approvedBy /\ row'.decidedAt = row.decidedAt
    BY <2>1, RowFields DEF DecisionColumns
  <2>3. row # NoRow /\ row' # NoRow
    BY <2>1, NoRowIsNone
  <2>4. CASE commits' = commits
    BY <1>1, <2>1, <2>2, <2>3, <2>4 DEF RowInv, Undecided, IsCommitted, IsLast
  <2>5. CASE commits' = Append(commits, c)
    <3>1. /\ Len(commits') = Len(commits) + 1 /\ commits'[Len(commits) + 1] = c
          /\ \A j \in 1..Len(commits) : commits'[j] = commits[j]
      BY <1>1, <2>5, Appended
    <3>2. op[c] \notin Decisions
      BY <1>7 DEF Decisions
    <3>3. \A i \in 0..Len(commits') : IsLast(i, Decisions, Len(commits))' =>
             /\ i \in 0..Len(commits) /\ IsLast(i, Decisions, Len(commits))
             /\ i > 0 => commits'[i] = commits[i]
      BY <1>1, <2>1, <2>5, <3>2, LastAfter
    <3>4. \A x : IsCommitted(x) => \E i \in 1..Len(commits') : commits'[i] = x
      BY <1>1, <3>1 DEF IsCommitted
    <3>5. \A i \in 0..Len(commits') : IsLast(i, Decisions, Len(commits))' =>
             row'.decidedAt = IF i = 0 THEN NoCall ELSE commits'[i]
      BY <1>1, <2>2, <2>3, <3>3 DEF RowInv
    <3>6. row'.status = "pending" => \A i \in 1..Len(commits') : op'[commits'[i]] \notin Decisions
      BY <1>1, <2>1, <2>2, <2>3, <3>1, <3>2 DEF RowInv
    <3>7. Undecided(row)' /\ (row'.decidedAt = NoCall \/ IsCommitted(row.decidedAt)')
      BY <1>1, <2>2, <2>3, <3>4 DEF RowInv, Undecided, IsCommitted
    <3>8. \A x \in Calls : loaded'[x] # NoRow =>
            /\ Undecided(loaded[x])'
            /\ row'.status = "pending" => loaded'[x].status = "pending"
            /\ loaded'[x].decidedAt = NoCall \/ IsCommitted(loaded[x].decidedAt)'
            /\ row'.decidedAt = loaded'[x].decidedAt =>
                  \A f \in DecisionColumns : row'[f] = loaded'[x][f]
      BY <1>1, <2>1, <2>2, <3>4 DEF RowInv, Undecided, IsCommitted
    <3> QED
      BY <3>5, <3>6, <3>7, <3>8 DEF RowInv
  <2> QED
    BY <2>1, <2>4, <2>5
<1>8. \A c \in Calls : Effective(c) => op[c] \in Decisions \/ op[c] = "edit"
  BY Commits
<1> QED
  BY <1>2, <1>3, <1>4, <1>5, <1>6, <1>7, <1>8, CallsStep

\* The last decision stays as whole as it was, and the last edit stays.
LEMMA LastInvStep ==
    ASSUME IInv, [Next]_vars
    PROVE  LastInv'
<1> USE DEF IInv
<1>1. LastInv /\ RowInv /\ commits \in Seq(Calls) /\ Len(commits) \in Nat
      /\ \A i \in 1..Len(commits) : commits[i] \in Calls
  BY DEF TypeOK
<1>2. \A i \in 1..Len(commits) : i - 1 \in 0..Len(commits) /\ i \in 0..Len(commits)
  BY <1>1
\* Steps that change nothing which the three speak of.
<1>3. ASSUME UNCHANGED <<row, commits>>,
             \A i \in 1..Len(commits) :
                /\ op'[commits[i]] = op[commits[i]] /\ loaded'[commits[i]] = loaded[commits[i]]
                /\ object'[commits[i]] = object[commits[i]]
      PROVE  LastInv'
  <2>1. \A ops : \A n \in 0..Len(commits) : \A i \in 0..Len(commits) :
           IsLast(i, ops, n)' <=> IsLast(i, ops, n)
    BY <1>3, SameLast
  <2>2. SerialDecisionsAreWhole'
    BY <1>1, <1>2, <1>3, <2>1 DEF LastInv, SerialDecisionsAreWhole, Records
  <2>3. FirstDecisionsAgree'
    BY <1>1, <1>2, <1>3, <2>1 DEF LastInv, FirstDecisionsAgree
  <2>4. LastEditStands'
    BY <1>1, <1>2, <1>3, <2>1 DEF LastInv, LastEditStands
  <2> QED
    BY <2>2, <2>3, <2>4 DEF LastInv
<1>4. CASE CreatePending /\ row' = NewItem
  <2>1. row'.draft = AIDraft /\ Len(commits)' = 0
    BY <1>4, Created
  <2>2. SerialDecisionsAreWhole' /\ FirstDecisionsAgree'
    BY <2>1 DEF SerialDecisionsAreWhole, FirstDecisionsAgree
  <2>3. LastEditStands'
    BY <2>1 DEF LastEditStands
  <2> QED
    BY <2>2, <2>3 DEF LastInv
<1>5. ASSUME NEW c \in Calls, Receive(c) PROVE LastInv'
  BY <1>3, <1>5, Arrives
<1>6. ASSUME NEW c \in Calls, Load(c), row # NoRow PROVE LastInv'
  <2>1. \A i \in 1..Len(commits) : commits[i] \in Calls \ {c}
    BY <1>1, <1>6, Loads DEF CallInv, CommitsInv
  <2> QED
    BY <1>3, <1>6, <2>1, Loads
<1>7. ASSUME NEW c \in Calls, Effective(c), commits' = Append(commits, c)
      PROVE  /\ Len(commits') = Len(commits) + 1 /\ commits'[Len(commits) + 1] = c
             /\ \A j \in 1..Len(commits) : commits'[j] = commits[j]
             /\ UNCHANGED <<op, loaded, object>>
             /\ \A b \in 0..Len(commits), n \in 0..Len(commits) :
                   IsLast(b, Decisions, n)' <=> IsLast(b, Decisions, n)
  <2>1. /\ Len(commits') = Len(commits) + 1 /\ commits'[Len(commits) + 1] = c
        /\ \A j \in 1..Len(commits) : commits'[j] = commits[j]
        /\ UNCHANGED <<op, loaded, object>>
    BY <1>1, <1>7, Appended, Commits
  <2>2. ASSUME NEW b \in 0..Len(commits), NEW n \in 0..Len(commits)
        PROVE  IsLast(b, Decisions, n)' <=> IsLast(b, Decisions, n)
    <3>1. b > 0 => op'[commits'[b]] = op[commits[b]]
      BY <1>1, <2>1
    <3>2. \A j \in b + 1 .. n : op'[commits'[j]] = op[commits[j]]
      BY <1>1, <2>1
    <3> QED
      BY <3>1, <3>2 DEF IsLast
  <2> QED
    BY <2>1, <2>2
<1>8. ASSUME NEW c \in Calls, Effective(c), op[c] \in Decisions PROVE LastInv'
  <2>1. /\ commits' = Append(commits, c) /\ row'.draft = row.draft
        /\ loaded[c].status = "pending" =>
              \A f \in {"status", "approvedBy", "decidedAt"} : row'[f] = object[c][f]
        /\ row.decidedAt = loaded[c].decidedAt =>
              \A f \in DecisionColumns : row'[f] = object[c][f]
        /\ row # NoRow
    BY <1>8, DecisionWrites, Commits, NoRowIsNone
  <2>2. /\ Len(commits') = Len(commits) + 1 /\ commits'[Len(commits) + 1] = c
        /\ \A j \in 1..Len(commits) : commits'[j] = commits[j]
        /\ UNCHANGED <<op, loaded, object>>
    BY <1>7, <1>8, <2>1
  <2>3. \A i \in 1..Len(commits') : IsLast(i, Decisions, Len(commits))' =>
           i = Len(commits) + 1 /\ commits'[i] = c
    BY <1>1, <1>8, <2>1, <2>2, LastAfter
  <2>4. ASSUME NEW i \in 1..Len(commits'), NEW before \in 0..Len(commits'),
               IsLast(i, Decisions, Len(commits))', IsLast(before, Decisions, i - 1)',
               loaded[commits'[i]].decidedAt = IF before = 0 THEN NoCall ELSE commits'[before]
        PROVE  \A f \in DecisionColumns : row'[f] = object[c][f]
    <3>1. i = Len(commits) + 1 /\ commits'[i] = c /\ i - 1 = Len(commits)
      BY <1>1, <2>3, <2>4
    <3>2. before \in 0..Len(commits)
      BY <1>1, <2>4, <3>1 DEF IsLast
    <3>3. IsLast(before, Decisions, Len(commits))
      <4>1. /\ before > 0 => op'[commits'[before]] \in Decisions
            /\ \A j \in before + 1 .. Len(commits) : op'[commits'[j]] \notin Decisions
        BY <2>4, <3>1 DEF IsLast
      <4> QED
        BY <1>1, <2>2, <3>2, <4>1 DEF IsLast
    <3>4. row.decidedAt = IF before = 0 THEN NoCall ELSE commits[before]
      BY <1>1, <2>1, <3>2, <3>3 DEF RowInv
    <3>5. loaded[c].decidedAt = row.decidedAt
      BY <1>1, <2>2, <2>4, <3>1, <3>2, <3>4
    <3> QED
      BY <2>1, <3>5
  <2>5. SerialDecisionsAreWhole'
    BY <2>2, <2>3, <2>4 DEF SerialDecisionsAreWhole, Records, DecisionColumns
  <2>6. FirstDecisionsAgree'
    <3>1. Len(commits) + 1 \in 1..Len(commits')
      BY <1>1, <2>2
    <3> QED
      BY <1>8, <2>1, <2>2, <2>3, <3>1 DEF FirstDecisionsAgree
  <2>7. LastEditStands'
    <3>1. op[c] \notin {"edit"}
      BY <1>8 DEF Decisions
    <3>2. \A i \in 0..Len(commits') : IsLast(i, {"edit"}, Len(commits))' =>
             /\ i \in 0..Len(commits) /\ IsLast(i, {"edit"}, Len(commits))
             /\ i > 0 => commits'[i] = commits[i]
      BY <1>1, <2>1, <2>2, <3>1, LastAfter
    <3> QED
      BY <1>1, <2>1, <2>2, <3>2 DEF LastInv, LastEditStands
  <2> QED
    BY <2>5, <2>6, <2>7 DEF LastInv
<1>9. ASSUME NEW c \in Calls, Effective(c), op[c] = "edit" PROVE LastInv'
  <2>1. /\ \A f \in DecisionColumns : row'[f] = row[f]
        /\ \/ commits' = commits /\ row'.draft = row.draft
           \/ commits' = Append(commits, c) /\ row'.draft = object[c].draft
        /\ UNCHANGED <<op, loaded, object>> /\ row # NoRow
    BY <1>9, EditWrites, Commits, NoRowIsNone
  <2>2. CASE commits' = commits /\ row'.draft = row.draft
    <3>1. \A ops : \A n \in 0..Len(commits) : \A i \in 0..Len(commits) :
             IsLast(i, ops, n)' <=> IsLast(i, ops, n)
      BY <2>1, <2>2, SameLast
    <3>2. SerialDecisionsAreWhole'
      BY <1>1, <1>2, <2>1, <2>2, <3>1 DEF LastInv, SerialDecisionsAreWhole, Records, DecisionColumns
    <3>3. FirstDecisionsAgree'
      BY <1>1, <1>2, <2>1, <2>2, <3>1 DEF LastInv, FirstDecisionsAgree, DecisionColumns
    <3>4. LastEditStands'
      BY <1>1, <1>2, <2>1, <2>2, <3>1 DEF LastInv, LastEditStands
    <3> QED
      BY <3>2, <3>3, <3>4 DEF LastInv
  <2>3. CASE commits' = Append(commits, c) /\ row'.draft = object[c].draft
    <3>1. /\ Len(commits') = Len(commits) + 1 /\ commits'[Len(commits) + 1] = c
          /\ \A j \in 1..Len(commits) : commits'[j] = commits[j]
          /\ \A b \in 0..Len(commits), n \in 0..Len(commits) :
                IsLast(b, Decisions, n)' <=> IsLast(b, Decisions, n)
      BY <1>7, <1>9, <2>3
    <3>2. op[c] \notin Decisions /\ op[c] \in {"edit"}
      BY <1>9 DEF Decisions
    <3>3. \A i \in 1..Len(commits') : IsLast(i, Decisions, Len(commits))' =>
             /\ i \in 1..Len(commits) /\ IsLast(i, Decisions, Len(commits))
             /\ commits'[i] = commits[i]
      BY <1>1, <2>1, <2>3, <3>1, <3>2, LastAfter
    <3>4. ASSUME NEW i \in 1..Len(commits'), NEW before \in 0..Len(commits'),
                 IsLast(i, Decisions, Len(commits))', IsLast(before, Decisions, i - 1)',
                 loaded[commits'[i]].decidedAt = IF before = 0 THEN NoCall ELSE commits'[before]
          PROVE  \A f \in DecisionColumns : row'[f] = object[commits'[i]][f]
      <4>1. i \in 1..Len(commits) /\ IsLast(i, Decisions, Len(commits)) /\ commits'[i] = commits[i]
            /\ i - 1 \in 0..Len(commits)
        BY <1>2, <3>3, <3>4
      <4>2. before \in 0..i - 1
        BY <3>4 DEF IsLast
      <4>3. before \in 0..Len(commits)
        BY <1>1, <4>1, <4>2
      <4>4. IsLast(before, Decisions, i - 1)
        BY <3>1, <3>4, <4>1, <4>3
      <4>5. loaded[commits[i]].decidedAt = IF before = 0 THEN NoCall ELSE commits[before]
        BY <3>1, <3>4, <4>1, <4>3
      <4>6. Records(commits[i])
        BY <1>1, <4>1, <4>3, <4>4, <4>5 DEF LastInv, SerialDecisionsAreWhole
      <4> QED
        BY <2>1, <4>1, <4>6 DEF Records, DecisionColumns
    <3>5. SerialDecisionsAreWhole'
      BY <2>1, <3>4 DEF SerialDecisionsAreWhole, Records, DecisionColumns
    <3>6. FirstDecisionsAgree'
      <4>1. \A i \in 1..Len(commits) : i \in 1..Len(commits')
        BY <1>1, <3>1
      <4> QED
        BY <1>1, <2>1, <3>1, <3>3, <4>1 DEF LastInv, FirstDecisionsAgree, DecisionColumns
    <3>7. LastEditStands'
      <4>1. \A i \in 0..Len(commits') : IsLast(i, {"edit"}, Len(commits))' =>
               i = Len(commits) + 1 /\ commits'[i] = c
        BY <1>1, <2>1, <2>3, <3>1, <3>2, LastAfter
      <4> QED
        BY <1>1, <2>1, <2>3, <4>1 DEF LastEditStands
    <3> QED
      BY <3>5, <3>6, <3>7 DEF LastInv
  <2> QED
    BY <2>1, <2>2, <2>3
<1>10. CASE UNCHANGED <<row, op, user, loaded, object, commits>>
  BY <1>3, <1>10
<1>11. \A c \in Calls : Effective(c) => op[c] \in Decisions \/ op[c] = "edit"
  BY Commits
<1> QED
  BY <1>4, <1>5, <1>6, <1>8, <1>9, <1>10, <1>11, CallsStep

-----------------------------------------------------------------------------
(* The audit log *)

\* Which steps write to the log.
LEMMA AuditStep ==
    ASSUME IInv, [Next]_vars
    PROVE  \/ audit' = audit
           \/ AuditDraftCreated /\ audit' = Append(audit, NoCall)
           \/ \E c \in Calls : AuditAndAnswer(c) /\ audit' = Append(audit, c)
  BY DEF Next, Enqueue, Handle, CreatePending, AuditDraftCreated, LogAuditEvent, Receive, Load,
     Flush, Commit, SessionFails, AuditAndAnswer, Crash, vars

\* A call about to be audited, or done, is not touched again but to be done.
LEMMA Settled ==
    ASSUME IInv, [Next]_vars, NEW c \in Calls, pc[c] \in {"audit", "done"}
    PROVE  /\ op'[c] = op[c] /\ loaded'[c] = loaded[c] /\ object'[c] = object[c]
           /\ pc[c] = "done" => pc'[c] = "done"
           /\ IsCommitted(c) => IsCommitted(c)'
<1> USE DEF IInv
<1>1. commits \in Seq(Calls) /\ Len(commits) \in Nat
  BY DEF TypeOK
<1>2. CASE /\ UNCHANGED <<row, op, user, loaded, object, commits>>
           /\ \A x \in Calls : \/ pc'[x] = pc[x]
                               \/ pc[x] \in Active /\ pc'[x] \in {"failed", "lost"}
                               \/ pc[x] = "audit" /\ pc'[x] = "done"
                               \/ pc[x] = "flush" /\ pc'[x] = "commit"
                               \/ pc[x] = "load" /\ pc'[x] = "done"
  BY <1>2 DEF Active, InSession, IsCommitted
<1>3. CASE CreatePending /\ row' = NewItem
  BY <1>3, Created DEF IsCommitted
<1>4. ASSUME NEW x \in Calls, Receive(x)
      PROVE  /\ op'[c] = op[c] /\ loaded'[c] = loaded[c] /\ object'[c] = object[c]
             /\ pc[c] = "done" => pc'[c] = "done"
             /\ IsCommitted(c) => IsCommitted(c)'
  <2>1. x # c
    BY <1>4, Arrives
  <2> QED
    BY <1>4, <2>1, Arrives DEF IsCommitted
<1>5. ASSUME NEW x \in Calls, Load(x), row # NoRow
      PROVE  /\ op'[c] = op[c] /\ loaded'[c] = loaded[c] /\ object'[c] = object[c]
             /\ pc[c] = "done" => pc'[c] = "done"
             /\ IsCommitted(c) => IsCommitted(c)'
  <2>1. x # c
    BY <1>5, Loads
  <2> QED
    BY <1>5, <2>1, Loads DEF IsCommitted
<1>6. ASSUME NEW x \in Calls, Effective(x)
      PROVE  /\ op'[c] = op[c] /\ loaded'[c] = loaded[c] /\ object'[c] = object[c]
             /\ pc[c] = "done" => pc'[c] = "done"
             /\ IsCommitted(c) => IsCommitted(c)'
  <2>1. /\ x # c /\ UNCHANGED <<op, loaded, object>>
        /\ \E l \in {"audit", "failed"} : pc' = [pc EXCEPT ![x] = l]
        /\ commits' = commits \/ commits' = Append(commits, x)
    BY <1>6, Commits
  <2>2. pc'[c] = pc[c]
    BY <2>1 DEF TypeOK
  <2>3. IsCommitted(c) => IsCommitted(c)'
    BY <1>1, <2>1, Appended DEF IsCommitted
  <2> QED
    BY <2>1, <2>2, <2>3
<1> QED
  BY <1>2, <1>3, <1>4, <1>5, <1>6, CallsStep

\* A review item is never deleted.
LEMMA RowStays ==
    ASSUME IInv, [Next]_vars, row # NoRow
    PROVE  row' # NoRow
  BY CallsStep, Created, Arrives, Loads, Commits, NoRowIsNone

\* What an audit row is to stand for.
Audited(e) ==
    /\ e = NoCall => row # NoRow
    /\ e # NoCall => /\ pc[e] = "done" /\ loaded[e] # NoRow
                     /\ op[e] = "view" \/ Changed(e) = {} \/ IsCommitted(e)

\* It stands for it for ever.
LEMMA AuditedStays ==
    ASSUME IInv, [Next]_vars, NEW e \in Calls \cup {NoCall}, Audited(e)
    PROVE  Audited(e)'
<1>1. CASE e = NoCall
  BY <1>1, RowStays DEF Audited
<1>2. CASE e # NoCall
  <2>1. e \in Calls /\ pc[e] = "done"
    BY <1>2 DEF Audited
  <2>2. op'[e] = op[e] /\ loaded'[e] = loaded[e] /\ object'[e] = object[e] /\ pc'[e] = "done"
    BY <2>1, Settled
  <2>3. IsCommitted(e) => IsCommitted(e)'
    BY <2>1, Settled
  <2>4. Changed(e)' = Changed(e)
    BY <2>2 DEF Changed
  <2> QED
    BY <1>2, <2>2, <2>3, <2>4 DEF Audited
<1> QED
  BY <1>1, <1>2

\* A row is added to the log.
LEMMA AuditAppended ==
    ASSUME IInv, [Next]_vars, NEW e \in Calls \cup {NoCall}, audit' = Append(audit, e),
           Audited(e)', \A i \in 1..Len(audit) : audit[i] # e
    PROVE  AuditIsTrue'
<1>1. AuditIsTrue /\ audit \in Seq(Calls \cup {NoCall}) /\ Len(audit) \in Nat
      /\ \A i \in 1..Len(audit) : audit[i] \in Calls \cup {NoCall}
  BY DEF IInv, AuditInv, TypeOK
<1>2. /\ Len(audit') = Len(audit) + 1 /\ audit'[Len(audit) + 1] = e
      /\ \A i \in 1..Len(audit) : audit'[i] = audit[i]
  BY <1>1, Appended
<1>3. ASSUME NEW i \in 1..Len(audit'), NEW j \in 1..Len(audit'), audit'[i] = audit'[j]
      PROVE  i = j
  BY <1>1, <1>2, <1>3 DEF AuditIsTrue
<1>4. ASSUME NEW i \in 1..Len(audit')
      PROVE  \E x \in Calls \cup {NoCall} : x = audit'[i] /\ Audited(x)'
  <2>1. CASE i \in 1..Len(audit)
    <3>1. Audited(audit[i])
      BY <1>1, <2>1 DEF AuditIsTrue, Audited, IsCommitted
    <3>2. PICK x \in Calls \cup {NoCall} : x = audit[i]
      BY <1>1, <2>1
    <3>3. Audited(x)
      BY <3>1, <3>2
    <3>4. Audited(x)'
      BY <3>3, AuditedStays
    <3> QED
      BY <1>2, <2>1, <3>2, <3>4
  <2>2. CASE i = Len(audit) + 1
    BY <1>2, <2>2
  <2> QED
    BY <1>1, <1>2, <2>1, <2>2
<1>5. ASSUME NEW i \in 1..Len(audit')
      PROVE  /\ audit'[i] = NoCall => row' # NoRow
             /\ audit'[i] # NoCall =>
                   /\ pc'[audit'[i]] = "done" /\ loaded'[audit'[i]] # NoRow
                   /\ \/ op'[audit'[i]] = "view" \/ Changed(audit[i])' = {}
                      \/ \E j \in 1..Len(commits') : commits'[j] = audit'[i]
  <2>1. PICK x \in Calls \cup {NoCall} : x = audit'[i] /\ Audited(x)'
    BY <1>4
  <2> QED
    BY <2>1 DEF Audited, Changed, IsCommitted
<1> QED
  BY <1>3, <1>5 DEF AuditIsTrue

\* The audit log stays true.
LEMMA AuditIsTrueStep ==
    ASSUME IInv, [Next]_vars
    PROVE  AuditIsTrue'
<1> USE DEF IInv
<1>1. AuditInv /\ audit \in Seq(Calls \cup {NoCall}) /\ Len(audit) \in Nat
      /\ \A i \in 1..Len(audit) : audit[i] \in Calls \cup {NoCall}
  BY DEF TypeOK
<1>2. CASE audit' = audit
  <2>1. ASSUME NEW i \in 1..Len(audit)
        PROVE  \E x \in Calls \cup {NoCall} : x = audit[i] /\ Audited(x)'
    <3>1. Audited(audit[i])
      BY <1>1 DEF AuditInv, AuditIsTrue, Audited, IsCommitted
    <3>2. PICK x \in Calls \cup {NoCall} : x = audit[i]
      BY <1>1
    <3>3. Audited(x)
      BY <3>1, <3>2
    <3> QED
      BY <3>2, <3>3, AuditedStays
  <2>2. ASSUME NEW i \in 1..Len(audit)
        PROVE  /\ audit[i] = NoCall => row' # NoRow
               /\ audit[i] # NoCall =>
                     /\ pc'[audit[i]] = "done" /\ loaded'[audit[i]] # NoRow
                     /\ \/ op'[audit[i]] = "view" \/ Changed(audit[i])' = {}
                        \/ \E j \in 1..Len(commits') : commits'[j] = audit[i]
    <3>1. PICK x \in Calls \cup {NoCall} : x = audit[i] /\ Audited(x)'
      BY <2>1
    <3> QED
      BY <1>2, <3>1 DEF Audited, Changed, IsCommitted
  <2>3. \A i, j \in 1..Len(audit) : audit[i] = audit[j] => i = j
    BY <1>1 DEF AuditInv, AuditIsTrue
  <2> QED
    BY <1>2, <2>2, <2>3 DEF AuditIsTrue
<1>3. CASE AuditDraftCreated /\ audit' = Append(audit, NoCall)
  <2>1. row' # NoRow /\ \A i \in 1..Len(audit) : audit[i] # NoCall
    BY <1>1, <1>3, RowStays DEF AuditDraftCreated, AuditInv
  <2> QED
    BY <1>3, <2>1, AuditAppended DEF Audited
<1>4. ASSUME NEW c \in Calls, AuditAndAnswer(c), audit' = Append(audit, c) PROVE AuditIsTrue'
  <2>1. pc[c] = "audit" /\ pc'[c] = "done" /\ c # NoCall
    BY <1>4, Markers DEF AuditAndAnswer, Goto, TypeOK
  <2>2. \A i \in 1..Len(audit) : audit[i] # c
    BY <1>1, <2>1 DEF AuditInv, AuditIsTrue
  <2>3. op'[c] = op[c] /\ loaded'[c] = loaded[c] /\ object'[c] = object[c]
    BY <2>1, Settled
  <2>4. IsCommitted(c) => IsCommitted(c)'
    BY <2>1, Settled
  <2>5. loaded[c] # NoRow /\ (op[c] = "view" \/ Changed(c) = {} \/ IsCommitted(c))
    BY <2>1 DEF CallInv, Placed, AuditInv
  <2>6. Changed(c)' = Changed(c)
    BY <2>3 DEF Changed
  <2>7. Audited(c)'
    BY <2>1, <2>3, <2>4, <2>5, <2>6 DEF Audited
  <2> QED
    BY <1>4, <2>2, <2>7, AuditAppended
<1> QED
  BY <1>2, <1>3, <1>4, AuditStep

\* What waits for its audit row goes on deserving one.
LEMMA AuditInvStep ==
    ASSUME IInv, [Next]_vars
    PROVE  AuditInv'
<1> USE DEF IInv
<1>1. AuditInv /\ commits \in Seq(Calls) /\ Len(commits) \in Nat
      /\ audit \in Seq(Calls \cup {NoCall}) /\ Len(audit) \in Nat
  BY DEF TypeOK
<1>2. \/ enqueue' = "persist" /\ enqueue = "persist" /\ row' = row
      \/ enqueue' = "audit" /\ row' # NoRow /\ enqueue # "done"
      \/ enqueue' = "done"
  <2>1. ASSUME NEW c \in Calls, Effective(c) PROVE enqueue # "persist" /\ enqueue' = enqueue
    BY <1>1, <2>1, Commits, NoRowIsNone DEF Effective, AuditInv
  <2>2. CreatePending => enqueue' = "done" \/ (enqueue' = "audit" /\ row' # NoRow /\ enqueue # "done")
    BY Created DEF CreatePending
  <2>3. AuditDraftCreated \/ Crash => enqueue' = "done"
    BY DEF AuditDraftCreated, Crash
  <2>4. \/ \E c \in Calls : Receive(c) \/ Load(c) \/ Flush(c) \/ AuditAndAnswer(c)
        \/ \E c \in Calls : SessionFails(c) /\ UNCHANGED <<row, commits>>
        \/ UNCHANGED vars
        => enqueue' = enqueue /\ row' = row
    BY DEF Receive, Load, Flush, SessionFails, AuditAndAnswer, vars
  <2>5. enqueue \in {"persist", "audit", "done"}
    BY DEF TypeOK
  <2>6. enqueue = "audit" => row' # NoRow
    BY <1>1, RowStays DEF AuditInv
  <2> QED
    BY <2>1, <2>2, <2>3, <2>4, <2>5, <2>6, CommitIsEffective, FailureIsEffective
       DEF Next, Enqueue, Handle
<1>3. enqueue' # "done" => \A i \in 1..Len(audit') : audit'[i] # NoCall
  <2>1. ASSUME enqueue' # "done" PROVE \A i \in 1..Len(audit) : audit[i] # NoCall
    BY <1>1, <1>2, <2>1 DEF AuditInv
  <2>2. AuditDraftCreated => enqueue' = "done"
    BY DEF AuditDraftCreated
  <2>3. ASSUME NEW c \in Calls, audit' = Append(audit, c), enqueue' # "done"
        PROVE  \A i \in 1..Len(audit') : audit'[i] # NoCall
    <3>1. /\ Len(audit') = Len(audit) + 1 /\ audit'[Len(audit) + 1] = c
          /\ \A i \in 1..Len(audit) : audit'[i] = audit[i]
      BY <1>1, <2>3, Appended
    <3> QED
      BY <1>1, <2>1, <2>3, <3>1, Markers
  <2> QED
    BY <2>1, <2>2, <2>3, AuditStep
<1>4. ASSUME NEW c \in Calls, pc'[c] = "audit", pc[c] = "audit"
      PROVE  op'[c] = "view" \/ Changed(c)' = {} \/ IsCommitted(c)'
  <2>1. op[c] = "view" \/ Changed(c) = {} \/ IsCommitted(c)
    BY <1>4 DEF AuditInv
  <2>2. op'[c] = op[c] /\ loaded'[c] = loaded[c] /\ object'[c] = object[c]
    BY <1>4, Settled
  <2>3. IsCommitted(c) => IsCommitted(c)'
    BY <1>4, Settled
  <2>4. Changed(c)' = Changed(c)
    BY <2>2 DEF Changed
  <2> QED
    BY <2>1, <2>2, <2>3, <2>4
<1>5. ASSUME NEW c \in Calls, pc'[c] = "audit", pc[c] # "audit"
      PROVE  op'[c] = "view" \/ Changed(c)' = {} \/ IsCommitted(c)'
  <2>1. ASSUME NEW x \in Calls, Receive(x) PROVE FALSE
    BY <1>5, <2>1, Arrives
  <2>2. ASSUME NEW x \in Calls, Load(x), row # NoRow PROVE op'[c] = "view"
    BY <1>5, <2>2, Loads
  <2>3. ASSUME NEW x \in Calls, Effective(x) PROVE Changed(c)' = {} \/ IsCommitted(c)'
    <3>1. /\ \E l \in {"audit", "failed"} : pc' = [pc EXCEPT ![x] = l] /\ UNCHANGED <<loaded, object>>
          /\ commits' = IF Changed(x) = {} THEN commits ELSE Append(commits, x)
      BY <2>3, Commits
    <3>2. x = c
      BY <1>5, <3>1 DEF TypeOK
    <3>3. Changed(c)' = Changed(c)
      BY <3>1 DEF Changed
    <3>4. Changed(c) # {} => IsCommitted(c)'
      BY <1>1, <3>1, <3>2, Appended DEF IsCommitted
    <3> QED
      BY <3>3, <3>4
  <2>4. CreatePending /\ row' = NewItem => pc' = pc
    BY Created
  <2> QED
    BY <1>5, <2>1, <2>2, <2>3, <2>4, CallsStep
<1> QED
  BY <1>1, <1>2, <1>3, <1>4, <1>5, AuditIsTrueStep DEF AuditInv

-----------------------------------------------------------------------------
(* Audit rows that were lost *)

\* A set that gains nothing, or one element for one failure, stays within the count.
LEMMA OneMore ==
    ASSUME NEW S, NEW T, NEW n \in Nat, NEW m \in Nat, IsFiniteSet(S), Cardinality(S) <= n,
           (T \subseteq S /\ m >= n) \/ (m = n + 1 /\ \E c : T \subseteq S \cup {c})
    PROVE  IsFiniteSet(T) /\ Cardinality(T) <= m
<1>1. Cardinality(S) \in Nat
  BY FS_CardinalityType
<1>2. CASE T \subseteq S /\ m >= n
  BY <1>1, <1>2, FS_Subset, FS_CardinalityType
<1>3. ASSUME m = n + 1, NEW c, T \subseteq S \cup {c}
      PROVE  IsFiniteSet(T) /\ Cardinality(T) <= m
  <2>1. /\ IsFiniteSet(S \cup {c})
        /\ Cardinality(S \cup {c}) = IF c \in S THEN Cardinality(S) ELSE Cardinality(S) + 1
    BY FS_AddElement
  <2>2. /\ IsFiniteSet(T) /\ Cardinality(T) <= Cardinality(S \cup {c})
        /\ Cardinality(T) \in Nat /\ Cardinality(S \cup {c}) \in Nat
    BY <1>3, <2>1, FS_Subset, FS_CardinalityType
  <2> QED
    BY <1>1, <1>3, <2>1, <2>2
<1> QED
  BY <1>2, <1>3

\* How a call comes to be answered, and to fail.
LEMMA Ends ==
    ASSUME IInv, [Next]_vars, NEW c \in Calls
    PROVE  /\ pc'[c] = "done" => pc[c] \in {"done", "load"} \/ AuditAndAnswer(c)
           /\ pc'[c] = "failed" => pc[c] = "failed" \/ SessionFails(c)
<1>1. pc \in [Calls -> {"idle"} \cup Active \cup Over]
  BY DEF IInv, TypeOK
<1>2. CASE Enqueue \/ UNCHANGED vars
  BY <1>2 DEF Enqueue, CreatePending, AuditDraftCreated, callVars, vars
<1>3. CASE Crash
  BY <1>1, <1>3 DEF Crash
<1>4. ASSUME NEW x \in Calls, NEW l, pc' = [pc EXCEPT ![x] = l]
      PROVE  pc'[x] = l /\ \A y \in Calls \ {x} : pc'[y] = pc[y]
  BY <1>1, <1>4
<1>5. ASSUME NEW x \in Calls, Receive(x) \/ Flush(x) \/ Commit(x)
      PROVE  pc'[x] \notin {"done", "failed"} /\ \A y \in Calls \ {x} : pc'[y] = pc[y]
  BY <1>4, <1>5 DEF Receive, Flush, Commit, Goto
<1>6. ASSUME NEW x \in Calls, Load(x)
      PROVE  /\ pc[x] = "load" /\ pc'[x] # "failed"
             /\ \A y \in Calls \ {x} : pc'[y] = pc[y]
  BY <1>4, <1>6 DEF Load, Goto
<1>7. ASSUME NEW x \in Calls, SessionFails(x)
      PROVE  pc'[x] = "failed" /\ \A y \in Calls \ {x} : pc'[y] = pc[y]
  BY <1>4, <1>7 DEF SessionFails, Goto
<1>8. ASSUME NEW x \in Calls, AuditAndAnswer(x)
      PROVE  pc'[x] = "done" /\ \A y \in Calls \ {x} : pc'[y] = pc[y]
  BY <1>4, <1>8 DEF AuditAndAnswer, Goto
<1> QED
  BY <1>2, <1>3, <1>5, <1>6, <1>7, <1>8 DEF Next, Handle

\* A call has committed before, or does so now and is not answered yet.
LEMMA NewCommit ==
    ASSUME IInv, [Next]_vars, NEW c \in Calls, IsCommitted(c)', ~IsCommitted(c)
    PROVE  pc'[c] \in {"audit", "failed"}
<1> USE DEF IInv
<1>1. commits \in Seq(Calls) /\ Len(commits) \in Nat
  BY DEF TypeOK
<1>2. PICK x \in Calls : Effective(x)
  BY CallsStep, Created, Arrives, Loads DEF IsCommitted
<1>3. /\ \E l \in {"audit", "failed"} : pc' = [pc EXCEPT ![x] = l]
      /\ commits' = commits \/ commits' = Append(commits, x)
  BY <1>2, Commits
<1>4. x = c
  BY <1>1, <1>3, Appended DEF IsCommitted
<1> QED
  BY <1>3, <1>4 DEF TypeOK

\* An audit row of an answered call is only lost at the price of a failure.
LEMMA UnauditedStep ==
    ASSUME IInv, [Next]_vars
    PROVE  \/ Unaudited("done")' \subseteq Unaudited("done") /\ auditFailures' >= auditFailures
           \/ /\ auditFailures' = auditFailures + 1
              /\ \E c : Unaudited("done")' \subseteq Unaudited("done") \cup {c}
<1> USE DEF IInv
<1>1. /\ audit \in Seq(Calls \cup {NoCall}) /\ Len(audit) \in Nat
      /\ auditFailures \in Nat /\ auditFailures' \in Nat
  BY TypeStep, Bounds DEF TypeOK
<1>2. \A i \in 1..Len(audit) : i \in 1..Len(audit') /\ audit'[i] = audit[i]
  BY <1>1, AuditStep, Appended, Markers
<1>3. ASSUME NEW c \in Calls, c \in Unaudited("done")'
      PROVE  c \in Unaudited("done") \/ AuditAndAnswer(c)
  <2>1. pc'[c] = "done" /\ IsCommitted(c)' /\ \A i \in 1..Len(audit') : audit'[i] # c
    BY <1>3 DEF Unaudited, IsCommitted
  <2>2. IsCommitted(c)
    BY <2>1, NewCommit
  <2>3. pc[c] # "load"
    BY <2>2 DEF IsCommitted, CallInv, CommitsInv, Over
  <2>4. pc[c] = "done" \/ AuditAndAnswer(c)
    BY <2>1, <2>3, Ends
  <2>5. \A i \in 1..Len(audit) : audit[i] # c
    BY <1>2, <2>1
  <2> QED
    BY <2>2, <2>4, <2>5 DEF Unaudited, IsCommitted
<1>4. CASE \E c \in Calls : AuditAndAnswer(c)
  <2>1. PICK c \in Calls : AuditAndAnswer(c)
    BY <1>4
  <2>2. \A x \in Calls : AuditAndAnswer(x) => x = c
    BY <2>1 DEF AuditAndAnswer, Goto, TypeOK
  <2>3. Unaudited("done")' \subseteq Unaudited("done") \cup {c}
    BY <1>3, <2>2 DEF Unaudited
  <2>4. CASE audit' = Append(audit, c) /\ auditFailures' = auditFailures
    <3>1. c \notin Unaudited("done")'
      BY <1>1, <2>4, Appended DEF Unaudited
    <3> QED
      BY <1>1, <2>3, <2>4, <3>1
  <2>5. CASE auditFailures' = auditFailures + 1
    BY <2>3, <2>5
  <2> QED
    BY <2>1, <2>4, <2>5 DEF AuditAndAnswer, LogAuditEvent
<1>5. CASE ~ \E c \in Calls : AuditAndAnswer(c)
  <2>1. Unaudited("done")' \subseteq Unaudited("done")
    BY <1>3, <1>5 DEF Unaudited
  <2>2. auditFailures' >= auditFailures
    BY <1>1, <1>5 DEF Next, Enqueue, Handle, CreatePending, AuditDraftCreated, LogAuditEvent,
       Receive, Load, Flush, Commit, SessionFails, Crash, vars, faultVars
  <2> QED
    BY <2>1, <2>2
<1> QED
  BY <1>4, <1>5

\* A call only fails at the price of a failure.
LEMMA FailedStep ==
    ASSUME IInv, [Next]_vars
    PROVE  \/ Failed' \subseteq Failed /\ dbFailures' >= dbFailures
           \/ dbFailures' = dbFailures + 1 /\ \E c : Failed' \subseteq Failed \cup {c}
<1> USE DEF IInv
<1>1. dbFailures \in Nat
  BY Bounds DEF TypeOK
<1>2. CASE \E c \in Calls : SessionFails(c)
  <2>1. PICK c \in Calls : SessionFails(c)
    BY <1>2
  <2>2. \A y \in Calls \ {c} : pc'[y] = pc[y]
    BY <2>1 DEF SessionFails, Goto, TypeOK
  <2>3. Failed' \subseteq Failed \cup {c}
    BY <2>2 DEF Failed
  <2>4. dbFailures' = dbFailures + 1
    BY <2>1 DEF SessionFails, Fails
  <2> QED
    BY <2>3, <2>4
<1>3. CASE ~ \E c \in Calls : SessionFails(c)
  <2>1. Failed' \subseteq Failed
    BY <1>3, Ends DEF Failed
  <2>2. dbFailures' = dbFailures \/ dbFailures' = dbFailures + 1
    BY <1>3 DEF Next, Enqueue, Handle, CreatePending, AuditDraftCreated, Receive, Load, Flush,
       Commit, AuditAndAnswer, Crash, vars, faultVars
  <2> QED
    BY <1>1, <2>1, <2>2
<1> QED
  BY <1>2, <1>3

\* The account of failures balances.
LEMMA MissingInvStep ==
    ASSUME IInv, [Next]_vars
    PROVE  MissingInv'
<1>1. /\ auditFailures \in Nat /\ auditFailures' \in Nat
      /\ dbFailures \in Nat /\ dbFailures' \in Nat
  BY TypeStep, Bounds DEF IInv, TypeOK
<1>2. IsFiniteSet(Unaudited("done")') /\ Cardinality(Unaudited("done")') <= auditFailures'
  BY <1>1, UnauditedStep, OneMore DEF IInv, MissingInv
<1>3. IsFiniteSet(Failed') /\ Cardinality(Failed') <= dbFailures'
  BY <1>1, FailedStep, OneMore DEF IInv, MissingInv
<1> QED
  BY <1>2, <1>3 DEF MissingInv

-----------------------------------------------------------------------------
(* The theorems *)

\* The first state.
LEMMA InitInv == Init => IInv
<1> SUFFICES ASSUME Init PROVE IInv
  OBVIOUS
<1>1. TypeOK
  BY Bounds DEF Init, TypeOK, Ops
<1>2. CallInv /\ RowInv
  BY DEF Init, CallInv, CommitsInv, Placed, RowInv
<1>3. LastInv
  BY DEF Init, LastInv, SerialDecisionsAreWhole, FirstDecisionsAgree, LastEditStands
<1>4. AuditInv
  BY DEF Init, AuditInv, AuditIsTrue
<1>5. MissingInv
  <2>1. Unaudited("done") = {} /\ Failed = {}
    BY DEF Init, Unaudited, Failed
  <2>2. IsFiniteSet({}) /\ Cardinality({}) = 0
    BY FS_EmptySet
  <2>3. auditFailures = 0 /\ dbFailures = 0
    BY DEF Init
  <2> QED
    BY <2>1, <2>2, <2>3 DEF MissingInv
<1> QED
  BY <1>1, <1>2, <1>3, <1>4, <1>5 DEF IInv

\* Every step keeps it.
LEMMA NextInv == IInv /\ [Next]_vars => IInv'
  BY TypeStep, CallInvStep, RowInvStep, LastInvStep, AuditInvStep, MissingInvStep DEF IInv

\* The handlers, however they interleave, keep their common invariant.
THEOREM Invariance == Spec => []IInv
  BY InitInv, NextInv, PTL DEF Spec

\* Every variable has its type.
THEOREM TypeCorrect == Spec => []TypeOK
<1>1. IInv => TypeOK
  BY DEF IInv
<1> QED
  BY <1>1, Invariance, PTL

\* A decision that had seen the one before it is recorded whole.
THEOREM SerialDecisionsAreWholeHolds == Spec => []SerialDecisionsAreWhole
<1>1. IInv => SerialDecisionsAreWhole
  BY DEF IInv, LastInv
<1> QED
  BY <1>1, Invariance, PTL

\* Of several first decisions the last to commit gives status, reviewer and time.
THEOREM FirstDecisionsAgreeHolds == Spec => []FirstDecisionsAgree
<1>1. IInv => FirstDecisionsAgree
  BY DEF IInv, LastInv
<1> QED
  BY <1>1, Invariance, PTL

\* No decision undoes an edit.
THEOREM LastEditStandsHolds == Spec => []LastEditStands
<1>1. IInv => LastEditStands
  BY DEF IInv, LastInv
<1> QED
  BY <1>1, Invariance, PTL

\* A decision that had seen the last one before it, and an edit that had seen the last
\* decision, leave the row's decision as it is in their object.
LEMMA DecisionsInObject ==
    ASSUME IInv, NEW n \in 1..Len(commits), NEW decision \in 0..Len(commits), n = Len(commits),
           IsLast(decision, Decisions, n - 1),
           loaded[commits[n]].decidedAt = IF decision = 0 THEN NoCall ELSE commits[decision]
    PROVE  /\ row \in Rows /\ object[commits[n]] \in Rows
           /\ \A f \in DecisionColumns : row[f] = object[commits[n]][f]
<1> DEFINE c == commits[n]
<1>1. c \in Calls /\ loaded[c] # NoRow /\ op[c] \in Decisions \cup {"edit"} /\ Len(commits) \in Nat
  BY DEF IInv, CallInv, CommitsInv, TypeOK, Ops
<1>2. row \in Rows /\ object[c] \in Rows /\ loaded[c] \in Rows /\ Intent(c)
  BY <1>1 DEF IInv, CallInv, Placed, TypeOK
<1>3. CASE op[c] \in Decisions
  <2>1. IsLast(n, Decisions, Len(commits))
    BY <1>1, <1>3 DEF IsLast
  <2>2. Records(c)
    BY <1>1, <2>1 DEF IInv, LastInv, SerialDecisionsAreWhole
  <2> QED
    BY <1>2, <2>2, RowFields DEF Records, DecisionColumns
<1>4. CASE op[c] = "edit"
  <2>1. op[c] \notin Decisions
    BY <1>4 DEF Decisions
  <2>2. IsLast(decision, Decisions, Len(commits))
    BY <1>1, <2>1 DEF IsLast
  <2>3. row # NoRow /\ row.decidedAt = loaded[c].decidedAt
    BY <1>2, <2>2, NoRowIsNone DEF IInv, RowInv
  <2>4. \A f \in DecisionColumns : row[f] = loaded[c][f]
    BY <1>1, <2>3 DEF IInv, RowInv
  <2> QED
    BY <1>2, <1>4, <2>4 DEF Intent
<1> QED
  BY <1>1, <1>3, <1>4

\* The last edit's draft is in the object of every commit that had seen it.
LEMMA DraftInObject ==
    ASSUME IInv, NEW n \in 1..Len(commits), NEW edit \in 0..Len(commits), n = Len(commits),
           IsLast(edit, {"edit"}, n - 1),
           loaded[commits[n]].draft = IF edit = 0 THEN AIDraft ELSE object[commits[edit]].draft
    PROVE  row.draft = object[commits[n]].draft
<1> DEFINE c == commits[n]
<1>1. /\ c \in Calls /\ loaded[c] # NoRow /\ op[c] \in Decisions \cup {"edit"}
      /\ Len(commits) \in Nat
  BY DEF IInv, CallInv, CommitsInv, TypeOK, Ops
<1>2. row # NoRow /\ Intent(c)
  BY <1>1 DEF IInv, CallInv, Placed
<1>3. CASE op[c] \in Decisions
  <2>1. op[c] \notin {"edit"}
    BY <1>3 DEF Decisions
  <2>2. IsLast(edit, {"edit"}, Len(commits))
    BY <1>1, <2>1 DEF IsLast
  <2>3. row.draft = loaded[c].draft
    BY <1>2, <2>2 DEF IInv, LastInv, LastEditStands
  <2> QED
    BY <1>2, <1>3, <2>3 DEF Intent
<1>4. CASE op[c] = "edit"
  <2>1. IsLast(n, {"edit"}, Len(commits))
    BY <1>1, <1>4 DEF IsLast
  <2> QED
    BY <1>1, <1>2, <2>1 DEF IInv, LastInv, LastEditStands
<1> QED
  BY <1>1, <1>3, <1>4

\* Answers show the row that their commit left, but for calls that overlapped.
THEOREM AnswersAreCurrentHolds == Spec => []AnswersAreCurrent
<1>1. ASSUME IInv, NEW n \in 1..Len(commits), NEW decision \in 0..Len(commits),
             NEW edit \in 0..Len(commits), n = Len(commits),
             IsLast(decision, Decisions, n - 1), IsLast(edit, {"edit"}, n - 1),
             loaded[commits[n]].decidedAt = IF decision = 0 THEN NoCall ELSE commits[decision],
             loaded[commits[n]].draft = IF edit = 0 THEN AIDraft ELSE object[commits[edit]].draft
      PROVE  row = object[commits[n]]
  <2>1. /\ row \in Rows /\ object[commits[n]] \in Rows
        /\ \A f \in DecisionColumns : row[f] = object[commits[n]][f]
    BY <1>1, DecisionsInObject
  <2>2. row.draft = object[commits[n]].draft
    BY <1>1, DraftInObject
  <2> QED
    BY <2>1, <2>2, RowFields DEF DecisionColumns, Rows
<1>2. IInv => AnswersAreCurrent
  BY <1>1 DEF AnswersAreCurrent
<1> QED
  BY <1>2, Invariance, PTL

\* A decided item stays out of the queue.
THEOREM DecidedLeavesQueueHolds == Spec => []DecidedLeavesQueue
<1>1. IInv => DecidedLeavesQueue
  BY DEF IInv, RowInv, DecidedLeavesQueue, InQueue
<1> QED
  BY <1>1, Invariance, PTL

\* Audit rows are true and unique.
THEOREM AuditIsTrueHolds == Spec => []AuditIsTrue
<1>1. IInv => AuditIsTrue
  BY DEF IInv, AuditInv
<1> QED
  BY <1>1, Invariance, PTL

\* No audit row of an answered call is missing but for a failed audit write, and no more
\* calls committed and were told 500 than replies were lost, crashes or not.
THEOREM MissingAuditIsAccountedHolds == Spec => []MissingAuditIsAccounted
<1>1. ASSUME IInv PROVE MissingAuditIsAccounted
  <2>1. /\ IsFiniteSet(Failed) /\ Cardinality(Failed) <= dbFailures
        /\ Unaudited("failed") \subseteq Failed /\ dbFailures \in Nat
    BY <1>1, Bounds DEF IInv, MissingInv, TypeOK, Failed, Unaudited
  <2>2. /\ Cardinality(Unaudited("failed")) <= Cardinality(Failed)
        /\ Cardinality(Unaudited("failed")) \in Nat /\ Cardinality(Failed) \in Nat
    BY <2>1, FS_Subset, FS_CardinalityType
  <2>3. Cardinality(Unaudited("failed")) <= dbFailures
    BY <2>1, <2>2
  <2> QED
    BY <1>1, <2>3 DEF IInv, MissingInv, MissingAuditIsAccounted
<1> QED
  BY <1>1, Invariance, PTL

-----------------------------------------------------------------------------
(* The abstract review item *)

\* A row is the function of its columns.
LEMMA RowIs ==
    ASSUME NEW r \in Rows
    PROVE  r = [f \in Columns |-> r[f]]
  BY DEF Rows, Columns, DecisionColumns

\* A call that goes on takes its stage with it, and leaves the others theirs.
LEMMA StageGoes ==
    ASSUME TypeOK, NEW c \in Calls, NEW l, pc' = [pc EXCEPT ![c] = l]
    PROVE  /\ [x \in Calls |-> StageOf(x)]' =
                 [[x \in Calls |-> StageOf(x)] EXCEPT ![c] = StageOf(c)']
           /\ [x \in Calls |-> StageOf(x)][c] = StageOf(c)
           /\ pc'[c] = l
<1>1. pc'[c] = l /\ \A x \in Calls \ {c} : pc'[x] = pc[x]
  BY DEF TypeOK
<1>2. \A x \in Calls \ {c} : StageOf(x)' = StageOf(x)
  BY <1>1 DEF StageOf
<1> QED
  BY <1>1, <1>2

\* Some calls, all of them under way, end.
LEMMA Ended ==
    ASSUME NEW S \in SUBSET Calls, UNCHANGED <<row, op, user, loaded, audit>>,
           \A c \in S : pc[c] \in Active /\ pc'[c] \in Over,
           \A c \in Calls \ S : pc'[c] = pc[c]
    PROVE  Item!End(S)
<1>1. \A c \in S : StageOf(c) \in {"asked", "open", "effective"} /\ StageOf(c)' = "over"
  BY DEF StageOf, Active, InSession, Over
<1>2. \A c \in Calls \ S : StageOf(c)' = StageOf(c)
  BY DEF StageOf
<1> QED
  BY <1>1, <1>2 DEF Item!End

\* A decision writes itself over the row, but for what it does not know to differ from
\* what another decision wrote after it had looked.
LEMMA DecisionTakesEffect ==
    ASSUME IInv, NEW c \in Calls, Effective(c), op[c] \in Decisions
    PROVE  \E comment \in Comments \cup {NoComment}, stays \in SUBSET Item!MayStay(c) :
              LET whole == [status     |-> IF op[c] = "approve" THEN "approved" ELSE "rejected",
                            draft      |-> row.draft,
                            approvedBy |-> user[c],
                            comments   |-> comment,
                            decidedAt  |-> c]
              IN  row' = [f \in DOMAIN whole |-> IF f \in stays THEN row[f] ELSE whole[f]]
<1> DEFINE comment == object[c].comments
           whole == [status     |-> IF op[c] = "approve" THEN "approved" ELSE "rejected",
                     draft      |-> row.draft,
                     approvedBy |-> user[c],
                     comments   |-> comment,
                     decidedAt  |-> c]
           stays == {f \in {"status", "approvedBy", "comments"} : row'[f] # whole[f]}
<1>1. /\ row \in Rows /\ row' \in Rows /\ loaded[c] \in Rows /\ object[c] \in Rows
      /\ Intent(c)
      /\ \A f \in Columns : row'[f] = IF object[c][f] # loaded[c][f] THEN object[c][f] ELSE row[f]
  BY Commits
<1>2. /\ row'.decidedAt = c /\ row'.draft = row.draft
      /\ loaded[c].status = "pending" =>
            \A f \in {"status", "approvedBy", "decidedAt"} : row'[f] = object[c][f]
      /\ row.decidedAt = loaded[c].decidedAt =>
            \A f \in DecisionColumns : row'[f] = object[c][f]
  BY DecisionWrites
<1>3. /\ DOMAIN whole = Columns /\ comment \in Comments \cup {NoComment}
      /\ whole["draft"] = row'["draft"] /\ whole["decidedAt"] = row'["decidedAt"]
      /\ \A f \in {"status", "approvedBy", "comments"} : whole[f] = object[c][f]
  BY <1>1, <1>2, RowFields DEF Intent, StatusFor, Columns, DecisionColumns
<1> HIDE DEF whole
<1>4. stays \subseteq Item!MayStay(c)
  <2>1. CASE loaded[c].decidedAt = row.decidedAt
    BY <1>2, <1>3, <2>1 DEF DecisionColumns
  <2>2. CASE loaded[c].decidedAt # row.decidedAt /\ loaded[c].status = "pending"
    <3>1. stays \subseteq {"comments"}
      BY <1>2, <1>3, <2>2
    <3> QED
      BY <2>2, <3>1 DEF Item!MayStay
  <2>3. CASE loaded[c].decidedAt # row.decidedAt /\ loaded[c].status # "pending"
    BY <2>3 DEF Item!MayStay
  <2> QED
    BY <2>1, <2>2, <2>3
<1>5. \A f \in Columns : row'[f] = IF f \in stays THEN row[f] ELSE whole[f]
  <2>1. \A f \in {"status", "approvedBy", "comments"} : f \in stays => row'[f] = row[f]
    BY <1>1, <1>3 DEF Columns, DecisionColumns
  <2> QED
    BY <1>3, <2>1 DEF Columns, DecisionColumns
<1>6. row' = [f \in DOMAIN whole |-> IF f \in stays THEN row[f] ELSE whole[f]]
  <2>1. row' = [f \in Columns |-> row'[f]]
    BY <1>1, RowIs
  <2> HIDE DEF stays
  <2> QED
    BY <1>3, <1>5, <2>1
<1> HIDE DEF stays
<1> QED
  BY <1>3, <1>4, <1>6 DEF whole

\* An edit writes its text, unless the text is what it had loaded.
LEMMA EditTakesEffect ==
    ASSUME IInv, NEW c \in Calls, Effective(c), op[c] = "edit"
    PROVE  \E text \in Texts \cup {AIDraft} :
              row' = IF text = loaded[c].draft THEN row ELSE [row EXCEPT !.draft = text]
<1>1. /\ row \in Rows /\ row' \in Rows /\ loaded[c] \in Rows /\ object[c] \in Rows
      /\ \A f \in Columns : row'[f] = IF object[c][f] # loaded[c][f] THEN object[c][f] ELSE row[f]
  BY Commits
<1>2. \A f \in DecisionColumns : row'[f] = row[f]
  BY EditWrites
<1>3. row' = [f \in Columns |-> row'[f]] /\ row = [f \in Columns |-> row[f]]
  BY <1>1, RowIs
<1>4. object[c].draft \in Texts \cup {AIDraft} /\ object[c]["draft"] = object[c].draft
      /\ loaded[c]["draft"] = loaded[c].draft
  BY <1>1, RowFields
<1>5. CASE object[c].draft = loaded[c].draft
  <2>1. \A f \in Columns : row'[f] = row[f]
    BY <1>1, <1>2, <1>4, <1>5 DEF Columns
  <2> QED
    BY <1>3, <1>4, <1>5, <2>1
<1>6. CASE object[c].draft # loaded[c].draft
  <2>1. row'["draft"] = object[c].draft
    BY <1>1, <1>4, <1>6 DEF Columns
  <2>2. row' = [row EXCEPT !.draft = object[c].draft]
    BY <1>2, <1>3, <2>1 DEF Columns
  <2> QED
    BY <1>4, <1>6, <2>2
<1> QED
  BY <1>5, <1>6

\* The supervisor endpoints implement ReviewItem: every step is one of it, with the
\* change in the commit, or leaves it unchanged.
THEOREM Refinement == Spec => ImplementsReviewItem
<1>1. Init => Item!Init
  BY DEF Init, Item!Init, StageOf
<1>2. IInv /\ [Next]_vars => [Item!Next]_(Item!vars)
  <2> SUFFICES ASSUME IInv, [Next]_vars PROVE [Item!Next]_(Item!vars)
    OBVIOUS
  <2>0. TypeOK /\ pc \in [Calls -> {"idle"} \cup Active \cup Over]
    BY DEF IInv, TypeOK
  \* A step that ends c, and one that ReviewItem knows nothing of.
  <2>e. ASSUME NEW c \in Calls, pc[c] \in Active, NEW l \in Over,
               pc' = [pc EXCEPT ![c] = l], UNCHANGED <<row, op, user, loaded, audit>>
        PROVE  Item!Next
    <3>1. pc'[c] = l /\ \A x \in Calls \ {c} : pc'[x] = pc[x]
      BY <2>0, <2>e
    <3>2. Item!End({c})
      BY <2>e, <3>1, Ended
    <3> QED
      BY <3>2 DEF Item!Next
  <2>s. ASSUME UNCHANGED <<row, op, user, loaded, audit>>,
               \A c \in Calls : StageOf(c)' = StageOf(c)
        PROVE  UNCHANGED Item!vars
    BY <2>s DEF Item!vars
  <2>1. CASE CreatePending
    <3>1. CASE row' = NewItem
      <4>1. Item!Queue
        BY <2>1, <3>1, Created DEF Item!Queue, StageOf, IInv
      <4> QED
        BY <4>1 DEF Item!Next
    <3>2. CASE row' = row
      BY <2>s, <2>1, <3>2 DEF CreatePending, callVars, StageOf
    <3> QED
      BY <2>1, <3>1, <3>2 DEF CreatePending
  <2>2. CASE AuditDraftCreated
    <3>1. UNCHANGED <<row, pc, op, user, loaded>>
      BY <2>2 DEF AuditDraftCreated, callVars
    <3>2. CASE audit' = audit
      BY <2>s, <3>1, <3>2 DEF StageOf
    <3>3. CASE audit' = Append(audit, NoCall)
      <4>1. row # NoRow /\ \A i \in 1..Len(audit) : audit[i] # NoCall
        BY <2>2 DEF AuditDraftCreated, IInv, AuditInv
      <4>2. Item!LogDraft
        BY <3>1, <3>3, <4>1 DEF Item!LogDraft, StageOf
      <4> QED
        BY <4>2 DEF Item!Next
    <3> QED
      BY <2>2, <3>2, <3>3 DEF AuditDraftCreated, LogAuditEvent
  <2>3. ASSUME NEW c \in Calls, Receive(c) PROVE Item!Next
    <3>1. /\ pc[c] = "idle" /\ pc' = [pc EXCEPT ![c] = "load"]
          /\ UNCHANGED <<row, loaded, audit>>
          /\ \E o \in Ops, u \in Users :
                op' = [op EXCEPT ![c] = o] /\ user' = [user EXCEPT ![c] = u]
      BY <2>3 DEF Receive, Goto
    <3>2. StageOf(c) = "new" /\ StageOf(c)' = "asked"
      BY <2>0, <3>1 DEF StageOf
    <3>3. Ops = {"view", "edit", "approve", "reject"}
      BY DEF Ops, Decisions
    <3>4. Item!Ask(c)
      BY <2>0, <3>1, <3>2, <3>3, StageGoes DEF Item!Ask, Item!Moves
    <3> QED
      BY <3>4 DEF Item!Next
  <2>4. ASSUME NEW c \in Calls, Load(c) PROVE Item!Next
    <3>1. CASE row = NoRow
      <4>1. /\ pc[c] = "load" /\ pc' = [pc EXCEPT ![c] = "done"]
            /\ UNCHANGED <<row, op, user, loaded, audit>>
        BY <2>4, <3>1 DEF Load, Goto
      <4> QED
        BY <2>e, <4>1 DEF Active, InSession, Over
    <3>2. CASE row # NoRow
      <4>1. /\ pc[c] = "load" /\ loaded' = [loaded EXCEPT ![c] = row]
            /\ pc' = [pc EXCEPT ![c] = IF op[c] = "view" THEN "audit" ELSE "flush"]
            /\ UNCHANGED <<row, op, user, audit>>
        BY <2>4, <3>2 DEF Load, Goto
      <4>2. StageOf(c) = "asked"
            /\ StageOf(c)' = IF op[c] = "view" THEN "effective" ELSE "open"
        BY <2>0, <4>1 DEF StageOf
      <4>3. Item!Look(c)
        BY <2>0, <3>2, <4>1, <4>2, StageGoes DEF Item!Look, Item!Moves
      <4> QED
        BY <4>3 DEF Item!Next
    <3> QED
      BY <3>1, <3>2
  <2>5. ASSUME NEW c \in Calls, Flush(c) PROVE UNCHANGED Item!vars
    <3>1. /\ pc[c] = "flush" /\ pc' = [pc EXCEPT ![c] = "commit"]
          /\ UNCHANGED <<row, op, user, loaded, audit>>
      BY <2>5 DEF Flush, Goto
    <3>2. pc'[c] = "commit" /\ \A x \in Calls \ {c} : pc'[x] = pc[x]
      BY <2>0, <3>1
    <3>3. \A x \in Calls : StageOf(x)' = StageOf(x)
      BY <3>1, <3>2 DEF StageOf
    <3> QED
      BY <2>s, <3>1, <3>3
  <2>6. ASSUME NEW c \in Calls, Effective(c) PROVE Item!Next
    <3>1. /\ pc[c] = "commit" /\ op[c] \in Decisions \cup {"edit"}
          /\ UNCHANGED <<op, user, loaded, audit>>
      BY <2>6, Commits
    <3>6. PICK l \in {"audit", "failed"} : pc' = [pc EXCEPT ![c] = l]
      BY <2>6, Commits
    <3>2. StageOf(c) = "open" /\ StageOf(c)' \in {"effective", "over"}
      BY <2>0, <3>1, <3>6 DEF StageOf
    <3>5. Item!Changes(c)
      BY <2>0, <3>1, <3>2, <3>6, StageGoes DEF Item!Changes, Item!Moves
    <3>3. CASE op[c] \in Decisions
      <4>1. Item!Decide(c)
        BY <2>6, <3>1, <3>3, <3>5, DecisionTakesEffect DEF Item!Decide, Decisions
      <4> QED
        BY <4>1 DEF Item!Next
    <3>4. CASE op[c] = "edit"
      <4>1. Item!Edit(c)
        BY <2>6, <3>1, <3>4, <3>5, EditTakesEffect DEF Item!Edit
      <4> QED
        BY <4>1 DEF Item!Next
    <3> QED
      BY <3>1, <3>3, <3>4
  <2>7. ASSUME NEW c \in Calls, SessionFails(c), row' = row PROVE Item!Next
    <3>1. /\ pc[c] \in Active /\ pc' = [pc EXCEPT ![c] = "failed"]
          /\ UNCHANGED <<row, op, user, loaded, audit>>
      BY <2>7 DEF SessionFails, Goto, Active
    <3> QED
      BY <2>e, <3>1 DEF Over
  <2>8. ASSUME NEW c \in Calls, AuditAndAnswer(c) PROVE Item!Next
    <3>1. /\ pc[c] = "audit" /\ pc' = [pc EXCEPT ![c] = "done"]
          /\ UNCHANGED <<row, op, user, loaded>>
          /\ audit' = audit \/ audit' = Append(audit, c)
      BY <2>8 DEF AuditAndAnswer, Goto, LogAuditEvent
    <3>2. CASE audit' = audit
      BY <2>e, <3>1, <3>2 DEF Active, Over
    <3>3. CASE audit' = Append(audit, c)
      <4>1. StageOf(c) = "effective" /\ StageOf(c)' = "over"
        BY <2>0, <3>1 DEF StageOf
      <4>2. Item!Log(c)
        BY <2>0, <3>1, <3>3, <4>1, StageGoes DEF Item!Log, Item!Moves
      <4> QED
        BY <4>2 DEF Item!Next
    <3> QED
      BY <3>1, <3>2, <3>3
  <2>9. CASE Crash
    <3> DEFINE S == {c \in Calls : pc[c] \in Active}
    <3>1. /\ UNCHANGED <<row, op, user, loaded, audit>>
          /\ \A c \in S : pc[c] \in Active /\ pc'[c] \in Over
          /\ \A c \in Calls \ S : pc'[c] = pc[c]
      BY <2>0, <2>9 DEF Crash, Over
    <3>2. S \in SUBSET Calls
      OBVIOUS
    <3> HIDE DEF S
    <3>3. Item!End(S)
      BY <3>1, <3>2, Ended
    <3> QED
      BY <3>2, <3>3 DEF Item!Next
  <2>10. CASE UNCHANGED vars
    BY <2>s, <2>10 DEF vars, callVars, StageOf
  <2> QED
    BY <2>1, <2>2, <2>3, <2>4, <2>5, <2>6, <2>7, <2>8, <2>9, <2>10, CommitIsEffective,
       FailureIsEffective DEF Next, Enqueue, Handle
<1> QED
  BY <1>1, <1>2, Invariance, PTL DEF Spec, ImplementsReviewItem, Item!Spec
=============================================================================
