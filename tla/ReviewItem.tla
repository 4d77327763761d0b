----------------------------- MODULE ReviewItem -----------------------------
(***************************************************************************)
(* What the supervisor queue promises about the review item of a ticket,   *)
(* without rows, locks and columns.  A decision or an edit takes effect in *)
(* one step.  An edit changes the draft only; a decision leaves the draft  *)
(* alone and is recorded whole, unless another one came after the          *)
(* supervisor looked: of that one, parts may stay.  The log tells of the   *)
(* draft and of calls that took effect, of each once, and may miss some.   *)
(***************************************************************************)
EXTENDS Naturals, Sequences

CONSTANTS Calls, Users, NoUser, Texts, AIDraft, Comments, NoComment, NoCall, NoRow

VARIABLES
    item,   \* the review item
    op,     \* what each call asks for
    user,   \* who calls
    seen,   \* the item as the call found it
    stage,  \* "new", "asked", "open", "effective" or "over"
    log     \* the calls told of, in order, and NoCall for the draft

vars == <<item, op, user, seen, stage, log>>

Init ==
    /\ item = NoRow
    /\ op = [c \in Calls |-> "view"] /\ user = [c \in Calls |-> NoUser]
    /\ seen = [c \in Calls |-> NoRow]
    /\ stage = [c \in Calls |-> "new"]
    /\ log = <<>>

Moves(c, from, to) == stage[c] = from /\ stage' = [stage EXCEPT ![c] = to]

\* A change may take effect without its caller, or the log, ever being told of it.
Changes(c) == Moves(c, "open", "effective") \/ Moves(c, "open", "over")

\* The ticket's draft is put into the queue, once.
Queue ==
    /\ item = NoRow
    /\ item' = [status |-> "pending", draft |-> AIDraft, approvedBy |-> NoUser,
                comments |-> NoComment, decidedAt |-> NoCall]
    /\ UNCHANGED <<op, user, seen, stage, log>>

Ask(c) ==
    /\ Moves(c, "new", "asked")
    /\ \E o \in {"view", "edit", "approve", "reject"}, u \in Users :
          op' = [op EXCEPT ![c] = o] /\ user' = [user EXCEPT ![c] = u]
    /\ UNCHANGED <<item, seen, log>>

\* A call that only views has then had its effect.
Look(c) ==
    /\ item # NoRow
    /\ Moves(c, "asked", IF op[c] = "view" THEN "effective" ELSE "open")
    /\ seen' = [seen EXCEPT ![c] = item]
    /\ UNCHANGED <<item, op, user, log>>

\* What may stay of a decision that c has not seen; of one on a pending item, which
\* bears no other mark of a decision, only the comment.
MayStay(c) ==
    IF seen[c].decidedAt = item.decidedAt THEN {}
    ELSE IF seen[c].status = "pending" THEN {"comments"}
    ELSE {"status", "approvedBy", "comments"}

Decide(c) ==
    /\ op[c] \in {"approve", "reject"}
    /\ Changes(c)
    /\ \E comment \in Comments \cup {NoComment}, stays \in SUBSET MayStay(c) :
          LET whole == [status     |-> IF op[c] = "approve" THEN "approved" ELSE "rejected",
                        draft      |-> item.draft,
                        approvedBy |-> user[c],
                        comments   |-> comment,
                        decidedAt  |-> c]
          IN  item' = [f \in DOMAIN whole |-> IF f \in stays THEN item[f] ELSE whole[f]]
    /\ UNCHANGED <<op, user, seen, log>>

\* A text that is the one seen does not undo another edit.
Edit(c) ==
    /\ op[c] = "edit"
    /\ Changes(c)
    /\ \E text \in Texts \cup {AIDraft} :
          item' = IF text = seen[c].draft THEN item ELSE [item EXCEPT !.draft = text]
    /\ UNCHANGED <<op, user, seen, log>>

Log(c) ==
    /\ Moves(c, "effective", "over")
    /\ log' = Append(log, c)
    /\ UNCHANGED <<item, op, user, seen>>

LogDraft ==
    /\ item # NoRow /\ \A i \in 1..Len(log) : log[i] # NoCall
    /\ log' = Append(log, NoCall)
    /\ UNCHANGED <<item, op, user, seen, stage>>

\* Calls find no item, fail or are cut off, or end without being told of.
End(S) ==
    /\ \A c \in S : stage[c] \in {"asked", "open", "effective"}
    /\ stage' = [c \in Calls |-> IF c \in S THEN "over" ELSE stage[c]]
    /\ UNCHANGED <<item, op, user, seen, log>>

Next ==
    \/ Queue \/ LogDraft
    \/ \E c \in Calls : Ask(c) \/ Look(c) \/ Decide(c) \/ Edit(c) \/ Log(c)
    \/ \E S \in SUBSET Calls : End(S)

Spec == Init /\ [][Next]_vars
=============================================================================
