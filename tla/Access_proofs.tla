---------------------------- MODULE Access_proofs ----------------------------
(***************************************************************************)
(* Theorems about Access, for any number of calls, tokens and users.       *)
(***************************************************************************)
EXTENDS Access, TLAPS

\* What is known of a call where it stands, and of the call it is.
CallInv ==
    \A c \in Calls :
        /\ pc[c] = "idle" => was[c] = {} /\ answer[c] = 0 /\ tally[c] = "none"
                             /\ bearer[c] = NoToken /\ subject[c] = Nobody
        /\ pc[c] \in InProgress => "vouched" \in was[c] /\ answer[c] = 0
        /\ pc[c] \in {"load", "limit"} => tally[c] = "none"
        /\ pc[c] \in {"load", "handler"} => route[c] # "login"
        /\ pc[c] = "lookup" => route[c] = "login"
        /\ pc[c] # "done" => token[c] = NoToken
        /\ bearer[c] # NoToken => bearer[c] \in Issued
        /\ route[c] # "login" /\ pc[c] # "idle" =>
              IF bearer[c] = NoToken THEN pc[c] = "done" /\ answer[c] = 401
              ELSE subject[c] = token[bearer[c]].sub
        /\ (pc[c] = "handler" \/ (pc[c] = "limit" /\ route[c] # "login"))
              => "entitled" \in was[c]

\* While a call is in progress, its user's present rights are among those it had.
RightsInv ==
    \A c \in Calls :
        pc[c] \in InProgress /\ subject[c] \in Users /\ Entitled(account[subject[c]], route[c])
            => "entitled" \in was[c]

IInv == TypeOK /\ CallInv /\ RightsInv /\ OnlyEntitledSucceed /\ TallyIsHonest

\* A token is a user's.
LEMMA TokenOfUser ==
    ASSUME TypeOK, NEW t \in Issued
    PROVE  token[t].sub \in Users
  BY DEF TypeOK, Issued, Tokens

\* An active user's row gives the rights of its role, and so may log in.
LEMMA ActiveMayLogIn ==
    ASSUME TypeOK, NEW u \in Users, account[u] # Removed, account[u].active
    PROVE  account[u].role \in Roles /\ Entitled(account[u], "login")
<1>1. account[u] \in [role : Roles, active : BOOLEAN]
  BY DEF TypeOK, Accounts
<1> QED
  BY <1>1 DEF Entitled, Allowed

\* Operators come and go, and tokens expire; calls stay what they are.
LEMMA Environment ==
    ASSUME IInv, (\E u \in Users : ChangeAccount(u)) \/ (\E t \in Calls : ExpireToken(t))
    PROVE  IInv'
<1> USE MarkersDiffer DEF IInv, TypeOK
<1>1. ASSUME NEW u \in Users, ChangeAccount(u) PROVE IInv'
  <2>0. UNCHANGED <<token, expired, pc, route, bearer, subject, answer, tally>>
    BY <1>1 DEF ChangeAccount
  <2>1. PICK row \in Accounts \ {account[u]} :
          /\ account' = [account EXCEPT ![u] = row]
          /\ was' = [c \in Calls |->
                       IF pc[c] \in InProgress /\ subject[c] = u /\ Entitled(row, route[c])
                       THEN was[c] \cup {"entitled"} ELSE was[c]]
    BY <1>1 DEF ChangeAccount
  <2>2. \A c \in Calls : was[c] \subseteq was'[c]
    BY <2>1
  <2>3. TypeOK'
    <3>1. account' \in [Users -> Accounts]
      BY <2>1
    <3>2. was' \in [Calls -> SUBSET {"vouched", "entitled"}]
      BY <2>1
    <3> QED
      BY <2>0, <3>1, <3>2 DEF Issued
  <2>4. CallInv'
    BY <2>0, <2>1, <2>2 DEF CallInv, Issued, InProgress
  <2>5. RightsInv'
    BY <2>0, <2>1 DEF RightsInv
  <2>6. OnlyEntitledSucceed'
    BY <2>0, <2>1, <2>3, <2>2 DEF OnlyEntitledSucceed
  <2>7. TallyIsHonest'
    BY <2>0, <2>1, <2>2, <2>3 DEF TallyIsHonest, Issued
  <2> QED
    BY <2>3, <2>4, <2>5, <2>6, <2>7
<1>2. ASSUME NEW t \in Calls, ExpireToken(t) PROVE IInv'
  BY <1>2 DEF ExpireToken, Valid, callVars, CallInv, RightsInv, OnlyEntitledSucceed,
     TallyIsHonest, Issued
<1> QED
  BY <1>1, <1>2

\* A login comes with the rights of the user it names.
LEMMA ReceiveLoginStep ==
    ASSUME IInv, NEW c \in Calls, ReceiveLogin(c)
    PROVE  IInv'
<1> USE MarkersDiffer DEF IInv, TypeOK, ReceiveLogin, Goto, Valid, Issued, InProgress
<1>1. TypeOK'
  BY DEF Routes, RightsOf
<1>2. CallInv'
  BY DEF CallInv, Routes, RightsOf, RightsInv
<1>3. RightsInv'
  BY DEF RightsInv, CallInv, RightsOf, Entitled
<1>4. OnlyEntitledSucceed'
  BY DEF OnlyEntitledSucceed, CallInv, RightsInv, Entitled
<1>5. TallyIsHonest'
  BY DEF TallyIsHonest, CallInv
<1> QED
  BY <1>1, <1>2, <1>3, <1>4, <1>5

\* Another call comes with those of its token.
LEMMA ReceiveCallStep ==
    ASSUME IInv, NEW c \in Calls, ReceiveCall(c)
    PROVE  IInv'
<1> USE MarkersDiffer DEF IInv, TypeOK, ReceiveCall, Goto, Answer, Valid, Issued, InProgress
<1>1. TypeOK'
  BY TokenOfUser DEF Routes, RightsOf
<1>2. CallInv'
  BY DEF CallInv, Routes, RightsOf, RightsInv
<1>3. RightsInv'
  BY DEF RightsInv, CallInv, RightsOf, Entitled
<1>4. OnlyEntitledSucceed'
  BY DEF OnlyEntitledSucceed, CallInv, RightsInv, Entitled
<1>5. TallyIsHonest'
  BY DEF TallyIsHonest, CallInv
<1> QED
  BY <1>1, <1>2, <1>3, <1>4, <1>5

\* Authorisation finds what the call's user may do.
LEMMA LoadUserStep ==
    ASSUME IInv, NEW c \in Calls, LoadUser(c)
    PROVE  IInv'
<1> USE MarkersDiffer DEF IInv, TypeOK, LoadUser, Goto, Answer, Issued, InProgress
<1>1. TypeOK'
  BY DEF Routes, RightsOf
<1>2. CallInv'
  <2>1. route[c] # "login" /\ subject[c] \in Users /\ "vouched" \in was[c] /\ answer[c] = 0
        /\ tally[c] = "none" /\ bearer[c] # NoToken /\ subject[c] = token[bearer[c]].sub
    BY TokenOfUser DEF CallInv
  <2>2. CASE pc'[c] = "done"
    BY <2>1, <2>2 DEF CallInv
  <2>3. CASE pc'[c] # "done"
    <3>1. "entitled" \in was[c]
      BY <2>1, <2>3 DEF RightsInv
    <3>2. Goto(c, IF route[c] \in Limited THEN "limit" ELSE "handler")
      BY <2>3
    <3>3. pc'[c] \in {"limit", "handler"} /\ answer' = answer
          /\ \A d \in Calls \ {c} : pc'[d] = pc[d]
      BY <3>2
    <3> QED
      BY <2>1, <3>1, <3>3 DEF CallInv
  <2> QED
    BY <2>2, <2>3
<1>3. RightsInv'
  BY DEF RightsInv, CallInv, RightsOf, Entitled
<1>4. OnlyEntitledSucceed'
  BY DEF OnlyEntitledSucceed, CallInv, RightsInv, Entitled
<1>5. TallyIsHonest'
  BY DEF TallyIsHonest, CallInv
<1> QED
  BY <1>1, <1>2, <1>3, <1>4, <1>5

\* Counting a call changes nothing else.
LEMMA LimitStep ==
    ASSUME IInv, NEW c \in Calls, Limit(c)
    PROVE  IInv'
<1> USE MarkersDiffer DEF IInv, TypeOK, Limit, Goto, Answer, KeyOf, Valid, Issued, InProgress
<1>1. TypeOK'
  <2>1. KeyOf(c) \in Users \cup {"ip"}
    BY TokenOfUser
  <2>2. tally' \in [Calls -> Users \cup {"none", "ip"}]
    BY <2>1
  <2> QED
    BY <2>2
<1>2. CallInv'
  BY DEF CallInv, Routes, RightsOf, RightsInv
<1>3. RightsInv'
  BY DEF RightsInv, CallInv, RightsOf, Entitled
<1>4. OnlyEntitledSucceed'
  BY DEF OnlyEntitledSucceed, CallInv, RightsInv, Entitled
<1>5. TallyIsHonest'
  <2>1. tally'[c] = KeyOf(c) /\ \A d \in Calls \ {c} : tally'[d] = tally[d]
    OBVIOUS
  <2>2. CASE Valid(bearer[c])
    <3>1. tally'[c] = token[bearer[c]].sub /\ bearer[c] \in Issued /\ tally'[c] \in Users
      BY <2>1, <2>2, TokenOfUser
    <3>2. route[c] # "login" => was[c] = {"vouched", "entitled"}
      BY DEF CallInv
    <3> QED
      BY <2>1, <3>1, <3>2 DEF TallyIsHonest
  <2>3. CASE ~Valid(bearer[c])
    <3>1. tally'[c] = "ip" /\ (bearer[c] # NoToken => bearer[c] \in expired)
      BY <2>1, <2>3 DEF CallInv
    <3> QED
      BY <2>1, <3>1 DEF TallyIsHonest
  <2> QED
    BY <2>2, <2>3
<1> QED
  BY <1>1, <1>2, <1>3, <1>4, <1>5

\* A login succeeds, and issues its token, for an active user only.
LEMMA LookUpStep ==
    ASSUME IInv, NEW c \in Calls, LookUp(c)
    PROVE  IInv'
<1> USE MarkersDiffer DEF IInv, TypeOK, Answer, Issued, InProgress
<1>1. /\ pc[c] = "lookup" /\ pc' = [pc EXCEPT ![c] = "done"] /\ token[c] = NoToken
      /\ route[c] = "login" /\ "vouched" \in was[c]
      /\ UNCHANGED <<account, expired, route, bearer, subject, tally, was>>
  BY DEF LookUp, CallInv
<1>2. CASE token' = token /\ \E status \in {401, 403} : answer' = [answer EXCEPT ![c] = status]
  BY <1>1, <1>2 DEF CallInv, RightsInv, OnlyEntitledSucceed, TallyIsHonest
<1>3. ASSUME NEW claims \in Tokens, token' = [token EXCEPT ![c] = claims],
             answer' = [answer EXCEPT ![c] = 200], was[c] = {"vouched", "entitled"}
      PROVE  IInv'
  <2>1. \A t \in Issued : t \in Issued' /\ token'[t] = token[t]
    BY <1>1, <1>3
  <2>2. TypeOK'
    BY <1>1, <1>3, <2>1
  <2>3. CallInv'
    BY <1>1, <1>3, <2>1 DEF CallInv
  <2>4. RightsInv' /\ OnlyEntitledSucceed'
    BY <1>1, <1>3 DEF RightsInv, OnlyEntitledSucceed
  <2>5. TallyIsHonest'
    BY <1>1, <2>1 DEF TallyIsHonest
  <2> QED
    BY <2>2, <2>3, <2>4, <2>5
<1>4. CASE subject[c] = Nobody \/ account[subject[c]] = Removed \/ ~account[subject[c]].active
  BY <1>2, <1>4 DEF LookUp
<1>5. CASE subject[c] # Nobody /\ account[subject[c]] # Removed /\ account[subject[c]].active
  <2>1. /\ subject[c] \in Users /\ account[subject[c]].role \in Roles
        /\ Entitled(account[subject[c]], "login")
    BY <1>5, ActiveMayLogIn
  <2>2. was[c] = {"vouched", "entitled"}
    BY <1>1, <2>1 DEF RightsInv
  <2>3. /\ answer' = [answer EXCEPT ![c] = 200]
        /\ token' = [token EXCEPT ![c] =
                       [sub |-> subject[c], role |-> account[subject[c]].role]]
    BY <1>5 DEF LookUp
  <2>4. [sub |-> subject[c], role |-> account[subject[c]].role] \in Tokens
    BY <2>1 DEF Tokens
  <2> QED
    BY <1>3, <2>2, <2>3, <2>4
<1> QED
  BY <1>4, <1>5

\* A handler acts for an authorised call.
LEMMA HandleStep ==
    ASSUME IInv, NEW c \in Calls, Handle(c)
    PROVE  IInv'
<1> USE MarkersDiffer DEF IInv, TypeOK, Handle, Answer, Issued, InProgress
<1>1. TypeOK'
  BY DEF Routes, RightsOf
<1>2. CallInv'
  BY DEF CallInv, Routes, RightsOf, RightsInv
<1>3. RightsInv'
  BY DEF RightsInv, CallInv, RightsOf, Entitled
<1>4. OnlyEntitledSucceed'
  BY DEF OnlyEntitledSucceed, CallInv, RightsInv, Entitled
<1>5. TallyIsHonest'
  BY DEF TallyIsHonest, CallInv
<1> QED
  BY <1>1, <1>2, <1>3, <1>4, <1>5

\* The invariant holds initially and is kept by every step.
THEOREM Invariance == Spec => []IInv
<1>1. Init => IInv
  BY MarkersDiffer DEF Init, IInv, TypeOK, CallInv, RightsInv, OnlyEntitledSucceed,
     TallyIsHonest, Issued, InProgress, Routes, Accounts, Roles
<1>2. IInv /\ [Next]_vars => IInv'
  <2> SUFFICES ASSUME IInv, [Next]_vars PROVE IInv'
    OBVIOUS
  <2>1. CASE UNCHANGED vars
    BY <2>1 DEF vars, callVars, IInv, TypeOK, CallInv, RightsInv, OnlyEntitledSucceed,
       TallyIsHonest, Issued
  <2> QED
    BY <2>1, Environment, ReceiveLoginStep, ReceiveCallStep, LoadUserStep, LimitStep,
       LookUpStep, HandleStep DEF Next
<1> QED
  BY <1>1, <1>2, PTL DEF Spec

\* The variables keep their types.
THEOREM TypeCorrect == Spec => []TypeOK
<1>1. IInv => TypeOK
  BY DEF IInv
<1> QED
  BY <1>1, Invariance, PTL

\* No call, with however old a token, does what its user may not do during the call.
THEOREM OnlyEntitledSucceedHolds == Spec => []OnlyEntitledSucceed
<1>1. IInv => OnlyEntitledSucceed
  BY DEF IInv
<1> QED
  BY <1>1, Invariance, PTL

\* Nobody uses up another user's rate limit, or escapes his own with a token that lives.
THEOREM TallyIsHonestHolds == Spec => []TallyIsHonest
<1>1. IInv => TallyIsHonest
  BY DEF IInv
<1> QED
  BY <1>1, Invariance, PTL
=============================================================================
