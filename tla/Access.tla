-------------------------------- MODULE Access --------------------------------
(***************************************************************************)
(* Who may do what: login (auth/router.py), bearer tokens (auth/jwt.py),   *)
(* the dependencies that authorise a request (auth/dependencies.py) and    *)
(* the key under which it is counted (auth/rate_limit_key.py).             *)
(*                                                                         *)
(* A token is named after the login that issued it.  While tokens live,    *)
(* operators change the rows of `users' and time passes; a handler uses    *)
(* the row as it was when it was loaded.                                   *)
(***************************************************************************)
CONSTANTS
    Calls,       \* HTTP requests
    Users,
    NoToken, Nobody, Removed   \* no bearer token, no such user, no row

VARIABLES
    account,     \* user -> row of `users'
    token,       \* login -> the access token it issued
    expired,     \* the tokens whose `exp' is over
    pc, route,   \* each call: where its handling stands, what it calls
    bearer,      \*   the token it carries
    subject,     \*   the user it speaks for: the token's `sub', or the login form's
    answer,      \*   its HTTP status
    tally,       \*   whose rate limit it was counted against
    was          \*   history: whether its token and its user's rights were ever good

callVars == <<pc, route, bearer, subject, answer, tally, was>>
vars == <<account, token, expired, callVars>>

Roles == {"agent", "supervisor", "admin"}
Accounts == [role : Roles, active : BOOLEAN] \cup {Removed}
Tokens == [sub : Users, role : Roles]

ASSUME MarkersDiffer ==
    /\ NoToken \notin Calls \cup Tokens
    /\ Users \cap {Nobody, "none", "ip"} = {}

\* POST /tickets asks for an active user, the supervisor's endpoints for a role.
Routes == {"login", "tickets", "queue", "decide"}
Allowed(r) == IF r \in {"queue", "decide"} THEN {"supervisor", "admin"} ELSE Roles

\* Routes with @limiter.limit.
Limited == {"login", "tickets", "decide"}

InProgress == {"load", "limit", "lookup", "handler"}

Entitled(row, r) == row # Removed /\ row.active /\ row.role \in Allowed(r)

Init ==
    /\ account \in [Users -> Accounts \ {Removed}]
    /\ token = [c \in Calls |-> NoToken]
    /\ expired = {}
    /\ pc = [c \in Calls |-> "idle"]
    /\ route = [c \in Calls |-> "login"]
    /\ bearer = [c \in Calls |-> NoToken]
    /\ subject = [c \in Calls |-> Nobody]
    /\ answer = [c \in Calls |-> 0]
    /\ tally = [c \in Calls |-> "none"]
    /\ was = [c \in Calls |-> {}]

Issued == {t \in Calls : token[t] # NoToken}

\* decode_access_token raises on an expired token.
Valid(t) == t \in Issued \ expired

Answer(c, status) == pc' = [pc EXCEPT ![c] = "done"] /\ answer' = [answer EXCEPT ![c] = status]
Goto(c, label) == pc' = [pc EXCEPT ![c] = label] /\ UNCHANGED answer

RightsOf(u, r) == IF u \in Users /\ Entitled(account[u], r) THEN {"entitled"} ELSE {}

\* A login goes to the limiter first.  Its form names a user whose password it has,
\* or else Nobody; it may carry a token all the same.
ReceiveLogin(c) ==
    /\ pc[c] = "idle"
    /\ \E u \in Users \cup {Nobody}, t \in Issued \cup {NoToken} :
          /\ route' = [route EXCEPT ![c] = "login"]
          /\ subject' = [subject EXCEPT ![c] = u]
          /\ bearer' = [bearer EXCEPT ![c] = t]
          /\ was' = [was EXCEPT ![c] = {"vouched"} \cup RightsOf(u, "login")]
    /\ Goto(c, "limit")
    /\ UNCHANGED <<account, token, expired, tally>>

\* Every other call is authorised first: get_current_user decodes its token.
ReceiveCall(c) ==
    /\ pc[c] = "idle"
    /\ \E r \in Routes \ {"login"}, t \in Issued \cup {NoToken} :
          LET u == IF t = NoToken THEN Nobody ELSE token[t].sub IN
          /\ route' = [route EXCEPT ![c] = r]
          /\ bearer' = [bearer EXCEPT ![c] = t]
          /\ subject' = [subject EXCEPT ![c] = u]
          /\ was' = [was EXCEPT ![c] = RightsOf(u, r) \cup
                                       IF Valid(t) THEN {"vouched"} ELSE {}]
          /\ IF Valid(t) THEN Goto(c, "load") ELSE Answer(c, 401)
    /\ UNCHANGED <<account, token, expired, tally>>

\* Mutant of LoadUser: the role comes from the token's claim.
LoadUserTrustingClaim(c) ==
    /\ pc[c] = "load"
    /\ LET row == account[subject[c]] IN
          IF row = Removed THEN Answer(c, 401)
          ELSE IF ~row.active \/ token[bearer[c]].role \notin Allowed(route[c]) THEN Answer(c, 403)
          ELSE Goto(c, IF route[c] \in Limited THEN "limit" ELSE "handler")
    /\ UNCHANGED <<account, token, expired, route, bearer, subject, tally, was>>

\* The row now, not the claims, says what the user may do.
LoadUser(c) ==
    /\ pc[c] = "load"
    /\ LET row == account[subject[c]] IN
          IF row = Removed THEN Answer(c, 401)
          ELSE IF ~Entitled(row, route[c]) THEN Answer(c, 403)
          ELSE Goto(c, IF route[c] \in Limited THEN "limit" ELSE "handler")
    /\ UNCHANGED <<account, token, expired, route, bearer, subject, tally, was>>

\* Mutant of KeyOf: every token has a budget of its own.
KeyOfToken(c) == IF Valid(bearer[c]) THEN bearer[c] ELSE "ip"

\* resolve_rate_limit_key decodes the token again.
KeyOf(c) == IF Valid(bearer[c]) THEN token[bearer[c]].sub ELSE "ip"

\* The decorated endpoint counts the call and may refuse it.
Limit(c) ==
    /\ pc[c] = "limit"
    /\ tally' = [tally EXCEPT ![c] = KeyOf(c)]
    /\ \/ Goto(c, IF route[c] = "login" THEN "lookup" ELSE "handler")
       \/ Answer(c, 429)
    /\ UNCHANGED <<account, token, expired, route, bearer, subject, was>>

\* login: the row is loaded once; a wrong password is found before an inactive user.
LookUp(c) ==
    /\ pc[c] = "lookup"
    /\ LET row == IF subject[c] = Nobody THEN Removed ELSE account[subject[c]] IN
          IF row = Removed THEN Answer(c, 401) /\ UNCHANGED token
          ELSE IF ~row.active THEN Answer(c, 403) /\ UNCHANGED token
          ELSE /\ Answer(c, 200)
               /\ token' = [token EXCEPT ![c] =
                              [sub |-> subject[c], role |-> row.role]]
    /\ UNCHANGED <<account, expired, route, bearer, subject, tally, was>>

Handle(c) ==
    /\ pc[c] = "handler"
    /\ Answer(c, 200)
    /\ UNCHANGED <<account, token, expired, route, bearer, subject, tally, was>>

-----------------------------------------------------------------------------
(* Operators and time *)

\* A row changes or goes; a removed user does not come back.
ChangeAccount(u) ==
    /\ account[u] # Removed
    /\ \E row \in Accounts \ {account[u]} :
          /\ account' = [account EXCEPT ![u] = row]
          /\ was' = [c \in Calls |->
                       IF pc[c] \in InProgress /\ subject[c] = u /\ Entitled(row, route[c])
                       THEN was[c] \cup {"entitled"} ELSE was[c]]
    /\ UNCHANGED <<token, expired, pc, route, bearer, subject, answer, tally>>

ExpireToken(t) ==
    /\ Valid(t)
    /\ expired' = expired \cup {t}
    /\ UNCHANGED <<account, token, callVars>>

-----------------------------------------------------------------------------

Next ==
    \/ \E c \in Calls : \/ ReceiveLogin(c) \/ ReceiveCall(c) \/ LoadUser(c) \/ Limit(c)
                        \/ LookUp(c) \/ Handle(c) \/ ExpireToken(c)
    \/ \E u \in Users : ChangeAccount(u)

Spec == Init /\ [][Next]_vars

-----------------------------------------------------------------------------
(* Properties *)

TypeOK ==
    /\ account \in [Users -> Accounts]
    /\ token \in [Calls -> Tokens \cup {NoToken}]
    /\ expired \subseteq Issued
    /\ pc \in [Calls -> {"idle", "done"} \cup InProgress]
    /\ route \in [Calls -> Routes]
    /\ bearer \in [Calls -> Calls \cup {NoToken}]
    /\ subject \in [Calls -> Users \cup {Nobody}]
    /\ answer \in [Calls -> {0, 200, 401, 403, 429}]
    /\ tally \in [Calls -> Users \cup {"none", "ip"}]
    /\ was \in [Calls -> SUBSET {"vouched", "entitled"}]

\* A call succeeds only if its token was good when it came and its user was active and
\* had one of the route's roles at some moment of that very call: a token that outlives
\* a demotion, a deactivation or its user is worth nothing.
OnlyEntitledSucceed ==
    \A c \in Calls : answer[c] = 200 => was[c] = {"vouched", "entitled"}

\* A user's rate limit is used up only by calls with a token of that user, which reached
\* the user's rights unless they were logins; and a call with a token is counted
\* under its address only if that token has expired.
TallyIsHonest ==
    \A c \in Calls :
        /\ tally[c] \in Users =>
              /\ bearer[c] \in Issued /\ token[bearer[c]].sub = tally[c]
              /\ route[c] # "login" => was[c] = {"vouched", "entitled"}
        /\ tally[c] = "ip" /\ bearer[c] # NoToken => bearer[c] \in expired
=============================================================================
