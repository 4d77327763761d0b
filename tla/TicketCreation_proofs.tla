----------------------- MODULE TicketCreation_proofs -----------------------
(***************************************************************************)
(* Theorems about TicketCreation, for any number of requests and keys and  *)
(* any bounds on the faults.                                               *)
(***************************************************************************)
EXTENDS TicketRefinement, FiniteSetTheorems, TLAPS

\* A Redis command changes the store under its own key only.
LEMMA AppliedType ==
    ASSUME TypeOK, NEW r \in Requests, reqKey[r] \in Keys, NEW op \in RedisOps
    PROVE  Applied(op, r) \in [Keys -> Requests \cup {Absent, InProgress}]
  BY DEF TypeOK, Applied, RedisOps

\* Handlers read and settle a claim only for a request with a key; the typing
\* of the store needs as much of the control state.
KeyInv ==
    \A r \in Requests :
        /\ pc[r] \in {"claim", "get", "complete", "release"} => reqKey[r] \in Keys
        /\ late[r] # "none" => reqKey[r] \in Keys /\ pc[r] = "done"

\* Type correctness, together with the part of the control state it rests on.
LEMMA TypeAndKeys == Spec => [](TypeOK /\ KeyInv)
<1> USE DEF TypeOK, KeyInv, PC, Active, Executing, RedisOps
<1>1. Init => TypeOK /\ KeyInv
  BY Bounds DEF Init
<1>2. TypeOK /\ KeyInv /\ [Next]_vars => (TypeOK /\ KeyInv)'
  <2> SUFFICES ASSUME TypeOK, KeyInv, [Next]_vars
               PROVE  (TypeOK /\ KeyInv)'
    OBVIOUS
  <2> USE Bounds DEF Goto, Answer, Raise
  <2>1. ASSUME NEW r \in Requests, Receive(r) PROVE (TypeOK /\ KeyInv)'
    BY <2>1 DEF Receive, requestVars, faultVars
  <2>2. ASSUME NEW r \in Requests, Claim(r) PROVE (TypeOK /\ KeyInv)'
    BY <2>2, AppliedType DEF Claim, faultVars
  <2>3. ASSUME NEW r \in Requests, ClaimFails(r) PROVE (TypeOK /\ KeyInv)'
    BY <2>3, AppliedType DEF ClaimFails, CommandFails
  <2>4. ASSUME NEW r \in Requests, GetExisting(r) PROVE (TypeOK /\ KeyInv)'
    BY <2>4 DEF GetExisting, faultVars
  <2>5. ASSUME NEW r \in Requests, GetFails(r) PROVE (TypeOK /\ KeyInv)'
    BY <2>5 DEF GetFails
  <2>6. ASSUME NEW r \in Requests, CheckCustomer(r) PROVE (TypeOK /\ KeyInv)'
    BY <2>6 DEF CheckCustomer, faultVars
  <2>7. ASSUME NEW r \in Requests, InsertTicket(r) PROVE (TypeOK /\ KeyInv)'
    BY <2>7 DEF InsertTicket, faultVars
  <2>8. ASSUME NEW r \in Requests, RunWorkflow(r) PROVE (TypeOK /\ KeyInv)'
    BY <2>8 DEF RunWorkflow, faultVars
  <2>9. ASSUME NEW r \in Requests, FailsBeforeCommit(r) PROVE (TypeOK /\ KeyInv)'
    BY <2>9 DEF FailsBeforeCommit, faultVars
  <2>10. ASSUME NEW r \in Requests, FailsAfterCommit(r) PROVE (TypeOK /\ KeyInv)'
    BY <2>10 DEF FailsAfterCommit
  <2>11. ASSUME NEW r \in Requests, Complete(r) PROVE (TypeOK /\ KeyInv)'
    BY <2>11, AppliedType DEF Complete, faultVars
  <2>12. ASSUME NEW r \in Requests, CompleteFails(r) PROVE (TypeOK /\ KeyInv)'
    BY <2>12, AppliedType DEF CompleteFails, CommandFails
  <2>13. ASSUME NEW r \in Requests, Release(r) PROVE (TypeOK /\ KeyInv)'
    BY <2>13, AppliedType DEF Release, faultVars
  <2>14. ASSUME NEW r \in Requests, ReleaseFails(r) PROVE (TypeOK /\ KeyInv)'
    BY <2>14, AppliedType DEF ReleaseFails, CommandFails
  <2>15. ASSUME NEW r \in Requests, ApplyLate(r) PROVE (TypeOK /\ KeyInv)'
    BY <2>15, AppliedType DEF ApplyLate, requestVars, faultVars
  <2>16. ASSUME NEW k \in Keys, LoseKey(k) PROVE (TypeOK /\ KeyInv)'
    BY <2>16 DEF LoseKey, requestVars
  <2>17. CASE RemoveCustomer
    BY <2>17 DEF RemoveCustomer, requestVars, faultVars
  <2>18. CASE Crash
    BY <2>18 DEF Crash
  <2>19. CASE UNCHANGED vars
    BY <2>19 DEF vars, requestVars, faultVars
  <2> HIDE DEF TypeOK, KeyInv
  <2> QED
    BY <2>1, <2>2, <2>3, <2>4, <2>5, <2>6, <2>7, <2>8, <2>9, <2>10, <2>11, <2>12,
       <2>13, <2>14, <2>15, <2>16, <2>17, <2>18, <2>19 DEF Next, Handle, Environment
<1> QED
  BY <1>1, <1>2, PTL DEF Spec

-----------------------------------------------------------------------------
\* What each place of a handler implies for its own request.
LEMMA ControlCorrect == Spec => []ControlInv
<1>1. Init => ControlInv
  BY Bounds, Markers DEF Init, TypeOK, KeyInv, ControlInv, PC, Active, Executing, RedisOps
<1>2. TypeOK /\ KeyInv /\ ControlInv /\ [Next]_vars => ControlInv'
  <2> SUFFICES ASSUME TypeOK, KeyInv, ControlInv, [Next]_vars
               PROVE  ControlInv'
    OBVIOUS
  <2> USE Bounds, Markers
          DEF TypeOK, KeyInv, ControlInv, PC, Active, Executing, RedisOps, Goto, Answer,
              Raise
  <2>1. ASSUME NEW r \in Requests, Receive(r) PROVE ControlInv'
    BY <2>1 DEF Receive, requestVars, faultVars
  <2>2. ASSUME NEW r \in Requests, Claim(r) PROVE ControlInv'
    BY <2>2 DEF Claim, faultVars
  <2>3. ASSUME NEW r \in Requests, ClaimFails(r) PROVE ControlInv'
    BY <2>3 DEF ClaimFails, CommandFails
  <2>4. ASSUME NEW r \in Requests, GetExisting(r) PROVE ControlInv'
    BY <2>4 DEF GetExisting, faultVars
  <2>5. ASSUME NEW r \in Requests, GetFails(r) PROVE ControlInv'
    BY <2>5 DEF GetFails
  <2>6. ASSUME NEW r \in Requests, CheckCustomer(r) PROVE ControlInv'
    BY <2>6 DEF CheckCustomer, faultVars
  <2>7. ASSUME NEW r \in Requests, InsertTicket(r) PROVE ControlInv'
    BY <2>7 DEF InsertTicket, faultVars
  <2>8. ASSUME NEW r \in Requests, RunWorkflow(r) PROVE ControlInv'
    BY <2>8 DEF RunWorkflow, faultVars
  <2>9. ASSUME NEW r \in Requests, FailsBeforeCommit(r) PROVE ControlInv'
    BY <2>9 DEF FailsBeforeCommit, faultVars
  <2>10. ASSUME NEW r \in Requests, FailsAfterCommit(r) PROVE ControlInv'
    BY <2>10 DEF FailsAfterCommit
  <2>11. ASSUME NEW r \in Requests, Complete(r) PROVE ControlInv'
    BY <2>11 DEF Complete, faultVars
  <2>12. ASSUME NEW r \in Requests, CompleteFails(r) PROVE ControlInv'
    BY <2>12 DEF CompleteFails, CommandFails
  <2>13. ASSUME NEW r \in Requests, Release(r) PROVE ControlInv'
    BY <2>13 DEF Release, faultVars
  <2>14. ASSUME NEW r \in Requests, ReleaseFails(r) PROVE ControlInv'
    BY <2>14 DEF ReleaseFails, CommandFails
  <2>15. ASSUME NEW r \in Requests, ApplyLate(r) PROVE ControlInv'
    BY <2>15 DEF ApplyLate, requestVars, faultVars
  <2>16. ASSUME NEW k \in Keys, LoseKey(k) PROVE ControlInv'
    BY <2>16 DEF LoseKey, requestVars
  <2>17. CASE RemoveCustomer
    BY <2>17 DEF RemoveCustomer, requestVars, faultVars
  <2>18. CASE Crash
    BY <2>18 DEF Crash
  <2>19. CASE UNCHANGED vars
    BY <2>19 DEF vars, requestVars, faultVars
  <2> HIDE DEF TypeOK, KeyInv, ControlInv
  <2> QED
    BY <2>1, <2>2, <2>3, <2>4, <2>5, <2>6, <2>7, <2>8, <2>9, <2>10, <2>11, <2>12,
       <2>13, <2>14, <2>15, <2>16, <2>17, <2>18, <2>19 DEF Next, Handle, Environment
<1> QED
  BY <1>1, <1>2, TypeAndKeys, PTL DEF Spec

\* A stored response, and one that was given, is that of a finished request.
LEMMA ResponseCorrect == Spec => []ResponseInv
<1>1. Init => ResponseInv
  BY Bounds, Markers, StoreValues
     DEF Init, TypeOK, ControlInv, ResponseInv, TicketsOf, Succeeded, Applied, PC, Active,
         Executing, RedisOps
<1>2. TypeOK /\ ControlInv /\ ResponseInv /\ [Next]_vars => ResponseInv'
  <2> SUFFICES ASSUME TypeOK, ControlInv, ResponseInv, [Next]_vars
               PROVE  ResponseInv'
    OBVIOUS
  <2> USE Bounds, Markers, StoreValues
          DEF TypeOK, ControlInv, ResponseInv, TicketsOf, Succeeded, Applied, PC, Active,
              Executing, RedisOps, Goto, Answer, Raise
  <2>1. ASSUME NEW r \in Requests, Receive(r) PROVE ResponseInv'
    BY <2>1 DEF Receive, requestVars, faultVars
  <2>2. ASSUME NEW r \in Requests, Claim(r) PROVE ResponseInv'
    BY <2>2 DEF Claim, faultVars
  <2>3. ASSUME NEW r \in Requests, ClaimFails(r) PROVE ResponseInv'
    BY <2>3 DEF ClaimFails, CommandFails
  <2>4. ASSUME NEW r \in Requests, GetExisting(r) PROVE ResponseInv'
    BY <2>4 DEF GetExisting, faultVars
  <2>5. ASSUME NEW r \in Requests, GetFails(r) PROVE ResponseInv'
    BY <2>5 DEF GetFails
  <2>6. ASSUME NEW r \in Requests, CheckCustomer(r) PROVE ResponseInv'
    BY <2>6 DEF CheckCustomer, faultVars
  <2>7. ASSUME NEW r \in Requests, InsertTicket(r) PROVE ResponseInv'
    BY <2>7 DEF InsertTicket, faultVars
  <2>8. ASSUME NEW r \in Requests, RunWorkflow(r) PROVE ResponseInv'
    BY <2>8 DEF RunWorkflow, faultVars
  <2>9. ASSUME NEW r \in Requests, FailsBeforeCommit(r) PROVE ResponseInv'
    BY <2>9 DEF FailsBeforeCommit, faultVars
  <2>10. ASSUME NEW r \in Requests, FailsAfterCommit(r) PROVE ResponseInv'
    BY <2>10 DEF FailsAfterCommit
  <2>11. ASSUME NEW r \in Requests, Complete(r) PROVE ResponseInv'
    BY <2>11 DEF Complete, faultVars
  <2>12. ASSUME NEW r \in Requests, CompleteFails(r) PROVE ResponseInv'
    BY <2>12 DEF CompleteFails, CommandFails
  <2>13. ASSUME NEW r \in Requests, Release(r) PROVE ResponseInv'
    BY <2>13 DEF Release, faultVars
  <2>14. ASSUME NEW r \in Requests, ReleaseFails(r) PROVE ResponseInv'
    BY <2>14 DEF ReleaseFails, CommandFails
  <2>15. ASSUME NEW r \in Requests, ApplyLate(r) PROVE ResponseInv'
    BY <2>15 DEF ApplyLate, requestVars, faultVars
  <2>16. ASSUME NEW k \in Keys, LoseKey(k) PROVE ResponseInv'
    BY <2>16 DEF LoseKey, requestVars
  <2>17. CASE RemoveCustomer
    BY <2>17 DEF RemoveCustomer, requestVars, faultVars
  <2>18. CASE Crash
    BY <2>18 DEF Crash
  <2>19. CASE UNCHANGED vars
    BY <2>19 DEF vars, requestVars, faultVars
  <2> HIDE DEF TypeOK, ControlInv, ResponseInv
  <2> QED
    BY <2>1, <2>2, <2>3, <2>4, <2>5, <2>6, <2>7, <2>8, <2>9, <2>10, <2>11, <2>12,
       <2>13, <2>14, <2>15, <2>16, <2>17, <2>18, <2>19 DEF Next, Handle, Environment
<1> QED
  BY <1>1, <1>2, TypeAndKeys, ControlCorrect, PTL DEF Spec

\* Without a lost key a claim has one holder and a response stays.
LEMMA ClaimCorrect == Spec => []ClaimInv
<1>1. Init => ClaimInv
  BY Bounds, Markers, StoreValues
     DEF Init, TypeOK, ControlInv, ResponseInv, ClaimInv, Holds, TicketsOf, Succeeded,
         Applied, PC, Active, Executing, RedisOps
<1>2. TypeOK /\ ControlInv /\ ResponseInv /\ ClaimInv /\ [Next]_vars => ClaimInv'
  <2> SUFFICES ASSUME TypeOK, ControlInv, ResponseInv, ClaimInv, [Next]_vars
               PROVE  ClaimInv'
    OBVIOUS
  <2> USE Bounds, Markers, StoreValues
          DEF TypeOK, ControlInv, ResponseInv, ClaimInv, Holds, TicketsOf, Succeeded,
              Applied, PC, Active, Executing, RedisOps, Goto, Answer, Raise
  <2>1. ASSUME NEW r \in Requests, Receive(r) PROVE ClaimInv'
    BY <2>1 DEF Receive, requestVars, faultVars
  <2>2. ASSUME NEW r \in Requests, Claim(r) PROVE ClaimInv'
    BY <2>2 DEF Claim, faultVars
  <2>3. ASSUME NEW r \in Requests, ClaimFails(r) PROVE ClaimInv'
    BY <2>3 DEF ClaimFails, CommandFails
  <2>4. ASSUME NEW r \in Requests, GetExisting(r) PROVE ClaimInv'
    BY <2>4 DEF GetExisting, faultVars
  <2>5. ASSUME NEW r \in Requests, GetFails(r) PROVE ClaimInv'
    BY <2>5 DEF GetFails
  <2>6. ASSUME NEW r \in Requests, CheckCustomer(r) PROVE ClaimInv'
    BY <2>6 DEF CheckCustomer, faultVars
  <2>7. ASSUME NEW r \in Requests, InsertTicket(r) PROVE ClaimInv'
    BY <2>7 DEF InsertTicket, faultVars
  <2>8. ASSUME NEW r \in Requests, RunWorkflow(r) PROVE ClaimInv'
    BY <2>8 DEF RunWorkflow, faultVars
  <2>9. ASSUME NEW r \in Requests, FailsBeforeCommit(r) PROVE ClaimInv'
    BY <2>9 DEF FailsBeforeCommit, faultVars
  <2>10. ASSUME NEW r \in Requests, FailsAfterCommit(r) PROVE ClaimInv'
    BY <2>10 DEF FailsAfterCommit
  <2>11. ASSUME NEW r \in Requests, Complete(r) PROVE ClaimInv'
    BY <2>11 DEF Complete, faultVars
  <2>12. ASSUME NEW r \in Requests, CompleteFails(r) PROVE ClaimInv'
    BY <2>12 DEF CompleteFails, CommandFails
  <2>13. ASSUME NEW r \in Requests, Release(r) PROVE ClaimInv'
    BY <2>13 DEF Release, faultVars
  <2>14. ASSUME NEW r \in Requests, ReleaseFails(r) PROVE ClaimInv'
    BY <2>14 DEF ReleaseFails, CommandFails
  <2>15. ASSUME NEW r \in Requests, ApplyLate(r) PROVE ClaimInv'
    BY <2>15 DEF ApplyLate, requestVars, faultVars
  <2>16. ASSUME NEW k \in Keys, LoseKey(k) PROVE ClaimInv'
    BY <2>16 DEF LoseKey, requestVars
  <2>17. CASE RemoveCustomer
    BY <2>17 DEF RemoveCustomer, requestVars, faultVars
  <2>18. CASE Crash
    BY <2>18 DEF Crash
  <2>19. CASE UNCHANGED vars
    BY <2>19 DEF vars, requestVars, faultVars
  <2> HIDE DEF TypeOK, ControlInv, ResponseInv, ClaimInv
  <2> QED
    BY <2>1, <2>2, <2>3, <2>4, <2>5, <2>6, <2>7, <2>8, <2>9, <2>10, <2>11, <2>12,
       <2>13, <2>14, <2>15, <2>16, <2>17, <2>18, <2>19 DEF Next, Handle, Environment
<1> QED
  BY <1>1, <1>2, TypeAndKeys, ControlCorrect, ResponseCorrect, PTL DEF Spec

\* Without a late failure either, a key's ticket is its only one.
LEMMA TicketCorrect == Spec => []TicketInv
<1>1. Init => TicketInv
  BY Bounds, Markers, StoreValues
     DEF Init, TypeOK, ControlInv, ResponseInv, ClaimInv, TicketInv, Holds, TicketsOf,
         Applied, PC, Active, Executing, RedisOps
<1>2. TypeOK /\ ControlInv /\ ResponseInv /\ ClaimInv /\ TicketInv /\ [Next]_vars => TicketInv'
  <2> SUFFICES ASSUME TypeOK, ControlInv, ResponseInv, ClaimInv, TicketInv, [Next]_vars
               PROVE  TicketInv'
    OBVIOUS
  <2> USE Bounds, Markers, StoreValues
          DEF TypeOK, ControlInv, ResponseInv, ClaimInv, TicketInv, Holds, TicketsOf,
              Applied, PC, Active, Executing, RedisOps, Goto, Answer, Raise
  <2>1. ASSUME NEW r \in Requests, Receive(r) PROVE TicketInv'
    BY <2>1 DEF Receive, requestVars, faultVars
  <2>2. ASSUME NEW r \in Requests, Claim(r) PROVE TicketInv'
    BY <2>2 DEF Claim, faultVars
  <2>3. ASSUME NEW r \in Requests, ClaimFails(r) PROVE TicketInv'
    BY <2>3 DEF ClaimFails, CommandFails
  <2>4. ASSUME NEW r \in Requests, GetExisting(r) PROVE TicketInv'
    BY <2>4 DEF GetExisting, faultVars
  <2>5. ASSUME NEW r \in Requests, GetFails(r) PROVE TicketInv'
    BY <2>5 DEF GetFails
  <2>6. ASSUME NEW r \in Requests, CheckCustomer(r) PROVE TicketInv'
    BY <2>6 DEF CheckCustomer, faultVars
  <2>7. ASSUME NEW r \in Requests, InsertTicket(r) PROVE TicketInv'
    BY <2>7 DEF InsertTicket, faultVars
  <2>8. ASSUME NEW r \in Requests, RunWorkflow(r) PROVE TicketInv'
    BY <2>8 DEF RunWorkflow, faultVars
  <2>9. ASSUME NEW r \in Requests, FailsBeforeCommit(r) PROVE TicketInv'
    BY <2>9 DEF FailsBeforeCommit, faultVars
  <2>10. ASSUME NEW r \in Requests, FailsAfterCommit(r) PROVE TicketInv'
    BY <2>10 DEF FailsAfterCommit
  <2>11. ASSUME NEW r \in Requests, Complete(r) PROVE TicketInv'
    BY <2>11 DEF Complete, faultVars
  <2>12. ASSUME NEW r \in Requests, CompleteFails(r) PROVE TicketInv'
    BY <2>12 DEF CompleteFails, CommandFails
  <2>13. ASSUME NEW r \in Requests, Release(r) PROVE TicketInv'
    BY <2>13 DEF Release, faultVars
  <2>14. ASSUME NEW r \in Requests, ReleaseFails(r) PROVE TicketInv'
    BY <2>14 DEF ReleaseFails, CommandFails
  <2>15. ASSUME NEW r \in Requests, ApplyLate(r) PROVE TicketInv'
    BY <2>15 DEF ApplyLate, requestVars, faultVars
  <2>16. ASSUME NEW k \in Keys, LoseKey(k) PROVE TicketInv'
    BY <2>16 DEF LoseKey, requestVars
  <2>17. CASE RemoveCustomer
    BY <2>17 DEF RemoveCustomer, requestVars, faultVars
  <2>18. CASE Crash
    BY <2>18 DEF Crash
  <2>19. CASE UNCHANGED vars
    BY <2>19 DEF vars, requestVars, faultVars
  <2> HIDE DEF TypeOK, ControlInv, ResponseInv, ClaimInv, TicketInv
  <2> QED
    BY <2>1, <2>2, <2>3, <2>4, <2>5, <2>6, <2>7, <2>8, <2>9, <2>10, <2>11, <2>12,
       <2>13, <2>14, <2>15, <2>16, <2>17, <2>18, <2>19 DEF Next, Handle, Environment
<1> QED
  BY <1>1, <1>2, TypeAndKeys, ControlCorrect, ResponseCorrect, ClaimCorrect, PTL DEF Spec

\* Without a RedisError or a crash the sentinel stands for a running handler:
\* no command is late, and a handler settles its claim before it is done.
LEMMA OrphanCorrect == Spec => []OrphanInv
<1>1. Init => OrphanInv
  BY Bounds, Markers, StoreValues
     DEF Init, TypeOK, ControlInv, OrphanInv, Applied, PC, Active, Executing, RedisOps
<1>2. TypeOK /\ ControlInv /\ OrphanInv /\ [Next]_vars => OrphanInv'
  <2> SUFFICES ASSUME TypeOK, ControlInv, OrphanInv, [Next]_vars
               PROVE  OrphanInv'
    OBVIOUS
  <2> USE Bounds, Markers, StoreValues
          DEF TypeOK, ControlInv, OrphanInv, Applied, PC, Active, Executing, RedisOps, Goto,
              Answer, Raise
  <2>1. ASSUME NEW r \in Requests, Receive(r) PROVE OrphanInv'
    BY <2>1 DEF Receive, requestVars, faultVars
  <2>2. ASSUME NEW r \in Requests, Claim(r) PROVE OrphanInv'
    BY <2>2 DEF Claim, faultVars
  <2>3. ASSUME NEW r \in Requests, ClaimFails(r) PROVE OrphanInv'
    BY <2>3 DEF ClaimFails, CommandFails
  <2>4. ASSUME NEW r \in Requests, GetExisting(r) PROVE OrphanInv'
    BY <2>4 DEF GetExisting, faultVars
  <2>5. ASSUME NEW r \in Requests, GetFails(r) PROVE OrphanInv'
    BY <2>5 DEF GetFails
  <2>6. ASSUME NEW r \in Requests, CheckCustomer(r) PROVE OrphanInv'
    BY <2>6 DEF CheckCustomer, faultVars
  <2>7. ASSUME NEW r \in Requests, InsertTicket(r) PROVE OrphanInv'
    BY <2>7 DEF InsertTicket, faultVars
  <2>8. ASSUME NEW r \in Requests, RunWorkflow(r) PROVE OrphanInv'
    BY <2>8 DEF RunWorkflow, faultVars
  <2>9. ASSUME NEW r \in Requests, FailsBeforeCommit(r) PROVE OrphanInv'
    BY <2>9 DEF FailsBeforeCommit, faultVars
  <2>10. ASSUME NEW r \in Requests, FailsAfterCommit(r) PROVE OrphanInv'
    BY <2>10 DEF FailsAfterCommit
  <2>11. ASSUME NEW r \in Requests, Complete(r) PROVE OrphanInv'
    BY <2>11 DEF Complete, faultVars
  <2>12. ASSUME NEW r \in Requests, CompleteFails(r) PROVE OrphanInv'
    BY <2>12 DEF CompleteFails, CommandFails
  <2>13. ASSUME NEW r \in Requests, Release(r) PROVE OrphanInv'
    BY <2>13 DEF Release, faultVars
  <2>14. ASSUME NEW r \in Requests, ReleaseFails(r) PROVE OrphanInv'
    BY <2>14 DEF ReleaseFails, CommandFails
  <2>15. ASSUME NEW r \in Requests, ApplyLate(r) PROVE OrphanInv'
    BY <2>15 DEF ApplyLate, requestVars, faultVars
  <2>16. ASSUME NEW k \in Keys, LoseKey(k) PROVE OrphanInv'
    BY <2>16 DEF LoseKey, requestVars
  <2>17. CASE RemoveCustomer
    BY <2>17 DEF RemoveCustomer, requestVars, faultVars
  <2>18. CASE Crash
    BY <2>18 DEF Crash
  <2>19. CASE UNCHANGED vars
    BY <2>19 DEF vars, requestVars, faultVars
  <2> HIDE DEF TypeOK, ControlInv, OrphanInv
  <2> QED
    BY <2>1, <2>2, <2>3, <2>4, <2>5, <2>6, <2>7, <2>8, <2>9, <2>10, <2>11, <2>12,
       <2>13, <2>14, <2>15, <2>16, <2>17, <2>18, <2>19 DEF Next, Handle, Environment
<1> QED
  BY <1>1, <1>2, TypeAndKeys, ControlCorrect, PTL DEF Spec

\* What a step that takes from a set, adds one element or removes one does to its size.
LEMMA SizeOfPart ==
    ASSUME NEW S, NEW T, IsFiniteSet(S), T \subseteq S
    PROVE  /\ Cardinality(T) <= Cardinality(S)
           /\ Cardinality(T) \in Nat /\ Cardinality(S) \in Nat
<1>1. IsFiniteSet(T) /\ Cardinality(T) <= Cardinality(S)
  BY FS_Subset
<1> QED
  BY <1>1, FS_CardinalityType

LEMMA SizeWithOneMore ==
    ASSUME NEW S, NEW T, NEW x, IsFiniteSet(S), T \subseteq S \cup {x}
    PROVE  /\ Cardinality(T) <= Cardinality(S) + 1
           /\ Cardinality(T) \in Nat /\ Cardinality(S) \in Nat
<1>1. /\ IsFiniteSet(S \cup {x}) /\ Cardinality(S) \in Nat
      /\ Cardinality(S \cup {x}) = IF x \in S THEN Cardinality(S) ELSE Cardinality(S) + 1
  BY FS_AddElement, FS_CardinalityType
<1>2. /\ Cardinality(T) <= Cardinality(S \cup {x})
      /\ Cardinality(T) \in Nat /\ Cardinality(S \cup {x}) \in Nat
  BY <1>1, SizeOfPart
<1> QED
  BY <1>1, <1>2

LEMMA SizeWithOneLess ==
    ASSUME NEW S, NEW T, NEW x \in S, IsFiniteSet(S), T \subseteq S \ {x}
    PROVE  /\ Cardinality(T) <= Cardinality(S) - 1
           /\ Cardinality(T) \in Nat /\ Cardinality(S) \in Nat
<1>1. /\ IsFiniteSet(S \ {x}) /\ Cardinality(S) \in Nat
      /\ Cardinality(S \ {x}) = Cardinality(S) - 1
  BY FS_RemoveElement, FS_CardinalityType
<1>2. /\ Cardinality(T) <= Cardinality(S \ {x})
      /\ Cardinality(T) \in Nat /\ Cardinality(S \ {x}) \in Nat
  BY <1>1, SizeOfPart
<1> QED
  BY <1>1, <1>2

\* What the environment has paid for so far.
Paid == keyLosses + lateFailures

LEMMA AccountCorrect == Spec => []AccountInv
<1>1. Init => AccountInv
  <2> SUFFICES ASSUME Init, NEW k \in Keys PROVE Account(k)
    BY DEF AccountInv
  <2>1. Open(k) = {} /\ Doomed(k) = {} /\ Free(k) = 1
    BY DEF Init, Open, Doomed, Free, Executing
  <2> QED
    BY <2>1, FS_EmptySet DEF Account, Init
<1>2. TypeOK /\ TypeOK' /\ ControlInv /\ AccountInv /\ [Next]_vars => AccountInv'
  <2> SUFFICES ASSUME TypeOK, TypeOK', ControlInv, AccountInv, [Next]_vars, NEW k \in Keys
               PROVE  Account(k)'
    BY DEF AccountInv
  <2>k. /\ keyLosses \in Nat /\ lateFailures \in Nat
        /\ keyLosses' \in Nat /\ lateFailures' \in Nat
    BY Bounds DEF TypeOK
  <2>0. /\ IsFiniteSet(Open(k)) /\ IsFiniteSet(Doomed(k))
        /\ Free(k) \in Nat /\ Free(k)' \in Nat /\ Paid \in Nat /\ Paid' \in Nat
        /\ Cardinality(Open(k)) + Cardinality(Doomed(k)) + Free(k) <= 1 + Paid
    <3>1. IsFiniteSet(Open(k)) /\ IsFiniteSet(Doomed(k))
      BY FiniteRequests, FS_Subset DEF Open, Doomed
    <3>2. Free(k) \in Nat /\ Free(k)' \in Nat
      BY DEF Free
    <3>3. Paid \in Nat /\ Paid' \in Nat
      <4>1. Paid = keyLosses + lateFailures /\ Paid' = keyLosses' + lateFailures'
        BY DEF Paid
      <4>2. \A m, n \in Nat : m + n \in Nat
        OBVIOUS
      <4> QED
        BY <2>k, <4>1, <4>2, Zenon
    <3>4. /\ Cardinality(Open(k)) \in Nat /\ Cardinality(Doomed(k)) \in Nat
          /\ Account(k)
      BY <3>1, FS_CardinalityType DEF AccountInv
    <3>5. Cardinality(Open(k)) + Cardinality(Doomed(k)) + Free(k) <= 1 + Paid
      BY <3>2, <3>4, <2>k DEF Account, Paid
    <3> QED
      BY <3>1, <3>2, <3>3, <3>5
  <2>1. ASSUME Cardinality(Open(k)') + Cardinality(Doomed(k)') + Free(k)' <= 1 + Paid'
        PROVE  Account(k)'
    <3>1. /\ IsFiniteSet(Open(k)') /\ IsFiniteSet(Doomed(k)')
      BY FiniteRequests, FS_Subset DEF Open, Doomed
    <3>2. Cardinality(Open(k)') \in Nat /\ Cardinality(Doomed(k)') \in Nat
      BY <3>1, FS_CardinalityType
    <3> QED
      BY <2>0, <2>1, <2>k, <3>2 DEF Account, Paid
  \* The ways a step changes the account.
  <2>a. ASSUME Open(k)' \subseteq Open(k), Doomed(k)' \subseteq Doomed(k),
               Free(k)' + Paid <= Free(k) + Paid'
        PROVE  Account(k)'
    <3>1. /\ Cardinality(Open(k)') <= Cardinality(Open(k))
          /\ Cardinality(Open(k)') \in Nat /\ Cardinality(Open(k)) \in Nat
      BY <2>0, <2>a, SizeOfPart
    <3>2. /\ Cardinality(Doomed(k)') <= Cardinality(Doomed(k))
          /\ Cardinality(Doomed(k)') \in Nat /\ Cardinality(Doomed(k)) \in Nat
      BY <2>0, <2>a, SizeOfPart
    <3>3. Cardinality(Open(k)') + Cardinality(Doomed(k)') + Free(k)' <= 1 + Paid'
      BY <2>0, <2>a, <3>1, <3>2
    <3> QED
      BY <2>1, <3>3
  <2>b. ASSUME NEW r \in Requests, Open(k)' \subseteq Open(k) \cup {r},
               Doomed(k)' \subseteq Doomed(k), Free(k)' + 1 + Paid <= Free(k) + Paid'
        PROVE  Account(k)'
    <3>1. /\ Cardinality(Open(k)') <= Cardinality(Open(k)) + 1
          /\ Cardinality(Open(k)') \in Nat /\ Cardinality(Open(k)) \in Nat
      BY <2>0, <2>b, SizeWithOneMore
    <3>2. /\ Cardinality(Doomed(k)') <= Cardinality(Doomed(k))
          /\ Cardinality(Doomed(k)') \in Nat /\ Cardinality(Doomed(k)) \in Nat
      BY <2>0, <2>b, SizeOfPart
    <3>3. Cardinality(Open(k)') + Cardinality(Doomed(k)') + Free(k)' <= 1 + Paid'
      BY <2>0, <2>b, <3>1, <3>2
    <3> QED
      BY <2>1, <3>3
  <2>c. ASSUME NEW r \in Requests, Open(k)' \subseteq Open(k),
               Doomed(k)' \subseteq Doomed(k) \cup {r}, Free(k)' + 1 + Paid <= Free(k) + Paid'
        PROVE  Account(k)'
    <3>1. /\ Cardinality(Open(k)') <= Cardinality(Open(k))
          /\ Cardinality(Open(k)') \in Nat /\ Cardinality(Open(k)) \in Nat
      BY <2>0, <2>c, SizeOfPart
    <3>2. /\ Cardinality(Doomed(k)') <= Cardinality(Doomed(k)) + 1
          /\ Cardinality(Doomed(k)') \in Nat /\ Cardinality(Doomed(k)) \in Nat
      BY <2>0, <2>c, SizeWithOneMore
    <3>3. Cardinality(Open(k)') + Cardinality(Doomed(k)') + Free(k)' <= 1 + Paid'
      BY <2>0, <2>c, <3>1, <3>2
    <3> QED
      BY <2>1, <3>3
  <2>d. ASSUME NEW r \in Open(k), Open(k)' \subseteq Open(k) \ {r},
               Doomed(k)' \subseteq Doomed(k), Free(k)' + Paid <= Free(k) + 1 + Paid'
        PROVE  Account(k)'
    <3>1. /\ Cardinality(Open(k)') <= Cardinality(Open(k)) - 1
          /\ Cardinality(Open(k)') \in Nat /\ Cardinality(Open(k)) \in Nat
      BY <2>0, <2>d, SizeWithOneLess
    <3>2. /\ Cardinality(Doomed(k)') <= Cardinality(Doomed(k))
          /\ Cardinality(Doomed(k)') \in Nat /\ Cardinality(Doomed(k)) \in Nat
      BY <2>0, <2>d, SizeOfPart
    <3>3. Cardinality(Open(k)') + Cardinality(Doomed(k)') + Free(k)' <= 1 + Paid'
      BY <2>0, <2>d, <3>1, <3>2
    <3> QED
      BY <2>1, <3>3
  <2>e. ASSUME NEW r \in Doomed(k), Open(k)' \subseteq Open(k),
               Doomed(k)' \subseteq Doomed(k) \ {r}, Free(k)' + Paid <= Free(k) + 1 + Paid'
        PROVE  Account(k)'
    <3>1. /\ Cardinality(Open(k)') <= Cardinality(Open(k))
          /\ Cardinality(Open(k)') \in Nat /\ Cardinality(Open(k)) \in Nat
      BY <2>0, <2>e, SizeOfPart
    <3>2. /\ Cardinality(Doomed(k)') <= Cardinality(Doomed(k)) - 1
          /\ Cardinality(Doomed(k)') \in Nat /\ Cardinality(Doomed(k)) \in Nat
      BY <2>0, <2>e, SizeWithOneLess
    <3>3. Cardinality(Open(k)') + Cardinality(Doomed(k)') + Free(k)' <= 1 + Paid'
      BY <2>0, <2>e, <3>1, <3>2
    <3> QED
      BY <2>1, <3>3
  \* A step that leaves the account alone, or takes from it.
  <2>f. ASSUME Open(k)' \subseteq Open(k), Doomed(k)' \subseteq Doomed(k),
               Free(k)' <= Free(k), UNCHANGED <<keyLosses, lateFailures>>
        PROVE  Account(k)'
    <3>1. Free(k)' + Paid <= Free(k) + Paid'
      BY <2>0, <2>f, <2>k DEF Paid
    <3> QED
      BY <2>a, <2>f, <3>1
  <2> USE StoreValues, Markers, Bounds
      DEF TypeOK, ControlInv, Open, Doomed, Free, Applied, Goto, Answer, Raise, PC, Active,
          Executing, RedisOps, faultVars
  <2>2. ASSUME NEW r \in Requests, Receive(r) PROVE Account(k)'
    BY <2>f, <2>2 DEF Receive
  <2>3. ASSUME NEW r \in Requests, Claim(r) PROVE Account(k)'
    <3>1. CASE reqKey[r] = k /\ store[k] = Absent
      <4>1. /\ Open(k)' \subseteq Open(k) \cup {r} /\ Doomed(k)' \subseteq Doomed(k)
            /\ Free(k)' = 0 /\ Free(k) = 1
            /\ UNCHANGED <<keyLosses, lateFailures>>
        BY <2>3, <3>1 DEF Claim
      <4>2. Free(k)' + 1 + Paid <= Free(k) + Paid'
        BY <4>1, <2>k DEF Paid
      <4> QED
        BY <2>b, <4>1, <4>2
    <3>2. CASE ~(reqKey[r] = k /\ store[k] = Absent)
      BY <2>f, <2>3, <3>2 DEF Claim
    <3> QED
      BY <3>1, <3>2
  <2>4. ASSUME NEW r \in Requests, ClaimFails(r) PROVE Account(k)'
    BY <2>f, <2>4 DEF ClaimFails, CommandFails
  <2>5. ASSUME NEW r \in Requests, GetExisting(r) \/ GetFails(r) PROVE Account(k)'
    BY <2>f, <2>5 DEF GetExisting, GetFails
  <2>6. ASSUME NEW r \in Requests, CheckCustomer(r) \/ FailsBeforeCommit(r) PROVE Account(k)'
    BY <2>f, <2>6 DEF CheckCustomer, FailsBeforeCommit
  <2>7. ASSUME NEW r \in Requests, InsertTicket(r) PROVE Account(k)'
    BY <2>f, <2>7 DEF InsertTicket
  <2>8. ASSUME NEW r \in Requests, RunWorkflow(r) PROVE Account(k)'
    BY <2>f, <2>8 DEF RunWorkflow
  <2>9. ASSUME NEW r \in Requests, FailsAfterCommit(r) PROVE Account(k)'
    <3>1. /\ Open(k)' \subseteq Open(k) /\ Doomed(k)' \subseteq Doomed(k) \cup {r}
          /\ Free(k)' = Free(k)
          /\ keyLosses' = keyLosses /\ lateFailures' = lateFailures + 1
      BY <2>9 DEF FailsAfterCommit
    <3>2. Free(k)' + 1 + Paid <= Free(k) + Paid'
      BY <3>1, <2>0, <2>k DEF Paid
    <3> QED
      BY <2>c, <3>1, <3>2
  <2>10. ASSUME NEW r \in Requests, Complete(r) \/ CompleteFails(r) PROVE Account(k)'
    BY <2>f, <2>10 DEF Complete, CompleteFails, CommandFails
  \* Redis executes or drops r's release: one holder less, the key perhaps free.
  <2>g. ASSUME NEW r \in Requests, reqKey[r] = k, pc[r] = "release" \/ late[r] = "release",
               pc'[r] # "release", pc'[r] \notin Executing, late'[r] = "none",
               \A q \in Requests \ {r} : pc'[q] = pc[q] /\ late'[q] = late[q],
               UNCHANGED <<tickets, reqKey, keyLosses, lateFailures>>
        PROVE  Account(k)'
    <3>1. Free(k)' + Paid <= Free(k) + 1 + Paid'
      BY <2>g, <2>k DEF Paid
    <3>2. CASE r \in tickets
      <4>1. Open(k)' \subseteq Open(k) /\ Doomed(k)' \subseteq Doomed(k) \ {r} /\ r \in Doomed(k)
        BY <2>g, <3>2
      <4> QED
        BY <2>e, <3>1, <4>1
    <3>3. CASE r \notin tickets
      <4>1. Open(k)' \subseteq Open(k) \ {r} /\ r \in Open(k) /\ Doomed(k)' \subseteq Doomed(k)
        BY <2>g, <3>3
      <4> QED
        BY <2>d, <3>1, <4>1
    <3> QED
      BY <3>2, <3>3
  <2>11. ASSUME NEW r \in Requests, Release(r) PROVE Account(k)'
    <3>1. CASE reqKey[r] = k
      BY <2>g, <2>11, <3>1 DEF Release
    <3>2. CASE reqKey[r] # k
      BY <2>f, <2>11, <3>2 DEF Release
    <3> QED
      BY <3>1, <3>2
  <2>12. ASSUME NEW r \in Requests, ReleaseFails(r) PROVE Account(k)'
    <3>1. CASE reqKey[r] = k /\ late' = late
      BY <2>g, <2>12, <3>1 DEF ReleaseFails, CommandFails
    <3>2. CASE reqKey[r] = k /\ late' # late
      BY <2>f, <2>12, <3>2 DEF ReleaseFails, CommandFails
    <3>3. CASE reqKey[r] # k
      BY <2>f, <2>12, <3>3 DEF ReleaseFails, CommandFails
    <3> QED
      BY <3>1, <3>2, <3>3
  <2>13. ASSUME NEW r \in Requests, ApplyLate(r) PROVE Account(k)'
    <3>1. CASE reqKey[r] = k /\ late[r] = "release"
      BY <2>g, <2>13, <3>1 DEF ApplyLate, requestVars
    <3>2. CASE ~(reqKey[r] = k /\ late[r] = "release")
      BY <2>f, <2>13, <3>2 DEF ApplyLate, requestVars
    <3> QED
      BY <3>1, <3>2
  <2>14. ASSUME NEW l \in Keys, LoseKey(l) PROVE Account(k)'
    <3>1. /\ Open(k)' = Open(k) /\ Doomed(k)' = Doomed(k)
          /\ Free(k)' \in {Free(k), 1}
          /\ keyLosses' = keyLosses + 1 /\ lateFailures' = lateFailures
      BY <2>14 DEF LoseKey, requestVars
    <3>2. Free(k)' + Paid <= Free(k) + Paid'
      BY <3>1, <2>0, <2>k DEF Paid
    <3> QED
      BY <2>a, <3>1, <3>2
  <2>15. CASE RemoveCustomer \/ Crash \/ UNCHANGED vars
    BY <2>f, <2>15 DEF RemoveCustomer, Crash, vars, requestVars
  <2> QED
    BY <2>2, <2>3, <2>4, <2>5, <2>6, <2>7, <2>8, <2>9, <2>10, <2>11, <2>12, <2>13, <2>14, <2>15
       DEF Next, Handle, Environment
<1> QED
  BY <1>1, <1>2, TypeAndKeys, ControlCorrect, PTL DEF Spec

-----------------------------------------------------------------------------
(* The theorems *)

\* The variables keep their types.
THEOREM TypeCorrect == Spec => []TypeOK
  BY TypeAndKeys, PTL

\* The handlers of create_ticket, however they interleave and fail, keep their
\* common invariant.
THEOREM Invariance == Spec => []IInv
<1>1. TypeOK /\ KeyInv /\ ControlInv /\ ResponseInv /\ ClaimInv /\ TicketInv
        /\ OrphanInv /\ AccountInv => IInv
  BY DEF IInv
<1> QED
  BY <1>1, TypeAndKeys, ControlCorrect, ResponseCorrect, ClaimCorrect, TicketCorrect,
     OrphanCorrect, AccountCorrect, PTL

\* One handler per key runs _execute, until a claim is lost.
THEOREM ExclusiveExecutionHolds == Spec => []ExclusiveExecution
<1>1. IInv => ExclusiveExecution
  BY DEF IInv, ClaimInv, ExclusiveExecution, Holds
<1> QED
  BY <1>1, Invariance, PTL

\* Responses, stored or given, are those of finished executions of the key.
THEOREM AnswersAreRealHolds == Spec => []AnswersAreReal
<1>1. IInv => AnswersAreReal
  BY DEF IInv, ResponseInv, AnswersAreReal
<1> QED
  BY <1>1, Invariance, PTL

\* Two successful answers under one key are the same, until the key is lost.
THEOREM SameAnswerPerKeyHolds == Spec => []SameAnswerPerKey
<1>1. IInv => SameAnswerPerKey
  BY DEF IInv, ClaimInv, SameAnswerPerKey
<1> QED
  BY <1>1, Invariance, PTL

\* A request answered 404 or 409 created no ticket.
THEOREM RefusalCreatesNothingHolds == Spec => []RefusalCreatesNothing
<1>1. IInv => RefusalCreatesNothing
  BY DEF IInv, ControlInv, RefusalCreatesNothing
<1> QED
  BY <1>1, Invariance, PTL

\* No claim is orphaned while neither Redis nor the process fails.
THEOREM NoOrphanClaimHolds == Spec => []NoOrphanClaim
<1>1. IInv => NoOrphanClaim
  BY DEF IInv, OrphanInv, NoOrphanClaim
<1> QED
  BY <1>1, Invariance, PTL

\* The tickets of a key are at most one more than its losses and late failures.
THEOREM DuplicatesAccountedHolds == Spec => []DuplicatesAccounted
<1>1. IInv => DuplicatesAccounted
  <2> SUFFICES ASSUME IInv, NEW k \in Keys
               PROVE  Cardinality(TicketsOf(k)) <= 1 + keyLosses + lateFailures
    BY DEF DuplicatesAccounted
  <2>1. TicketsOf(k) \subseteq Open(k)
    BY DEF IInv, TypeOK, TicketsOf, Open
  <2>2. /\ IsFiniteSet(Open(k)) /\ IsFiniteSet(Doomed(k))
    BY FiniteRequests, FS_Subset DEF Open, Doomed
  <2>3. /\ Cardinality(TicketsOf(k)) <= Cardinality(Open(k))
        /\ Cardinality(TicketsOf(k)) \in Nat /\ Cardinality(Open(k)) \in Nat
        /\ Cardinality(Doomed(k)) \in Nat
    BY <2>1, <2>2, FS_Subset, FS_CardinalityType
  <2>4. Cardinality(Open(k)) + Cardinality(Doomed(k)) + Free(k) <= 1 + keyLosses + lateFailures
    BY DEF IInv, AccountInv, Account
  <2>5. Free(k) \in Nat /\ keyLosses \in Nat /\ lateFailures \in Nat
    BY Bounds DEF IInv, TypeOK, Free
  <2> QED
    BY <2>3, <2>4, <2>5
<1> QED
  BY <1>1, Invariance, PTL

\* A retried POST /tickets creates no second ticket as long as no claim is lost and no
\* execution fails after its commit, whatever Redis commands fail or come late and
\* wherever the process dies: NeverASecondTicket is violated by these two alone.
THEOREM SecondTicketNeedsALapse ==
    Spec => []((keyLosses = 0 /\ lateFailures = 0) => NeverASecondTicket)
<1>1. DuplicatesAccounted => ((keyLosses = 0 /\ lateFailures = 0) => NeverASecondTicket)
  BY DEF DuplicatesAccounted, NeverASecondTicket
<1> QED
  BY <1>1, DuplicatesAccountedHolds, PTL

\* A stored response is not overwritten or deleted: whoever could do so would
\* hold the claim, and then the key would hold the sentinel.
THEOREM StoredResponseStaysHolds == Spec => StoredResponseStays
<1>1. IInv /\ [Next]_vars =>
        [\A k \in Keys : (store[k] \in Requests /\ keyLosses = 0 /\ keyLosses' = 0)
            => store'[k] = store[k]]_vars
  <2> SUFFICES ASSUME IInv, Next, NEW k \in Keys,
                      store[k] \in Requests, keyLosses = 0, keyLosses' = 0
               PROVE  store'[k] = store[k]
    BY DEF vars
  <2> USE StoreValues, Bounds
      DEF IInv, TypeOK, ControlInv, ClaimInv, Holds, Executing, Applied, RedisOps
  <2>1. ASSUME NEW r \in Requests, reqKey[r] = k PROVE ~Holds(r, k)
    BY <2>1
  <2>2. ASSUME NEW r \in Requests, Claim(r) \/ ClaimFails(r) PROVE store'[k] = store[k]
    BY <2>2 DEF Claim, ClaimFails, CommandFails
  <2>3. ASSUME NEW r \in Requests,
               Complete(r) \/ CompleteFails(r) \/ Release(r) \/ ReleaseFails(r)
        PROVE  store'[k] = store[k]
    BY <2>1, <2>3 DEF Complete, CompleteFails, Release, ReleaseFails, CommandFails
  <2>4. ASSUME NEW r \in Requests, ApplyLate(r) PROVE store'[k] = store[k]
    BY <2>1, <2>4 DEF ApplyLate
  <2>5. ASSUME NEW l \in Keys, LoseKey(l) PROVE FALSE
    BY <2>5 DEF LoseKey
  <2> QED
    BY <2>2, <2>3, <2>4, <2>5
       DEF Next, Handle, Environment, Receive, GetExisting, GetFails, CheckCustomer,
           InsertTicket, RunWorkflow, FailsBeforeCommit, FailsAfterCommit,
           RemoveCustomer, Crash
<1> QED
  BY <1>1, Invariance, PTL DEF Spec, StoredResponseStays

-----------------------------------------------------------------------------
(* The refinement *)

\* A function that differs from another at one point only is an update of it.
LEMMA UpdateAt ==
    ASSUME NEW S, NEW a \in S, NEW v, NEW f, NEW g,
           f = [x \in S |-> f[x]], g = [x \in S |-> g[x]],
           g[a] = v, \A x \in S \ {a} : g[x] = f[x]
    PROVE  g = [f EXCEPT ![a] = v]
  OBVIOUS

\* As long as r has not committed a ticket but may still do so, the account of
\* its key has room for it: the guard of Perform.
LEMMA RoomForTicket ==
    ASSUME IInv, NEW r \in Requests, reqKey[r] \in Keys,
           pc[r] \in Executing, r \notin tickets
    PROVE  Cardinality(TicketsOf(reqKey[r])) <= keyLosses + lateFailures
<1> DEFINE k == reqKey[r]
<1>1. /\ IsFiniteSet(Open(k)) /\ IsFiniteSet(Doomed(k)) /\ IsFiniteSet(TicketsOf(k))
  BY FiniteRequests, FS_Subset DEF IInv, TypeOK, Open, Doomed, TicketsOf
<1>2. /\ TicketsOf(k) \cup {r} \subseteq Open(k) /\ r \notin TicketsOf(k)
  BY DEF IInv, TypeOK, TicketsOf, Open
<1>3. /\ Cardinality(TicketsOf(k) \cup {r}) = Cardinality(TicketsOf(k)) + 1
      /\ Cardinality(TicketsOf(k) \cup {r}) <= Cardinality(Open(k))
      /\ Cardinality(TicketsOf(k)) \in Nat /\ Cardinality(Open(k)) \in Nat
      /\ Cardinality(Doomed(k)) \in Nat
  BY <1>1, <1>2, FS_AddElement, FS_Subset, FS_CardinalityType
<1>4. Cardinality(Open(k)) + Cardinality(Doomed(k)) + Free(k) <= 1 + keyLosses + lateFailures
  BY DEF IInv, AccountInv, Account
<1>5. Free(k) \in Nat /\ keyLosses \in Nat /\ lateFailures \in Nat
  BY Bounds DEF IInv, TypeOK, Free
<1> QED
  BY <1>3, <1>4, <1>5

\* The instance of AtMostOnce counts as this module does.
LEMMA SameCardinality == \A S : Promise!Cardinality(S) = Cardinality(S)
  BY DEF Promise!Cardinality, Cardinality

\* create_ticket keeps the promise of AtMostOnce, with every lost key and every
\* late failure a lapse: a step of it is one of AtMostOnce or leaves that unchanged.
THEOREM Refinement == Spec => ImplementsAtMostOnce
<1>1. Init => Promise!Init
  BY DEF Init, Promise!Init, TicketsOf, StatusOf, Succeeded
<1>2. IInv /\ [Next]_vars => [Promise!Next]_(Promise!vars)
  <2> SUFFICES ASSUME IInv, [Next]_vars
               PROVE  [Promise!Next]_(Promise!vars)
    OBVIOUS
  <2>0. keyLosses \in Nat /\ lateFailures \in Nat
    BY Bounds DEF IInv, TypeOK
  <2> USE <2>0 DEF IInv, TypeOK, PC, Active, Executing, Goto, Answer
  <2> DEFINE MayLapse == (keyLosses + lateFailures)' \in
                             {keyLosses + lateFailures, keyLosses + lateFailures + 1}
  \* A request is pending as long as its handler runs.
  <2>a. ASSUME NEW r \in Requests PROVE StatusOf(r) = "pending" <=> pc[r] \in {"idle"} \cup Active
    BY <2>a DEF StatusOf, Succeeded
  <2>1. ASSUME NEW r \in Requests, Receive(r) PROVE [Promise!Next]_(Promise!vars)
    <3>1. PICK k \in Keys \cup {NoKey} :
              /\ reqKey' = [reqKey EXCEPT ![r] = k]
              /\ Goto(r, IF k = NoKey THEN "check" ELSE "claim")
      BY <2>1 DEF Receive
    <3>2. /\ reqKey[r] = NoKey /\ r \notin tickets /\ pc[r] = "idle"
          /\ UNCHANGED <<tickets, code, body, keyLosses, lateFailures>>
      BY <2>1 DEF Receive, ControlInv, faultVars
    <3>3. \A q \in Requests : StatusOf(q)' = StatusOf(q)
      BY <3>1, <3>2 DEF StatusOf, Succeeded
    <3>4. \A l \in Keys : TicketsOf(l)' = TicketsOf(l)
      BY <3>1, <3>2 DEF TicketsOf
    <3>5. CASE k = NoKey
      <4>1. reqKey' = reqKey
        BY <3>1, <3>2, <3>5
      <4> QED
        BY <4>1, <3>2, <3>3, <3>4 DEF Promise!vars
    <3>6. CASE k \in Keys
      <4>1. Promise!Submit(r, k)
        BY <3>1, <3>2, <3>3, <3>4, <3>6, <2>a DEF Promise!Submit
      <4> QED
        BY <4>1, <3>6 DEF Promise!Next
    <3> QED
      BY <3>5, <3>6
  \* A step that neither creates a ticket nor ends a request.
  <2>2. ASSUME UNCHANGED <<reqKey, tickets, body, keyLosses, lateFailures>>,
               \A q \in Requests : StatusOf(q)' = StatusOf(q)
        PROVE  [Promise!Next]_(Promise!vars)
    BY <2>2 DEF Promise!vars, TicketsOf
  \* A step that ends the requests in S, or none, without a new ticket.
  <2>3. ASSUME UNCHANGED <<reqKey, body>>, NEW S \in SUBSET Requests,
               \A k \in Keys : TicketsOf(k)' = TicketsOf(k),
               MayLapse,
               \A q \in S : StatusOf(q) = "pending" /\ StatusOf(q)' = "failed",
               \A q \in Requests \ S : StatusOf(q)' = StatusOf(q)
        PROVE  [Promise!Next]_(Promise!vars)
    <3>1. Promise!Fail(S)
      BY <2>3 DEF Promise!Fail, Promise!MayLapse
    <3> QED
      BY <3>1 DEF Promise!Next
  \* A step whose only effect is that a lapse may be counted.
  <2>n. ASSUME UNCHANGED <<reqKey, body>>, MayLapse,
               \A k \in Keys : TicketsOf(k)' = TicketsOf(k),
               \A q \in Requests : StatusOf(q)' = StatusOf(q)
        PROVE  [Promise!Next]_(Promise!vars)
    <3> DEFINE S == {}
    <3>1. /\ \A q \in S : StatusOf(q) = "pending" /\ StatusOf(q)' = "failed"
          /\ \A q \in Requests \ S : StatusOf(q)' = StatusOf(q)
          /\ S \in SUBSET Requests
      BY <2>n
    <3> HIDE DEF S
    <3> QED
      BY <2>3, <2>n, <3>1
  \* A step that answers r with the ticket t of its key, or with its own.
  <2>4. ASSUME NEW r \in Requests, NEW t \in Requests, NEW c \in {200, 201},
               Answer(r, c, t), UNCHANGED <<reqKey, tickets, keyLosses, lateFailures>>,
               pc[r] \in Active,
               IF reqKey[r] = NoKey THEN t = r ELSE t \in TicketsOf(reqKey[r])
        PROVE  [Promise!Next]_(Promise!vars)
    <3>1. /\ StatusOf(r)' = "ok"
          /\ \A q \in Requests \ {r} : StatusOf(q)' = StatusOf(q)
      BY <2>4 DEF StatusOf, Succeeded
    <3>2. /\ [q \in Requests |-> StatusOf(q)]' =
                [[q \in Requests |-> StatusOf(q)] EXCEPT ![r] = "ok"]
          /\ [q \in Requests |-> StatusOf(q)][r] = "pending"
      <4> DEFINE f == [q \in Requests |-> StatusOf(q)]
      <4>1. /\ f = [q \in Requests |-> f[q]] /\ f' = [q \in Requests |-> f'[q]]
            /\ f'[r] = "ok" /\ \A q \in Requests \ {r} : f'[q] = f[q]
            /\ f[r] = "pending"
        BY <2>4, <3>1, <2>a
      <4> HIDE DEF f
      <4>2. f' = [f EXCEPT ![r] = "ok"]
        BY <4>1, UpdateAt
      <4> QED
        BY <4>1, <4>2 DEF f
    <3>3. t \in IF reqKey[r] = NoKey
                THEN {r} ELSE [k \in Keys |-> TicketsOf(k)][reqKey[r]]
      BY <2>4
    <3>4. body' = [body EXCEPT ![r] = t]
      BY <2>4
    <3>5. [k \in Keys |-> TicketsOf(k)]' = [k \in Keys |-> TicketsOf(k)]
      BY <2>4 DEF TicketsOf
    <3>6. Promise!Report(r)
      BY <2>4, <3>2, <3>3, <3>4, <3>5 DEF Promise!Report
    <3> QED
      BY <3>6 DEF Promise!Next
  \* A step that answers r with an error.
  <2> DEFINE EndsInError(q) == /\ pc[q] \in Active /\ Goto(q, "done")
                               /\ code'[q] \in {404, 409, 500, 503}
                               /\ \A o \in Requests \ {q} : code'[o] = code[o]
                               /\ UNCHANGED <<reqKey, body>>
  <2>5. ASSUME NEW r \in Requests, EndsInError(r),
               \A k \in Keys : TicketsOf(k)' = TicketsOf(k),
               MayLapse
        PROVE  [Promise!Next]_(Promise!vars)
    <3>1. /\ StatusOf(r)' = "failed"
          /\ \A q \in Requests \ {r} : StatusOf(q)' = StatusOf(q)
      BY <2>5 DEF StatusOf, Succeeded
    <3> DEFINE S == {r}
    <3>2. /\ \A q \in S : StatusOf(q) = "pending" /\ StatusOf(q)' = "failed"
          /\ \A q \in Requests \ S : StatusOf(q)' = StatusOf(q)
      BY <2>5, <2>a, <3>1
    <3>3. S \in SUBSET Requests
      OBVIOUS
    <3> HIDE DEF S, MayLapse, IInv
    <3>4. UNCHANGED <<reqKey, body>>
      BY <2>5
    <3> HIDE DEF EndsInError
    <3> QED
      BY <2>3, <2>5, <3>2, <3>3, <3>4, Zenon
  \* A step that answers r with an error and leaves the rest alone.
  <2>e. ASSUME NEW r \in Requests, EndsInError(r),
               UNCHANGED <<tickets, keyLosses, lateFailures>>
        PROVE  [Promise!Next]_(Promise!vars)
    <3> HIDE DEF IInv
    <3>1. UNCHANGED <<tickets, reqKey, keyLosses, lateFailures>>
      BY <2>e
    <3> HIDE DEF EndsInError
    <3>2. \A k \in Keys : TicketsOf(k)' = TicketsOf(k)
      BY <3>1, Zenon DEF TicketsOf
    <3>3. MayLapse
      BY <2>0, <3>1
    <3> HIDE DEF MayLapse
    <3> QED
      BY <2>5, <2>e, <3>2, <3>3, Zenon
  \* A step within r's handler.
  <2>6. ASSUME NEW r \in Requests, pc[r] \in Active, NEW label \in Active, Goto(r, label),
               \A q \in Requests \ {r} : code'[q] = code[q],
               UNCHANGED <<reqKey, tickets, body, keyLosses, lateFailures>>
        PROVE  [Promise!Next]_(Promise!vars)
    BY <2>2, <2>6 DEF StatusOf, Succeeded
  <2>7. ASSUME NEW r \in Requests, pc[r] \in {"check", "insert"}, NEW c \in {404, 500},
               Raise(r, c), UNCHANGED <<reqKey, tickets, keyLosses, lateFailures>>
        PROVE  [Promise!Next]_(Promise!vars)
    BY <2>e, <2>6, <2>7 DEF Raise, ControlInv
  \* A step that commits r's ticket under its key; its handler goes on.
  <2>p. ASSUME NEW r \in Requests, pc[r] = "insert", reqKey[r] \in Keys,
               NEW label \in Active, Goto(r, label),
               \A q \in Requests \ {r} : code'[q] = code[q],
               tickets' = tickets \cup {r}, UNCHANGED <<reqKey, body>>,
               MayLapse
        PROVE  [Promise!Next]_(Promise!vars)
    <3>1. /\ r \notin tickets
          /\ Cardinality(TicketsOf(reqKey[r])) <= keyLosses + lateFailures
      BY <2>p, RoomForTicket DEF ControlInv
    <3>2. \A k \in Keys : TicketsOf(k)' =
              IF k = reqKey[r] THEN TicketsOf(k) \cup {r} ELSE TicketsOf(k)
      BY <2>p DEF TicketsOf
    <3>3. /\ [k \in Keys |-> TicketsOf(k)]' =
                [[k \in Keys |-> TicketsOf(k)] EXCEPT ![reqKey[r]] = @ \cup {r}]
          /\ [k \in Keys |-> TicketsOf(k)][reqKey[r]] = TicketsOf(reqKey[r])
      <4> DEFINE f == [k \in Keys |-> TicketsOf(k)]
      <4>1. /\ f = [k \in Keys |-> f[k]] /\ f' = [k \in Keys |-> f'[k]]
            /\ f[reqKey[r]] = TicketsOf(reqKey[r])
            /\ f'[reqKey[r]] = f[reqKey[r]] \cup {r}
            /\ \A k \in Keys \ {reqKey[r]} : f'[k] = f[k]
        BY <2>p, <3>2
      <4> HIDE DEF f
      <4>2. f' = [f EXCEPT ![reqKey[r]] = f[reqKey[r]] \cup {r}]
        BY <2>p, <4>1, UpdateAt
      <4> QED
        BY <4>1, <4>2 DEF f
    <3>4. \A q \in Requests : StatusOf(q)' = StatusOf(q)
      BY <2>p DEF StatusOf, Succeeded
    <3>5. /\ [q \in Requests |-> StatusOf(q)]' = [q \in Requests |-> StatusOf(q)]
          /\ [q \in Requests |-> StatusOf(q)][r] = "pending"
      BY <2>p, <3>4, <2>a
    <3>6. Cardinality([k \in Keys |-> TicketsOf(k)][reqKey[r]]) <= keyLosses + lateFailures
      BY <2>p, <3>1
    <3>7. Promise!Perform(r)
      BY <2>p, <3>3, <3>5, <3>6, SameCardinality DEF Promise!Perform, Promise!MayLapse
    <3> QED
      BY <3>7 DEF Promise!Next
  <2>8. ASSUME NEW r \in Requests, Claim(r) PROVE [Promise!Next]_(Promise!vars)
    BY <2>6, <2>8 DEF Claim, faultVars
  <2>9. ASSUME NEW r \in Requests, ClaimFails(r) \/ GetFails(r) \/ CompleteFails(r)
        PROVE  [Promise!Next]_(Promise!vars)
    BY <2>e, <2>9 DEF ClaimFails, GetFails, CompleteFails, CommandFails, ControlInv
  <2>10. ASSUME NEW r \in Requests, GetExisting(r) PROVE [Promise!Next]_(Promise!vars)
    <3>1. CASE store[reqKey[r]] \in {Absent, InProgress}
      BY <2>e, <2>10, <3>1 DEF GetExisting, ControlInv, faultVars
    <3>2. CASE store[reqKey[r]] \notin {Absent, InProgress}
      <4>1. reqKey[r] \in Keys /\ reqKey[r] # NoKey
        BY <2>10, Markers DEF GetExisting, ControlInv
      <4>2. store[reqKey[r]] \in TicketsOf(reqKey[r])
        BY <3>2, <4>1 DEF ResponseInv
      <4> QED
        BY <2>4, <2>10, <3>2, <4>1, <4>2 DEF GetExisting, TicketsOf, faultVars
    <3> QED
      BY <3>1, <3>2
  <2>11. ASSUME NEW r \in Requests, CheckCustomer(r) PROVE [Promise!Next]_(Promise!vars)
    BY <2>6, <2>7, <2>11 DEF CheckCustomer, faultVars
  <2>12. ASSUME NEW r \in Requests, InsertTicket(r) PROVE [Promise!Next]_(Promise!vars)
    <3>1. CASE ~customerExists
      BY <2>7, <2>12, <3>1 DEF InsertTicket, faultVars
    <3>2. CASE customerExists
      <4>1. /\ tickets' = tickets \cup {r}
            /\ pc[r] = "insert" /\ Goto(r, "workflow")
            /\ UNCHANGED <<reqKey, code, body, keyLosses, lateFailures>>
        BY <2>12, <3>2 DEF InsertTicket, faultVars
      <4>2. CASE reqKey[r] = NoKey
        <5>1. \A k \in Keys : TicketsOf(k)' = TicketsOf(k)
          BY <4>1, <4>2, Markers DEF TicketsOf
        <5>2. \A q \in Requests : StatusOf(q)' = StatusOf(q)
          BY <4>1 DEF StatusOf, Succeeded
        <5> QED
          BY <4>1, <5>1, <5>2 DEF Promise!vars
      <4>3. CASE reqKey[r] \in Keys
        BY <2>p, <4>1, <4>3
      <4> QED
        BY <4>2, <4>3
    <3> QED
      BY <3>1, <3>2
  <2>13. ASSUME NEW r \in Requests, RunWorkflow(r) PROVE [Promise!Next]_(Promise!vars)
    BY <2>4, <2>6, <2>13 DEF RunWorkflow, faultVars
  <2>14. ASSUME NEW r \in Requests, FailsBeforeCommit(r) PROVE [Promise!Next]_(Promise!vars)
    BY <2>7, <2>14 DEF FailsBeforeCommit, faultVars
  <2>15. ASSUME NEW r \in Requests, FailsAfterCommit(r) PROVE [Promise!Next]_(Promise!vars)
    <3>1. /\ pc[r] \in {"insert", "workflow"} /\ Raise(r, 500)
          /\ tickets' = tickets \cup {r}
          /\ UNCHANGED <<reqKey, keyLosses>>
          /\ MayLapse
      BY <2>15 DEF FailsAfterCommit
    <3>2. CASE reqKey[r] = NoKey
      <4>1. EndsInError(r)
        BY <3>1, <3>2 DEF Raise, ControlInv
      <4>2. \A k \in Keys : TicketsOf(k)' = TicketsOf(k)
        BY <3>1, <3>2, Markers DEF TicketsOf
      <4> HIDE DEF MayLapse, EndsInError, IInv
      <4> QED
        BY <2>5, <3>1, <4>1, <4>2, Zenon
    <3>3. CASE reqKey[r] \in Keys
      <4>1. /\ Goto(r, "release") /\ UNCHANGED body
            /\ \A q \in Requests \ {r} : code'[q] = code[q]
        BY <3>1, <3>3, Markers DEF Raise
      <4>2. CASE pc[r] = "insert"
        BY <2>p, <3>1, <3>3, <4>1, <4>2
      <4>3. CASE pc[r] = "workflow"
        <5>1. \A k \in Keys : TicketsOf(k)' = TicketsOf(k)
          BY <3>1, <4>3 DEF ControlInv, TicketsOf
        <5>2. \A q \in Requests : StatusOf(q)' = StatusOf(q)
          BY <4>1, <4>3 DEF StatusOf, Succeeded
        <5> QED
          BY <2>n, <3>1, <4>1, <5>1, <5>2
      <4> QED
        BY <3>1, <4>2, <4>3
    <3> QED
      BY <3>2, <3>3
  <2>16. ASSUME NEW r \in Requests, Complete(r) PROVE [Promise!Next]_(Promise!vars)
    <3>1. reqKey[r] \in Keys /\ reqKey[r] # NoKey /\ r \in TicketsOf(reqKey[r])
      BY <2>16, Markers DEF Complete, ControlInv, TicketsOf
    <3> QED
      BY <2>4, <2>16, <3>1 DEF Complete, faultVars
  <2>17. ASSUME NEW r \in Requests, Release(r) \/ ReleaseFails(r)
         PROVE  [Promise!Next]_(Promise!vars)
    BY <2>e, <2>17 DEF Release, ReleaseFails, CommandFails, ControlInv, faultVars
  <2>18. ASSUME UNCHANGED <<tickets, requestVars, keyLosses, lateFailures>>
         PROVE  [Promise!Next]_(Promise!vars)
    BY <2>2, <2>18 DEF requestVars, StatusOf, Succeeded
  <2>20. ASSUME NEW k \in Keys, LoseKey(k) PROVE [Promise!Next]_(Promise!vars)
    <3>1. UNCHANGED <<tickets, requestVars>> /\ MayLapse
      BY <2>20 DEF LoseKey
    <3> QED
      BY <2>n, <3>1 DEF requestVars, TicketsOf, StatusOf, Succeeded
  <2>19. CASE Crash
    <3> DEFINE S == {q \in Requests : pc[q] \in Active}
    <3>1. /\ \A q \in S : StatusOf(q) = "pending" /\ StatusOf(q)' = "failed"
          /\ \A q \in Requests \ S : StatusOf(q)' = StatusOf(q)
      BY <2>19, <2>a DEF Crash, StatusOf, Succeeded
    <3>2. /\ \A k \in Keys : TicketsOf(k)' = TicketsOf(k)
          /\ MayLapse /\ UNCHANGED <<reqKey, body>>
      BY <2>19 DEF Crash, TicketsOf
    <3> HIDE DEF MayLapse
    <3> QED
      BY <2>3, <3>1, <3>2
  <2> QED
    BY <2>1, <2>8, <2>9, <2>10, <2>11, <2>12, <2>13, <2>14, <2>15, <2>16, <2>17, <2>18, <2>19, <2>20
       DEF Next, Handle, Environment, ApplyLate, RemoveCustomer, vars, faultVars
<1> QED
  BY <1>1, <1>2, Invariance, PTL DEF Spec, ImplementsAtMostOnce, Promise!Spec
=============================================================================
