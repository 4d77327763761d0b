------------------------ MODULE RunSyncBridge_proofs ------------------------
(***************************************************************************)
(* Theorems about RunSyncBridge, for any number of calls and loops.        *)
(***************************************************************************)
EXTENDS RunSyncBridge, TLAPS

\* Every step keeps the types.
LEMMA TypeStep ==
    ASSUME IInv, [Next]_vars
    PROVE  TypeOK'
<1> USE Identities DEF IInv, Goto, Become, callVars, jobVars, AllLoops, InLock, OnLoop,
      TypeOK, JobInv
<1>1. ASSUME NEW c \in Calls, CallFromThread(c) PROVE TypeOK'
  BY <1>1 DEF CallFromThread
<1>2. ASSUME NEW c \in Calls, CallFromHandler(c) PROVE TypeOK'
  BY <1>2 DEF CallFromHandler
<1>3. ASSUME NEW c \in Calls, AwaitOnMain(c) PROVE TypeOK'
  BY <1>3 DEF AwaitOnMain
<1>4. ASSUME NEW c \in Calls, NEW d \in Calls, CallFromCoroutine(c, d) PROVE TypeOK'
  BY <1>4 DEF CallFromCoroutine
<1>5. ASSUME NEW c \in Calls, Check(c) PROVE TypeOK'
  BY <1>5 DEF Check
<1>6. ASSUME NEW c \in Calls, Acquire(c) PROVE TypeOK'
  BY <1>6 DEF Acquire
<1>7. ASSUME NEW c \in Calls, Recheck(c) PROVE TypeOK'
  BY <1>7 DEF Recheck
<1>8. ASSUME NEW c \in Calls, Start(c) PROVE TypeOK'
  BY <1>8 DEF Start
<1>9. ASSUME NEW c \in Calls, Assign(c) PROVE TypeOK'
  BY <1>9 DEF Assign
<1>10. ASSUME NEW c \in Calls, Release(c) PROVE TypeOK'
  BY <1>10 DEF Release
<1>11. ASSUME NEW c \in Calls, Read(c) PROVE TypeOK'
  BY <1>11 DEF Read
<1>12. ASSUME NEW c \in Calls, Submit(c) PROVE TypeOK'
  BY <1>12 DEF Submit
<1>13. ASSUME NEW c \in Calls, Refuse(c) PROVE TypeOK'
  BY <1>13 DEF Refuse, GiveBack
<1>14. ASSUME NEW c \in Calls, Return(c) PROVE TypeOK'
  BY <1>14 DEF Return, GiveBack
<1>15. ASSUME NEW c \in Calls, Dispatch(c) PROVE TypeOK'
  BY <1>15 DEF Dispatch
<1>16. ASSUME NEW c \in Calls, Lookup(c) PROVE TypeOK'
  BY <1>16 DEF Lookup
<1>17. ASSUME NEW c \in Calls, Build(c) PROVE TypeOK'
  BY <1>17 DEF Build
<1>18. ASSUME NEW c \in Calls, Finish(c) PROVE TypeOK'
  BY <1>18 DEF Finish
<1>19. CASE UNCHANGED vars
  BY <1>19 DEF vars
<1> QED
  BY <1>1, <1>2, <1>3, <1>4, <1>5, <1>6, <1>7, <1>8, <1>9, <1>10, <1>11,
     <1>12, <1>13, <1>14, <1>15, <1>16, <1>17, <1>18, <1>19
  DEF Next, Arrive, RunSync, Run

\* The lock has the one holder that is between acquire and release.
LEMMA LockStep ==
    ASSUME IInv, [Next]_vars
    PROVE  LockInv'
<1> USE Identities DEF IInv, Goto, Become, callVars, jobVars, AllLoops, InLock, OnLoop,
      TypeOK, LockInv
<1>1. ASSUME NEW c \in Calls, CallFromThread(c) PROVE LockInv'
  BY <1>1 DEF CallFromThread
<1>2. ASSUME NEW c \in Calls, CallFromHandler(c) PROVE LockInv'
  BY <1>2 DEF CallFromHandler
<1>3. ASSUME NEW c \in Calls, AwaitOnMain(c) PROVE LockInv'
  BY <1>3 DEF AwaitOnMain
<1>4. ASSUME NEW c \in Calls, NEW d \in Calls, CallFromCoroutine(c, d) PROVE LockInv'
  BY <1>4 DEF CallFromCoroutine
<1>5. ASSUME NEW c \in Calls, Check(c) PROVE LockInv'
  BY <1>5 DEF Check
<1>6. ASSUME NEW c \in Calls, Acquire(c) PROVE LockInv'
  BY <1>6 DEF Acquire
<1>7. ASSUME NEW c \in Calls, Recheck(c) PROVE LockInv'
  BY <1>7 DEF Recheck
<1>8. ASSUME NEW c \in Calls, Start(c) PROVE LockInv'
  BY <1>8 DEF Start
<1>9. ASSUME NEW c \in Calls, Assign(c) PROVE LockInv'
  BY <1>9 DEF Assign
<1>10. ASSUME NEW c \in Calls, Release(c) PROVE LockInv'
  BY <1>10 DEF Release
<1>11. ASSUME NEW c \in Calls, Read(c) PROVE LockInv'
  BY <1>11 DEF Read
<1>12. ASSUME NEW c \in Calls, Submit(c) PROVE LockInv'
  BY <1>12 DEF Submit
<1>13. ASSUME NEW c \in Calls, Refuse(c) PROVE LockInv'
  BY <1>13 DEF Refuse, GiveBack
<1>14. ASSUME NEW c \in Calls, Return(c) PROVE LockInv'
  BY <1>14 DEF Return, GiveBack
<1>15. ASSUME NEW c \in Calls, Dispatch(c) PROVE LockInv'
  BY <1>15 DEF Dispatch
<1>16. ASSUME NEW c \in Calls, Lookup(c) PROVE LockInv'
  BY <1>16 DEF Lookup
<1>17. ASSUME NEW c \in Calls, Build(c) PROVE LockInv'
  BY <1>17 DEF Build
<1>18. ASSUME NEW c \in Calls, Finish(c) PROVE LockInv'
  BY <1>18 DEF Finish
<1>19. CASE UNCHANGED vars
  BY <1>19 DEF vars
<1> QED
  BY <1>1, <1>2, <1>3, <1>4, <1>5, <1>6, <1>7, <1>8, <1>9, <1>10, <1>11,
     <1>12, <1>13, <1>14, <1>15, <1>16, <1>17, <1>18, <1>19
  DEF Next, Arrive, RunSync, Run

\* A second loop is never started: whoever finds none under the lock is alone there.
LEMMA LoopStep ==
    ASSUME IInv, [Next]_vars
    PROVE  LoopInv'
<1> USE Identities DEF IInv, Goto, Become, callVars, jobVars, AllLoops, InLock, OnLoop,
      TypeOK, LockInv, LoopInv
<1>1. ASSUME NEW c \in Calls, CallFromThread(c) PROVE LoopInv'
  BY <1>1 DEF CallFromThread
<1>2. ASSUME NEW c \in Calls, CallFromHandler(c) PROVE LoopInv'
  BY <1>2 DEF CallFromHandler
<1>3. ASSUME NEW c \in Calls, AwaitOnMain(c) PROVE LoopInv'
  BY <1>3 DEF AwaitOnMain
<1>4. ASSUME NEW c \in Calls, NEW d \in Calls, CallFromCoroutine(c, d) PROVE LoopInv'
  BY <1>4 DEF CallFromCoroutine
<1>5. ASSUME NEW c \in Calls, Check(c) PROVE LoopInv'
  BY <1>5 DEF Check
<1>6. ASSUME NEW c \in Calls, Acquire(c) PROVE LoopInv'
  BY <1>6 DEF Acquire
<1>7. ASSUME NEW c \in Calls, Recheck(c) PROVE LoopInv'
  BY <1>7 DEF Recheck
<1>8. ASSUME NEW c \in Calls, Start(c) PROVE LoopInv'
  BY <1>8 DEF Start
<1>9. ASSUME NEW c \in Calls, Assign(c) PROVE LoopInv'
  BY <1>9 DEF Assign
<1>10. ASSUME NEW c \in Calls, Release(c) PROVE LoopInv'
  BY <1>10 DEF Release
<1>11. ASSUME NEW c \in Calls, Read(c) PROVE LoopInv'
  BY <1>11 DEF Read
<1>12. ASSUME NEW c \in Calls, Submit(c) PROVE LoopInv'
  BY <1>12 DEF Submit
<1>13. ASSUME NEW c \in Calls, Refuse(c) PROVE LoopInv'
  BY <1>13 DEF Refuse, GiveBack
<1>14. ASSUME NEW c \in Calls, Return(c) PROVE LoopInv'
  BY <1>14 DEF Return, GiveBack
<1>15. ASSUME NEW c \in Calls, Dispatch(c) PROVE LoopInv'
  BY <1>15 DEF Dispatch
<1>16. ASSUME NEW c \in Calls, Lookup(c) PROVE LoopInv'
  BY <1>16 DEF Lookup
<1>17. ASSUME NEW c \in Calls, Build(c) PROVE LoopInv'
  BY <1>17 DEF Build
<1>18. ASSUME NEW c \in Calls, Finish(c) PROVE LoopInv'
  BY <1>18 DEF Finish
<1>19. CASE UNCHANGED vars
  BY <1>19 DEF vars
<1> QED
  BY <1>1, <1>2, <1>3, <1>4, <1>5, <1>6, <1>7, <1>8, <1>9, <1>10, <1>11,
     <1>12, <1>13, <1>14, <1>15, <1>16, <1>17, <1>18, <1>19
  DEF Next, Arrive, RunSync, Run

\* A coroutine is handed to the one background loop, or to FastAPI's.
LEMMA JobStep ==
    ASSUME IInv, [Next]_vars
    PROVE  JobInv'
<1> USE Identities DEF IInv, Goto, Become, callVars, jobVars, AllLoops, InLock, OnLoop,
      TypeOK, LoopInv, JobInv, CallerInv, Calling
<1>1. ASSUME NEW c \in Calls, CallFromThread(c) PROVE JobInv'
  BY <1>1 DEF CallFromThread
<1>2. ASSUME NEW c \in Calls, CallFromHandler(c) PROVE JobInv'
  BY <1>2 DEF CallFromHandler
<1>3. ASSUME NEW c \in Calls, AwaitOnMain(c) PROVE JobInv'
  BY <1>3 DEF AwaitOnMain
<1>4. ASSUME NEW c \in Calls, NEW d \in Calls, CallFromCoroutine(c, d) PROVE JobInv'
  BY <1>4 DEF CallFromCoroutine
<1>5. ASSUME NEW c \in Calls, Check(c) PROVE JobInv'
  BY <1>5 DEF Check
<1>6. ASSUME NEW c \in Calls, Acquire(c) PROVE JobInv'
  BY <1>6 DEF Acquire
<1>7. ASSUME NEW c \in Calls, Recheck(c) PROVE JobInv'
  BY <1>7 DEF Recheck
<1>8. ASSUME NEW c \in Calls, Start(c) PROVE JobInv'
  BY <1>8 DEF Start
<1>9. ASSUME NEW c \in Calls, Assign(c) PROVE JobInv'
  BY <1>9 DEF Assign
<1>10. ASSUME NEW c \in Calls, Release(c) PROVE JobInv'
  BY <1>10 DEF Release
<1>11. ASSUME NEW c \in Calls, Read(c) PROVE JobInv'
  BY <1>11 DEF Read
<1>12. ASSUME NEW c \in Calls, Submit(c) PROVE JobInv'
  BY <1>12 DEF Submit
<1>13. ASSUME NEW c \in Calls, Refuse(c) PROVE JobInv'
  BY <1>13 DEF Refuse, GiveBack
<1>14. ASSUME NEW c \in Calls, Return(c) PROVE JobInv'
  BY <1>14 DEF Return, GiveBack
<1>15. ASSUME NEW c \in Calls, Dispatch(c) PROVE JobInv'
  BY <1>15 DEF Dispatch
<1>16. ASSUME NEW c \in Calls, Lookup(c) PROVE JobInv'
  BY <1>16 DEF Lookup
<1>17. ASSUME NEW c \in Calls, Build(c) PROVE JobInv'
  BY <1>17 DEF Build
<1>18. ASSUME NEW c \in Calls, Finish(c) PROVE JobInv'
  BY <1>18 DEF Finish
<1>19. CASE UNCHANGED vars
  BY <1>19 DEF vars
<1> QED
  BY <1>1, <1>2, <1>3, <1>4, <1>5, <1>6, <1>7, <1>8, <1>9, <1>10, <1>11,
     <1>12, <1>13, <1>14, <1>15, <1>16, <1>17, <1>18, <1>19
  DEF Next, Arrive, RunSync, Run

\* A caller stays blocked, together with its loop, until its call returns.
LEMMA CallerStep ==
    ASSUME IInv, [Next]_vars
    PROVE  CallerInv'
<1> USE Identities DEF IInv, Goto, Become, callVars, jobVars, AllLoops, InLock, OnLoop,
      TypeOK, JobInv, CallerInv, ClientInv, Calling
<1>1. ASSUME NEW c \in Calls, CallFromThread(c) PROVE CallerInv'
  BY <1>1 DEF CallFromThread
<1>2. ASSUME NEW c \in Calls, CallFromHandler(c) PROVE CallerInv'
  BY <1>2 DEF CallFromHandler
<1>3. ASSUME NEW c \in Calls, AwaitOnMain(c) PROVE CallerInv'
  BY <1>3 DEF AwaitOnMain
<1>4. ASSUME NEW c \in Calls, NEW d \in Calls, CallFromCoroutine(c, d) PROVE CallerInv'
  BY <1>4 DEF CallFromCoroutine
<1>5. ASSUME NEW c \in Calls, Check(c) PROVE CallerInv'
  BY <1>5 DEF Check
<1>6. ASSUME NEW c \in Calls, Acquire(c) PROVE CallerInv'
  BY <1>6 DEF Acquire
<1>7. ASSUME NEW c \in Calls, Recheck(c) PROVE CallerInv'
  BY <1>7 DEF Recheck
<1>8. ASSUME NEW c \in Calls, Start(c) PROVE CallerInv'
  BY <1>8 DEF Start
<1>9. ASSUME NEW c \in Calls, Assign(c) PROVE CallerInv'
  BY <1>9 DEF Assign
<1>10. ASSUME NEW c \in Calls, Release(c) PROVE CallerInv'
  BY <1>10 DEF Release
<1>11. ASSUME NEW c \in Calls, Read(c) PROVE CallerInv'
  BY <1>11 DEF Read
<1>12. ASSUME NEW c \in Calls, Submit(c) PROVE CallerInv'
  BY <1>12 DEF Submit
<1>13. ASSUME NEW c \in Calls, Refuse(c) PROVE CallerInv'
  BY <1>13 DEF Refuse, GiveBack
<1>14. ASSUME NEW c \in Calls, Return(c) PROVE CallerInv'
  BY <1>14 DEF Return, GiveBack
<1>15. ASSUME NEW c \in Calls, Dispatch(c) PROVE CallerInv'
  BY <1>15 DEF Dispatch
<1>16. ASSUME NEW c \in Calls, Lookup(c) PROVE CallerInv'
  BY <1>16 DEF Lookup
<1>17. ASSUME NEW c \in Calls, Build(c) PROVE CallerInv'
  BY <1>17 DEF Build
<1>18. ASSUME NEW c \in Calls, Finish(c) PROVE CallerInv'
  BY <1>18 DEF Finish
<1>19. CASE UNCHANGED vars
  BY <1>19 DEF vars
<1> QED
  BY <1>1, <1>2, <1>3, <1>4, <1>5, <1>6, <1>7, <1>8, <1>9, <1>10, <1>11,
     <1>12, <1>13, <1>14, <1>15, <1>16, <1>17, <1>18, <1>19
  DEF Next, Arrive, RunSync, Run

\* A coroutine that executes has its loop, and the loop's client, to itself.
LEMMA ClientStep ==
    ASSUME IInv, [Next]_vars
    PROVE  ClientInv'
<1> USE Identities DEF IInv, Goto, Become, callVars, jobVars, AllLoops, InLock, OnLoop,
      TypeOK, LoopInv, JobInv, CallerInv, ClientInv, Calling
<1>1. ASSUME NEW c \in Calls, CallFromThread(c) PROVE ClientInv'
  BY <1>1 DEF CallFromThread
<1>2. ASSUME NEW c \in Calls, CallFromHandler(c) PROVE ClientInv'
  BY <1>2 DEF CallFromHandler
<1>3. ASSUME NEW c \in Calls, AwaitOnMain(c) PROVE ClientInv'
  BY <1>3 DEF AwaitOnMain
<1>4. ASSUME NEW c \in Calls, NEW d \in Calls, CallFromCoroutine(c, d) PROVE ClientInv'
  BY <1>4 DEF CallFromCoroutine
<1>5. ASSUME NEW c \in Calls, Check(c) PROVE ClientInv'
  BY <1>5 DEF Check
<1>6. ASSUME NEW c \in Calls, Acquire(c) PROVE ClientInv'
  BY <1>6 DEF Acquire
<1>7. ASSUME NEW c \in Calls, Recheck(c) PROVE ClientInv'
  BY <1>7 DEF Recheck
<1>8. ASSUME NEW c \in Calls, Start(c) PROVE ClientInv'
  BY <1>8 DEF Start
<1>9. ASSUME NEW c \in Calls, Assign(c) PROVE ClientInv'
  BY <1>9 DEF Assign
<1>10. ASSUME NEW c \in Calls, Release(c) PROVE ClientInv'
  BY <1>10 DEF Release
<1>11. ASSUME NEW c \in Calls, Read(c) PROVE ClientInv'
  BY <1>11 DEF Read
<1>12. ASSUME NEW c \in Calls, Submit(c) PROVE ClientInv'
  BY <1>12 DEF Submit
<1>13. ASSUME NEW c \in Calls, Refuse(c) PROVE ClientInv'
  BY <1>13 DEF Refuse, GiveBack
<1>14. ASSUME NEW c \in Calls, Return(c) PROVE ClientInv'
  BY <1>14 DEF Return, GiveBack
<1>15. ASSUME NEW c \in Calls, Dispatch(c) PROVE ClientInv'
  BY <1>15 DEF Dispatch
<1>16. ASSUME NEW c \in Calls, Lookup(c) PROVE ClientInv'
  BY <1>16 DEF Lookup
<1>17. ASSUME NEW c \in Calls, Build(c) PROVE ClientInv'
  BY <1>17 DEF Build
<1>18. ASSUME NEW c \in Calls, Finish(c) PROVE ClientInv'
  BY <1>18 DEF Finish
<1>19. CASE UNCHANGED vars
  BY <1>19 DEF vars
<1> QED
  BY <1>1, <1>2, <1>3, <1>4, <1>5, <1>6, <1>7, <1>8, <1>9, <1>10, <1>11,
     <1>12, <1>13, <1>14, <1>15, <1>16, <1>17, <1>18, <1>19
  DEF Next, Arrive, RunSync, Run

\* The guard of run_sync keeps the coroutines of the bridge from waiting for it.
LEMMA BridgeStep ==
    ASSUME IInv, [Next]_vars
    PROVE  BridgeNeverBlocked'
<1> USE Identities DEF IInv, Goto, Become, callVars, jobVars, AllLoops, InLock, OnLoop,
      TypeOK, LoopInv, JobInv, CallerInv, BridgeNeverBlocked,
      RunningLoop
<1>1. ASSUME NEW c \in Calls, CallFromThread(c) PROVE BridgeNeverBlocked'
  BY <1>1 DEF CallFromThread
<1>2. ASSUME NEW c \in Calls, CallFromHandler(c) PROVE BridgeNeverBlocked'
  BY <1>2 DEF CallFromHandler
<1>3. ASSUME NEW c \in Calls, AwaitOnMain(c) PROVE BridgeNeverBlocked'
  BY <1>3 DEF AwaitOnMain
<1>4. ASSUME NEW c \in Calls, NEW d \in Calls, CallFromCoroutine(c, d) PROVE BridgeNeverBlocked'
  BY <1>4 DEF CallFromCoroutine
<1>5. ASSUME NEW c \in Calls, Check(c) PROVE BridgeNeverBlocked'
  BY <1>5 DEF Check
<1>6. ASSUME NEW c \in Calls, Acquire(c) PROVE BridgeNeverBlocked'
  BY <1>6 DEF Acquire
<1>7. ASSUME NEW c \in Calls, Recheck(c) PROVE BridgeNeverBlocked'
  BY <1>7 DEF Recheck
<1>8. ASSUME NEW c \in Calls, Start(c) PROVE BridgeNeverBlocked'
  BY <1>8 DEF Start
<1>9. ASSUME NEW c \in Calls, Assign(c) PROVE BridgeNeverBlocked'
  BY <1>9 DEF Assign
<1>10. ASSUME NEW c \in Calls, Release(c) PROVE BridgeNeverBlocked'
  BY <1>10 DEF Release
<1>11. ASSUME NEW c \in Calls, Read(c) PROVE BridgeNeverBlocked'
  BY <1>11 DEF Read
<1>12. ASSUME NEW c \in Calls, Submit(c) PROVE BridgeNeverBlocked'
  BY <1>12 DEF Submit
<1>13. ASSUME NEW c \in Calls, Refuse(c) PROVE BridgeNeverBlocked'
  BY <1>13 DEF Refuse, GiveBack
<1>14. ASSUME NEW c \in Calls, Return(c) PROVE BridgeNeverBlocked'
  BY <1>14 DEF Return, GiveBack
<1>15. ASSUME NEW c \in Calls, Dispatch(c) PROVE BridgeNeverBlocked'
  BY <1>15 DEF Dispatch
<1>16. ASSUME NEW c \in Calls, Lookup(c) PROVE BridgeNeverBlocked'
  BY <1>16 DEF Lookup
<1>17. ASSUME NEW c \in Calls, Build(c) PROVE BridgeNeverBlocked'
  BY <1>17 DEF Build
<1>18. ASSUME NEW c \in Calls, Finish(c) PROVE BridgeNeverBlocked'
  BY <1>18 DEF Finish
<1>19. CASE UNCHANGED vars
  BY <1>19 DEF vars
<1> QED
  BY <1>1, <1>2, <1>3, <1>4, <1>5, <1>6, <1>7, <1>8, <1>9, <1>10, <1>11,
     <1>12, <1>13, <1>14, <1>15, <1>16, <1>17, <1>18, <1>19
  DEF Next, Arrive, RunSync, Run

\* Whoever is waited for is there, and a loop is not blocked for nothing.
LEMMA BlockStep ==
    ASSUME IInv, [Next]_vars
    PROVE  BlockInv'
<1> USE Identities DEF IInv, Goto, Become, callVars, jobVars, AllLoops, InLock, OnLoop,
      TypeOK, JobInv, CallerInv, ClientInv, BlockInv, Calling
<1>1. ASSUME NEW c \in Calls, CallFromThread(c) PROVE BlockInv'
  BY <1>1 DEF CallFromThread
<1>2. ASSUME NEW c \in Calls, CallFromHandler(c) PROVE BlockInv'
  BY <1>2 DEF CallFromHandler
<1>3. ASSUME NEW c \in Calls, AwaitOnMain(c) PROVE BlockInv'
  BY <1>3 DEF AwaitOnMain
<1>4. ASSUME NEW c \in Calls, NEW d \in Calls, CallFromCoroutine(c, d) PROVE BlockInv'
  BY <1>4 DEF CallFromCoroutine
<1>5. ASSUME NEW c \in Calls, Check(c) PROVE BlockInv'
  BY <1>5 DEF Check
<1>6. ASSUME NEW c \in Calls, Acquire(c) PROVE BlockInv'
  BY <1>6 DEF Acquire
<1>7. ASSUME NEW c \in Calls, Recheck(c) PROVE BlockInv'
  BY <1>7 DEF Recheck
<1>8. ASSUME NEW c \in Calls, Start(c) PROVE BlockInv'
  BY <1>8 DEF Start
<1>9. ASSUME NEW c \in Calls, Assign(c) PROVE BlockInv'
  BY <1>9 DEF Assign
<1>10. ASSUME NEW c \in Calls, Release(c) PROVE BlockInv'
  BY <1>10 DEF Release
<1>11. ASSUME NEW c \in Calls, Read(c) PROVE BlockInv'
  BY <1>11 DEF Read
<1>12. ASSUME NEW c \in Calls, Submit(c) PROVE BlockInv'
  BY <1>12 DEF Submit
<1>13. ASSUME NEW c \in Calls, Refuse(c) PROVE BlockInv'
  BY <1>13 DEF Refuse, GiveBack
<1>14. ASSUME NEW c \in Calls, Return(c) PROVE BlockInv'
  BY <1>14 DEF Return, GiveBack
<1>15. ASSUME NEW c \in Calls, Dispatch(c) PROVE BlockInv'
  BY <1>15 DEF Dispatch
<1>16. ASSUME NEW c \in Calls, Lookup(c) PROVE BlockInv'
  BY <1>16 DEF Lookup
<1>17. ASSUME NEW c \in Calls, Build(c) PROVE BlockInv'
  BY <1>17 DEF Build
<1>18. ASSUME NEW c \in Calls, Finish(c) PROVE BlockInv'
  BY <1>18 DEF Finish
<1>19. CASE UNCHANGED vars
  BY <1>19 DEF vars
<1> QED
  BY <1>1, <1>2, <1>3, <1>4, <1>5, <1>6, <1>7, <1>8, <1>9, <1>10, <1>11,
     <1>12, <1>13, <1>14, <1>15, <1>16, <1>17, <1>18, <1>19
  DEF Next, Arrive, RunSync, Run

\* The invariant holds initially and is kept by every step.
THEOREM Invariance == Spec => []IInv
<1>1. Init => IInv
  BY Identities DEF Init, IInv, TypeOK, LockInv, LoopInv, JobInv, CallerInv, ClientInv,
     BlockInv, BridgeNeverBlocked, Calling, AllLoops, InLock, OnLoop
<1>2. IInv /\ [Next]_vars => IInv'
  BY TypeStep, LockStep, LoopStep, JobStep, CallerStep, ClientStep, BlockStep, BridgeStep DEF IInv
<1> QED
  BY <1>1, <1>2, PTL DEF Spec

\* The variables keep their types.
THEOREM TypeCorrect == Spec => []TypeOK
<1>1. IInv => TypeOK
  BY DEF IInv
<1> QED
  BY <1>1, Invariance, PTL

\* One background loop serves every call of run_sync, however many threads make
\* the first call at the same time (the double-checked _LazyBackgroundLoop.get).
THEOREM OneBackgroundLoopHolds == Spec => []OneBackgroundLoop
<1>1. IInv => OneBackgroundLoop
  BY DEF IInv, LoopInv, OneBackgroundLoop
<1> QED
  BY <1>1, Invariance, PTL

\* A loop's client is built once and used on that loop alone (get_redis_client).
THEOREM ClientsStayHomeHolds == Spec => []ClientsStayHome
<1>1. IInv => ClientsStayHome
  BY Identities DEF IInv, TypeOK, JobInv, ClientInv, ClientsStayHome, AllLoops
<1> QED
  BY <1>1, Invariance, PTL

\* No coroutine of the background loop ever waits for the background loop (the
\* guard of run_sync), so the bridge cannot deadlock on itself.
THEOREM BridgeNeverBlockedHolds == Spec => []BridgeNeverBlocked
<1>1. IInv => BridgeNeverBlocked
  BY DEF IInv
<1> QED
  BY <1>1, Invariance, PTL

\* A call that holds the lock, or that could take it, goes on: one is started loop
\* at most, and the lock's holder does not wait.
LEMMA GettingGoesOn ==
    ASSUME IInv, NEW c \in Calls, Calling(c), pc[c] # "wait"
    PROVE  \E d \in Calls : CanGoOn(d)
<1> USE DEF IInv, TypeOK, LoopInv, LockInv
<1>1. ASSUME NEW d \in Calls, pc[d] \in InLock PROVE CanGoOn(d)
  <2>1. pc[d] = "start" => Loops \ started # {}
    BY BackgroundPossible
  <2> QED
    BY <1>1, <2>1 DEF InLock, CanGoOn
<1>2. CASE pc[c] = "acquire" /\ lock # NoCall
  <2>1. pc[lock] \in InLock /\ lock \in Calls
    BY <1>2
  <2> QED
    BY <1>1, <2>1
<1>3. CASE pc[c] = "acquire" /\ lock = NoCall
  BY <1>3 DEF CanGoOn
<1>4. CASE pc[c] \in {"check", "read", "submit"}
  BY <1>4 DEF CanGoOn
<1> QED
  BY <1>1, <1>2, <1>3, <1>4 DEF Calling, InLock

\* Calls of run_sync and the loops they block never all wait for each other: of a
\* chain of callers and coroutines the last one can go on, for any number of calls.
THEOREM NobodyDeadlocksHolds == Spec => []NobodyDeadlocks
<1>1. ASSUME IInv, ~\E c \in Calls : CanGoOn(c) \/ CanRun(c),
             NEW a \in Calls, Calling(a) \/ job[a] \notin {"none", "done"}
      PROVE  FALSE
  <2> USE <1>1 DEF IInv
  \* Every caller waits for a coroutine on the background loop.
  <2>1. ASSUME NEW c \in Calls, Calling(c)
        PROVE  /\ pc[c] = "wait" /\ job[c] \notin {"none", "done"}
               /\ home[c] = loop /\ loop \in started
    <3>1. pc[c] = "wait"
      BY <2>1, GettingGoesOn
    <3>2. job[c] # "done" /\ job[c] # "none"
      BY <3>1 DEF CanGoOn, BlockInv
    <3> QED
      BY <3>1, <3>2, Identities DEF LoopInv, JobInv, TypeOK, AllLoops
  \* No coroutine waits for a call it has made: the bridge would be blocked.
  <2>2. ASSUME NEW c \in Calls, job[c] = "nested" PROVE FALSE
    <3>1. PICK d \in Calls : Calling(d) /\ caller[d] = c
      BY <2>2 DEF BlockInv
    <3>2. RunningLoop(d) = home[c] /\ pc[d] = "wait"
      BY <2>1, <3>1, Identities DEF RunningLoop
    <3>3. home[c] = loop /\ loop \in started
      BY <2>1, <2>2, <3>1, Identities DEF BlockInv, JobInv, TypeOK, AllLoops
    <3> QED
      BY <3>2, <3>3 DEF BridgeNeverBlocked
  \* So no coroutine executes, and the loops of coroutines are free.
  <2>3. ASSUME NEW c \in Calls PROVE job[c] \notin OnLoop
    BY <2>2 DEF CanRun, OnLoop
  <2>4. ASSUME NEW c \in Calls, job[c] \in {"queued", "io"}
        PROVE  busy[MainLoop] # NoCall /\ home[c] = MainLoop
    <3>1. home[c] \in started \cup {MainLoop}
      BY <2>4, Identities DEF JobInv, LoopInv, TypeOK, AllLoops
    <3>2. busy[home[c]] # NoCall /\ busy[home[c]] \in Calls
      BY <2>4, <3>1, Identities DEF CanRun, TypeOK, AllLoops
    <3> QED
      BY <2>3, <3>1, <3>2 DEF BlockInv, TypeOK, AllLoops
  \* Nobody calls run_sync, as its coroutine would not be on FastAPI's loop.
  <2>5. ASSUME NEW c \in Calls PROVE ~Calling(c)
    <3>1. ASSUME Calling(c) PROVE job[c] \in {"queued", "io"}
      BY <2>1, <2>3, <3>1 DEF TypeOK
    <3> QED
      BY <2>1, <2>4, <3>1, Identities DEF TypeOK
  <2>6. job[a] \in {"queued", "io"}
    BY <2>3, <2>5 DEF TypeOK
  <2> QED
    BY <2>3, <2>4, <2>5, <2>6 DEF BlockInv, TypeOK, AllLoops
<1>2. IInv => NobodyDeadlocks
  BY <1>1 DEF NobodyDeadlocks
<1> QED
  BY <1>2, Invariance, PTL
=============================================================================
