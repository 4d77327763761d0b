---------------------------- MODULE RunSyncBridge ----------------------------
(***************************************************************************)
(* The sync/async bridge: run_sync and _LazyBackgroundLoop of              *)
(* core/asyncio_utils.py, with the loop-scoped clients of                  *)
(* core/redis_client.py (database/session.py builds its session factories  *)
(* the same way).                                                          *)
(*                                                                         *)
(* LangGraph's worker threads, FastAPI's own loop and coroutines of the    *)
(* bridge itself call run_sync; threads interleave at every read or write  *)
(* of a shared attribute, the coroutines of one loop only where they       *)
(* await.  A call and the coroutine it bridges have the same name.         *)
(***************************************************************************)
EXTENDS Naturals, FiniteSets

CONSTANTS
    Calls,     \* calls of run_sync, and coroutines FastAPI's loop runs itself
    Loops,     \* event loops _start_background_loop may create
    MainLoop,  \* FastAPI's loop
    NoLoop,    \* None
    Thread,    \* the caller is a plain worker thread
    Handler,   \* the caller is a handler on FastAPI's loop
    NoCall     \* nobody

ASSUME Identities ==
    /\ MainLoop \notin Loops /\ NoLoop \notin Loops \cup {MainLoop}
    /\ Thread \notin Calls /\ Handler \notin Calls /\ Thread # Handler
    /\ NoCall \notin Calls

\* asyncio.new_event_loop() returns.
ASSUME BackgroundPossible == Loops # {}

VARIABLES
    loop,      \* _LazyBackgroundLoop._loop
    lock,      \* _LazyBackgroundLoop._lock: its holder
    started,   \* the loops that run_forever in a thread of their own
    pc,        \* where each call of run_sync stands
    caller,    \* who made it: Thread, Handler or a coroutine
    target,    \* what get() returned to it
    fresh,     \* the loop it has just started
    job,       \* where its coroutine stands
    home,      \* the loop its coroutine runs on
    busy,      \* loop -> whose code it executes
    client,    \* _clients_by_loop: clients are named after the coroutine that built them
    held       \* the client a coroutine resolved

callVars == <<pc, caller, target, fresh>>
jobVars == <<job, home, held>>
vars == <<loop, lock, started, callVars, jobVars, busy, client>>

AllLoops == Loops \cup {MainLoop}
InLock == {"recheck", "start", "assign", "release"}
OnLoop == {"lookup", "build", "use", "nested"}

Init ==
    /\ loop = NoLoop /\ lock = NoCall /\ started = {}
    /\ pc = [c \in Calls |-> "idle"]
    /\ caller = [c \in Calls |-> Thread]
    /\ target = [c \in Calls |-> NoLoop]
    /\ fresh = [c \in Calls |-> NoLoop]
    /\ job = [c \in Calls |-> "none"]
    /\ home = [c \in Calls |-> NoLoop]
    /\ busy = [l \in AllLoops |-> NoCall]
    /\ client = [l \in AllLoops |-> NoCall]
    /\ held = [c \in Calls |-> NoCall]

Goto(c, label) == pc' = [pc EXCEPT ![c] = label]
Become(c, label) == job' = [job EXCEPT ![c] = label]

\* asyncio.get_running_loop() in the code that called run_sync.
RunningLoop(c) ==
    IF caller[c] = Thread THEN NoLoop
    ELSE IF caller[c] = Handler THEN MainLoop ELSE home[caller[c]]

-----------------------------------------------------------------------------
(* Who calls run_sync *)

CallFromThread(c) ==
    /\ pc[c] = "idle"
    /\ Goto(c, "check")
    /\ UNCHANGED <<loop, lock, started, caller, target, fresh, jobVars, busy, client>>

\* The handler, and with it its loop, is blocked until run_sync returns.
CallFromHandler(c) ==
    /\ pc[c] = "idle" /\ busy[MainLoop] = NoCall
    /\ caller' = [caller EXCEPT ![c] = Handler]
    /\ busy' = [busy EXCEPT ![MainLoop] = c]
    /\ Goto(c, "check")
    /\ UNCHANGED <<loop, lock, started, target, fresh, jobVars, client>>

\* A bridged coroutine that itself calls run_sync, and blocks its loop.
CallFromCoroutine(c, d) ==
    /\ pc[c] = "idle" /\ job[d] = "use" /\ home[d] # MainLoop
    /\ caller' = [caller EXCEPT ![c] = d]
    /\ Become(d, "nested")
    /\ Goto(c, "check")
    /\ UNCHANGED <<loop, lock, started, target, fresh, home, held, busy, client>>

\* A handler awaits the coroutine on FastAPI's loop: no bridge.
AwaitOnMain(c) ==
    /\ pc[c] = "idle"
    /\ Goto(c, "await")
    /\ caller' = [caller EXCEPT ![c] = Handler]
    /\ home' = [home EXCEPT ![c] = MainLoop]
    /\ Become(c, "queued")
    /\ UNCHANGED <<loop, lock, started, target, fresh, held, busy, client>>

-----------------------------------------------------------------------------
(* _LazyBackgroundLoop.get *)

Check(c) ==
    /\ pc[c] = "check"
    /\ Goto(c, IF loop = NoLoop THEN "acquire" ELSE "read")
    /\ UNCHANGED <<loop, lock, started, caller, target, fresh, jobVars, busy, client>>

Acquire(c) ==
    /\ pc[c] = "acquire" /\ lock = NoCall
    /\ lock' = c
    /\ Goto(c, "recheck")
    /\ UNCHANGED <<loop, started, caller, target, fresh, jobVars, busy, client>>

\* Mutant of Recheck: no second look under the lock.
RecheckDropped(c) ==
    /\ pc[c] = "recheck"
    /\ Goto(c, "start")
    /\ UNCHANGED <<loop, lock, started, caller, target, fresh, jobVars, busy, client>>

Recheck(c) ==
    /\ pc[c] = "recheck"
    /\ Goto(c, IF loop = NoLoop THEN "start" ELSE "release")
    /\ UNCHANGED <<loop, lock, started, caller, target, fresh, jobVars, busy, client>>

\* _start_background_loop: the thread runs before the attribute is assigned.
Start(c) ==
    /\ pc[c] = "start"
    /\ \E l \in Loops \ started :
          /\ started' = started \cup {l}
          /\ fresh' = [fresh EXCEPT ![c] = l]
    /\ Goto(c, "assign")
    /\ UNCHANGED <<loop, lock, caller, target, jobVars, busy, client>>

\* Mutant of Assign: the thread is kept instead of its loop.
AssignThread(c) ==
    /\ pc[c] = "assign"
    /\ loop' = Thread
    /\ Goto(c, "release")
    /\ UNCHANGED <<lock, started, caller, target, fresh, jobVars, busy, client>>

Assign(c) ==
    /\ pc[c] = "assign"
    /\ loop' = fresh[c]
    /\ Goto(c, "release")
    /\ UNCHANGED <<lock, started, caller, target, fresh, jobVars, busy, client>>

Release(c) ==
    /\ pc[c] = "release"
    /\ lock' = NoCall
    /\ Goto(c, "read")
    /\ UNCHANGED <<loop, started, caller, target, fresh, jobVars, busy, client>>

Read(c) ==
    /\ pc[c] = "read"
    /\ target' = [target EXCEPT ![c] = loop]
    /\ Goto(c, "submit")
    /\ UNCHANGED <<loop, lock, started, caller, fresh, jobVars, busy, client>>

-----------------------------------------------------------------------------
(* run_sync *)

\* Mutant of Submit: no guard.
SubmitUnguarded(c) ==
    /\ pc[c] = "submit"
    /\ Become(c, "queued")
    /\ home' = [home EXCEPT ![c] = target[c]]
    /\ Goto(c, "wait")
    /\ UNCHANGED <<loop, lock, started, caller, target, fresh, held, busy, client>>

\* run_coroutine_threadsafe, then .result().
Submit(c) ==
    /\ pc[c] = "submit" /\ RunningLoop(c) # target[c]
    /\ Become(c, "queued")
    /\ home' = [home EXCEPT ![c] = target[c]]
    /\ Goto(c, "wait")
    /\ UNCHANGED <<loop, lock, started, caller, target, fresh, held, busy, client>>

\* The code that called run_sync goes on.
GiveBack(c) ==
    IF caller[c] = Thread THEN UNCHANGED <<job, busy>>
    ELSE IF caller[c] = Handler
    THEN busy' = [busy EXCEPT ![MainLoop] = NoCall] /\ UNCHANGED job
    ELSE Become(caller[c], "use") /\ UNCHANGED busy

\* RuntimeError: called from a coroutine of the very loop it would wait for.
Refuse(c) ==
    /\ pc[c] = "submit" /\ RunningLoop(c) = target[c]
    /\ GiveBack(c)
    /\ Goto(c, "refused")
    /\ UNCHANGED <<loop, lock, started, caller, target, fresh, home, held, client>>

\* .result() has the coroutine's value, or its exception.
Return(c) ==
    /\ pc[c] = "wait" /\ job[c] = "done"
    /\ GiveBack(c)
    /\ Goto(c, "returned")
    /\ UNCHANGED <<loop, lock, started, caller, target, fresh, home, held, client>>

-----------------------------------------------------------------------------
(* The coroutine *)

\* A loop that executes nothing else takes a coroutine up, or up again.
Dispatch(c) ==
    /\ job[c] \in {"queued", "io"}
    /\ home[c] \in started \cup {MainLoop}
    /\ busy[home[c]] = NoCall
    /\ busy' = [busy EXCEPT ![home[c]] = c]
    /\ Become(c, IF job[c] = "queued" THEN "lookup" ELSE "use")
    /\ UNCHANGED <<loop, lock, started, callVars, home, held, client>>

\* Mutant of Lookup: one client for the whole process.
LookupAnywhere(c) ==
    /\ job[c] = "lookup"
    /\ IF \A l \in AllLoops : client[l] = NoCall
       THEN Become(c, "build") /\ UNCHANGED <<held, busy>>
       ELSE /\ \E l \in AllLoops :
                  client[l] # NoCall /\ held' = [held EXCEPT ![c] = client[l]]
            /\ Become(c, "io")
            /\ busy' = [busy EXCEPT ![home[c]] = NoCall]
    /\ UNCHANGED <<loop, lock, started, callVars, home, client>>

\* get_redis_client, and the await of a command on the client it returns.
Lookup(c) ==
    /\ job[c] = "lookup"
    /\ IF client[home[c]] = NoCall
       THEN Become(c, "build") /\ UNCHANGED <<held, busy>>
       ELSE /\ held' = [held EXCEPT ![c] = client[home[c]]]
            /\ Become(c, "io")
            /\ busy' = [busy EXCEPT ![home[c]] = NoCall]
    /\ UNCHANGED <<loop, lock, started, callVars, home, client>>

Build(c) ==
    /\ job[c] = "build"
    /\ client' = [client EXCEPT ![home[c]] = c]
    /\ held' = [held EXCEPT ![c] = c]
    /\ Become(c, "io")
    /\ busy' = [busy EXCEPT ![home[c]] = NoCall]
    /\ UNCHANGED <<loop, lock, started, callVars, home>>

\* The coroutine has its reply (or timed out after 0.5 s) and returns.
Finish(c) ==
    /\ job[c] = "use"
    /\ Become(c, "done")
    /\ busy' = [busy EXCEPT ![home[c]] = NoCall]
    /\ UNCHANGED <<loop, lock, started, callVars, home, held, client>>

RunSync(c) ==
    \/ Check(c) \/ Acquire(c) \/ Recheck(c) \/ Start(c) \/ Assign(c) \/ Release(c)
    \/ Read(c) \/ Submit(c) \/ Refuse(c) \/ Return(c)

Run(c) == Dispatch(c) \/ Lookup(c) \/ Build(c) \/ Finish(c)

Arrive(c) ==
    \/ CallFromThread(c) \/ CallFromHandler(c) \/ AwaitOnMain(c)
    \/ \E d \in Calls : CallFromCoroutine(c, d)

Next == \E c \in Calls : Arrive(c) \/ RunSync(c) \/ Run(c)

Spec == Init /\ [][Next]_vars

\* Threads are scheduled, the lock is granted and a loop serves its queue.
FairSpec == Spec /\ \A c \in Calls : WF_vars(RunSync(c)) /\ WF_vars(Run(c))

-----------------------------------------------------------------------------
(* Properties *)

TypeOK ==
    /\ loop \in Loops \cup {NoLoop}
    /\ lock \in Calls \cup {NoCall}
    /\ started \subseteq Loops
    /\ pc \in [Calls -> {"idle", "check", "acquire", "read", "submit", "wait", "await",
                         "returned", "refused"} \cup InLock]
    /\ caller \in [Calls -> Calls \cup {Thread, Handler}]
    /\ target \in [Calls -> Loops \cup {NoLoop}]
    /\ fresh \in [Calls -> Loops \cup {NoLoop}]
    /\ job \in [Calls -> {"none", "queued", "io", "done"} \cup OnLoop]
    /\ home \in [Calls -> AllLoops \cup {NoLoop}]
    /\ busy \in [AllLoops -> Calls \cup {NoCall}]
    /\ client \in [AllLoops -> Calls \cup {NoCall}]
    /\ held \in [Calls -> Calls \cup {NoCall}]

\* However many threads make the first call at once, one background loop is
\* started, and every call is served by it.
OneBackgroundLoop ==
    /\ \A l1, l2 \in started : l1 = l2
    /\ \A c \in Calls : target[c] # NoLoop => target[c] \in started

\* A client is used only on the loop that built it, and a loop never gets a second.
ClientsStayHome ==
    \A c, d \in Calls :
        /\ held[c] # NoCall => home[held[c]] = home[c]
        /\ (held[c] # NoCall /\ held[d] # NoCall /\ home[c] = home[d]) => held[c] = held[d]

\* Nobody blocks a loop while waiting for a coroutine that this loop must run,
\* directly or over a chain of blocked loops: the bridge itself is never blocked.
BridgeNeverBlocked ==
    \A c \in Calls : pc[c] = "wait" => RunningLoop(c) \notin started

Calling(c) == pc[c] \notin {"idle", "await", "returned", "refused"}

\* c's caller need not wait: for the lock, for a loop to start, or for its coroutine.
CanGoOn(c) ==
    \/ pc[c] \in {"check", "recheck", "assign", "release", "read", "submit"}
    \/ pc[c] = "acquire" /\ lock = NoCall
    \/ pc[c] = "start" /\ Loops \ started # {}
    \/ pc[c] = "wait" /\ job[c] = "done"

\* c's coroutine executes, or its loop is there and free for it.
CanRun(c) ==
    \/ job[c] \in OnLoop \ {"nested"}
    \/ /\ job[c] \in {"queued", "io"}
       /\ home[c] \in started \cup {MainLoop} /\ busy[home[c]] = NoCall

\* However calls nest and block each other's loops, they never all wait for each
\* other: while one has not returned, some caller or some coroutine can go on.
NobodyDeadlocks ==
    (\E c \in Calls : Calling(c) \/ job[c] \notin {"none", "done"})
        => \E c \in Calls : CanGoOn(c) \/ CanRun(c)

\* Every call of run_sync comes back, with a result or refused.
EveryCallReturns ==
    \A c \in Calls : pc[c] = "check" ~> pc[c] \in {"returned", "refused"}

-----------------------------------------------------------------------------
(* The inductive invariant *)

LockInv == \A c \in Calls : pc[c] \in InLock <=> lock = c

\* Only the holder of the lock starts a loop, and only if there is none.
LoopInv ==
    /\ loop # NoLoop => started = {loop}
    /\ (loop = NoLoop /\ started # {}) => \E c \in Calls : pc[c] = "assign"
    /\ \A c \in Calls :
          /\ pc[c] = "start" => loop = NoLoop /\ started = {}
          /\ pc[c] = "assign" => loop = NoLoop /\ started = {fresh[c]}
          /\ pc[c] \in {"release", "read", "submit", "wait"} => loop # NoLoop
          /\ pc[c] \in {"submit", "wait"} => target[c] = loop
          /\ target[c] # NoLoop => target[c] = loop

\* A coroutine gets its loop once, when it is handed over.
JobInv ==
    \A c \in Calls :
        /\ job[c] = "none" <=> home[c] = NoLoop
        /\ pc[c] \notin {"wait", "await", "returned"} => job[c] = "none"
        /\ home[c] = MainLoop <=> pc[c] = "await"
        /\ home[c] \in Loops => home[c] = loop

\* Whoever calls run_sync is blocked, with its loop, by that one call.
CallerInv ==
    /\ \A c \in Calls :
          /\ pc[c] = "idle" => caller[c] = Thread
          /\ caller[c] \in Calls => job[caller[c]] # "none"
          /\ Calling(c) /\ caller[c] \in Calls => job[caller[c]] = "nested"
          /\ Calling(c) /\ caller[c] = Handler => busy[MainLoop] = c
    /\ \A c, d \in Calls :
          (Calling(c) /\ Calling(d) /\ caller[c] = caller[d] /\ caller[c] \in Calls) => c = d

\* A loop executes one coroutine, and knows one client.
ClientInv ==
    /\ \A c \in Calls :
          /\ job[c] \in OnLoop => busy[home[c]] = c
          /\ job[c] = "build" => client[home[c]] = NoCall
          /\ held[c] # NoCall => job[c] # "none" /\ held[c] = client[home[c]]
    /\ \A l \in AllLoops : client[l] # NoCall => home[client[l]] = l

\* A loop that is not free executes a coroutine, or a handler blocks it; and whoever
\* waits has something to wait for.
BlockInv ==
    /\ \A c \in Calls :
          /\ pc[c] \in {"wait", "await"} => job[c] # "none"
          /\ job[c] = "nested" => /\ home[c] # MainLoop
                                  /\ \E d \in Calls : Calling(d) /\ caller[d] = c
    /\ \A l \in AllLoops : busy[l] # NoCall =>
          \/ job[busy[l]] \in OnLoop /\ home[busy[l]] = l
          \/ l = MainLoop /\ Calling(busy[l]) /\ caller[busy[l]] = Handler

IInv ==
    /\ TypeOK /\ LockInv /\ LoopInv /\ JobInv /\ CallerInv /\ ClientInv /\ BlockInv
    /\ BridgeNeverBlocked
=============================================================================
