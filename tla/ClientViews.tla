---------------------------- MODULE ClientViews -----------------------------
(***************************************************************************)
(* The client's three views of the working block (Client.cpp): m_preSeal,  *)
(* m_postSeal and m_working, each guarded by its own read/write lock       *)
(* (x_preSeal, x_postSeal, x_working), shared by the worker thread and the *)
(* RPC threads.                                                            *)
(*                                                                         *)
(* Each operation is written as the sequence of its lock, copy and sync    *)
(* steps, in code order, and every thread runs one such program at a time. *)
(* A view is "ready" (a Block over the open state database) or "empty" (a  *)
(* default-constructed Block, as reopenChain leaves the views while it     *)
(* swaps the database).  The locks are boost::shared_mutex: a writer that  *)
(* has asked for the lock keeps new readers out.                           *)
(***************************************************************************)
EXTENDS Integers, Sequences, FiniteSets

CONSTANTS
    Rpc,        \* RPC threads calling into the client
    Reopeners,  \* the RPC threads that may call reopenChain
    Worker,     \* the client's worker thread
    MaxHanded,  \* how many functions the RPC threads hand to the worker
    None

Threads == Rpc \cup {Worker}
Views == {"pre", "post", "working"}
\* x_preSeal, x_postSeal, x_working are named after their views.
Mutexes == Views \cup {"functionQueue"}

VARIABLES
    view,       \* view name -> "ready" | "empty"
    writer,     \* mutex -> the thread holding it exclusively, or None
    readers,    \* mutex -> the threads holding it shared
    wantW,      \* mutex -> the threads blocked in lock() on it
    prog,       \* thread -> the program it runs
    pc,         \* thread -> the next step of it; past the end means idle
    temp,       \* RPC thread -> what its call() copied from m_postSeal
    stopReq,    \* Worker::stopWorking asked the worker to stop
    fq,         \* m_functionQueue: the RPC threads whose function waits
    fnext,      \* the function callQueuedFunctions popped, or None
    handed      \* how many functions have been pushed so far

vars == <<view, writer, readers, wantW, prog, pc, temp, stopReq, fq, fnext, handed>>

I(op, m) == [op |-> op, m |-> m]

\* DEV_WRITE_GUARDED(x) / WriteGuard: ask, then hold.
WriteLock(m) == <<I("reqW", m), I("acqW", m)>>
ReadLock(m) == <<I("acqR", m)>>
Unlock(m) == <<I("rel", m)>>
Copy(dst) == <<I("copyPre", dst)>>      \* dst = m_preSeal

\* Client::startedWorking and Client::doneWorking (the same steps): sync
\* m_preSeal to the chain under its write lock, then, holding it shared,
\* copy it into m_working and m_postSeal under their write locks.
SyncAndCopy ==
    WriteLock("pre") \o <<I("sync", "pre")>> \o Unlock("pre")
    \o ReadLock("pre")
    \o WriteLock("working") \o Copy("working") \o Unlock("working")
    \o WriteLock("post") \o Copy("post") \o Unlock("post")
    \o Unlock("pre")

\* Client::callQueuedFunctions: pop the front function under
\* x_functionQueue, then, with the lock released, call it and loop, or
\* break when the queue was empty.
CallQueuedFunctions ==
    WriteLock("functionQueue") \o <<I("pop", None)>> \o Unlock("functionQueue")
    \o <<I("runF", None)>>

\* Mutant: reopenChain does not call doWork() before it restarts the worker.
ReopenChainNoDoWork ==
    <<I("stopWorking", None), I("awaitStopped", None)>>
    \o WriteLock("post") \o WriteLock("pre") \o WriteLock("working")
    \o <<I("blank", None), I("genesis", None)>>
    \o Unlock("working") \o Unlock("pre") \o Unlock("post")
    \o SyncAndCopy
    \o <<I("startWorking", None)>>

\* Client::reopenChain: stop the worker, take the three write locks in the
\* order postSeal, preSeal, working, blank the views and reopen the
\* database, rebuild from genesis, release, then startedWorking() and
\* doWork() on this thread (doWork ends in callQueuedFunctions) and
\* restart the worker.
ReopenChain ==
    <<I("stopWorking", None), I("awaitStopped", None)>>
    \o WriteLock("post") \o WriteLock("pre") \o WriteLock("working")
    \o <<I("blank", None), I("genesis", None)>>
    \o Unlock("working") \o Unlock("pre") \o Unlock("post")
    \o SyncAndCopy \o CallQueuedFunctions
    \o <<I("startWorking", None)>>

\* Client::clearPending: under the postSeal write lock, return if nothing
\* is pending, else copy preSeal under its read lock.
ClearPending ==
    WriteLock("post") \o <<I("retIfNoPending", "post")>>
    \o ReadLock("pre") \o Copy("post") \o Unlock("pre") \o Unlock("post")

\* Mutant: call() copies m_postSeal without its read lock.
CallUnguarded ==
    <<I("logViews", None), I("copyPost", None)>>

\* Client::call: the log line reads both views with no lock held, then the
\* copy of m_postSeal is taken under its read lock; execution runs on
\* the private copy.
Call ==
    <<I("logViews", None)>> \o ReadLock("post") \o <<I("copyPost", None)>> \o Unlock("post")

\* Client::executeInMainThread: push the function under x_functionQueue
\* (the notify only shortens the worker's one-second wait).
ExecuteInMainThread ==
    WriteLock("functionQueue") \o <<I("push", None)>> \o Unlock("functionQueue")

\* One iteration of the worker loop while it is not asked to stop: doWork,
\* whose last call is callQueuedFunctions.
DoWork == <<I("work", None)>> \o CallQueuedFunctions \o <<I("loop", None)>>

\* The worker: startedWorking, doWork until asked to stop, doneWorking.
WorkerProgram == SyncAndCopy \o DoWork \o SyncAndCopy

\* The functions an RPC thread has handed to the worker and that have not
\* run yet.
Pending(t) == (\E i \in DOMAIN fq : fq[i] = t) \/ fnext = t

\* An RPC thread hands the worker one function at a time, and MaxHanded
\* in all: callQueuedFunctions returns only once it finds the queue empty,
\* so a never-ending stream of functions could keep the worker in it.
Programs(t) ==
    (IF t \in Reopeners THEN {ReopenChain, ClearPending, Call} ELSE {ClearPending, Call})
    \cup (IF Pending(t) \/ handed >= MaxHanded THEN {} ELSE {ExecuteInMainThread})

Running(t) == pc[t] <= Len(prog[t])
At(t) == prog[t][pc[t]]
WorkerStopped == ~Running(Worker)
Advance(t) == pc' = [pc EXCEPT ![t] = @ + 1]

Free(m) == writer[m] = None /\ readers[m] = {}

\* The instruction thread t is at, when it has one of kind op.
Exec(t, op) == Running(t) /\ At(t).op = op

Others == <<view, writer, readers, wantW, temp, stopReq>>

\* lock() on a write guard: the thread is now waiting for the mutex.
RequestWrite(t) ==
    /\ Exec(t, "reqW")
    /\ wantW' = [wantW EXCEPT ![At(t).m] = @ \cup {t}]
    /\ Advance(t)
    /\ UNCHANGED <<view, writer, readers, prog, temp, stopReq, fq, fnext, handed>>

AcquireWrite(t) ==
    /\ Exec(t, "acqW")
    /\ Free(At(t).m)
    /\ writer' = [writer EXCEPT ![At(t).m] = t]
    /\ wantW' = [wantW EXCEPT ![At(t).m] = @ \ {t}]
    /\ Advance(t)
    /\ UNCHANGED <<view, readers, prog, temp, stopReq, fq, fnext, handed>>

\* lock_shared(): no holder and no waiting writer.
AcquireRead(t) ==
    /\ Exec(t, "acqR")
    /\ writer[At(t).m] = None
    /\ wantW[At(t).m] = {}
    /\ readers' = [readers EXCEPT ![At(t).m] = @ \cup {t}]
    /\ Advance(t)
    /\ UNCHANGED <<view, writer, wantW, prog, temp, stopReq, fq, fnext, handed>>

Release(t) ==
    /\ Exec(t, "rel")
    /\ writer' = [writer EXCEPT ![At(t).m] = IF @ = t THEN None ELSE @]
    /\ readers' = [readers EXCEPT ![At(t).m] = @ \ {t}]
    /\ Advance(t)
    /\ UNCHANGED <<view, wantW, prog, temp, stopReq, fq, fnext, handed>>

\* m_preSeal.sync(bc()): a ready block stays over the open database.  The
\* log line of call() and the sync read no lock-protected state the
\* properties distinguish, so they only move the thread on.
NoEffect(t) ==
    /\ \/ Exec(t, "sync")
       \/ Exec(t, "logViews")
    /\ Advance(t)
    /\ UNCHANGED <<Others, prog, fq, fnext, handed>>

\* Block::operator=: every member of the source, the state over its
\* database included, is copied (a self-assignment changes nothing).
Assign(dst, src) == [view EXCEPT ![dst] = view[src]]

\* m_working = m_preSeal, m_postSeal = m_preSeal.
CopyPre(t) ==
    /\ Exec(t, "copyPre")
    /\ view' = Assign(At(t).m, "pre")
    /\ Advance(t)
    /\ UNCHANGED <<writer, readers, wantW, prog, temp, stopReq, fq, fnext, handed>>

\* temp = m_postSeal in call().
CopyPost(t) ==
    /\ Exec(t, "copyPost")
    /\ temp' = [temp EXCEPT ![t] = view["post"]]
    /\ Advance(t)
    /\ UNCHANGED <<view, writer, readers, wantW, prog, stopReq, fq, fnext, handed>>

\* if (!m_postSeal.pending().size()) return; leaving the guarded block
\* releases the lock.  What is pending is the sealer's, so either way.
ReturnIfNoPending(t) ==
    /\ Exec(t, "retIfNoPending")
    /\ \/ Advance(t) /\ UNCHANGED writer
       \/ /\ writer' = [writer EXCEPT ![At(t).m] = None]
          /\ pc' = [pc EXCEPT ![t] = Len(prog[t]) + 1]
    /\ UNCHANGED <<view, readers, wantW, prog, temp, stopReq, fq, fnext, handed>>

\* reopenChain's locked block: the three views become default Blocks,
\* the database is reopened, then m_preSeal is the genesis block over it,
\* m_postSeal a copy of it, and m_working a default Block again.
Blank(t) ==
    /\ Exec(t, "blank")
    /\ view' = [v \in Views |-> "empty"]
    /\ Advance(t)
    /\ UNCHANGED <<writer, readers, wantW, prog, temp, stopReq, fq, fnext, handed>>

Genesis(t) ==
    /\ Exec(t, "genesis")
    /\ view' = [view EXCEPT !["pre"] = "ready", !["post"] = "ready"]
    /\ Advance(t)
    /\ UNCHANGED <<writer, readers, wantW, prog, temp, stopReq, fq, fnext, handed>>

\* Mutant: the stop request is not recorded.
StopWorkingNoRequest(t) ==
    /\ Exec(t, "stopWorking")
    /\ Advance(t)
    /\ UNCHANGED <<view, writer, readers, wantW, prog, temp, stopReq, fq, fnext, handed>>

\* Worker::stopWorking: ask a running worker to stop, then wait until it
\* has run doneWorking and stopped.
StopWorking(t) ==
    /\ Exec(t, "stopWorking")
    /\ stopReq' = ~WorkerStopped
    /\ Advance(t)
    /\ UNCHANGED <<view, writer, readers, wantW, prog, temp, fq, fnext, handed>>

AwaitStopped(t) ==
    /\ Exec(t, "awaitStopped")
    /\ WorkerStopped
    /\ Advance(t)
    /\ UNCHANGED <<Others, prog, fq, fnext, handed>>

\* Worker::startWorking: a stopped worker starts over with startedWorking.
\* Its compare-exchange from Stopped to Starting fails on a worker that is
\* still stopping, so a pending stop request is kept and that worker stops.
StartWorking(t) ==
    /\ Exec(t, "startWorking")
    /\ pc' = [pc EXCEPT ![t] = @ + 1, ![Worker] = IF WorkerStopped THEN 1 ELSE @]
    /\ stopReq' = (stopReq /\ ~WorkerStopped)
    /\ UNCHANGED <<view, writer, readers, wantW, prog, temp, fq, fnext, handed>>

\* Worker::workLoop: while not asked to stop, run doWork, else leave the
\* loop for doneWorking.  An iteration with an empty function queue ends
\* in doWork's wait on m_signalled and changes nothing modelled here, so
\* the worker is taken to wait until a function is queued or it is asked
\* to stop (executeInMainThread and stopWorking both notify it).
Work(t) ==
    /\ Exec(t, "work")
    /\ stopReq \/ fq # <<>>
    /\ pc' = [pc EXCEPT ![t] = IF stopReq THEN @ + Len(DoWork) ELSE @ + 1]
    /\ UNCHANGED <<Others, prog, fq, fnext, handed>>

Loop(t) ==
    /\ Exec(t, "loop")
    /\ pc' = [pc EXCEPT ![t] = @ - (Len(DoWork) - 1)]
    /\ UNCHANGED <<Others, prog, fq, fnext, handed>>

\* m_functionQueue.push(_function).
Push(t) ==
    /\ Exec(t, "push")
    /\ fq' = Append(fq, t)
    /\ handed' = handed + 1
    /\ Advance(t)
    /\ UNCHANGED <<Others, prog, fnext>>

\* if (!m_functionQueue.empty()) { f = front(); pop(); }
Pop(t) ==
    /\ Exec(t, "pop")
    /\ fnext' = IF fq = <<>> THEN None ELSE Head(fq)
    /\ fq' = IF fq = <<>> THEN fq ELSE Tail(fq)
    /\ Advance(t)
    /\ UNCHANGED <<Others, prog, handed>>

\* if (f) f(); else break;  After the call the loop takes the lock again.
RunF(t) ==
    /\ Exec(t, "runF")
    /\ fnext' = None
    /\ pc' = [pc EXCEPT ![t] = IF fnext = None THEN @ + 1
                                ELSE @ - (Len(CallQueuedFunctions) - 1)]
    /\ UNCHANGED <<Others, prog, fq, handed>>

Step(t) ==
    \/ RequestWrite(t) \/ AcquireWrite(t) \/ AcquireRead(t) \/ Release(t)
    \/ NoEffect(t) \/ CopyPre(t) \/ CopyPost(t) \/ ReturnIfNoPending(t)
    \/ Blank(t) \/ Genesis(t) \/ StopWorking(t) \/ AwaitStopped(t)
    \/ StartWorking(t) \/ Work(t) \/ Loop(t) \/ Push(t) \/ Pop(t) \/ RunF(t)

\* An idle RPC thread calls one of the client's operations.
Invoke(t) ==
    /\ ~Running(t)
    /\ \E p \in Programs(t) :
           /\ prog' = [prog EXCEPT ![t] = p]
           /\ pc' = [pc EXCEPT ![t] = 1]
    /\ temp' = [temp EXCEPT ![t] = "none"]
    /\ UNCHANGED <<view, writer, readers, wantW, stopReq, fq, fnext, handed>>

\* Client::Client: the three views are default Blocks.
Constructed == [v \in Views |-> "empty"]

\* Client::init, called from the constructor: m_preSeal is the genesis
\* block, m_postSeal its copy, m_working stays a default Block;
\* startWorking() starts the worker.
Init ==
    /\ view = [Constructed EXCEPT !["pre"] = "ready", !["post"] = "ready"]
    /\ writer = [m \in Mutexes |-> None]
    /\ readers = [m \in Mutexes |-> {}]
    /\ wantW = [m \in Mutexes |-> {}]
    /\ prog = [t \in Threads |-> IF t = Worker THEN WorkerProgram ELSE <<>>]
    /\ pc = [t \in Threads |-> 1]
    /\ temp = [t \in Rpc |-> "none"]
    /\ fq = <<>>
    /\ fnext = None
    /\ handed = 0
    /\ stopReq = FALSE

Next ==
    \/ \E t \in Threads : Step(t)
    \/ \E t \in Rpc : Invoke(t)

\* A thread blocked on a mutex is woken whenever the mutex is released, so
\* a thread whose step is enabled infinitely often takes it.
Spec == Init /\ [][Next]_vars /\ \A t \in Threads : SF_vars(Step(t))

-----------------------------------------------------------------------------

\* Every client call an RPC thread makes returns: no set of threads ends up
\* waiting on each other's view locks.
CallsReturn == \A t \in Rpc : Running(t) ~> ~Running(t)

\* Every function an RPC thread hands to executeInMainThread is eventually
\* called, by the worker's callQueuedFunctions or by the doWork() of a
\* reopenChain, also while reopenChain keeps stopping the worker: a worker
\* restarted by one reopenChain and asked to stop by the next before its
\* loop begins leaves the queue to that next reopenChain's doWork.
QueuedFunctionsRun == \A t \in Rpc : Pending(t) ~> ~Pending(t)

\* call() executes on a copy of m_postSeal that is a block over the open
\* state database, never on the default Block reopenChain leaves in the
\* view while it swaps the database.
CallSeesUsableState == \A t \in Rpc : temp[t] # "empty"

\* No view is read while another thread writes it: the log line of
\* call() reads m_preSeal and m_postSeal, so neither may be write-locked.
NoUnguardedViewRead ==
    \A t \in Rpc :
        Running(t) /\ At(t).op = "logViews" => writer["pre"] = None /\ writer["post"] = None
=============================================================================
