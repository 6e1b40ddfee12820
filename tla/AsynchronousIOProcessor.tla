----------------------- MODULE AsynchronousIOProcessor -----------------------
(***************************************************************************)
(* The asynchronous I/O processor of the multi-threaded engine             *)
(* (source/io/AsynchronousIOProcessor.txx): one I/O thread that takes      *)
(* requests from a queue and performs them, and client threads that wait   *)
(* for the buffers to come back.  The model is at the grain of the         *)
(* mutexes, the condition variables and the unsynchronised reads and       *)
(* writes of m_Stopped and m_Exception.                                    *)
(*                                                                         *)
(* Threads:                                                                *)
(*   io       the thread that runs StartIOWorker                           *)
(*   main     the thread that owns the processor: RequestIOOperation,      *)
(*            WaitForCompletion and the destructor                         *)
(*   waiters  the threads that call WaitForBufferRelease                   *)
(* The clients keep the contract documented in the header: an image is not *)
(* requested again before WaitForBufferRelease has returned it, and the    *)
(* processor is not destroyed while a thread waits.                        *)
(*                                                                         *)
(* A critical section that blocks on nothing else is one action, enabled   *)
(* when its mutex is free; the mutexes that are held across actions are    *)
(* RequestMutexFree and CompletedMutexFree.                                *)
(***************************************************************************)
EXTENDS Integers, Sequences, FiniteSets

CONSTANTS
  Waiters,               \* the threads that call WaitForBufferRelease
  Images,                \* the buffers
  NULL,                  \* the null pointer
  MaxRequests            \* bound: calls of RequestIOOperation

ASSUME MaxRequestsAssumption == MaxRequests \in Nat
ASSUME NullAssumption == NULL \notin Images

VARIABLES
  queue,                 \* m_Queue
  completedRequests,     \* m_CompletedRequests
  stopped,               \* m_Stopped
  exception,             \* m_Exception: NULL (0), or the request that failed
  io,                    \* control state of the I/O thread
  current,               \* the request the I/O thread has popped
  main,                  \* control state of the owner
  waiter,                \* control state of each waiter
  image,                 \* the argument of each waiter's call, or NULL
  issued,                \* number of requests so far; the last one's number
  loan,                  \* loan[i]: the request image i is lent to, or 0
  performed,             \* the requests whose I/O was carried out
  failed,                \* the first request whose I/O threw, or 0
  drained                \* WaitForCompletion returned, and no request since

(* The last five variables are a record of what happened; the code has no  *)
(* such state, and no guard but the clients' contract reads them.          *)
procVars == <<queue, completedRequests, stopped, exception>>
ioVars   == <<io, current>>
ioLog    == <<performed, failed>>
vars == <<queue, completedRequests, stopped, exception, io, current, main,
          waiter, image, issued, loan, performed, failed, drained>>

NoRequest == [id |-> 0, image |-> NULL]
Request   == [id : 1 .. MaxRequests, image : Images]

IOStates ==
  {"loop", "lock", "check", "park", "waiting", "got", "io", "register",
   "notify", "done"}
MainStates ==
  {"idle", "notify", "completionCheck", "completionLock", "completionCount",
   "completionWaiting", "completionWoken", "stopNotifyRequest",
   "stopNotifyCompleted", "join", "destroyed"}
WaiterStates == {"idle", "check", "lock", "waiting", "woken"}

TypeOK ==
  /\ queue \in Seq(Request)
  /\ completedRequests \in SUBSET Images
  /\ stopped \in BOOLEAN
  /\ exception \in 0 .. MaxRequests
  /\ io \in IOStates
  /\ current \in Request \cup {NoRequest}
  /\ main \in MainStates
  /\ waiter \in [Waiters -> WaiterStates]
  /\ image \in [Waiters -> Images \cup {NULL}]
  /\ issued \in 0 .. MaxRequests
  /\ loan \in [Images -> 0 .. MaxRequests]
  /\ performed \in SUBSET (1 .. MaxRequests)
  /\ failed \in 0 .. MaxRequests
  /\ drained \in BOOLEAN

Init ==
  /\ queue = <<>>
  /\ completedRequests = {}
  /\ stopped = FALSE
  /\ exception = 0
  /\ io = "loop"
  /\ current = NoRequest
  /\ main = "idle"
  /\ waiter = [w \in Waiters |-> "idle"]
  /\ image = [w \in Waiters |-> NULL]
  /\ issued = 0
  /\ loan = [i \in Images |-> 0]
  /\ performed = {}
  /\ failed = 0
  /\ drained = FALSE

(* m_RequestMutex is held by GetRequest between its test of m_Stopped and  *)
(* its wait; m_CompletedMutex is held by WaitForCompletion while it locks  *)
(* m_RequestMutex to count the requests.                                   *)
RequestMutexFree   == io \notin {"check", "park"}
CompletedMutexFree == main # "completionCount"

-----------------------------------------------------------------------------
(* The I/O thread: StartIOWorker, GetRequest, ExecuteOperation             *)

(* while (!m_Stopped), without a lock.                                     *)
Loop ==
  /\ io = "loop"
  /\ io' = IF stopped THEN "done" ELSE "lock"
  /\ UNCHANGED <<procVars, current, main, waiter, image, issued, loan,
                 ioLog, drained>>

(* GetRequest locks m_RequestMutex, on entry and when its wait is over.    *)
LockRequests ==
  /\ io = "lock"
  /\ io' = "check"
  /\ UNCHANGED <<procVars, current, main, waiter, image, issued, loan,
                 ioLog, drained>>

(* Fault: a stack instead of a queue.                                      *)
PopsNewest ==
  /\ io = "check"
  /\ IF stopped \/ queue = <<>>
     THEN /\ io' = IF stopped THEN "got" ELSE "park"
          /\ UNCHANGED <<queue, current>>
     ELSE /\ current' = queue[Len(queue)]
          /\ queue' = SubSeq(queue, 1, Len(queue) - 1)
          /\ io' = "got"
  /\ UNCHANGED <<completedRequests, stopped, exception, main, waiter, image,
                 issued, loan, ioLog, drained>>

(* GetRequest: the dummy request when stopped, the front of the queue when *)
(* there is one; otherwise on to the wait, the mutex still held.           *)
CheckQueue ==
  /\ io = "check"
  /\ \/ /\ stopped
        /\ io' = "got"
        /\ UNCHANGED <<queue, current>>
     \/ /\ ~stopped
        /\ queue # <<>>
        /\ current' = Head(queue)
        /\ queue' = Tail(queue)
        /\ io' = "got"
     \/ /\ ~stopped
        /\ queue = <<>>
        /\ io' = "park"
        /\ UNCHANGED <<queue, current>>
  /\ UNCHANGED <<completedRequests, stopped, exception, main, waiter, image,
                 issued, loan, ioLog, drained>>

(* m_RequestCondition.wait releases the mutex and blocks in one step.      *)
Park ==
  /\ io = "park"
  /\ io' = "waiting"
  /\ UNCHANGED <<procVars, current, main, waiter, image, issued, loan,
                 ioLog, drained>>

(* Fault: m_Stopped is not tested again after GetRequest.                  *)
ExecutesDummyRequest ==
  /\ io = "got"
  /\ io' = IF exception = 0 THEN "io" ELSE "register"
  /\ UNCHANGED <<procVars, current, main, waiter, image, issued, loan,
                 ioLog, drained>>

(* StartIOWorker leaves if m_Stopped, whatever it has popped; otherwise    *)
(* ExecuteOperation performs the I/O unless an exception is stored.        *)
BeginOperation ==
  /\ io = "got"
  /\ io' = IF stopped THEN "done"
           ELSE IF exception = 0 THEN "io" ELSE "register"
  /\ UNCHANGED <<procVars, current, main, waiter, image, issued, loan,
                 ioLog, drained>>

(* The reader or writer returns, or throws and the exception is stored.    *)
EndOperation ==
  /\ io = "io"
  /\ io' = "register"
  /\ \/ /\ performed' = performed \cup {current.id}
        /\ UNCHANGED <<exception, failed>>
     \/ /\ exception' = IF exception = 0 THEN current.id ELSE exception
        /\ failed' = IF failed = 0 THEN current.id ELSE failed
        /\ UNCHANGED performed
  /\ UNCHANGED <<queue, completedRequests, stopped, current, main, waiter,
                 image, issued, loan, drained>>

(* The image joins the set m_CompletedRequests under m_CompletedMutex.     *)
Register ==
  /\ io = "register"
  /\ CompletedMutexFree
  /\ completedRequests' = completedRequests \cup {current.image}
  /\ current' = NoRequest
  /\ io' = "notify"
  /\ UNCHANGED <<queue, stopped, exception, main, waiter, image, issued,
                 loan, ioLog, drained>>

(* Fault: notify_one, which wakes an arbitrary thread.                     *)
WakeOne ==
  \/ \E w \in Waiters :
       /\ waiter[w] = "waiting"
       /\ waiter' = [waiter EXCEPT ![w] = "woken"]
       /\ UNCHANGED main
  \/ /\ main = "completionWaiting"
     /\ main' = "completionWoken"
     /\ UNCHANGED waiter
  \/ /\ \A w \in Waiters : waiter[w] # "waiting"
     /\ main # "completionWaiting"
     /\ UNCHANGED <<waiter, main>>

(* Every thread blocked on m_CompletedCondition is woken.                  *)
WakeAll ==
  /\ waiter' = [w \in Waiters |->
                  IF waiter[w] = "waiting" THEN "woken" ELSE waiter[w]]
  /\ main' = IF main = "completionWaiting" THEN "completionWoken" ELSE main

NotifyCompleted ==
  /\ io = "notify"
  /\ WakeAll
  /\ io' = "loop"
  /\ UNCHANGED <<procVars, current, image, issued, loan, ioLog, drained>>

IOThread ==
  \/ Loop \/ LockRequests \/ CheckQueue \/ Park
  \/ BeginOperation \/ EndOperation \/ Register \/ NotifyCompleted

-----------------------------------------------------------------------------
(* The waiters: WaitForBufferRelease                                       *)

(* A call, on an image nobody else waits for, while the owner is not       *)
(* destroying the processor.  It may precede the request.                  *)
CallWaitForBufferRelease(w, i) ==
  /\ waiter[w] = "idle"
  /\ ~stopped
  /\ \A v \in Waiters : image[v] # i
  /\ waiter' = [waiter EXCEPT ![w] = "check"]
  /\ image' = [image EXCEPT ![w] = i]
  /\ UNCHANGED <<procVars, ioVars, main, issued, loan, ioLog, drained>>

(* The call throws the stored exception.                                   *)
Throw(w) ==
  /\ exception # 0
  /\ waiter' = [waiter EXCEPT ![w] = "idle"]
  /\ image' = [image EXCEPT ![w] = NULL]
  /\ UNCHANGED <<completedRequests, loan>>

(* Fault: the image stays in the set of completed ones.                    *)
LeavesImage(w) ==
  /\ image[w] \in completedRequests
  /\ loan' = [loan EXCEPT ![image[w]] = 0]
  /\ waiter' = [waiter EXCEPT ![w] = "idle"]
  /\ image' = [image EXCEPT ![w] = NULL]
  /\ UNCHANGED <<completedRequests>>

(* The call finds its image among the completed ones, erases it, returns.  *)
TakeImage(w) ==
  /\ image[w] \in completedRequests
  /\ completedRequests' = completedRequests \ {image[w]}
  /\ loan' = [loan EXCEPT ![image[w]] = 0]
  /\ waiter' = [waiter EXCEPT ![w] = "idle"]
  /\ image' = [image EXCEPT ![w] = NULL]

(* The call blocks on m_CompletedCondition.                                *)
Block(w) ==
  /\ image[w] \notin completedRequests
  /\ waiter' = [waiter EXCEPT ![w] = "waiting"]
  /\ UNCHANGED <<completedRequests, image, loan>>

(* The first CheckException, before the mutex is locked.                   *)
CheckBeforeLock(w) ==
  /\ waiter[w] = "check"
  /\ \/ Throw(w)
     \/ /\ exception = 0
        /\ waiter' = [waiter EXCEPT ![w] = "lock"]
        /\ UNCHANGED <<completedRequests, image, loan>>
  /\ UNCHANGED <<queue, stopped, exception, ioVars, main, issued, ioLog,
                 drained>>

(* The mutex is locked and the loop's condition evaluated; m_Exception is  *)
(* not read again.                                                         *)
EnterLocked(w) ==
  /\ waiter[w] = "lock"
  /\ CompletedMutexFree
  /\ TakeImage(w) \/ Block(w)
  /\ UNCHANGED <<queue, stopped, exception, ioVars, main, issued, ioLog,
                 drained>>

(* Woken, the mutex locked again: CheckException, then the loop condition. *)
WakeUp(w) ==
  /\ waiter[w] = "woken"
  /\ CompletedMutexFree
  /\ \/ Throw(w)
     \/ exception = 0 /\ (TakeImage(w) \/ Block(w))
  /\ UNCHANGED <<queue, stopped, exception, ioVars, main, issued, ioLog,
                 drained>>

-----------------------------------------------------------------------------
(* The owner: RequestIOOperation, WaitForCompletion, the destructor        *)

(* The request is queued under m_RequestMutex.  m_Stopped is FALSE: only   *)
(* the destructor sets it, and this thread is the one that runs it.        *)
RequestIOOperation(i) ==
  /\ main = "idle"
  /\ loan[i] = 0
  /\ issued < MaxRequests
  /\ RequestMutexFree
  /\ queue' = Append(queue, [id |-> issued + 1, image |-> i])
  /\ issued' = issued + 1
  /\ loan' = [loan EXCEPT ![i] = issued + 1]
  /\ drained' = FALSE
  /\ main' = "notify"
  /\ UNCHANGED <<completedRequests, stopped, exception, ioVars, waiter,
                 image, ioLog>>

(* m_RequestCondition.notify_all, after the mutex is released.             *)
WakeIO == io' = IF io = "waiting" THEN "lock" ELSE io

NotifyRequest ==
  /\ main = "notify"
  /\ WakeIO
  /\ main' = "idle"
  /\ UNCHANGED <<procVars, current, waiter, image, issued, loan, ioLog,
                 drained>>

CallWaitForCompletion ==
  /\ main = "idle"
  /\ main' = "completionCheck"
  /\ UNCHANGED <<procVars, ioVars, waiter, image, issued, loan, ioLog,
                 drained>>

(* CheckException: on entry without a lock, later when woken.              *)
CompletionThrow ==
  /\ \/ main = "completionCheck"
     \/ main = "completionWoken"
  /\ exception # 0
  /\ main' = "idle"
  /\ UNCHANGED <<procVars, ioVars, waiter, image, issued, loan, ioLog,
                 drained>>

CompletionProceed ==
  /\ main = "completionCheck"
  /\ exception = 0
  /\ main' = "completionLock"
  /\ UNCHANGED <<procVars, ioVars, waiter, image, issued, loan, ioLog,
                 drained>>

(* m_CompletedMutex is locked, or locked again after a wake-up.            *)
CompletionLock ==
  /\ \/ main = "completionLock"
     \/ main = "completionWoken" /\ exception = 0
  /\ main' = "completionCount"
  /\ UNCHANGED <<procVars, ioVars, waiter, image, issued, loan, ioLog,
                 drained>>

(* Fault: the requests are not counted.                                    *)
CompletesAtOnce ==
  /\ main = "completionCount"
  /\ RequestMutexFree
  /\ main' = "idle"
  /\ drained' = TRUE
  /\ UNCHANGED <<procVars, ioVars, waiter, image, issued, loan, ioLog>>

(* Under both mutexes: return when the queue is empty, else wait.          *)
CompletionCount ==
  /\ main = "completionCount"
  /\ RequestMutexFree
  /\ \/ /\ queue = <<>>
        /\ main' = "idle"
        /\ drained' = TRUE
     \/ /\ queue # <<>>
        /\ main' = "completionWaiting"
        /\ UNCHANGED drained
  /\ UNCHANGED <<procVars, ioVars, waiter, image, issued, loan, ioLog>>

(* ~AsynchronousIOProcessor sets m_Stopped, without the mutexes...         *)
CallDestructor ==
  /\ main = "idle"
  /\ \A w \in Waiters : waiter[w] = "idle"
  /\ stopped' = TRUE
  /\ main' = "stopNotifyRequest"
  /\ UNCHANGED <<queue, completedRequests, exception, ioVars, waiter, image,
                 issued, loan, ioLog, drained>>

(* Fault: only the waiters are notified.                                   *)
StopLeavesIOAsleep ==
  /\ main = "stopNotifyRequest"
  /\ main' = "stopNotifyCompleted"
  /\ UNCHANGED <<procVars, ioVars, waiter, image, issued, loan, ioLog,
                 drained>>

(* ...and notifies both conditions...                                      *)
StopNotifyRequest ==
  /\ main = "stopNotifyRequest"
  /\ WakeIO
  /\ main' = "stopNotifyCompleted"
  /\ UNCHANGED <<procVars, current, waiter, image, issued, loan, ioLog,
                 drained>>

StopNotifyCompleted ==
  /\ main = "stopNotifyCompleted"
  /\ waiter' = [w \in Waiters |->
                  IF waiter[w] = "waiting" THEN "woken" ELSE waiter[w]]
  /\ main' = "join"
  /\ UNCHANGED <<procVars, ioVars, image, issued, loan, ioLog, drained>>

(* ...then joins the I/O thread and deletes the exception, if any.         *)
Join ==
  /\ main = "join"
  /\ io = "done"
  /\ main' = "destroyed"
  /\ exception' = 0
  /\ UNCHANGED <<queue, completedRequests, stopped, ioVars, waiter, image,
                 issued, loan, ioLog, drained>>

-----------------------------------------------------------------------------
(* A condition variable may wake a thread for no reason.                   *)
SpuriousWakeUp ==
  /\ \/ /\ io = "waiting"
        /\ io' = "lock"
        /\ UNCHANGED <<waiter, main>>
     \/ \E w \in Waiters :
          /\ waiter[w] = "waiting"
          /\ waiter' = [waiter EXCEPT ![w] = "woken"]
          /\ UNCHANGED <<io, main>>
     \/ /\ main = "completionWaiting"
        /\ main' = "completionWoken"
        /\ UNCHANGED <<io, waiter>>
  /\ UNCHANGED <<procVars, current, image, issued, loan, ioLog, drained>>

Terminated ==
  /\ main = "destroyed"
  /\ UNCHANGED vars

(* The steps of a call that a waiter, or the owner, is in.                 *)
WaiterInCall(w) == CheckBeforeLock(w) \/ EnterLocked(w) \/ WakeUp(w)

OwnerInCall ==
  \/ NotifyRequest
  \/ CompletionThrow \/ CompletionProceed \/ CompletionLock \/ CompletionCount
  \/ StopNotifyRequest \/ StopNotifyCompleted \/ Join

Owner ==
  \/ \E i \in Images : RequestIOOperation(i)
  \/ CallWaitForCompletion
  \/ CallDestructor
  \/ OwnerInCall

Next ==
  \/ IOThread
  \/ \E w \in Waiters :
       \/ \E i \in Images : CallWaitForBufferRelease(w, i)
       \/ WaiterInCall(w)
  \/ Owner
  \/ SpuriousWakeUp
  \/ Terminated

Spec == Init /\ [][Next]_vars

(* A thread inside a call (the I/O thread always is) is scheduled, and a   *)
(* mutex that is free again and again is eventually granted to it: hence   *)
(* strong fairness of the thread's next step.  No call need ever be made,  *)
(* and no spurious wake-up need happen.                                    *)
Fairness ==
  /\ SF_vars(IOThread)
  /\ \A w \in Waiters : SF_vars(WaiterInCall(w))
  /\ SF_vars(OwnerInCall)

FairSpec == Spec /\ Fairness

-----------------------------------------------------------------------------
(* Properties                                                              *)

(* The requests the I/O thread has not registered yet.                     *)
Unfinished ==
  {queue[k] : k \in 1 .. Len(queue)}
    \cup (IF current = NoRequest THEN {} ELSE {current})

(* A buffer stays lent to its request until the I/O thread is done with    *)
(* it: WaitForBufferRelease never returns a buffer that is queued or in    *)
(* use, whatever earlier requests on the same buffer left behind in        *)
(* m_CompletedRequests.                                                    *)
BufferExclusion == \A r \in Unfinished : loan[r.image] = r.id

(* What has been carried out is the first n requests, in the order issued; *)
(* and if one failed it is the next one: an output file never has a hole.  *)
NoHoles ==
  \E n \in 0 .. MaxRequests :
    /\ performed = 1 .. n
    /\ failed # 0 => failed = n + 1

(* A thread asleep in WaitForBufferRelease whose image is registered is    *)
(* about to be notified: the registration cannot slip between its test     *)
(* and its wait.                                                           *)
NoLostCompletion ==
  \A w \in Waiters :
    waiter[w] = "waiting" /\ image[w] \in completedRequests => io = "notify"

(* When WaitForCompletion has returned normally before the destructor ran  *)
(* and nothing failed, every request but possibly the last was performed.  *)
OnlyLastAtRisk ==
  main = "destroyed" /\ drained /\ failed = 0
    => 1 .. issued - 1 \subseteq performed

(* The destructor returns, unless it notified while the I/O thread was     *)
(* between its test of m_Stopped and its wait.                             *)
DestructorReturnsUnlessParking ==
  main = "stopNotifyRequest" /\ io # "park" ~> main = "destroyed"

(* Every call of WaitForBufferRelease whose request was issued, and every  *)
(* call of WaitForCompletion, returns or throws.                           *)
CallsReturn ==
  /\ \A w \in Waiters :
       waiter[w] # "idle" /\ loan[image[w]] # 0 ~> waiter[w] = "idle"
  /\ main = "completionCheck" ~> main = "idle"

(* The requests in the queue or with the I/O thread before it has finished *)
(* its I/O, while the processor exists.                                    *)
Unsettled ==
  IF main = "destroyed" THEN {}
  ELSE {queue[k].id : k \in 1 .. Len(queue)}
         \cup (IF io \in {"got", "io", "done"} THEN {current.id} ELSE {})

FateOf ==
  [k \in 1 .. issued |->
     CASE k \in performed -> "done"
       [] k = failed -> "failed"
       [] k \in Unsettled -> "pending"
       [] OTHER -> "dropped"]

Promise == INSTANCE OrderedIO
  WITH fate <- FateOf, loan <- loan, closed <- (main = "destroyed")

(* The processor keeps its promise: it implements OrderedIO.               *)
KeepsPromise == Promise!Spec

-----------------------------------------------------------------------------
(* What the header says of the processor, and the code does not do         *)

(* AsynchronousIOProcessor.hpp:134: the destructor "will abruptly stop all *)
(* I/O"; that is, it returns.                                              *)
DestructorReturns == main = "stopNotifyRequest" ~> main = "destroyed"

(* AsynchronousIOProcessor.hpp:171-173: a caller that waits for completion *)
(* before deleting the object has its write requests carried out (or, when *)
(* one fails, an exception).                                               *)
DrainedWritesAreCarriedOut ==
  main = "destroyed" /\ drained /\ failed = 0 => performed = 1 .. issued
=============================================================================
