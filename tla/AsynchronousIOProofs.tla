------------------------- MODULE AsynchronousIOProofs -------------------------
(***************************************************************************)
(* AsynchronousIOProcessor, for every number of waiters, buffers and       *)
(* requests: its safety, and that it implements OrderedIO.                 *)
(***************************************************************************)
EXTENDS AsynchronousIOProcessor, SequenceTheorems, TLAPS

USE MaxRequestsAssumption, NullAssumption

(* Requests are numbered as they are issued: the queue holds the most      *)
(* recent ones, in order, and the request in hand is the one before them.  *)
LastPopped == issued - Len(queue)

Numbering ==
  /\ Len(queue) <= issued
  /\ \A k \in 1 .. Len(queue) : queue[k].id = LastPopped + k
  /\ current # NoRequest => current.id = LastPopped

(* Where the I/O thread has a request in hand.                             *)
Holding ==
  /\ io \in {"loop", "lock", "check", "park", "waiting", "notify"}
       => current = NoRequest
  /\ io \in {"io", "register"} => current # NoRequest
  /\ io = "got" /\ current = NoRequest => stopped
  /\ main \in {"stopNotifyRequest", "stopNotifyCompleted", "join",
               "destroyed"} <=> stopped
  /\ main = "destroyed" => io = "done"

(* The last request whose I/O is over, one way or another.                 *)
LastSettled ==
  IF current # NoRequest /\ io \in {"got", "io", "done"}
  THEN LastPopped - 1 ELSE LastPopped

Carrying ==
  /\ main # "destroyed" => exception = failed
  /\ io = "io" => failed = 0
  /\ failed = 0 => performed = 1 .. LastSettled
  /\ failed # 0 => failed <= LastSettled /\ performed = 1 .. failed - 1

(* Every unfinished request has its buffer; every completed image is lent  *)
(* to a request that is finished.                                          *)
Lending ==
  /\ \A k \in 1 .. Len(queue) : loan[queue[k].image] = queue[k].id
  /\ current # NoRequest => loan[current.image] = current.id
  /\ \A i \in completedRequests :
       /\ loan[i] # 0
       /\ loan[i] <= LastPopped
       /\ current # NoRequest => loan[i] # LastPopped
  /\ \A i \in Images : loan[i] <= issued

IInv == TypeOK /\ Numbering /\ Holding /\ Carrying /\ Lending

-----------------------------------------------------------------------------
(* The sequence facts the queue needs.                                     *)
LEMMA PopFacts ==
  ASSUME NEW q \in Seq(Request), q # <<>>
  PROVE  /\ Len(q) \in Nat \ {0}
         /\ Head(q) \in Request
         /\ Head(q) = q[1]
         /\ Tail(q) \in Seq(Request)
         /\ Len(Tail(q)) = Len(q) - 1
         /\ \A k \in 1 .. Len(q) - 1 : Tail(q)[k] = q[k + 1]
BY HeadTailProperties, EmptySeq, LenProperties

LEMMA PushFacts ==
  ASSUME NEW q \in Seq(Request), NEW r \in Request
  PROVE  /\ Append(q, r) \in Seq(Request)
         /\ Len(Append(q, r)) = Len(q) + 1
         /\ \A k \in 1 .. Len(q) : Append(q, r)[k] = q[k]
         /\ Append(q, r)[Len(q) + 1] = r
BY AppendProperties

(* A request and the dummy request differ.                                 *)
LEMMA RequestFacts ==
  ASSUME NEW r \in Request
  PROVE  /\ r # NoRequest
         /\ r.id \in 1 .. MaxRequests
         /\ r.image \in Images
BY DEF Request, NoRequest

-----------------------------------------------------------------------------
(* Type correctness is inductive by itself but for the request in hand.    *)
LEMMA TypeStep ==
  ASSUME TypeOK, Holding, [Next]_vars
  PROVE  TypeOK'
<1> USE RequestFacts DEF TypeOK, procVars, ioVars, ioLog, IOStates,
                         MainStates, WaiterStates
<1>1. CASE Loop
  BY <1>1 DEF Loop
<1>2. CASE LockRequests
  BY <1>2 DEF LockRequests
<1>3. CASE CheckQueue
  BY <1>3, PopFacts DEF CheckQueue
<1>4. CASE Park
  BY <1>4 DEF Park
<1>5. CASE BeginOperation
  BY <1>5 DEF BeginOperation
<1>6. CASE EndOperation
  <2>1. current \in Request
    BY <1>6 DEF EndOperation, Holding
  <2>2. current.id \in 1 .. MaxRequests
    BY <2>1
  <2>3. exception' \in 0 .. MaxRequests /\ failed' \in 0 .. MaxRequests
    BY <1>6, <2>2 DEF EndOperation
  <2>4. performed' \in SUBSET (1 .. MaxRequests)
    BY <1>6, <2>2 DEF EndOperation
  <2> QED
    BY <1>6, <2>3, <2>4 DEF EndOperation
<1>7. CASE Register
  BY <1>7 DEF Register, Holding
<1>8. CASE NotifyCompleted
  BY <1>8 DEF NotifyCompleted, WakeAll
<1>9. ASSUME NEW w \in Waiters, NEW i \in Images, CallWaitForBufferRelease(w, i)
      PROVE  TypeOK'
  BY <1>9 DEF CallWaitForBufferRelease
<1>10. ASSUME NEW w \in Waiters, CheckBeforeLock(w)
      PROVE  TypeOK'
  BY <1>10 DEF CheckBeforeLock, Throw
<1>11. ASSUME NEW w \in Waiters, EnterLocked(w)
      PROVE  TypeOK'
  <2>1. CASE TakeImage(w)
    BY <1>11, <2>1 DEF EnterLocked, TakeImage
  <2>2. CASE Block(w)
    BY <1>11, <2>2 DEF EnterLocked, Block
  <2> QED
    BY <1>11, <2>1, <2>2 DEF EnterLocked
<1>12. ASSUME NEW w \in Waiters, WakeUp(w)
      PROVE  TypeOK'
  <2>1. CASE Throw(w)
    BY <1>12, <2>1 DEF WakeUp, Throw
  <2>2. CASE TakeImage(w)
    BY <1>12, <2>2 DEF WakeUp, TakeImage
  <2>3. CASE Block(w)
    BY <1>12, <2>3 DEF WakeUp, Block
  <2> QED
    BY <1>12, <2>1, <2>2, <2>3 DEF WakeUp
<1>13. ASSUME NEW i \in Images, RequestIOOperation(i)
      PROVE  TypeOK'
  <2> DEFINE r == [id |-> issued + 1, image |-> i]
  <2>1. r \in Request
    BY <1>13 DEF RequestIOOperation, Request
  <2>2. queue' \in Seq(Request)
    BY <1>13, <2>1, PushFacts DEF RequestIOOperation
  <2>3. issued' \in 0 .. MaxRequests /\ loan' \in [Images -> 0 .. MaxRequests]
    BY <1>13 DEF RequestIOOperation
  <2> QED
    BY <1>13, <2>2, <2>3 DEF RequestIOOperation
<1>14. CASE CallWaitForCompletion
  BY <1>14 DEF CallWaitForCompletion
<1>15. CASE CallDestructor
  BY <1>15 DEF CallDestructor
<1>16. CASE NotifyRequest
  BY <1>16 DEF NotifyRequest, WakeIO
<1>17. CASE CompletionThrow
  BY <1>17 DEF CompletionThrow
<1>18. CASE CompletionProceed
  BY <1>18 DEF CompletionProceed
<1>19. CASE CompletionLock
  BY <1>19 DEF CompletionLock
<1>20. CASE CompletionCount
  BY <1>20 DEF CompletionCount
<1>21. CASE StopNotifyRequest
  BY <1>21 DEF StopNotifyRequest, WakeIO
<1>22. CASE StopNotifyCompleted
  BY <1>22 DEF StopNotifyCompleted
<1>23. CASE Join
  BY <1>23 DEF Join
<1>24. CASE SpuriousWakeUp
  BY <1>24 DEF SpuriousWakeUp
<1>25. CASE UNCHANGED vars
  BY <1>25 DEF vars, procVars, ioVars, ioLog
<1>26. QED
  BY <1>1, <1>2, <1>3, <1>4, <1>5, <1>6, <1>7, <1>8, <1>9, <1>10, <1>11, <1>12, <1>13, <1>14, <1>15, <1>16, <1>17, <1>18, <1>19, <1>20, <1>21, <1>22, <1>23, <1>24, <1>25
     DEF Next, IOThread, Owner, OwnerInCall, WaiterInCall, Terminated

-----------------------------------------------------------------------------
(* What a step may change.  Most steps concern one thread only.            *)
LEMMA QueueSteps ==
  ASSUME [Next]_vars
  PROVE  \/ CheckQueue \/ Register
         \/ \E i \in Images : RequestIOOperation(i)
         \/ UNCHANGED <<queue, current, issued>>
BY DEF Next, vars, procVars, ioVars, IOThread, Owner, OwnerInCall,
       WaiterInCall, Loop, LockRequests, Park, BeginOperation, EndOperation,
       NotifyCompleted, CallWaitForBufferRelease, CheckBeforeLock,
       EnterLocked, WakeUp, CallWaitForCompletion, CallDestructor,
       NotifyRequest, CompletionThrow, CompletionProceed, CompletionLock,
       CompletionCount, StopNotifyRequest, StopNotifyCompleted, Join,
       SpuriousWakeUp, Terminated

LEMMA NumberingStep ==
  ASSUME TypeOK, Numbering, Holding, [Next]_vars
  PROVE  Numbering'
<1> USE DEF TypeOK, Numbering, LastPopped
<1>1. CASE CheckQueue
  <2>1. CASE queue # <<>> /\ ~stopped
    <3>1. current' = Head(queue) /\ queue' = Tail(queue) /\ issued' = issued
      BY <1>1, <2>1 DEF CheckQueue
    <3>2. /\ Len(queue') = Len(queue) - 1
          /\ current' = queue[1]
          /\ \A k \in 1 .. Len(queue) - 1 : queue'[k] = queue[k + 1]
          /\ Len(queue) \in Nat \ {0}
      BY <3>1, <2>1, PopFacts
    <3>3. \A k \in 1 .. Len(queue') : queue'[k].id = LastPopped' + k
      BY <3>1, <3>2
    <3>4. current'.id = LastPopped'
      BY <3>1, <3>2
    <3> QED
      BY <3>1, <3>2, <3>3, <3>4
  <2>2. CASE UNCHANGED <<queue, current>>
    BY <1>1, <2>2 DEF CheckQueue
  <2> QED
    BY <1>1, <2>1, <2>2 DEF CheckQueue
<1>2. CASE Register
  BY <1>2 DEF Register
<1>3. ASSUME NEW i \in Images, RequestIOOperation(i)
      PROVE  Numbering'
  <2> DEFINE r == [id |-> issued + 1, image |-> i]
  <2>1. /\ r \in Request
        /\ queue' = Append(queue, r)
        /\ issued' = issued + 1
        /\ current' = current
    BY <1>3 DEF RequestIOOperation, Request, ioVars
  <2>2. r.id = issued + 1
    OBVIOUS
  <2> HIDE DEF r
  <2>3. \A k \in 1 .. Len(queue') : queue'[k].id = LastPopped' + k
    BY <2>1, <2>2, PushFacts
  <2>4. queue \in Seq(Request) /\ Len(queue) \in Nat
    OBVIOUS
  <2>5. Len(queue') = Len(queue) + 1
    BY <2>1, <2>4, PushFacts
  <2>6. LastPopped' = LastPopped /\ Len(queue') <= issued'
    BY <2>1, <2>4, <2>5
  <2>7. current' # NoRequest => current'.id = LastPopped'
    BY <2>1, <2>6
  <2> QED
    BY <2>3, <2>6, <2>7
<1>4. CASE UNCHANGED <<queue, current, issued>>
  BY <1>4
<1> QED
  BY <1>1, <1>2, <1>3, <1>4, QueueSteps

LEMMA HoldingStep ==
  ASSUME TypeOK, Holding, [Next]_vars
  PROVE  Holding'
<1> USE DEF TypeOK, Holding, procVars, ioVars, IOStates, MainStates
<1>1. CASE Loop
  BY <1>1 DEF Loop
<1>2. CASE LockRequests
  BY <1>2 DEF LockRequests
<1>3. CASE CheckQueue
  BY <1>3, PopFacts, RequestFacts DEF CheckQueue
<1>4. CASE Park
  BY <1>4 DEF Park
<1>5. CASE BeginOperation
  BY <1>5 DEF BeginOperation
<1>6. CASE EndOperation
  BY <1>6 DEF EndOperation
<1>7. CASE Register
  BY <1>7 DEF Register
<1>8. CASE NotifyCompleted
  BY <1>8 DEF NotifyCompleted, WakeAll
<1>9. ASSUME NEW w \in Waiters,
             \/ \E i \in Images : CallWaitForBufferRelease(w, i)
             \/ WaiterInCall(w)
      PROVE  Holding'
  BY <1>9 DEF CallWaitForBufferRelease, WaiterInCall, CheckBeforeLock,
              EnterLocked, WakeUp
<1>10. ASSUME NEW i \in Images, RequestIOOperation(i)
       PROVE  Holding'
  BY <1>10 DEF RequestIOOperation
<1>11. CASE CallWaitForCompletion \/ CallDestructor
  BY <1>11 DEF CallWaitForCompletion, CallDestructor
<1>12. CASE NotifyRequest \/ StopNotifyRequest
  BY <1>12 DEF NotifyRequest, StopNotifyRequest, WakeIO
<1>13. CASE CompletionThrow \/ CompletionProceed
  BY <1>13 DEF CompletionThrow, CompletionProceed
<1>14. CASE CompletionLock \/ CompletionCount
  BY <1>14 DEF CompletionLock, CompletionCount
<1>15. CASE StopNotifyCompleted \/ Join
  BY <1>15 DEF StopNotifyCompleted, Join
<1>16. CASE SpuriousWakeUp
  BY <1>16 DEF SpuriousWakeUp
<1>17. CASE UNCHANGED vars
  BY <1>17 DEF vars
<1> QED
  BY <1>1, <1>2, <1>3, <1>4, <1>5, <1>6, <1>7, <1>8, <1>9, <1>10, <1>11,
     <1>12, <1>13, <1>14, <1>15, <1>16, <1>17
     DEF Next, IOThread, Owner, OwnerInCall, Terminated

LEMMA LendingStep ==
  ASSUME TypeOK, Numbering, Holding, Lending, [Next]_vars
  PROVE  Lending'
<1> USE DEF TypeOK, Lending, LastPopped
<1>1. CASE CheckQueue
  <2>1. CASE queue # <<>> /\ ~stopped
    <3>1. /\ current' = Head(queue)
          /\ queue' = Tail(queue)
          /\ UNCHANGED <<issued, loan, completedRequests>>
          /\ current = NoRequest
      BY <1>1, <2>1 DEF CheckQueue, Holding
    <3>2. /\ Len(queue') = Len(queue) - 1
          /\ current' = queue[1]
          /\ \A k \in 1 .. Len(queue) - 1 : queue'[k] = queue[k + 1]
          /\ Len(queue) \in Nat \ {0}
      BY <3>1, <2>1, PopFacts
    <3>3. \A k \in 1 .. Len(queue') :
            loan'[queue'[k].image] = queue'[k].id
      BY <3>1, <3>2
    <3>4. loan'[current'.image] = current'.id
      BY <3>1, <3>2
    <3>5. LastPopped' = LastPopped + 1
      BY <3>1, <3>2
    <3>6. \A i \in completedRequests' :
            loan'[i] # 0 /\ loan'[i] <= LastPopped' /\ loan'[i] # LastPopped'
      <4>1. \A i \in completedRequests :
              loan[i] \in Nat /\ loan[i] # 0 /\ loan[i] <= LastPopped
        OBVIOUS
      <4>2. LastPopped \in Int
        OBVIOUS
      <4> HIDE DEF LastPopped
      <4> QED
        BY <3>1, <3>5, <4>1, <4>2
    <3> QED
      BY <3>1, <3>3, <3>4, <3>5, <3>6
  <2>2. CASE UNCHANGED <<queue, current>>
    BY <1>1, <2>2 DEF CheckQueue
  <2> QED
    BY <1>1, <2>1, <2>2 DEF CheckQueue
<1>2. CASE Register
  <2>1. /\ UNCHANGED <<queue, issued, loan>>
        /\ current' = NoRequest
        /\ completedRequests' = completedRequests \cup {current.image}
        /\ current \in Request
    BY <1>2 DEF Register, Holding
  <2>2. loan[current.image] = LastPopped /\ LastPopped # 0
    BY <2>1, RequestFacts DEF Numbering
  <2> QED
    BY <2>1, <2>2
<1>3. ASSUME NEW i \in Images, RequestIOOperation(i)
      PROVE  Lending'
  <2> DEFINE r == [id |-> issued + 1, image |-> i]
  <2>1. /\ r \in Request
        /\ queue' = Append(queue, r)
        /\ issued' = issued + 1
        /\ loan' = [loan EXCEPT ![i] = issued + 1]
        /\ loan[i] = 0
        /\ UNCHANGED <<current, completedRequests>>
    BY <1>3 DEF RequestIOOperation, Request, ioVars
  <2>2. r.id = issued + 1 /\ r.image = i
    OBVIOUS
  <2> HIDE DEF r
  <2>3. \A k \in 1 .. Len(queue) : queue[k] \in Request
    OBVIOUS
  <2>4. \A k \in 1 .. Len(queue) : queue[k].image # i
    <3>1. \A k \in 1 .. Len(queue) : queue[k].id \in 1 .. MaxRequests
      BY <2>3, RequestFacts
    <3>2. \A k \in 1 .. Len(queue) : loan[queue[k].image] = queue[k].id
      OBVIOUS
    <3>3. \A k \in 1 .. Len(queue) : loan[queue[k].image] # 0
      <4>1. 0 \notin 1 .. MaxRequests
        OBVIOUS
      <4> QED
        BY <3>1, <3>2, <4>1
    <3> QED
      BY <2>1, <3>3
  <2>5. current # NoRequest => current.image # i
    BY <2>1, RequestFacts
  <2>6. LastPopped' = LastPopped
    BY <2>1, PushFacts
  <2>7. \A k \in 1 .. Len(queue') : loan'[queue'[k].image] = queue'[k].id
    BY <2>1, <2>2, <2>3, <2>4, PushFacts, RequestFacts
  <2>8. current # NoRequest => loan'[current.image] = current.id
    BY <2>1, <2>5, RequestFacts
  <2>9. \A j \in completedRequests : j # i /\ loan'[j] = loan[j]
    BY <2>1
  <2> QED
    BY <2>1, <2>6, <2>7, <2>8, <2>9
<1>4. ASSUME NEW w \in Waiters, TakeImage(w),
             UNCHANGED <<queue, current, issued>>
      PROVE  Lending'
  <2>1. /\ image[w] \in completedRequests
        /\ completedRequests' = completedRequests \ {image[w]}
        /\ loan' = [loan EXCEPT ![image[w]] = 0]
    BY <1>4 DEF TakeImage
  <2>2. \A k \in 1 .. Len(queue) :
          /\ queue[k] \in Request
          /\ loan[queue[k].image] > LastPopped
    BY RequestFacts DEF Numbering
  <2>3. \A k \in 1 .. Len(queue) : queue[k].image # image[w]
    BY <2>1, <2>2, RequestFacts
  <2>4. current # NoRequest => current.image # image[w]
    BY <2>1, RequestFacts DEF Numbering
  <2> QED
    BY <1>4, <2>1, <2>2, <2>3, <2>4, RequestFacts
<1>5. CASE UNCHANGED <<queue, current, issued, loan, completedRequests>>
  BY <1>5
<1>6. \/ CheckQueue \/ Register
      \/ \E i \in Images : RequestIOOperation(i)
      \/ \E w \in Waiters :
           TakeImage(w) /\ UNCHANGED <<queue, current, issued>>
      \/ UNCHANGED <<queue, current, issued, loan, completedRequests>>
  BY DEF Next, vars, procVars, ioVars, IOThread, Owner, OwnerInCall,
         WaiterInCall, Loop, LockRequests, Park, BeginOperation,
         EndOperation, NotifyCompleted, CallWaitForBufferRelease,
         CheckBeforeLock, EnterLocked, WakeUp, Throw, Block,
         CallWaitForCompletion, CallDestructor, NotifyRequest,
         CompletionThrow, CompletionProceed, CompletionLock,
         CompletionCount, StopNotifyRequest, StopNotifyCompleted, Join,
         SpuriousWakeUp, Terminated
<1> QED
  BY <1>1, <1>2, <1>3, <1>4, <1>5, <1>6

LEMMA IntervalStep ==
  ASSUME NEW n \in Nat \ {0}
  PROVE  (1 .. n - 1) \cup {n} = 1 .. n
OBVIOUS

LEMMA CarryingStep ==
  ASSUME TypeOK, Numbering, Holding, Carrying, [Next]_vars
  PROVE  Carrying'
<1> USE DEF TypeOK, Carrying, LastPopped, LastSettled, procVars, ioVars, ioLog
<1>1. CASE Loop
  BY <1>1 DEF Loop, Holding
<1>2. CASE LockRequests
  BY <1>2 DEF LockRequests
<1>3. CASE CheckQueue
  <2>1. CASE queue # <<>> /\ ~stopped
    <3>1. /\ current' = Head(queue)
          /\ queue' = Tail(queue)
          /\ io' = "got"
          /\ UNCHANGED <<issued, exception, failed, performed, main>>
          /\ current = NoRequest
      BY <1>3, <2>1 DEF CheckQueue, Holding
    <3>2. Len(queue') = Len(queue) - 1 /\ current' # NoRequest
      BY <3>1, <2>1, PopFacts, RequestFacts
    <3>3. LastSettled' = LastSettled
      BY <3>1, <3>2
    <3> QED
      BY <3>1, <3>3
  <2>2. CASE UNCHANGED <<queue, current>>
    BY <1>3, <2>2 DEF CheckQueue, Holding
  <2> QED
    BY <1>3, <2>1, <2>2 DEF CheckQueue
<1>4. CASE Park
  BY <1>4 DEF Park
<1>5. CASE BeginOperation
  BY <1>5 DEF BeginOperation, Holding
<1>6. CASE EndOperation
  <2>1. /\ current \in Request
        /\ current.id = LastPopped
        /\ current.id \in 1 .. MaxRequests
        /\ failed = 0
        /\ performed = 1 .. current.id - 1
        /\ main # "destroyed" => exception = 0
    BY <1>6, RequestFacts DEF EndOperation, Holding, Numbering
  <2>2. main # "destroyed"
    BY <1>6 DEF EndOperation, Holding
  <2>3. LastSettled' = current.id /\ io' # "io"
    BY <1>6, <2>1 DEF EndOperation
  <2>4. CASE performed' = performed \cup {current.id} /\ UNCHANGED failed
    <3>1. performed' = 1 .. current.id
      BY <2>1, <2>4, IntervalStep
    <3> QED
      BY <1>6, <2>1, <2>2, <2>3, <2>4, <3>1 DEF EndOperation
  <2>5. CASE failed' = current.id /\ UNCHANGED performed
    BY <1>6, <2>1, <2>2, <2>3, <2>5 DEF EndOperation
  <2> QED
    BY <1>6, <2>1, <2>4, <2>5 DEF EndOperation
<1>7. CASE Register
  BY <1>7 DEF Register
<1>8. CASE NotifyCompleted
  BY <1>8 DEF NotifyCompleted, WakeAll, Holding
<1>9. ASSUME NEW w \in Waiters,
             \/ \E i \in Images : CallWaitForBufferRelease(w, i)
             \/ WaiterInCall(w)
      PROVE  Carrying'
  BY <1>9 DEF CallWaitForBufferRelease, WaiterInCall, CheckBeforeLock,
              EnterLocked, WakeUp
<1>10. ASSUME NEW i \in Images, RequestIOOperation(i)
       PROVE  Carrying'
  <2> DEFINE r == [id |-> issued + 1, image |-> i]
  <2>1. r \in Request /\ queue' = Append(queue, r)
    BY <1>10 DEF RequestIOOperation, Request
  <2>2. LastSettled' = LastSettled
    BY <1>10, <2>1, PushFacts DEF RequestIOOperation
  <2> QED
    BY <1>10, <2>2 DEF RequestIOOperation
<1>11. CASE CallWaitForCompletion \/ CallDestructor
  BY <1>11 DEF CallWaitForCompletion, CallDestructor
<1>12. CASE NotifyRequest \/ StopNotifyRequest
  BY <1>12 DEF NotifyRequest, StopNotifyRequest, WakeIO
<1>13. CASE CompletionThrow \/ CompletionProceed
  BY <1>13 DEF CompletionThrow, CompletionProceed
<1>14. CASE CompletionLock \/ CompletionCount
  BY <1>14 DEF CompletionLock, CompletionCount
<1>15. CASE StopNotifyCompleted \/ Join
  BY <1>15 DEF StopNotifyCompleted, Join
<1>16. CASE SpuriousWakeUp
  BY <1>16 DEF SpuriousWakeUp
<1>17. CASE UNCHANGED vars
  BY <1>17 DEF vars
<1> QED
  BY <1>1, <1>2, <1>3, <1>4, <1>5, <1>6, <1>7, <1>8, <1>9, <1>10, <1>11,
     <1>12, <1>13, <1>14, <1>15, <1>16, <1>17
     DEF Next, IOThread, Owner, OwnerInCall, Terminated

-----------------------------------------------------------------------------
(* IInv is an inductive invariant.                                         *)
THEOREM InductiveInvariant == Spec => []IInv
<1>1. Init => IInv
  <2> SUFFICES ASSUME Init PROVE IInv
    OBVIOUS
  <2>1. queue \in Seq(Request) /\ Len(queue) = 0
    BY EmptySeq DEF Init
  <2>2. TypeOK
    <3>1. /\ waiter \in [Waiters -> WaiterStates]
          /\ image \in [Waiters -> Images \cup {NULL}]
          /\ loan \in [Images -> 0 .. MaxRequests]
      BY DEF Init, WaiterStates
    <3>2. /\ io \in IOStates
          /\ main \in MainStates
          /\ current \in Request \cup {NoRequest}
          /\ performed \in SUBSET (1 .. MaxRequests)
          /\ completedRequests \in SUBSET Images
      BY DEF Init, IOStates, MainStates
    <3>3. exception = 0 /\ issued = 0 /\ failed = 0 /\ 0 \in 0 .. MaxRequests
      BY DEF Init
    <3>4. stopped \in BOOLEAN /\ drained \in BOOLEAN
      BY DEF Init
    <3> QED
      BY <2>1, <3>1, <3>2, <3>3, <3>4 DEF TypeOK
  <2>3. Numbering /\ Holding /\ Lending
    BY <2>1 DEF Init, Numbering, Holding, Lending, LastPopped
  <2>4. Carrying
    BY <2>1 DEF Init, Carrying, LastPopped, LastSettled
  <2> QED
    BY <2>2, <2>3, <2>4 DEF IInv
<1>2. IInv /\ [Next]_vars => IInv'
  BY TypeStep, NumberingStep, HoldingStep, CarryingStep, LendingStep
     DEF IInv
<1>3. QED
  BY <1>1, <1>2, PTL DEF Spec

(* Every variable of the processor keeps its type: in particular the I/O   *)
(* thread never executes the dummy request that GetRequest returns when    *)
(* it is stopped.                                                          *)
THEOREM TypeCorrect == Spec => []TypeOK
<1>1. IInv => TypeOK
  BY DEF IInv
<1>2. QED
  BY <1>1, InductiveInvariant, PTL

(* WaitForBufferRelease never gives back a buffer whose request is queued  *)
(* or in the hands of the I/O thread.                                      *)
THEOREM BuffersExcluded == Spec => []BufferExclusion
<1>1. IInv => BufferExclusion
  BY DEF IInv, Lending, BufferExclusion, Unfinished
<1>2. QED
  BY <1>1, InductiveInvariant, PTL

(* I/O is carried out in the order requested, up to the first failure.     *)
THEOREM FilesHaveNoHoles == Spec => []NoHoles
<1>1. ASSUME IInv PROVE NoHoles
  <2>1. /\ LastSettled \in Int
        /\ LastSettled <= MaxRequests
        /\ Len(queue) \in Nat
    BY <1>1 DEF IInv, TypeOK, Numbering, LastSettled, LastPopped
  <2>2. LastSettled >= 0
    BY <1>1, RequestFacts
       DEF IInv, TypeOK, Numbering, LastSettled, LastPopped
  <2>3. CASE failed = 0
    <3>1. LastSettled \in 0 .. MaxRequests
      BY <2>1, <2>2
    <3>2. performed = 1 .. LastSettled
      BY <1>1, <2>3 DEF IInv, Carrying
    <3> QED
      BY <2>3, <3>1, <3>2 DEF NoHoles
  <2>4. CASE failed # 0
    <3>1. failed - 1 \in 0 .. MaxRequests /\ failed = (failed - 1) + 1
      BY <1>1, <2>4 DEF IInv, TypeOK
    <3>2. performed = 1 .. failed - 1
      BY <1>1, <2>4 DEF IInv, Carrying
    <3> QED
      BY <3>1, <3>2 DEF NoHoles
  <2> QED
    BY <2>3, <2>4
<1>2. QED
  BY <1>1, InductiveInvariant, PTL

(* From the return of WaitForCompletion to the next request the queue is   *)
(* empty.                                                                  *)
Drained == drained => queue = <<>>

LEMMA DrainedStep ==
  ASSUME IInv, Drained, [Next]_vars
  PROVE  Drained'
<1> USE DEF Drained, procVars, ioVars, ioLog
<1>1. CASE IOThread
  <2>1. UNCHANGED drained /\ (queue = <<>> => queue' = queue)
    BY <1>1 DEF IOThread, Loop, LockRequests, CheckQueue, Park, BeginOperation,
                EndOperation, Register, NotifyCompleted
  <2> QED
    BY <2>1
<1>2. ASSUME NEW w \in Waiters,
             \/ \E i \in Images : CallWaitForBufferRelease(w, i)
             \/ WaiterInCall(w)
      PROVE  Drained'
  BY <1>2 DEF CallWaitForBufferRelease, WaiterInCall, CheckBeforeLock,
              EnterLocked, WakeUp
<1>3. CASE Owner
  BY <1>3 DEF Owner, OwnerInCall, RequestIOOperation, CallWaitForCompletion,
              CallDestructor, NotifyRequest, CompletionThrow,
              CompletionProceed, CompletionLock, CompletionCount,
              StopNotifyRequest, StopNotifyCompleted, Join
<1>4. CASE SpuriousWakeUp
  BY <1>4 DEF SpuriousWakeUp
<1>5. CASE UNCHANGED vars
  BY <1>5 DEF vars
<1> QED
  BY <1>1, <1>2, <1>3, <1>4, <1>5 DEF Next, Terminated

(* A processor destroyed after WaitForCompletion returned, without a       *)
(* failure, has performed every request but possibly the last.             *)
THEOREM OnlyTheLastIsAtRisk == Spec => []OnlyLastAtRisk
<1>1. Init => Drained
  BY DEF Init, Drained
<1>2. ASSUME IInv, Drained
      PROVE  OnlyLastAtRisk
  <2> SUFFICES ASSUME drained, failed = 0
               PROVE  1 .. issued - 1 \subseteq performed
    BY DEF OnlyLastAtRisk
  <2>1. issued \in Nat /\ Len(queue) = 0
    BY <1>2 DEF Drained, IInv, TypeOK
  <2>2. LastSettled \in {issued - 1, issued}
    BY <2>1 DEF LastSettled, LastPopped
  <2>3. performed = 1 .. LastSettled
    BY <1>2 DEF IInv, Carrying
  <2> QED
    BY <2>1, <2>2, <2>3
<1>3. QED
  BY <1>1, <1>2, InductiveInvariant, DrainedStep, PTL DEF Spec

(* No completion is lost: a thread that sleeps although its image is       *)
(* registered is about to be notified.                                     *)
THEOREM CompletionsAreNotified == Spec => []NoLostCompletion
<1> USE DEF NoLostCompletion
<1>1. Init => NoLostCompletion
  BY DEF Init
<1>2. TypeOK /\ NoLostCompletion /\ [Next]_vars => NoLostCompletion'
  <2> SUFFICES ASSUME TypeOK, NoLostCompletion, [Next]_vars
               PROVE  NoLostCompletion'
    OBVIOUS
  <2> USE DEF TypeOK, procVars, ioVars
  <2>1. CASE \/ Loop \/ LockRequests \/ CheckQueue \/ Park
             \/ BeginOperation \/ EndOperation
    BY <2>1 DEF Loop, LockRequests, CheckQueue, Park, BeginOperation,
                EndOperation
  <2>2. CASE Register
    BY <2>2 DEF Register
  <2>3. CASE NotifyCompleted
    BY <2>3 DEF NotifyCompleted, WakeAll
  <2>4. ASSUME NEW w \in Waiters, NEW i \in Images,
               CallWaitForBufferRelease(w, i)
        PROVE  NoLostCompletion'
    BY <2>4 DEF CallWaitForBufferRelease
  <2>5. ASSUME NEW w \in Waiters, CheckBeforeLock(w)
        PROVE  NoLostCompletion'
    BY <2>5 DEF CheckBeforeLock, Throw
  <2>6. ASSUME NEW w \in Waiters, EnterLocked(w) \/ WakeUp(w)
        PROVE  NoLostCompletion'
    <3>1. CASE Throw(w)
      BY <2>6, <3>1 DEF EnterLocked, WakeUp, Throw
    <3>2. CASE TakeImage(w)
      BY <2>6, <3>2 DEF EnterLocked, WakeUp, TakeImage
    <3>3. CASE Block(w)
      BY <2>6, <3>3 DEF EnterLocked, WakeUp, Block
    <3> QED
      BY <2>6, <3>1, <3>2, <3>3 DEF EnterLocked, WakeUp
  <2>7. CASE Owner
    BY <2>7 DEF Owner, OwnerInCall, RequestIOOperation,
                CallWaitForCompletion, CallDestructor, NotifyRequest,
                CompletionThrow, CompletionProceed, CompletionLock,
                CompletionCount, StopNotifyRequest, StopNotifyCompleted,
                Join, WakeIO
  <2>8. CASE SpuriousWakeUp
    BY <2>8 DEF SpuriousWakeUp
  <2>9. CASE UNCHANGED vars
    BY <2>9 DEF vars
  <2> QED
    BY <2>1, <2>2, <2>3, <2>4, <2>5, <2>6, <2>7, <2>8, <2>9
       DEF Next, IOThread, WaiterInCall, Terminated
<1>3. QED
  BY <1>1, <1>2, TypeCorrect, PTL DEF Spec

-----------------------------------------------------------------------------
(* The processor implements OrderedIO.                                     *)

(* Nobody is in a call while the processor is destroyed.                   *)
Quiet == stopped => \A w \in Waiters : waiter[w] = "idle"

(* The fate of the k-th request, as the inductive invariant lets one tell. *)
FateAt(k) ==
  IF k > LastSettled
  THEN IF main = "destroyed" THEN "dropped" ELSE "pending"
  ELSE IF failed = 0 \/ k < failed THEN "done"
  ELSE IF k = failed THEN "failed" ELSE "dropped"

FateIsKnown ==
  /\ LastSettled \in 0 .. issued
  /\ failed \in 0 .. LastSettled
  /\ FateOf \in Seq(Promise!Fates)
  /\ Len(FateOf) = issued
  /\ DOMAIN FateOf = 1 .. issued
  /\ \A k \in 1 .. issued : FateOf[k] = FateAt(k)

-----------------------------------------------------------------------------
LEMMA SettledFacts ==
  ASSUME IInv
  PROVE  /\ LastPopped \in 0 .. issued
         /\ LastSettled \in 0 .. issued
         /\ failed \in 0 .. LastSettled
         /\ issued \in Nat
         /\ Len(queue) \in Nat
         /\ current # NoRequest => current.id = LastPopped /\ LastPopped > 0
<1> USE DEF IInv, TypeOK, Numbering, LastPopped
<1>1. Len(queue) \in Nat /\ issued \in Nat /\ Len(queue) <= issued
  BY LenProperties
<1>2. LastPopped \in 0 .. issued
  BY <1>1
<1>3. current # NoRequest => current.id = LastPopped /\ LastPopped > 0
  BY <1>1, RequestFacts
<1>4. LastSettled \in 0 .. issued
  <2> HIDE DEF LastPopped
  <2> QED
    BY <1>1, <1>2, <1>3 DEF LastSettled
<1>5. failed \in 0 .. LastSettled
  <2>1. failed \in Nat
    OBVIOUS
  <2>2. failed # 0 => failed <= LastSettled
    BY DEF Carrying
  <2> HIDE DEF LastPopped
  <2> QED
    BY <1>4, <2>1, <2>2
<1> QED
  BY <1>1, <1>2, <1>3, <1>4, <1>5

LEMMA UnsettledFacts ==
  ASSUME IInv, main # "destroyed", NEW k \in 1 .. issued
  PROVE  k \in Unsettled <=> k > LastSettled
<1>n. /\ LastPopped \in Int /\ issued \in Nat /\ Len(queue) \in Nat
      /\ LastSettled \in Int
      /\ current # NoRequest => current.id = LastPopped
  BY SettledFacts
<1>1. k \in {queue[j].id : j \in 1 .. Len(queue)} <=> k > LastPopped
  <2>1. \A j \in 1 .. Len(queue) : queue[j].id = LastPopped + j
    BY DEF IInv, Numbering
  <2>2. LastPopped + Len(queue) = issued
    BY <1>n DEF LastPopped
  <2>3. ASSUME k > LastPopped
        PROVE  k - LastPopped \in 1 .. Len(queue)
    BY <1>n, <2>2, <2>3
  <2>4. ASSUME k > LastPopped
        PROVE  queue[k - LastPopped].id = k
    BY <1>n, <2>1, <2>3, <2>4
  <2>5. ASSUME NEW j \in 1 .. Len(queue), k = queue[j].id
        PROVE  k > LastPopped
    BY <1>n, <2>1, <2>5
  <2> QED
    BY <2>3, <2>4, <2>5
<1>2. CASE current # NoRequest /\ io \in {"got", "io", "done"}
  <2>1. Unsettled = {queue[j].id : j \in 1 .. Len(queue)} \cup {LastPopped}
    BY <1>n, <1>2 DEF Unsettled
  <2>2. LastSettled = LastPopped - 1
    BY <1>2 DEF LastSettled
  <2> QED
    BY <1>n, <1>1, <2>1, <2>2
<1>3. CASE ~(current # NoRequest /\ io \in {"got", "io", "done"})
  <2>1. LastSettled = LastPopped
    BY <1>3 DEF LastSettled
  <2>2. Unsettled \subseteq {queue[j].id : j \in 1 .. Len(queue)} \cup {0}
    BY <1>3 DEF Unsettled, NoRequest
  <2>3. {queue[j].id : j \in 1 .. Len(queue)} \subseteq Unsettled
    BY DEF Unsettled
  <2>4. k # 0
    BY <1>n
  <2> QED
    BY <1>1, <2>1, <2>2, <2>3, <2>4
<1> QED
  BY <1>2, <1>3

LEMMA FateFacts == IInv => FateIsKnown
<1> SUFFICES ASSUME IInv PROVE FateIsKnown
  OBVIOUS
<1>n. /\ LastSettled \in 0 .. issued
      /\ failed \in 0 .. LastSettled
      /\ issued \in Nat
  BY SettledFacts
<1>1. DOMAIN FateOf = 1 .. issued
  BY DEF FateOf
<1>2. \A k \in 1 .. issued : FateOf[k] = FateAt(k)
  <2> TAKE k \in 1 .. issued
  <2>1. FateOf[k] = CASE k \in performed -> "done"
                      [] k = failed -> "failed"
                      [] k \in Unsettled -> "pending"
                      [] OTHER -> "dropped"
    BY DEF FateOf
  <2>2. k \in performed <=> k <= LastSettled /\ (failed = 0 \/ k < failed)
    BY <1>n DEF IInv, Carrying
  <2>3. k = failed => k \notin performed /\ k <= LastSettled /\ failed # 0
    BY <1>n, <2>2
  <2>4. k \in Unsettled <=> k > LastSettled /\ main # "destroyed"
    <3>1. CASE main = "destroyed"
      BY <3>1 DEF Unsettled
    <3>2. CASE main # "destroyed"
      BY <3>2, UnsettledFacts
    <3> QED
      BY <3>1, <3>2
  <2>5. k <= LastSettled <=> ~(k > LastSettled)
    BY <1>n
  <2>6. CASE k \in performed
    <3>1. k # failed /\ k \notin Unsettled
      BY <2>2, <2>3, <2>4, <2>5, <2>6
    <3>2. FateOf[k] = "done"
      BY <2>1, <2>6, <3>1
    <3> QED
      BY <2>2, <2>5, <2>6, <3>2 DEF FateAt
  <2>7. CASE k = failed
    <3>1. FateOf[k] = "failed"
      <4>1. k \notin performed /\ k \notin Unsettled
        BY <2>3, <2>4, <2>5, <2>7
      <4> QED
        BY <2>1, <2>7, <4>1
    <3>2. ~(k < failed)
      BY <1>n, <2>7
    <3> QED
      BY <2>3, <2>5, <2>7, <3>1, <3>2 DEF FateAt
  <2>8. CASE k \notin performed /\ k # failed
    <3>1. FateOf[k] = IF k \in Unsettled THEN "pending" ELSE "dropped"
      BY <2>1, <2>8
    <3> QED
      BY <2>2, <2>4, <2>5, <2>8, <3>1 DEF FateAt
  <2> QED
    BY <2>6, <2>7, <2>8
<1>3. FateOf \in [1 .. issued -> Promise!Fates]
  <2>1. \A k \in 1 .. issued : FateOf[k] \in Promise!Fates
    BY <1>2 DEF FateAt, Promise!Fates
  <2> QED
    BY <2>1 DEF FateOf
<1>4. FateOf \in Seq(Promise!Fates)
  BY <1>n, <1>3, SeqDef
<1>5. Len(FateOf) = issued
  BY <1>n, <1>1, <1>4, LenProperties
<1> QED
  BY <1>n, <1>1, <1>2, <1>4, <1>5 DEF FateIsKnown

LEMMA FateFactsNext == IInv' => FateIsKnown'
BY FateFacts, PTL

-----------------------------------------------------------------------------
LEMMA QuietStep ==
  ASSUME TypeOK, Holding, Quiet, [Next]_vars
  PROVE  Quiet'
<1> USE DEF TypeOK, Quiet, procVars, ioVars
<1>1. CASE Loop \/ LockRequests \/ CheckQueue \/ Park \/ BeginOperation
           \/ EndOperation \/ Register
  BY <1>1 DEF Loop, LockRequests, CheckQueue, Park, BeginOperation,
              EndOperation, Register
<1>2. CASE NotifyCompleted
  BY <1>2 DEF NotifyCompleted, WakeAll
<1>3. ASSUME NEW w \in Waiters,
             \/ \E i \in Images : CallWaitForBufferRelease(w, i)
             \/ WaiterInCall(w)
      PROVE  Quiet'
  BY <1>3 DEF CallWaitForBufferRelease, WaiterInCall, CheckBeforeLock,
              EnterLocked, WakeUp
<1>4. CASE Owner
  BY <1>4 DEF Owner, OwnerInCall, RequestIOOperation, CallWaitForCompletion,
              CallDestructor, NotifyRequest, CompletionThrow,
              CompletionProceed, CompletionLock, CompletionCount,
              StopNotifyRequest, StopNotifyCompleted, Join
<1>5. CASE SpuriousWakeUp
  BY <1>5 DEF SpuriousWakeUp
<1>6. CASE UNCHANGED vars
  BY <1>6 DEF vars
<1> QED
  BY <1>1, <1>2, <1>3, <1>4, <1>5, <1>6 DEF Next, IOThread, Terminated

(* When the same requests are settled in the same way, nothing happened as *)
(* far as OrderedIO can tell.                                              *)
LEMMA SameFate ==
  ASSUME FateIsKnown, FateIsKnown', issued' = issued,
         LastSettled' = LastSettled, failed' = failed,
         main' = "destroyed" <=> main = "destroyed"
  PROVE  FateOf' = FateOf
<1>1. \A k \in 1 .. issued : FateOf'[k] = FateOf[k]
  BY DEF FateIsKnown, FateAt
<1>2. Promise!Fates' = Promise!Fates
  BY DEF Promise!Fates
<1> QED
  BY <1>1, <1>2, SeqEqual DEF FateIsKnown

(* The next request is settled.                                            *)
LEMMA SettleStep ==
  ASSUME FateIsKnown, FateIsKnown', issued' = issued, loan' = loan,
         LastSettled' = LastSettled + 1, LastSettled < issued,
         main # "destroyed", main' # "destroyed",
         \/ failed = 0 /\ failed' \in {0, LastSettled + 1}
         \/ failed # 0 /\ failed' = failed
  PROVE  Promise!Settle
<1>0. PICK n \in 1 .. issued : n = LastSettled + 1
  BY DEF FateIsKnown
<1>1. /\ n \in Nat /\ LastSettled = n - 1
      /\ issued \in Nat
      /\ LastSettled \in Nat /\ failed \in 0 .. LastSettled
  BY <1>0 DEF FateIsKnown
<1>2. FateOf[n] = "pending"
  BY <1>1 DEF FateIsKnown, FateAt
<1>3. \A j \in 1 .. n - 1 : FateOf[j] # "pending"
  BY <1>1 DEF FateIsKnown, FateAt
<1>4. Promise!Failed <=> failed # 0
  <2>1. \A k \in 1 .. issued :
          FateOf[k] = "failed" <=>
            ~(k > LastSettled) /\ ~(failed = 0 \/ k < failed) /\ k = failed
    BY DEF FateIsKnown, FateAt
  <2>2. \A k \in 1 .. issued :
          k = failed => ~(k > LastSettled) /\ ~(failed = 0 \/ k < failed)
    BY <1>1
  <2>3. failed # 0 => failed \in 1 .. issued
    BY <1>1
  <2>4. \A k \in 1 .. issued : k # 0
    BY <1>1
  <2> QED
    BY <2>1, <2>2, <2>3, <2>4 DEF Promise!Failed, FateIsKnown
<1>5. /\ failed = 0 => FateOf'[n] \in {"done", "failed"}
      /\ failed # 0 => FateOf'[n] = "dropped"
  <2>1. FateOf'[n] = IF n > LastSettled'
                     THEN IF main' = "destroyed" THEN "dropped" ELSE "pending"
                     ELSE IF failed' = 0 \/ n < failed' THEN "done"
                     ELSE IF n = failed' THEN "failed" ELSE "dropped"
    BY <1>0 DEF FateIsKnown, FateAt
  <2>2. LastSettled' = n
    BY <1>0
  <2>3. failed = 0 => failed' \in {0, n}
    BY <1>0
  <2>4. failed # 0 => failed' # 0 /\ failed' < n /\ failed' = failed
    BY <1>1
  <2> QED
    BY <1>1, <2>1, <2>2, <2>3, <2>4
<1>6. \A k \in 1 .. issued : k # n => FateOf'[k] = FateOf[k]
  BY <1>1 DEF FateIsKnown, FateAt
<1>7. FateOf' = [FateOf EXCEPT ![n] = FateOf'[n]]
  <2>1. Promise!Fates' = Promise!Fates
    BY DEF Promise!Fates
  <2>2. FateOf'[n] \in Promise!Fates
    BY <1>5 DEF Promise!Fates
  <2>3. /\ [FateOf EXCEPT ![n] = FateOf'[n]] \in Seq(Promise!Fates)
        /\ Len([FateOf EXCEPT ![n] = FateOf'[n]]) = issued
        /\ \A k \in 1 .. issued :
             [FateOf EXCEPT ![n] = FateOf'[n]][k]
               = IF k = n THEN FateOf'[n] ELSE FateOf[k]
    BY <1>0, <2>2, ExceptSeq DEF FateIsKnown
  <2>4. FateOf' \in Seq(Promise!Fates) /\ Len(FateOf') = issued
    BY <2>1 DEF FateIsKnown
  <2>5. \A k \in 1 .. issued :
          FateOf'[k] = [FateOf EXCEPT ![n] = FateOf'[n]][k]
    BY <1>6, <2>3
  <2> QED
    BY <2>3, <2>4, <2>5, SeqEqual
<1>8. (main = "destroyed")' = (main = "destroyed")
  OBVIOUS
<1>9. n \in 1 .. Len(FateOf)
  BY <1>0 DEF FateIsKnown
<1> QED
  BY <1>2, <1>3, <1>4, <1>5, <1>7, <1>8, <1>9 DEF Promise!Settle

(* Where the steps of the processor leave the settled requests.            *)
LEMMA UnsettledSteps ==
  ASSUME IInv, [Next]_vars
  PROVE  \/ BeginOperation /\ ~stopped /\ exception # 0
         \/ EndOperation
         \/ \E i \in Images : RequestIOOperation(i)
         \/ /\ UNCHANGED <<issued, failed>>
            /\ LastSettled' = LastSettled
<1> USE DEF IInv, Holding
<1>1. CASE CheckQueue
  <2>1. UNCHANGED <<issued, failed>> /\ current = NoRequest
    BY <1>1 DEF CheckQueue, ioLog
  <2>2. CASE queue # <<>> /\ ~stopped
    <3>1. /\ queue \in Seq(Request)
          /\ current' = Head(queue) /\ queue' = Tail(queue) /\ io' = "got"
      BY <1>1, <2>2 DEF CheckQueue, TypeOK
    <3>2. /\ Len(queue') = Len(queue) - 1
          /\ current' # NoRequest
          /\ Len(queue) \in Nat
      BY <2>2, <3>1, PopFacts, RequestFacts
    <3>3. issued \in Nat
      BY DEF TypeOK
    <3> QED
      BY <2>1, <3>1, <3>2, <3>3 DEF LastSettled, LastPopped
  <2>3. CASE UNCHANGED <<queue, current>>
    BY <2>1, <2>3 DEF LastSettled, LastPopped
  <2> QED
    BY <1>1, <2>1, <2>2, <2>3 DEF CheckQueue
<1>2. CASE Register
  BY <1>2 DEF Register, ioLog, LastSettled, LastPopped
<1>3. CASE BeginOperation /\ (stopped \/ exception = 0)
  BY <1>3 DEF BeginOperation, procVars, ioLog, LastSettled, LastPopped
<1>4. CASE \/ Loop \/ LockRequests \/ Park \/ NotifyCompleted
           \/ NotifyRequest \/ StopNotifyRequest \/ SpuriousWakeUp
  <2>1. /\ UNCHANGED <<queue, current, issued, failed>>
        /\ io' = io \/ current = NoRequest
    BY <1>4 DEF Loop, LockRequests, Park, NotifyCompleted, NotifyRequest,
                StopNotifyRequest, SpuriousWakeUp, WakeIO, procVars, ioLog
  <2> QED
    BY <2>1 DEF LastSettled, LastPopped
<1>5. CASE UNCHANGED <<queue, io, current, issued, failed>>
  BY <1>5 DEF LastSettled, LastPopped
<1>6. \/ CheckQueue \/ Register \/ BeginOperation \/ EndOperation
      \/ Loop \/ LockRequests \/ Park \/ NotifyCompleted
      \/ NotifyRequest \/ StopNotifyRequest \/ SpuriousWakeUp
      \/ \E i \in Images : RequestIOOperation(i)
      \/ UNCHANGED <<queue, io, current, issued, failed>>
  BY DEF Next, vars, procVars, ioVars, ioLog, IOThread, Owner, OwnerInCall,
         WaiterInCall, CallWaitForBufferRelease, CheckBeforeLock,
         EnterLocked, WakeUp, CallWaitForCompletion, CallDestructor,
         CompletionThrow, CompletionProceed, CompletionLock,
         CompletionCount, StopNotifyCompleted, Join, Terminated
<1> QED
  BY <1>1, <1>2, <1>3, <1>4, <1>5, <1>6

(* Who changes the loans, and who destroys the processor.                  *)
LEMMA LoanSteps ==
  ASSUME IInv, Quiet, [Next]_vars
  PROVE  \/ \E i \in Images : RequestIOOperation(i)
         \/ Join
         \/ \E w \in Waiters :
              TakeImage(w) /\ waiter[w] # "idle"
              /\ UNCHANGED <<queue, current, issued, io, failed, main, stopped>>
         \/ /\ loan' = loan
            /\ main' = "destroyed" <=> main = "destroyed"
BY DEF Next, vars, procVars, ioVars, ioLog, IOThread, Owner, OwnerInCall,
       WaiterInCall, Loop, LockRequests, CheckQueue, Park, BeginOperation,
       EndOperation, Register, NotifyCompleted, CallWaitForBufferRelease,
       CheckBeforeLock, EnterLocked, WakeUp, Throw, Block, WakeAll,
       CallWaitForCompletion, CallDestructor, NotifyRequest,
       CompletionThrow, CompletionProceed, CompletionLock, CompletionCount,
       StopNotifyRequest, StopNotifyCompleted, SpuriousWakeUp, Terminated

LEMMA StepRefines ==
  ASSUME IInv, IInv', Quiet, [Next]_vars, FateIsKnown, FateIsKnown'
  PROVE  [Promise!Next]_(Promise!vars)
<1>1. CASE BeginOperation /\ ~stopped /\ exception # 0
  <2>1. /\ UNCHANGED <<queue, current, issued, failed, loan, main>>
        /\ io = "got" /\ io' = "register"
        /\ current # NoRequest
        /\ main # "destroyed"
        /\ failed # 0
    BY <1>1 DEF BeginOperation, procVars, ioLog, IInv, Holding, Carrying
  <2>2. LastSettled' = LastSettled + 1 /\ LastSettled < issued
    BY <2>1, SettledFacts DEF LastSettled, LastPopped
  <2>3. Promise!Settle
    BY <2>1, <2>2, SettleStep
  <2> QED
    BY <2>3 DEF Promise!Next
<1>2. CASE EndOperation
  <2>1. /\ UNCHANGED <<queue, current, issued, loan, main>>
        /\ io = "io" /\ io' = "register"
        /\ current # NoRequest
        /\ main # "destroyed"
        /\ failed = 0 /\ failed' \in {0, current.id}
    BY <1>2 DEF EndOperation, IInv, Holding, Carrying
  <2>2. /\ LastSettled' = LastSettled + 1
        /\ LastSettled < issued
        /\ current.id = LastSettled + 1
    BY <2>1, SettledFacts DEF LastSettled, LastPopped
  <2>3. Promise!Settle
    BY <2>1, <2>2, SettleStep
  <2> QED
    BY <2>3 DEF Promise!Next
<1>3. ASSUME NEW i \in Images, RequestIOOperation(i)
      PROVE  Promise!Issue(i)
  <2>1. /\ issued' = issued + 1
        /\ loan[i] = 0
        /\ loan' = [loan EXCEPT ![i] = issued + 1]
        /\ queue' = Append(queue, [id |-> issued + 1, image |-> i])
        /\ main = "idle" /\ main' = "notify"
        /\ UNCHANGED <<io, current, failed>>
        /\ [id |-> issued + 1, image |-> i] \in Request
        /\ queue \in Seq(Request)
        /\ issued \in Nat
    BY <1>3 DEF RequestIOOperation, ioVars, ioLog, IInv, TypeOK, Request
  <2>2. LastSettled' = LastSettled /\ LastSettled \in 0 .. issued
    <3>1. Len(queue') = Len(queue) + 1 /\ Len(queue) \in Nat
      BY <2>1, PushFacts, LenProperties
    <3>2. LastPopped' = LastPopped
      BY <2>1, <3>1 DEF LastPopped
    <3> QED
      BY <2>1, <3>2, SettledFacts DEF LastSettled
  <2>3. \A k \in 1 .. issued : FateOf'[k] = FateOf[k]
    BY <2>1, <2>2 DEF FateIsKnown, FateAt
  <2>4. FateOf'[issued + 1] = "pending"
    <3>1. issued + 1 \in 1 .. issued' /\ issued + 1 > LastSettled'
      BY <2>1, <2>2
    <3> QED
      BY <2>1, <3>1 DEF FateIsKnown, FateAt
  <2>5. FateOf' = Append(FateOf, "pending")
    <3>1. Promise!Fates' = Promise!Fates /\ "pending" \in Promise!Fates
      BY DEF Promise!Fates
    <3>2. /\ Append(FateOf, "pending") \in Seq(Promise!Fates)
          /\ Len(Append(FateOf, "pending")) = issued + 1
          /\ \A k \in 1 .. issued : Append(FateOf, "pending")[k] = FateOf[k]
          /\ Append(FateOf, "pending")[issued + 1] = "pending"
      BY <3>1, AppendProperties DEF FateIsKnown
    <3>3. FateOf' \in Seq(Promise!Fates) /\ Len(FateOf') = issued + 1
      BY <2>1, <3>1 DEF FateIsKnown
    <3>4. \A k \in 1 .. issued + 1 :
            FateOf'[k] = Append(FateOf, "pending")[k]
      <4> TAKE k \in 1 .. issued + 1
      <4>1. k \in 1 .. issued \/ k = issued + 1
        BY <2>1
      <4> QED
        BY <2>3, <2>4, <3>2, <4>1
    <3> QED
      BY <3>2, <3>3, <3>4, SeqEqual
  <2>6. Len(FateOf) = issued
    BY DEF FateIsKnown
  <2> QED
    BY <2>1, <2>5, <2>6 DEF Promise!Issue
<1>4. CASE Join
  <2>1. /\ main = "join" /\ main' = "destroyed" /\ loan' = loan
        /\ UNCHANGED <<issued, failed, queue, current, io>>
    BY <1>4 DEF Join, ioVars, ioLog
  <2>2. LastSettled' = LastSettled
    BY <2>1 DEF LastSettled, LastPopped
  <2>3. \A k \in 1 .. issued :
          FateOf'[k] = IF FateOf[k] = "pending" THEN "dropped" ELSE FateOf[k]
    BY <2>1, <2>2 DEF FateIsKnown, FateAt
  <2>4. /\ DOMAIN FateOf = 1 .. issued
        /\ FateOf' = [k \in 1 .. issued |-> FateOf'[k]]
    BY <2>1 DEF FateOf
  <2>5. FateOf' = [k \in DOMAIN FateOf |->
                     IF FateOf[k] = "pending" THEN "dropped" ELSE FateOf[k]]
    BY <2>3, <2>4
  <2>6. Promise!Close
    BY <2>1, <2>5 DEF Promise!Close
  <2> QED
    BY <2>6 DEF Promise!Next
<1>5. ASSUME NEW w \in Waiters, TakeImage(w), waiter[w] # "idle",
             UNCHANGED <<queue, current, issued, io, failed, main, stopped>>
      PROVE  [Promise!Next]_(Promise!vars)
  <2>1. LastSettled' = LastSettled
    BY <1>5 DEF LastSettled, LastPopped
  <2>2. FateOf' = FateOf
    BY <1>5, <2>1, SameFate
  <2>3. main # "destroyed"
    BY <1>5 DEF Quiet, IInv, Holding
  <2>4. /\ image[w] \in Images
        /\ loan' = [loan EXCEPT ![image[w]] = 0]
        /\ loan[image[w]] # 0
        /\ loan[image[w]] \in 1 .. issued
        /\ loan[image[w]] <= LastSettled
    <3>1. /\ image[w] \in completedRequests
          /\ image[w] \in Images
          /\ loan' = [loan EXCEPT ![image[w]] = 0]
          /\ loan[image[w]] \in Nat
      BY <1>5 DEF TakeImage, IInv, TypeOK
    <3>2. /\ loan[image[w]] # 0
          /\ loan[image[w]] <= LastPopped
          /\ current # NoRequest => loan[image[w]] # LastPopped
      BY <3>1 DEF IInv, Lending
    <3>3. LastPopped \in 0 .. issued /\ issued \in Nat
      BY SettledFacts
    <3>4. loan[image[w]] <= LastSettled
      BY <3>1, <3>2, <3>3 DEF LastSettled
    <3> QED
      BY <3>1, <3>2, <3>3, <3>4
  <2>5. FateOf[loan[image[w]]] # "pending"
    BY <2>4 DEF FateIsKnown, FateAt
  <2>6. Promise!Release(image[w])
    BY <1>5, <2>2, <2>3, <2>4, <2>5 DEF Promise!Release
  <2> QED
    BY <2>4, <2>6 DEF Promise!Next
<1>6. CASE /\ UNCHANGED <<issued, failed, loan>>
           /\ LastSettled' = LastSettled
           /\ main' = "destroyed" <=> main = "destroyed"
  <2>1. FateOf' = FateOf
    BY <1>6, SameFate
  <2>2. (main = "destroyed")' = (main = "destroyed")
    BY <1>6
  <2> QED
    BY <1>6, <2>1, <2>2 DEF Promise!vars
<1>7. (\E i \in Images : RequestIOOperation(i)) => Promise!Next
  BY <1>3 DEF Promise!Next
<1> QED
  BY <1>1, <1>2, <1>4, <1>5, <1>6, <1>7, UnsettledSteps, LoanSteps

-----------------------------------------------------------------------------
(* The processor implements OrderedIO: requests are performed in the order *)
(* issued, none after a failure, and a buffer comes back only when its     *)
(* request is settled.                                                     *)
THEOREM ProcessorKeepsPromise == Spec => KeepsPromise
<1>1. Init => Quiet
  BY DEF Init, Quiet
<1>2. IInv /\ Quiet /\ [Next]_vars => Quiet'
  BY QuietStep DEF IInv
<1>3. Init => Promise!Init
  <2> SUFFICES ASSUME Init PROVE Promise!Init
    OBVIOUS
  <2>1. issued = 0 /\ main = "idle" /\ loan = [i \in Images |-> 0]
    BY DEF Init
  <2>2. FateOf = <<>>
    <3>1. FateOf \in [1 .. 0 -> Promise!Fates] /\ DOMAIN FateOf = 1 .. 0
      BY <2>1 DEF FateOf
    <3>2. FateOf \in Seq(Promise!Fates)
      BY <3>1, SeqDef
    <3>3. Len(FateOf) = 0
      BY <3>1, <3>2, LenProperties
    <3> QED
      BY <3>2, <3>3, EmptySeq
  <2> QED
    BY <2>1, <2>2 DEF Promise!Init
<1>4. /\ IInv /\ IInv' /\ Quiet /\ [Next]_vars
      /\ FateIsKnown /\ FateIsKnown'
      => [Promise!Next]_(Promise!vars)
  BY StepRefines
<1>5. QED
  BY <1>1, <1>2, <1>3, <1>4, FateFacts, FateFactsNext, InductiveInvariant, PTL
     DEF Spec, KeepsPromise, Promise!Spec
=============================================================================
