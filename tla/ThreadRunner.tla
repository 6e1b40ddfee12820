---------------------------- MODULE ThreadRunner ----------------------------
(***************************************************************************)
(* A ThreadRunner with its MessageQueue (bonelab/ThreadRunner.cpp,         *)
(* bonelab/MessageQueue.cpp): one worker thread executes the messages that *)
(* other threads send it.  The model is at the grain of the queue's mutex  *)
(* and condition variable and of the unsynchronised reads and writes of    *)
(* m_Stopped, m_MessageQueue and m_Exception.                              *)
(*                                                                         *)
(* Threads:                                                                *)
(*   worker   the thread that runs Run                                     *)
(*   senders  the threads that call SetMessage; one of them, Control, also *)
(*            calls CheckException and Stop and joins the worker           *)
(*                                                                         *)
(* The worker deletes the MessageQueue when Run exits, whoever may be in a *)
(* call on it.  A call on a deleted queue is undefined behaviour: here it  *)
(* returns without effect, blocks for ever, or ends the program.           *)
(***************************************************************************)
EXTENDS Integers, Sequences

CONSTANTS
  Senders,               \* the threads that call SetMessage
  Control,               \* the control thread, one of them
  NULL,                  \* the null pointer
  MaxMessages            \* bound: messages sent, without Stop's blank one

ASSUME ControlAssumption == Control \in Senders
ASSUME MaxMessagesAssumption == MaxMessages \in Nat

(* A message is its number, in the order of the calls of SetMessage; the   *)
(* blank message that Stop sends has the number 0.                         *)
Blank == 0
Messages == 0 .. MaxMessages

ASSUME NullAssumption == NULL \notin Messages

VARIABLES
  queue,                 \* the queue's m_MessageQueue
  box,                   \* the queue object: open, its m_Stopped set, freed;
                         \* cleared once the runner's pointer to it is NULL
  stopped,               \* the runner's m_Stopped
  exception,             \* m_Exception: the message that threw, or NULL
  worker,                \* control state of the worker thread
  current,               \* the message that GetMessage returned, or NULL
  sender,                \* control state of each sender
  letter,                \* the message in each sender's call, or NULL
  sent,                  \* number of messages sent; the last one's number
  accepted,              \* the messages put in the queue, in order
  executed,              \* the messages executed, in order
  failed,                \* the first message that threw, or NULL
  caught,                \* the messages CheckException has thrown for
  misused                \* the deleted queue has been used

(* The variables from sent on are a record of what happened; the code has  *)
(* no such state, and no guard but the bound on messages reads them.       *)
runnerVars == <<queue, box, stopped, exception>>
workerVars == <<worker, current>>
senderVars == <<sender, letter, sent>>
logVars    == <<accepted, executed, failed, caught>>
vars == <<queue, box, stopped, exception, worker, current, sender, letter,
          sent, accepted, executed, failed, caught, misused>>

Boxes == {"open", "stopped", "freed", "cleared"}
WorkerStates ==
  {"loop", "get", "waiting", "execute", "stopQueue", "free", "clear",
   "cleanup", "done", "crashed"}
SenderStates ==
  {"idle", "test", "push", "notify", "join", "joined", "stuck"}

TypeOK ==
  /\ queue \in Seq(Messages)
  /\ box \in Boxes
  /\ stopped \in BOOLEAN
  /\ exception \in Messages \cup {NULL}
  /\ worker \in WorkerStates
  /\ current \in Messages \cup {NULL}
  /\ sender \in [Senders -> SenderStates]
  /\ letter \in [Senders -> Messages \cup {NULL}]
  /\ sent \in 0 .. MaxMessages
  /\ accepted \in Seq(Messages)
  /\ executed \in Seq(Messages)
  /\ failed \in Messages \cup {NULL}
  /\ caught \in SUBSET Messages
  /\ misused \in BOOLEAN

Init ==
  /\ queue = <<>>
  /\ box = "open"
  /\ stopped = FALSE
  /\ exception = NULL
  /\ worker = "loop"
  /\ current = NULL
  /\ sender = [s \in Senders |-> "idle"]
  /\ letter = [s \in Senders |-> NULL]
  /\ sent = 0
  /\ accepted = <<>>
  /\ executed = <<>>
  /\ failed = NULL
  /\ caught = {}
  /\ misused = FALSE

-----------------------------------------------------------------------------
(* The worker thread: Run, GetMessage, Destroy                             *)

(* Fault: the worker empties its queue before it stops.                    *)
DrainsFirst ==
  /\ worker = "loop"
  /\ worker' = IF stopped /\ queue = <<>> THEN "stopQueue" ELSE "get"
  /\ UNCHANGED <<runnerVars, current, senderVars, logVars, misused>>

(* while (!m_Stopped), without a lock.                                     *)
Loop ==
  /\ worker = "loop"
  /\ worker' = IF stopped THEN "stopQueue" ELSE "get"
  /\ UNCHANGED <<runnerVars, current, senderVars, logVars, misused>>

(* GetMessage, under the mutex: the front of the queue, or the wait, which *)
(* releases the mutex as it blocks.  It cannot return NULL: only the       *)
(* queue's destructor stops the queue, and this thread is the one that     *)
(* runs it.                                                                *)
GetMessage ==
  /\ worker = "get"
  /\ \/ /\ queue # <<>>
        /\ current' = Head(queue)
        /\ queue' = Tail(queue)
        /\ worker' = "execute"
     \/ /\ queue = <<>>
        /\ worker' = "waiting"
        /\ UNCHANGED <<queue, current>>
  /\ UNCHANGED <<box, stopped, exception, senderVars, logVars, misused>>

(* The first exception is kept, later ones are deleted.                    *)
SetException ==
  /\ exception' = IF exception = NULL THEN current ELSE exception
  /\ failed' = IF failed = NULL THEN current ELSE failed

(* Message::Execute returns or throws; the message is deleted.  The blank  *)
(* message does nothing.                                                   *)
Execute ==
  /\ worker = "execute"
  /\ executed' = Append(executed, current)
  /\ \/ UNCHANGED <<exception, failed>>
     \/ current # Blank /\ SetException
  /\ current' = NULL
  /\ worker' = "loop"
  /\ UNCHANGED <<queue, box, stopped, senderVars, accepted, caught, misused>>

(* Destroy deletes the queue.  Its destructor sets the queue's m_Stopped   *)
(* under the mutex and notifies nobody, since only this thread waits...    *)
StopQueue ==
  /\ worker = "stopQueue"
  /\ box' = "stopped"
  /\ worker' = "free"
  /\ UNCHANGED <<queue, stopped, exception, current, senderVars, logVars,
                 misused>>

(* ...discards the remaining messages, and the object is freed.            *)
FreeQueue ==
  /\ worker = "free"
  /\ queue' = <<>>
  /\ box' = "freed"
  /\ worker' = "clear"
  /\ UNCHANGED <<stopped, exception, current, senderVars, logVars, misused>>

(* The runner's pointer to the queue becomes NULL.                         *)
ClearPointer ==
  /\ worker = "clear"
  /\ box' = "cleared"
  /\ worker' = "cleanup"
  /\ UNCHANGED <<queue, stopped, exception, current, senderVars, logVars,
                 misused>>

(* The ThreadWorker and the exception are deleted, and the thread ends.    *)
Cleanup ==
  /\ worker = "cleanup"
  /\ exception' = NULL
  /\ worker' = "done"
  /\ UNCHANGED <<queue, box, stopped, current, senderVars, logVars, misused>>

Run ==
  \/ Loop \/ GetMessage \/ Execute
  \/ StopQueue \/ FreeQueue \/ ClearPointer \/ Cleanup

-----------------------------------------------------------------------------
(* The senders: SetMessage, CheckException, Stop, join                     *)

(* The client's part of the contract: nobody calls the runner once it has  *)
(* been joined, since its owner may have destroyed it.                     *)
CallSetMessage(s) ==
  /\ sender[s] = "idle"
  /\ sender[Control] # "joined"
  /\ sent < MaxMessages
  /\ sent' = sent + 1
  /\ letter' = [letter EXCEPT ![s] = sent + 1]
  /\ sender' = [sender EXCEPT ![s] = "test"]
  /\ UNCHANGED <<runnerVars, workerVars, logVars, misused>>

(* A call of the queue's SetMessage is over.  Control's last call is the   *)
(* one that sends the blank message, and it joins the worker next.         *)
Return(s) ==
  /\ letter' = [letter EXCEPT ![s] = NULL]
  /\ sender' = [sender EXCEPT ![s] =
                  IF letter[s] = Blank THEN "join" ELSE "idle"]

(* A deleted object is used.                                               *)
Misuse(s) ==
  /\ box \in {"freed", "cleared"}
  /\ misused' = TRUE
  /\ \/ Return(s) /\ UNCHANGED worker
     \/ /\ sender' = [sender EXCEPT ![s] = "stuck"]
        /\ UNCHANGED <<letter, worker>>
     \/ /\ sender' = [v \in Senders |-> "stuck"]
        /\ worker' = "crashed"
        /\ UNCHANGED letter

(* if (m_MessageQueue), without a lock; the pointer is read once more for  *)
(* the call.                                                               *)
TestPointer(s) ==
  /\ sender[s] = "test"
  /\ \/ box = "cleared" /\ Return(s)
     \/ /\ box # "cleared"
        /\ sender' = [sender EXCEPT ![s] = "push"]
        /\ UNCHANGED letter
  /\ UNCHANGED <<runnerVars, workerVars, sent, logVars, misused>>

(* Fault: nobody is notified.                                              *)
PushesSilently(s) ==
  /\ sender[s] = "push"
  /\ \/ /\ box \in {"open", "stopped"}
        /\ queue' = IF box = "open" THEN Append(queue, letter[s]) ELSE queue
        /\ accepted' = IF box = "open" THEN Append(accepted, letter[s])
                       ELSE accepted
        /\ Return(s)
        /\ UNCHANGED <<worker, misused>>
     \/ Misuse(s) /\ UNCHANGED <<queue, accepted>>
  /\ UNCHANGED <<box, stopped, exception, current, sent, executed, failed,
                 caught>>

(* Fault: the queue has room for one message, and drops the others.        *)
DropsWhenFull(s) ==
  /\ sender[s] = "push"
  /\ \/ /\ box = "open" /\ queue = <<>>
        /\ queue' = Append(queue, letter[s])
        /\ accepted' = Append(accepted, letter[s])
        /\ sender' = [sender EXCEPT ![s] = "notify"]
        /\ UNCHANGED <<letter, worker, misused>>
     \/ /\ box = "stopped" \/ queue # <<>>
        /\ Return(s)
        /\ UNCHANGED <<queue, accepted, worker, misused>>
     \/ Misuse(s) /\ UNCHANGED <<queue, accepted>>
  /\ UNCHANGED <<box, stopped, exception, current, sent, executed, failed,
                 caught>>

(* The queue's SetMessage, under its mutex: a stopped queue takes nothing. *)
Push(s) ==
  /\ sender[s] = "push"
  /\ \/ /\ box = "open"
        /\ queue' = Append(queue, letter[s])
        /\ accepted' = Append(accepted, letter[s])
        /\ sender' = [sender EXCEPT ![s] = "notify"]
        /\ UNCHANGED <<letter, worker, misused>>
     \/ /\ box = "stopped"
        /\ Return(s)
        /\ UNCHANGED <<queue, accepted, worker, misused>>
     \/ Misuse(s) /\ UNCHANGED <<queue, accepted>>
  /\ UNCHANGED <<box, stopped, exception, current, sent, executed, failed,
                 caught>>

(* Fault: Stop's message wakes nobody.                                     *)
LeavesWorkerAsleep(s) ==
  /\ sender[s] = "notify"
  /\ \/ /\ box \in {"open", "stopped"}
        /\ worker' = IF worker = "waiting" /\ letter[s] # Blank
                     THEN "get" ELSE worker
        /\ Return(s)
        /\ UNCHANGED misused
     \/ Misuse(s)
  /\ UNCHANGED <<runnerVars, current, sent, logVars>>

(* m_Condition.notify_one, after the mutex is released.                    *)
Notify(s) ==
  /\ sender[s] = "notify"
  /\ \/ /\ box \in {"open", "stopped"}
        /\ worker' = IF worker = "waiting" THEN "get" ELSE worker
        /\ Return(s)
        /\ UNCHANGED misused
     \/ Misuse(s)
  /\ UNCHANGED <<runnerVars, current, sent, logVars>>

(* CheckException throws the exception, which stays where it is.           *)
CheckException ==
  /\ sender[Control] = "idle"
  /\ exception # NULL
  /\ caught' = caught \cup {exception}
  /\ UNCHANGED <<runnerVars, workerVars, senderVars, accepted, executed,
                 failed, misused>>

(* Stop sets m_Stopped, without a lock, and sends the blank message.       *)
Stop ==
  /\ sender[Control] = "idle"
  /\ stopped' = TRUE
  /\ letter' = [letter EXCEPT ![Control] = Blank]
  /\ sender' = [sender EXCEPT ![Control] = "test"]
  /\ UNCHANGED <<queue, box, exception, workerVars, sent, logVars, misused>>

Join ==
  /\ sender[Control] = "join"
  /\ worker = "done"
  /\ sender' = [sender EXCEPT ![Control] = "joined"]
  /\ UNCHANGED <<runnerVars, workerVars, letter, sent, logVars, misused>>

InSetMessage(s) == TestPointer(s) \/ Push(s) \/ Notify(s)

-----------------------------------------------------------------------------
(* The condition variable may wake the worker for no reason.               *)
SpuriousWakeUp ==
  /\ worker = "waiting"
  /\ worker' = "get"
  /\ UNCHANGED <<runnerVars, current, senderVars, logVars, misused>>

Finished ==
  /\ worker \in {"done", "crashed"}
  /\ sender[Control] # "idle"
  /\ \A s \in Senders : sender[s] \in {"idle", "joined", "stuck"}
  /\ UNCHANGED vars

Next ==
  \/ Run
  \/ \E s \in Senders : CallSetMessage(s) \/ InSetMessage(s)
  \/ CheckException
  \/ Stop
  \/ Join
  \/ SpuriousWakeUp
  \/ Finished

Spec == Init /\ [][Next]_vars

(* The worker runs, and so does a thread inside a call.  No mutex is held  *)
(* across actions, so a step once possible stays possible until it is      *)
(* taken and weak fairness is enough.  No call need ever be made; and a    *)
(* message, once begun, ends.                                              *)
Fairness ==
  /\ WF_vars(Run)
  /\ \A s \in Senders : WF_vars(InSetMessage(s))
  /\ WF_vars(Join)

FairSpec == Spec /\ Fairness

-----------------------------------------------------------------------------
(* Properties                                                              *)

Hand == IF current = NULL THEN <<>> ELSE <<current>>

(* Until the queue is discarded every accepted message is executed, in the *)
(* worker's hand or queued, once, in the order accepted; and what has been *)
(* executed is always a beginning of what was accepted.                    *)
ExecutedInOrder ==
  /\ box \in {"open", "stopped"} => accepted = executed \o Hand \o queue
  /\ Len(executed) <= Len(accepted)
  /\ executed = SubSeq(accepted, 1, Len(executed))

(* The worker does not sleep on a message: when it is blocked and the      *)
(* queue is not empty, a sender is about to notify it.  notify_one and     *)
(* several senders notwithstanding.                                        *)
NoLostWakeUp ==
  worker = "waiting" /\ queue # <<>> =>
    \E s \in Senders : sender[s] = "notify"

(* Before Stop no message is lost: one that was sent is accepted, or its   *)
(* sender is still in SetMessage.                                          *)
NothingLostWhileRunning ==
  ~stopped =>
    \A m \in 1 .. sent :
      \/ \E k \in 1 .. Len(accepted) : accepted[k] = m
      \/ \E s \in Senders : letter[s] = m

(* The control thread only ever sees the first exception, and sees it at   *)
(* every check until the runner goes away.                                 *)
FirstExceptionStays ==
  /\ worker \notin {"done", "crashed"} => exception = failed
  /\ caught \subseteq {failed}

(* A message accepted before Stop is executed, unless Stop comes first.    *)
MessagesAreExecuted ==
  \A m \in 1 .. MaxMessages :
    (\E k \in 1 .. Len(accepted) : accepted[k] = m)
      ~> (stopped \/ \E k \in 1 .. Len(executed) : executed[k] = m)

(* Stop ends the worker, and the join after it returns; but for a call     *)
(* that uses the deleted queue.                                            *)
ShutdownEnds == stopped ~> sender[Control] = "joined" \/ misused

Promise == INSTANCE Mailbox
  WITH status <- IF ~stopped THEN "open"
                 ELSE IF worker \in {"get", "waiting", "execute"}
                      THEN "closing" ELSE "closed"

(* The runner implements Mailbox; in particular it executes at most one    *)
(* more message once Stop has been called.                                 *)
KeepsPromise == Promise!Spec

-----------------------------------------------------------------------------
(* What the header says of the runner, and the code does not do            *)

(* ThreadRunner.hpp:91: Stop "is thread-safe and may be called from other  *)
(* threads"; so the queue is not deleted under the feet of its caller.     *)
StopIsThreadSafe == ~misused
=============================================================================
