-------------------------- MODULE ThreadRunnerProofs --------------------------
(***************************************************************************)
(* Safety of ThreadRunner, and that it implements Mailbox, for every set   *)
(* of senders and every number of messages.                                *)
(***************************************************************************)
EXTENDS ThreadRunner, SequenceTheorems, TLAPS

USE ControlAssumption, MaxMessagesAssumption, NullAssumption

(* How far the worker has come, and what is left of the queue object.      *)
Lifecycle ==
  /\ worker \in {"loop", "get", "waiting", "execute", "stopQueue"}
       => box = "open"
  /\ worker = "free" => box = "stopped"
  /\ worker = "clear" => box = "freed"
  /\ worker \in {"cleanup", "done"} => box = "cleared"
  /\ worker = "crashed" =>
       box \in {"freed", "cleared"} /\ sender[Control] = "stuck"
  /\ worker \notin {"loop", "get", "waiting", "execute"} => stopped
  /\ worker = "execute" <=> current # NULL

(* What a sender in a call has in its hand.                                *)
Letters ==
  \A s \in Senders :
    /\ sender[s] \in {"idle", "join", "joined"} => letter[s] = NULL
    /\ sender[s] \in {"test", "push", "notify"} => letter[s] \in Messages
    /\ sender[s] = "notify" =>
         \E k \in 1 .. Len(accepted) : accepted[k] = letter[s]

(* ExecutedInOrder, one message at a time.                                 *)
InHand == IF current = NULL THEN 0 ELSE 1

Order ==
  /\ box \in {"open", "stopped"} =>
       /\ Len(accepted) = Len(executed) + InHand + Len(queue)
       /\ current # NULL => accepted[Len(executed) + 1] = current
       /\ \A k \in 1 .. Len(queue) :
            accepted[Len(executed) + InHand + k] = queue[k]
  /\ Len(executed) <= Len(accepted)
  /\ \A k \in 1 .. Len(executed) : executed[k] = accepted[k]

Exceptions ==
  /\ FirstExceptionStays
  /\ worker = "done" => exception = NULL
  /\ failed = NULL => caught = {}

IInv ==
  /\ TypeOK
  /\ Lifecycle
  /\ Letters
  /\ Order
  /\ Exceptions
  /\ NoLostWakeUp
  /\ NothingLostWhileRunning

-----------------------------------------------------------------------------
(* The sequence facts the queue needs.                                     *)
LEMMA PopFacts ==
  ASSUME NEW q \in Seq(Messages), q # <<>>
  PROVE  /\ Len(q) \in Nat \ {0}
         /\ Head(q) \in Messages
         /\ Head(q) = q[1]
         /\ Tail(q) \in Seq(Messages)
         /\ Len(Tail(q)) = Len(q) - 1
         /\ \A k \in 1 .. Len(q) - 1 : Tail(q)[k] = q[k + 1]
BY HeadTailProperties, EmptySeq, LenProperties

LEMMA PushFacts ==
  ASSUME NEW q \in Seq(Messages), NEW m \in Messages
  PROVE  /\ Len(q) \in Nat
         /\ Append(q, m) \in Seq(Messages)
         /\ Len(Append(q, m)) = Len(q) + 1
         /\ \A k \in 1 .. Len(q) : Append(q, m)[k] = q[k]
         /\ Append(q, m)[Len(q) + 1] = m
BY AppendProperties, LenProperties

LEMMA NothingFacts ==
  /\ <<>> \in Seq(Messages)
  /\ Len(<<>>) = 0
BY EmptySeq

-----------------------------------------------------------------------------
(* The kinds of steps, told apart by what they change.                     *)

(* A call that does not use the queue.                                     *)
LEMMA MisuseStep ==
  ASSUME TypeOK, Lifecycle, NEW s \in Senders,
         sender[s] \in {"push", "notify"}, Misuse(s)
  PROVE  /\ box \in {"freed", "cleared"}
         /\ stopped
         /\ sender' \in [Senders -> SenderStates]
         /\ letter' \in [Senders -> Messages \cup {NULL}]
         /\ misused' \in BOOLEAN
         /\ worker' \in {worker, "crashed"}
         /\ worker' = "crashed" => sender'[Control] = "stuck"
         /\ \A v \in Senders :
              \/ sender'[v] = sender[v] /\ letter'[v] = letter[v]
              \/ sender'[v] = "stuck"
              \/ sender'[v] \in {"idle", "join"} /\ letter'[v] = NULL
<1> USE DEF TypeOK, Lifecycle, Misuse, SenderStates, WorkerStates, Boxes
<1>1. box \in {"freed", "cleared"} /\ stopped /\ misused' \in BOOLEAN
  OBVIOUS
<1>2. CASE Return(s) /\ UNCHANGED worker
  BY <1>1, <1>2 DEF Return
<1>3. CASE /\ sender' = [sender EXCEPT ![s] = "stuck"]
           /\ UNCHANGED <<letter, worker>>
  BY <1>1, <1>3
<1>4. CASE /\ sender' = [v \in Senders |-> "stuck"]
           /\ worker' = "crashed"
           /\ UNCHANGED letter
  BY <1>1, <1>4
<1> QED
  BY <1>2, <1>3, <1>4

LEMMA TypeStep ==
  ASSUME TypeOK, Lifecycle, Letters, [Next]_vars
  PROVE  TypeOK'
<1> USE DEF TypeOK, runnerVars, workerVars, senderVars, logVars,
            WorkerStates, SenderStates, Boxes
<1>1. CASE Loop
  BY <1>1 DEF Loop
<1>2. CASE GetMessage
  BY <1>2, PopFacts DEF GetMessage
<1>3. CASE Execute
  <2>1. current \in Messages
    BY <1>3 DEF Execute, Lifecycle
  <2>2. executed' \in Seq(Messages)
    BY <1>3, <2>1, PushFacts DEF Execute
  <2>3. exception' \in Messages \cup {NULL} /\ failed' \in Messages \cup {NULL}
    BY <1>3, <2>1 DEF Execute, SetException
  <2> QED
    BY <1>3, <2>2, <2>3 DEF Execute
<1>4. CASE StopQueue \/ FreeQueue \/ ClearPointer \/ Cleanup
  BY <1>4, NothingFacts DEF StopQueue, FreeQueue, ClearPointer, Cleanup
<1>5. ASSUME NEW s \in Senders, CallSetMessage(s)
      PROVE  TypeOK'
  <2>1. sent' \in 0 .. MaxMessages /\ sent + 1 \in Messages
    BY <1>5 DEF CallSetMessage, Messages
  <2> QED
    BY <1>5, <2>1 DEF CallSetMessage
<1>6. ASSUME NEW s \in Senders, TestPointer(s)
      PROVE  TypeOK'
  BY <1>6 DEF TestPointer, Return
<1>7. ASSUME NEW s \in Senders, Push(s)
      PROVE  TypeOK'
  <2>1. letter[s] \in Messages
    BY <1>7 DEF Push, Letters
  <2>2. CASE box = "open"
    <3>1. /\ Append(queue, letter[s]) \in Seq(Messages)
          /\ Append(accepted, letter[s]) \in Seq(Messages)
      BY <2>1, PushFacts
    <3> QED
      BY <1>7, <2>2, <3>1 DEF Push, Misuse
  <2>3. CASE box = "stopped"
    BY <1>7, <2>3 DEF Push, Return, Misuse
  <2>4. CASE Misuse(s)
    BY <1>7, <2>4, MisuseStep DEF Push
  <2> QED
    BY <1>7, <2>2, <2>3, <2>4 DEF Push
<1>8. ASSUME NEW s \in Senders, Notify(s)
      PROVE  TypeOK'
  <2>1. CASE box \in {"open", "stopped"}
    BY <1>8, <2>1 DEF Notify, Return, Misuse
  <2>2. CASE Misuse(s)
    BY <1>8, <2>2, MisuseStep DEF Notify
  <2> QED
    BY <1>8, <2>1, <2>2 DEF Notify
<1>9. CASE CheckException
  BY <1>9 DEF CheckException
<1>10. CASE Stop
  BY <1>10 DEF Stop, Blank, Messages
<1>11. CASE Join
  BY <1>11 DEF Join
<1>12. CASE SpuriousWakeUp
  BY <1>12 DEF SpuriousWakeUp
<1>13. CASE UNCHANGED vars
  BY <1>13 DEF vars
<1> QED
  BY <1>1, <1>2, <1>3, <1>4, <1>5, <1>6, <1>7, <1>8, <1>9, <1>10, <1>11,
     <1>12, <1>13 DEF Next, Run, InSetMessage, Finished

LEMMA LifecycleStep ==
  ASSUME TypeOK, Lifecycle, Letters, [Next]_vars
  PROVE  Lifecycle'
<1> USE DEF TypeOK, Lifecycle, runnerVars, workerVars, senderVars, logVars,
            WorkerStates, Boxes
<1>1. CASE Loop
  BY <1>1 DEF Loop
<1>2. CASE GetMessage
  BY <1>2, PopFacts DEF GetMessage
<1>3. CASE Execute
  BY <1>3 DEF Execute
<1>4. CASE StopQueue \/ FreeQueue \/ ClearPointer \/ Cleanup
  BY <1>4 DEF StopQueue, FreeQueue, ClearPointer, Cleanup
<1>5. ASSUME NEW s \in Senders, CallSetMessage(s) \/ TestPointer(s)
      PROVE  Lifecycle'
  BY <1>5 DEF CallSetMessage, TestPointer, Return
<1>6. ASSUME NEW s \in Senders, Push(s) \/ Notify(s)
      PROVE  Lifecycle'
  <2>1. CASE box \in {"open", "stopped"}
    BY <1>6, <2>1 DEF Push, Notify, Misuse
  <2>2. CASE Misuse(s)
    <3>1. /\ box \in {"freed", "cleared"}
          /\ stopped
          /\ worker' \in {worker, "crashed"}
          /\ worker' = "crashed" => sender'[Control] = "stuck"
      BY <1>6, <2>2, MisuseStep DEF Push, Notify
    <3> QED
      BY <1>6, <3>1 DEF Push, Notify
  <2> QED
    BY <1>6, <2>1, <2>2 DEF Push, Notify
<1>7. CASE CheckException \/ Stop \/ Join
  BY <1>7 DEF CheckException, Stop, Join
<1>8. CASE SpuriousWakeUp
  BY <1>8 DEF SpuriousWakeUp
<1>9. CASE UNCHANGED vars
  BY <1>9 DEF vars
<1> QED
  BY <1>1, <1>2, <1>3, <1>4, <1>5, <1>6, <1>7, <1>8, <1>9
     DEF Next, Run, InSetMessage, Finished

LEMMA LettersStep ==
  ASSUME TypeOK, Lifecycle, Letters, [Next]_vars
  PROVE  Letters'
<1> USE DEF TypeOK, Letters, runnerVars, workerVars, senderVars, logVars,
            SenderStates
<1>1. CASE Run
  BY <1>1 DEF Run, Loop, GetMessage, Execute, StopQueue, FreeQueue,
              ClearPointer, Cleanup
<1>2. ASSUME NEW s \in Senders, CallSetMessage(s)
      PROVE  Letters'
  <2>1. sent + 1 \in Messages
    BY <1>2 DEF CallSetMessage, Messages
  <2> QED
    BY <1>2, <2>1 DEF CallSetMessage
<1>3. ASSUME NEW s \in Senders, TestPointer(s)
      PROVE  Letters'
  BY <1>3 DEF TestPointer, Return
<1>4. ASSUME NEW s \in Senders, Push(s), ~Misuse(s)
      PROVE  Letters'
  <2>1. letter[s] \in Messages /\ Len(accepted) \in Nat
    BY <1>4, LenProperties DEF Push
  <2>2. CASE box = "open"
    <3>1. /\ sender' = [sender EXCEPT ![s] = "notify"]
          /\ letter' = letter
          /\ accepted' = Append(accepted, letter[s])
      BY <1>4, <2>2 DEF Push
    <3>2. \E k \in 1 .. Len(accepted') : accepted'[k] = letter'[s]
      BY <2>1, <3>1, PushFacts
    <3>3. ASSUME NEW v \in Senders, v # s, sender[v] = "notify"
          PROVE  \E k \in 1 .. Len(accepted') : accepted'[k] = letter'[v]
      BY <2>1, <3>1, <3>3, PushFacts
    <3> QED
      BY <1>4, <3>1, <3>2, <3>3 DEF Push
  <2>3. CASE box # "open"
    BY <1>4, <2>3 DEF Push, Return
  <2> QED
    BY <2>2, <2>3
<1>5. ASSUME NEW s \in Senders, Notify(s), ~Misuse(s)
      PROVE  Letters'
  BY <1>5, SMTT(30) DEF Notify, Return
<1>6. ASSUME NEW s \in Senders, Push(s) \/ Notify(s), Misuse(s)
      PROVE  Letters'
  <2>1. /\ sender[s] \in {"push", "notify"}
        /\ accepted' = accepted
    BY <1>6 DEF Push, Notify, Misuse
  <2>2. \A v \in Senders :
          \/ sender'[v] = sender[v] /\ letter'[v] = letter[v]
          \/ sender'[v] = "stuck"
          \/ sender'[v] \in {"idle", "join"} /\ letter'[v] = NULL
    BY <1>6, <2>1, MisuseStep
  <2> QED
    BY <2>1, <2>2
<1>7. CASE CheckException \/ Join \/ SpuriousWakeUp
  BY <1>7 DEF CheckException, Join, SpuriousWakeUp
<1>8. CASE Stop
  BY <1>8 DEF Stop, Blank, Messages
<1>9. CASE UNCHANGED vars
  BY <1>9 DEF vars
<1> QED
  BY <1>1, <1>2, <1>3, <1>4, <1>5, <1>6, <1>7, <1>8, <1>9
     DEF Next, InSetMessage, Finished

-----------------------------------------------------------------------------
(* The order of execution.                                                 *)
LEMMA OrderStep ==
  ASSUME TypeOK, Lifecycle, Letters, Order, [Next]_vars
  PROVE  Order'
<1>t. /\ queue \in Seq(Messages)
      /\ accepted \in Seq(Messages)
      /\ executed \in Seq(Messages)
      /\ current \in Messages \cup {NULL}
  BY DEF TypeOK
<1>n. /\ Len(queue) \in Nat
      /\ Len(accepted) \in Nat
      /\ Len(executed) \in Nat
      /\ InHand \in {0, 1}
  BY <1>t, LenProperties DEF InHand
<1>1. CASE GetMessage /\ queue # <<>>
  <2>1. /\ current' = Head(queue)
        /\ queue' = Tail(queue)
        /\ UNCHANGED <<box, accepted, executed>>
        /\ current = NULL
        /\ box = "open"
    BY <1>1 DEF GetMessage, Lifecycle, logVars
  <2>2. /\ current' = queue[1]
        /\ current' # NULL
        /\ Len(queue') = Len(queue) - 1
        /\ \A k \in 1 .. Len(queue) - 1 : queue'[k] = queue[k + 1]
        /\ Len(queue) > 0
    BY <1>t, <1>1, <2>1, PopFacts
  <2>3. InHand = 0 /\ InHand' = 1
    BY <2>1, <2>2 DEF InHand
  <2>4. \A k \in 1 .. Len(queue) : accepted[Len(executed) + k] = queue[k]
    BY <1>n, <2>1, <2>3 DEF Order
  <2>5. accepted'[Len(executed') + 1] = current'
    BY <1>n, <2>1, <2>2, <2>4, SMTT(30)
  <2>6. \A k \in 1 .. Len(queue') :
          accepted'[Len(executed') + InHand' + k] = queue'[k]
    <3> TAKE k \in 1 .. Len(queue')
    <3>1. k + 1 \in 1 .. Len(queue) /\ queue'[k] = queue[k + 1]
      BY <1>n, <2>2
    <3>2. accepted[Len(executed) + (k + 1)] = queue[k + 1]
      BY <2>4, <3>1
    <3>3. Len(executed) + (k + 1) = Len(executed) + 1 + k
      BY <1>n
    <3> QED
      BY <2>1, <2>3, <3>1, <3>2, <3>3
  <2>7. Len(accepted') = Len(executed') + InHand' + Len(queue')
    <3>1. Len(accepted) = Len(executed) + InHand + Len(queue)
      BY <2>1 DEF Order
    <3>2. Len(accepted') = Len(accepted) /\ Len(executed') = Len(executed)
      BY <2>1
    <3> QED
      BY <1>n, <2>2, <2>3, <3>1, <3>2
  <2> QED
    BY <2>1, <2>5, <2>6, <2>7 DEF Order
<1>2. CASE Execute
  <2>1. /\ UNCHANGED <<box, accepted, queue>>
        /\ executed' = Append(executed, current)
        /\ current \in Messages /\ current # NULL /\ current' = NULL
        /\ box = "open"
    BY <1>2 DEF Execute, Lifecycle, TypeOK
  <2>2. /\ Len(executed') = Len(executed) + 1
        /\ \A k \in 1 .. Len(executed) : executed'[k] = executed[k]
        /\ executed'[Len(executed) + 1] = current
    BY <1>t, <2>1, PushFacts
  <2>3. InHand = 1 /\ InHand' = 0
    BY <2>1 DEF InHand
  <2>4. \A k \in 1 .. Len(executed') : executed'[k] = accepted'[k]
    BY <1>n, <2>1, <2>2 DEF Order
  <2>5. Len(executed') + InHand' = Len(executed) + InHand
    BY <1>n, <2>2, <2>3
  <2>6. /\ Len(accepted') = Len(executed') + InHand' + Len(queue')
        /\ \A k \in 1 .. Len(queue') :
             accepted'[Len(executed') + InHand' + k] = queue'[k]
    <3>1. /\ Len(accepted) = Len(executed) + InHand + Len(queue)
          /\ \A k \in 1 .. Len(queue) :
               accepted[Len(executed) + InHand + k] = queue[k]
      BY <2>1 DEF Order
    <3> QED
      BY <2>1, <2>5, <3>1
  <2>7. Len(executed') <= Len(accepted')
    BY <1>n, <2>1, <2>2, <2>3, <2>6
  <2> QED
    BY <2>1, <2>4, <2>6, <2>7 DEF Order
<1>3. ASSUME NEW s \in Senders, Push(s), box = "open"
      PROVE  Order'
  <2>1. /\ UNCHANGED <<box, current, executed>>
        /\ queue' = Append(queue, letter[s])
        /\ accepted' = Append(accepted, letter[s])
        /\ letter[s] \in Messages
    BY <1>3 DEF Push, Misuse, Letters
  <2>2. /\ Len(queue') = Len(queue) + 1
        /\ \A k \in 1 .. Len(queue) : queue'[k] = queue[k]
        /\ queue'[Len(queue) + 1] = letter[s]
    BY <1>t, <2>1, PushFacts
  <2>3. /\ Len(accepted') = Len(accepted) + 1
        /\ \A k \in 1 .. Len(accepted) : accepted'[k] = accepted[k]
        /\ accepted'[Len(accepted) + 1] = letter[s]
    BY <1>t, <2>1, PushFacts
  <2>4. /\ Len(accepted) = Len(executed) + InHand + Len(queue)
        /\ InHand' = InHand
    BY <1>3, <2>1 DEF Order, InHand
  <2>5. \A k \in 1 .. Len(queue') :
          accepted'[Len(executed') + InHand' + k] = queue'[k]
    <3> TAKE k \in 1 .. Len(queue')
    <3>1. CASE k = Len(queue) + 1
      <4>1. Len(executed) + InHand + k = Len(accepted) + 1
        BY <1>n, <2>4, <3>1
      <4> QED
        BY <2>1, <2>2, <2>3, <2>4, <3>1, <4>1
    <3>2. CASE k \in 1 .. Len(queue)
      <4>1. Len(executed) + InHand + k \in 1 .. Len(accepted)
        BY <1>n, <2>4, <3>2
      <4>2. accepted[Len(executed) + InHand + k] = queue[k]
        BY <1>3, <3>2 DEF Order
      <4> QED
        BY <2>1, <2>2, <2>3, <2>4, <3>2, <4>1, <4>2
    <3> QED
      BY <1>n, <2>2, <3>1, <3>2
  <2>6. current' # NULL => accepted'[Len(executed') + 1] = current'
    <3> SUFFICES ASSUME current # NULL
                 PROVE  accepted'[Len(executed) + 1] = current
      BY <2>1
    <3>1. InHand = 1 /\ accepted[Len(executed) + 1] = current
      BY <1>3 DEF Order, InHand
    <3>2. Len(executed) + 1 \in 1 .. Len(accepted)
      BY <1>n, <2>4, <3>1
    <3> QED
      BY <2>3, <3>1, <3>2
  <2>7. /\ Len(executed') <= Len(accepted')
        /\ \A k \in 1 .. Len(executed') : executed'[k] = accepted'[k]
    BY <1>n, <2>1, <2>3 DEF Order
  <2>8. Len(accepted') = Len(executed') + InHand' + Len(queue')
    BY <1>n, <2>1, <2>2, <2>3, <2>4
  <2> QED
    BY <2>5, <2>6, <2>7, <2>8 DEF Order
<1>4. CASE UNCHANGED <<box, queue, current, accepted, executed>>
  BY <1>4 DEF Order, InHand
<1>5. CASE /\ box' \in {"freed", "cleared"}
           /\ UNCHANGED <<current, accepted, executed>>
  BY <1>5 DEF Order, InHand
<1>6. CASE box = "open" /\ StopQueue
  BY <1>6 DEF StopQueue, logVars, Order, InHand
<1>7. ASSUME NEW s \in Senders, Push(s), box # "open"
      PROVE  UNCHANGED <<box, queue, current, accepted, executed>>
  BY <1>7 DEF Push
<1>8. \/ GetMessage /\ queue # <<>>
      \/ Execute
      \/ \E s \in Senders : Push(s)
      \/ UNCHANGED <<box, queue, current, accepted, executed>>
      \/ box' \in {"freed", "cleared"} /\ UNCHANGED <<current, accepted, executed>>
      \/ box = "open" /\ StopQueue
  BY DEF Next, vars, Run, Loop, GetMessage, StopQueue, FreeQueue,
         ClearPointer, Cleanup, CallSetMessage, InSetMessage, TestPointer,
         Notify, CheckException, Stop, Join, SpuriousWakeUp, Finished,
         Lifecycle, runnerVars, workerVars, senderVars, logVars
<1> QED
  BY <1>1, <1>2, <1>3, <1>4, <1>5, <1>6, <1>7, <1>8

(* Order says what ExecutedInOrder says.                                   *)
LEMMA OrderImpliesExecutedInOrder ==
  ASSUME TypeOK, Order
  PROVE  ExecutedInOrder
<1>t. /\ queue \in Seq(Messages)
      /\ accepted \in Seq(Messages)
      /\ executed \in Seq(Messages)
      /\ current \in Messages \cup {NULL}
  BY DEF TypeOK
<1>1. /\ Len(queue) \in Nat
      /\ Len(accepted) \in Nat
      /\ Len(executed) \in Nat
      /\ InHand \in {0, 1}
  BY <1>t, LenProperties DEF InHand
<1>2. /\ Len(executed) <= Len(accepted)
      /\ executed = SubSeq(accepted, 1, Len(executed))
  <2>1. /\ Len(executed) <= Len(accepted)
        /\ \A k \in 1 .. Len(executed) : executed[k] = accepted[k]
    BY DEF Order
  <2>2. \A k \in 1 .. Len(executed) : accepted[k] \in Messages
    BY <1>t, <1>1, <2>1, ElementOfSeq
  <2>3. /\ SubSeq(accepted, 1, Len(executed)) \in Seq(Messages)
        /\ Len(SubSeq(accepted, 1, Len(executed))) = Len(executed)
        /\ \A k \in 1 .. Len(executed) :
             SubSeq(accepted, 1, Len(executed))[k] = accepted[k]
    BY <1>1, <2>2, SubSeqProperties
  <2> QED
    BY <1>t, <2>1, <2>3, SeqEqual
<1>3. ASSUME box \in {"open", "stopped"}
      PROVE  accepted = (executed \o Hand) \o queue
  <2> DEFINE begin == executed \o Hand
             n == Len(executed) + InHand
  <2>1. /\ Hand \in Seq(Messages)
        /\ Len(Hand) = InHand
        /\ current # NULL => Hand[1] = current
    BY <1>t, NothingFacts DEF Hand, InHand
  <2>2. /\ begin \in Seq(Messages)
        /\ Len(begin) = n
        /\ \A k \in 1 .. n : begin[k] = IF k <= Len(executed) THEN executed[k]
                                       ELSE Hand[k - Len(executed)]
    <3>1. /\ begin \in Seq(Messages)
          /\ Len(begin) = Len(executed) + Len(Hand)
          /\ \A k \in 1 .. Len(executed) + Len(Hand) :
               begin[k] = IF k <= Len(executed) THEN executed[k]
                          ELSE Hand[k - Len(executed)]
      BY <1>t, <2>1, ConcatProperties
    <3> QED
      BY <2>1, <3>1
  <2>3. \A k \in 1 .. n : begin[k] = accepted[k]
    <3> TAKE k \in 1 .. n
    <3>1. CASE k <= Len(executed)
      <4>1. k \in 1 .. Len(executed)
        BY <1>1, <3>1
      <4> QED
        BY <2>2, <3>1, <4>1 DEF Order
    <3>2. CASE k > Len(executed)
      <4>1. k = Len(executed) + 1 /\ InHand = 1
        BY <1>1, <3>2
      <4>2. current # NULL
        BY <4>1 DEF InHand
      <4>3. k - Len(executed) = 1 /\ ~(k <= Len(executed))
        BY <1>1, <4>1
      <4>4. begin[k] = Hand[1]
        BY <2>2, <4>3
      <4> QED
        BY <1>3, <2>1, <4>1, <4>2, <4>4 DEF Order
    <3>3. k <= Len(executed) \/ k > Len(executed)
      BY <1>1
    <3> QED
      BY <3>1, <3>2, <3>3
  <2>4. n \in Nat /\ Len(accepted) = n + Len(queue)
    BY <1>1, <1>3 DEF Order
  <2> HIDE DEF begin
  <2>5. /\ begin \o queue \in Seq(Messages)
        /\ Len(begin \o queue) = n + Len(queue)
        /\ \A k \in 1 .. n + Len(queue) :
             (begin \o queue)[k] = IF k <= n THEN begin[k] ELSE queue[k - n]
    <3>1. /\ begin \o queue \in Seq(Messages)
          /\ Len(begin \o queue) = Len(begin) + Len(queue)
          /\ \A k \in 1 .. Len(begin) + Len(queue) :
               (begin \o queue)[k] = IF k <= Len(begin) THEN begin[k]
                                      ELSE queue[k - Len(begin)]
      BY <1>t, <2>2, ConcatProperties
    <3> QED
      BY <2>2, <3>1
  <2>6. \A k \in 1 .. Len(queue) : accepted[n + k] = queue[k]
    BY <1>3 DEF Order
  <2> HIDE DEF n
  <2>7. \A k \in 1 .. Len(accepted) : accepted[k] = (begin \o queue)[k]
    <3> TAKE k \in 1 .. Len(accepted)
    <3>1. CASE k <= n
      <4>1. k \in 1 .. n /\ k \in 1 .. n + Len(queue)
        BY <1>1, <2>4, <3>1
      <4> QED
        BY <2>3, <2>5, <3>1, <4>1
    <3>2. CASE k > n
      <4>1. /\ k - n \in 1 .. Len(queue)
            /\ n + (k - n) = k
            /\ k \in 1 .. n + Len(queue)
            /\ ~(k <= n)
        BY <1>1, <2>4, <3>2
      <4>2. accepted[n + (k - n)] = queue[k - n]
        BY <2>6, <4>1
      <4> QED
        BY <2>5, <4>1, <4>2
    <3>3. k <= n \/ k > n
      BY <1>1, <2>4
    <3> QED
      BY <3>1, <3>2, <3>3
  <2>8. accepted = begin \o queue
    BY <1>t, <2>4, <2>5, <2>7, SeqEqual
  <2> QED
    BY <2>8 DEF begin
<1> QED
  BY <1>2, <1>3 DEF ExecutedInOrder

-----------------------------------------------------------------------------
(* Wake-ups, lost messages and exceptions.                                 *)
LEMMA WakeUpStep ==
  ASSUME TypeOK, Lifecycle, NoLostWakeUp, [Next]_vars
  PROVE  NoLostWakeUp'
<1> USE DEF TypeOK, NoLostWakeUp, runnerVars, workerVars, senderVars, logVars
<1>1. CASE Run
  BY <1>1 DEF Run, Loop, GetMessage, Execute, StopQueue, FreeQueue,
              ClearPointer, Cleanup
<1>2. ASSUME NEW s \in Senders, CallSetMessage(s) \/ TestPointer(s)
      PROVE  NoLostWakeUp'
  BY <1>2 DEF CallSetMessage, TestPointer, Return
<1>3. ASSUME NEW s \in Senders, Push(s)
      PROVE  NoLostWakeUp'
  <2>1. CASE box = "open"
    BY <1>3, <2>1 DEF Push, Misuse
  <2>2. CASE box # "open"
    BY <1>3, <2>2 DEF Push, Misuse, Lifecycle
  <2> QED
    BY <2>1, <2>2
<1>4. ASSUME NEW s \in Senders, Notify(s)
      PROVE  NoLostWakeUp'
  <2>1. worker' # "waiting"
    BY <1>4 DEF Notify, Misuse, Lifecycle
  <2> QED
    BY <2>1
<1>5. CASE CheckException \/ Stop \/ Join \/ SpuriousWakeUp
  BY <1>5 DEF CheckException, Stop, Join, SpuriousWakeUp
<1>6. CASE UNCHANGED vars
  BY <1>6 DEF vars
<1> QED
  BY <1>1, <1>2, <1>3, <1>4, <1>5, <1>6 DEF Next, InSetMessage, Finished

LEMMA NothingLostStep ==
  ASSUME TypeOK, Lifecycle, Letters, NothingLostWhileRunning, [Next]_vars
  PROVE  NothingLostWhileRunning'
<1> SUFFICES ASSUME ~stopped' PROVE NothingLostWhileRunning'
  BY DEF NothingLostWhileRunning
<1> USE DEF TypeOK, NothingLostWhileRunning, runnerVars, workerVars,
            senderVars, logVars
<1>1. ~stopped /\ box = "open"
  <2>1. ~stopped
    BY DEF Next, vars, Run, Loop, GetMessage, Execute, StopQueue, FreeQueue,
           ClearPointer, Cleanup, CallSetMessage, InSetMessage, TestPointer,
           Push, Notify, CheckException, Stop, Join, SpuriousWakeUp, Finished
  <2> QED
    BY <2>1 DEF Lifecycle
<1>2. CASE Run
  BY <1>1, <1>2 DEF Run, Loop, GetMessage, Execute, StopQueue, FreeQueue,
                    ClearPointer, Cleanup
<1>3. ASSUME NEW s \in Senders, CallSetMessage(s)
      PROVE  NothingLostWhileRunning'
  <2>1. /\ letter[s] = NULL
        /\ letter' = [letter EXCEPT ![s] = sent + 1]
        /\ sent' = sent + 1
        /\ accepted' = accepted
        /\ sent \in Nat
    BY <1>3 DEF CallSetMessage, Letters
  <2>2. ASSUME NEW m \in 1 .. sent
        PROVE  \/ \E k \in 1 .. Len(accepted') : accepted'[k] = m
               \/ \E v \in Senders : letter'[v] = m
    <3>1. m # NULL
      BY DEF Messages
    <3> QED
      BY <1>1, <2>1, <3>1
  <2>3. letter'[s] = sent + 1
    BY <2>1
  <2>4. \A m \in 1 .. sent' : m \in 1 .. sent \/ m = sent + 1
    BY <2>1
  <2> QED
    BY <2>2, <2>3, <2>4
<1>4. ASSUME NEW s \in Senders, TestPointer(s)
      PROVE  NothingLostWhileRunning'
  BY <1>1, <1>4 DEF TestPointer
<1>5. ASSUME NEW s \in Senders, Push(s)
      PROVE  NothingLostWhileRunning'
  <2>1. /\ accepted' = Append(accepted, letter[s])
        /\ letter[s] \in Messages
        /\ UNCHANGED <<letter, sent>>
    BY <1>1, <1>5 DEF Push, Misuse, Letters
  <2>2. /\ Len(accepted') = Len(accepted) + 1
        /\ \A k \in 1 .. Len(accepted) : accepted'[k] = accepted[k]
        /\ Len(accepted) \in Nat
    BY <2>1, PushFacts
  <2>3. 1 .. Len(accepted) \subseteq 1 .. Len(accepted')
    BY <2>2
  <2> QED
    BY <1>1, <2>1, <2>2, <2>3
<1>6. ASSUME NEW s \in Senders, Notify(s)
      PROVE  NothingLostWhileRunning'
  <2>1. /\ letter' = [letter EXCEPT ![s] = NULL]
        /\ UNCHANGED <<accepted, sent>>
        /\ \E k \in 1 .. Len(accepted) : accepted[k] = letter[s]
    BY <1>1, <1>6 DEF Notify, Misuse, Return, Letters
  <2> QED
    BY <1>1, <2>1
<1>7. CASE CheckException \/ Join \/ SpuriousWakeUp
  BY <1>1, <1>7 DEF CheckException, Join, SpuriousWakeUp
<1>8. CASE Stop
  BY <1>8 DEF Stop
<1>9. CASE UNCHANGED vars
  BY <1>1, <1>9 DEF vars
<1> QED
  BY <1>2, <1>3, <1>4, <1>5, <1>6, <1>7, <1>8, <1>9
     DEF Next, InSetMessage, Finished

LEMMA ExceptionsStep ==
  ASSUME TypeOK, Lifecycle, Exceptions, [Next]_vars
  PROVE  Exceptions'
<1> USE DEF TypeOK, Lifecycle, Exceptions, FirstExceptionStays, runnerVars,
            workerVars, senderVars, logVars
<1>1. CASE Loop \/ GetMessage
  BY <1>1 DEF Loop, GetMessage
<1>2. CASE Execute
  BY <1>2 DEF Execute, SetException
<1>3. CASE StopQueue \/ FreeQueue \/ ClearPointer \/ Cleanup
  BY <1>3 DEF StopQueue, FreeQueue, ClearPointer, Cleanup
<1>4. ASSUME NEW s \in Senders, CallSetMessage(s) \/ TestPointer(s)
      PROVE  Exceptions'
  BY <1>4 DEF CallSetMessage, TestPointer
<1>5. ASSUME NEW s \in Senders, Push(s) \/ Notify(s)
      PROVE  Exceptions'
  <2>1. /\ UNCHANGED <<exception, failed, caught>>
        /\ worker' \in {worker, "crashed"} \/ (worker = "waiting" /\ worker' = "get")
    BY <1>5 DEF Push, Notify, Misuse
  <2> QED
    BY <2>1
<1>6. CASE CheckException
  BY <1>6 DEF CheckException
<1>7. CASE Stop \/ Join \/ SpuriousWakeUp
  BY <1>7 DEF Stop, Join, SpuriousWakeUp
<1>8. CASE UNCHANGED vars
  BY <1>8 DEF vars
<1> QED
  BY <1>1, <1>2, <1>3, <1>4, <1>5, <1>6, <1>7, <1>8
     DEF Next, Run, InSetMessage, Finished

-----------------------------------------------------------------------------
(* The invariant from which everything else follows.                       *)
THEOREM InductiveInvariant == Spec => []IInv
<1>1. Init => IInv
  <2> SUFFICES ASSUME Init PROVE IInv
    OBVIOUS
  <2>1. /\ queue = <<>> /\ accepted = <<>> /\ executed = <<>>
        /\ current = NULL /\ failed = NULL /\ exception = NULL
        /\ caught = {} /\ sent = 0 /\ ~stopped
        /\ worker = "loop" /\ box = "open"
    BY DEF Init
  <2>2. TypeOK
    <3>1. /\ sender \in [Senders -> SenderStates]
          /\ letter \in [Senders -> Messages \cup {NULL}]
          /\ misused \in BOOLEAN /\ stopped \in BOOLEAN
      BY DEF Init, SenderStates
    <3>2. sent \in 0 .. MaxMessages
      BY <2>1
    <3> QED
      BY <2>1, <3>1, <3>2, NothingFacts DEF TypeOK, WorkerStates, Boxes
  <2>3. Lifecycle /\ Letters /\ Exceptions /\ NoLostWakeUp
    BY <2>1
       DEF Init, Lifecycle, Letters, Exceptions, FirstExceptionStays,
           NoLostWakeUp
  <2>4. Order /\ NothingLostWhileRunning
    BY <2>1, NothingFacts DEF Order, InHand, NothingLostWhileRunning
  <2> QED
    BY <2>2, <2>3, <2>4 DEF IInv
<1>2. IInv /\ [Next]_vars => IInv'
  BY TypeStep, LifecycleStep, LettersStep, OrderStep, WakeUpStep,
     NothingLostStep, ExceptionsStep DEF IInv
<1>3. QED
  BY <1>1, <1>2, PTL DEF Spec

(* Every variable of the runner keeps its type, calls on a deleted queue    *)
(* included: what is queued, kept by a sender, executed or caught is always *)
(* a message that was sent.                                                 *)
THEOREM TypeCorrect == Spec => []TypeOK
<1>1. IInv => TypeOK
  BY DEF IInv
<1>2. QED
  BY <1>1, InductiveInvariant, PTL

(* Messages are executed once each, in the order in which the queue took   *)
(* them, whoever sends and whenever Stop is called.                        *)
THEOREM MessagesInOrder == Spec => []ExecutedInOrder
<1>1. IInv => ExecutedInOrder
  BY OrderImpliesExecutedInOrder DEF IInv
<1>2. QED
  BY <1>1, InductiveInvariant, PTL

(* The worker never sleeps on a message that nobody will notify it of.     *)
THEOREM WorkerIsWoken == Spec => []NoLostWakeUp
<1>1. IInv => NoLostWakeUp
  BY DEF IInv
<1>2. QED
  BY <1>1, InductiveInvariant, PTL

(* Until Stop is called every message is accepted or still being sent.     *)
THEOREM MessagesArrive == Spec => []NothingLostWhileRunning
<1>1. IInv => NothingLostWhileRunning
  BY DEF IInv
<1>2. QED
  BY <1>1, InductiveInvariant, PTL

(* The control thread sees the first exception and no other.               *)
THEOREM FirstExceptionIsKept == Spec => []FirstExceptionStays
<1>1. IInv => FirstExceptionStays
  BY DEF IInv, Exceptions
<1>2. QED
  BY <1>1, InductiveInvariant, PTL

-----------------------------------------------------------------------------
(* A step of the runner is a step of the mailbox, or none.                 *)
LEMMA StepRefines ==
  ASSUME IInv, [Next]_vars
  PROVE  [Promise!Next]_(Promise!vars)
<1> USE DEF IInv, TypeOK, Lifecycle, runnerVars, workerVars, senderVars,
            logVars, Promise!Next, Promise!vars
<1>1. CASE Loop
  BY <1>1 DEF Loop
<1>2. CASE GetMessage
  BY <1>2 DEF GetMessage
<1>3. CASE Execute
  <2>1. /\ executed' = Append(executed, current)
        /\ accepted' = accepted /\ stopped' = stopped
        /\ worker = "execute" /\ worker' = "loop"
        /\ exception = failed
        /\ \/ exception' = exception
           \/ exception = NULL /\ exception' = current
        /\ current \in Messages
    BY <1>3 DEF Execute, SetException, Exceptions, FirstExceptionStays
  <2>2. /\ accepted[Len(executed) + 1] = current
        /\ Len(executed) < Len(accepted)
        /\ Len(executed') = Len(executed) + 1
    <3>1. /\ accepted[Len(executed) + 1] = current
          /\ Len(accepted) = Len(executed) + 1 + Len(queue)
      BY <1>3 DEF Execute, Order, InHand
    <3>2. Len(executed) \in Nat /\ Len(queue) \in Nat
      BY LenProperties
    <3> QED
      BY <2>1, <3>1, <3>2, PushFacts
  <2>3. Promise!Execute
    BY <2>1, <2>2 DEF Promise!Execute
  <2> QED
    BY <2>3
<1>4. CASE StopQueue \/ FreeQueue \/ ClearPointer
  BY <1>4 DEF StopQueue, FreeQueue, ClearPointer
<1>5. CASE Cleanup
  BY <1>5 DEF Cleanup, Promise!Forget
<1>6. ASSUME NEW s \in Senders, CallSetMessage(s) \/ TestPointer(s)
      PROVE  UNCHANGED Promise!vars
  BY <1>6 DEF CallSetMessage, TestPointer
<1>7. ASSUME NEW s \in Senders, Push(s)
      PROVE  [Promise!Next]_(Promise!vars)
  <2>1. CASE box = "open"
    <3>1. /\ accepted' = Append(accepted, letter[s])
          /\ letter[s] \in Messages
          /\ UNCHANGED <<executed, exception, stopped, worker>>
      BY <1>7, <2>1 DEF Push, Misuse, Letters
    <3> QED
      BY <3>1 DEF Promise!Accept
  <2>2. CASE box # "open"
    BY <1>7, <2>2 DEF Push, Misuse
  <2> QED
    BY <2>1, <2>2
<1>8. ASSUME NEW s \in Senders, Notify(s)
      PROVE  UNCHANGED Promise!vars
  BY <1>8 DEF Notify, Misuse
<1>9. CASE Stop
  BY <1>9 DEF Stop, Promise!Close
<1>10. CASE CheckException \/ Join \/ SpuriousWakeUp
  BY <1>10 DEF CheckException, Join, SpuriousWakeUp
<1>11. CASE UNCHANGED vars
  BY <1>11 DEF vars
<1> QED
  BY <1>1, <1>2, <1>3, <1>4, <1>5, <1>6, <1>7, <1>8, <1>9, <1>10, <1>11
     DEF Next, Run, InSetMessage, Finished

(* The runner implements Mailbox: in order, the first exception kept, and  *)
(* at most one more message executed once it is stopped.                   *)
THEOREM RunnerKeepsPromise == Spec => KeepsPromise
<1>1. Init => Promise!Init
  BY DEF Init, Promise!Init
<1>2. IInv /\ [Next]_vars => [Promise!Next]_(Promise!vars)
  BY StepRefines
<1>3. QED
  BY <1>1, <1>2, InductiveInvariant, PTL DEF Spec, KeepsPromise, Promise!Spec
=============================================================================
