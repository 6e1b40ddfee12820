------------------------------- MODULE Mailbox -------------------------------
(***************************************************************************)
(* What a ThreadRunner promises to the threads that send it messages       *)
(* (bonelab/ThreadRunner.hpp): the messages are executed one at a time, in *)
(* the order they were accepted; the first exception is kept until the     *)
(* runner goes away; and once it is stopped it executes at most one more.  *)
(*                                                                         *)
(* The module ThreadRunner implements this one, and ReconstructionRunner   *)
(* gives each of its workers a queue with this behaviour.                  *)
(***************************************************************************)
EXTENDS Naturals, Sequences

CONSTANTS Messages, NULL

VARIABLES
  accepted,              \* the messages accepted, in order
  executed,              \* the messages executed, in order
  exception,             \* the first message that threw, or NULL
  status                 \* open, closing (one more may be executed), closed

vars == <<accepted, executed, exception, status>>

Init ==
  /\ accepted = <<>>
  /\ executed = <<>>
  /\ exception = NULL
  /\ status = "open"

(* Stopping does not refuse messages: the runner does, when it goes away.  *)
Accept ==
  /\ \E m \in Messages : accepted' = Append(accepted, m)
  /\ UNCHANGED <<executed, exception, status>>

Execute ==
  /\ status # "closed"
  /\ Len(executed) < Len(accepted)
  /\ executed' = Append(executed, accepted[Len(executed) + 1])
  /\ status' = IF status = "closing" THEN "closed" ELSE status
  /\ \/ UNCHANGED exception
     \/ exception = NULL /\ exception' = accepted[Len(executed')]
  /\ UNCHANGED accepted

Close ==
  /\ status = "open"
  /\ status' \in {"closing", "closed"}
  /\ UNCHANGED <<accepted, executed, exception>>

(* The runner goes away, and its exception with it.                        *)
Forget ==
  /\ status = "closed"
  /\ exception' = NULL
  /\ UNCHANGED <<accepted, executed, status>>

Next == Accept \/ Execute \/ Close \/ Forget

Spec == Init /\ [][Next]_vars
=============================================================================
