------------------------------ MODULE OrderedIO ------------------------------
(***************************************************************************)
(* What AsynchronousIOProcessor promises to the threads that use it        *)
(* (io/AsynchronousIOProcessor.hpp): I/O is performed in the order         *)
(* requested; a buffer lent to a request comes back only when the request  *)
(* has been dealt with; after the first failure nothing more is performed. *)
(*                                                                         *)
(* There are no threads, mutexes or condition variables here: a request is *)
(* issued, is settled, and its buffer is released.  The module             *)
(* AsynchronousIOProcessor implements this one, and ReconstructionRunner   *)
(* uses the processor at this level.                                       *)
(***************************************************************************)
EXTENDS Naturals, Sequences

CONSTANT Images          \* the buffers, identified by their addresses

VARIABLES
  fate,                  \* fate[k]: what has become of the k-th request
  loan,                  \* loan[i]: the request that image i is lent to, or 0
  closed                 \* the processor has been destroyed

vars == <<fate, loan, closed>>

Fates == {"pending", "done", "failed", "dropped"}

TypeOK ==
  /\ fate \in Seq(Fates)
  /\ loan \in [Images -> 0 .. Len(fate)]
  /\ closed \in BOOLEAN

Init ==
  /\ fate = <<>>
  /\ loan = [i \in Images |-> 0]
  /\ closed = FALSE

Failed == \E k \in 1 .. Len(fate) : fate[k] = "failed"

(* A request may be issued on any image that is not lent already.          *)
Issue(i) ==
  /\ ~closed
  /\ loan[i] = 0
  /\ fate' = Append(fate, "pending")
  /\ loan' = [loan EXCEPT ![i] = Len(fate) + 1]
  /\ UNCHANGED closed

(* The oldest pending request is performed, or fails, or, once one has     *)
(* failed, is dropped.                                                     *)
Settle ==
  \E k \in 1 .. Len(fate) :
    /\ fate[k] = "pending"
    /\ \A j \in 1 .. k - 1 : fate[j] # "pending"
    /\ \E f \in IF Failed THEN {"dropped"} ELSE {"done", "failed"} :
         fate' = [fate EXCEPT ![k] = f]
    /\ UNCHANGED <<loan, closed>>

(* The buffer of a settled request is given back.                          *)
Release(i) ==
  /\ ~closed
  /\ loan[i] # 0
  /\ fate[loan[i]] # "pending"
  /\ loan' = [loan EXCEPT ![i] = 0]
  /\ UNCHANGED <<fate, closed>>

(* Destruction abandons what is still pending.                             *)
Close ==
  /\ ~closed
  /\ closed' = TRUE
  /\ fate' = [k \in DOMAIN fate |->
                IF fate[k] = "pending" THEN "dropped" ELSE fate[k]]
  /\ UNCHANGED loan

Next ==
  \/ \E i \in Images : Issue(i) \/ Release(i)
  \/ Settle
  \/ Close

Spec == Init /\ [][Next]_vars
=============================================================================
