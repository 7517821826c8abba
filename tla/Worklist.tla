------------------------------ MODULE Worklist ------------------------------
(***************************************************************************)
(* DataflowWorklist (Talac/Analysis/Worklist.cpp): a queue of blocks to    *)
(* evaluate and the set that keeps a block from being queued twice.  An    *)
(* analysis pops a block with TakeNext, and when the facts of the block    *)
(* changed it calls NotifyChanged, whose loop over the neighbours is the   *)
(* variable affected and the action ScheduleAffected.                      *)
(***************************************************************************)
EXTENDS ControlFlow

VARIABLES
    pending,    \* the deque, front first
    scheduled,  \* the blocks in it
    affected    \* NotifyChanged: neighbours it has still to schedule

worklistVars == <<pending, scheduled, affected>>

WorklistInit == pending = <<>> /\ scheduled = {} /\ affected = {}

(* The constructor: the blocks of order, all reachable, are scheduled.     *)
(* Forward analyses start in reverse postorder, backward ones in the       *)
(* reverse of that.                                                        *)
ForwardOrder == ReversePostorder
BackwardOrder == postorder
StartWorklist(order) ==
    /\ pending' = order
    /\ scheduled' = {order[i] : i \in DOMAIN order}
    /\ affected' = {}

(* Next. *)
TakeNext ==
    /\ affected = {}
    /\ pending # <<>>
    /\ pending' = Tail(pending)
    /\ scheduled' = scheduled \ {Head(pending)}

(* NotifyChanged, or nothing to notify. *)
NotifyChanged(neighbours) == affected' = neighbours
Unchanged == affected' = {}

Schedule(b) ==
    IF b \in discovered /\ b \notin scheduled
      THEN /\ scheduled' = scheduled \union {b}
           /\ pending' = Append(pending, b)
      ELSE UNCHANGED <<scheduled, pending>>

(* Facts list the neighbours in ascending order. *)
ScheduleAffected ==
    \E b \in affected :
        /\ \A c \in affected : b <= c
        /\ Schedule(b)
        /\ affected' = affected \ {b}

Exhausted == pending = <<>> /\ affected = {}
-----------------------------------------------------------------------------
(* The set and the queue agree and no block is queued twice, so the queue  *)
(* never outgrows the function and a change is never lost because the set  *)
(* wrongly says the block waits.                                           *)
QueueMatchesSet ==
    /\ scheduled = {pending[i] : i \in DOMAIN pending}
    /\ \A i, j \in DOMAIN pending : pending[i] = pending[j] => i = j
=============================================================================
