----------------------------- MODULE BlkRequests -----------------------------
(***************************************************************************)
(* What the block driver promises its caller, without rings: once the      *)
(* device is set up, the requests the caller submits form a FIFO queue;    *)
(* the device executes them oldest first, or halts and executes no more;   *)
(* a reset (shutdown or a new init) voids the queue.                       *)
(***************************************************************************)
EXTENDS Sequences

CONSTANT Requests       \* the requests a caller can submit

VARIABLES
  on,       \* the device is set up and accepts requests
  pending,  \* submitted requests not yet executed, oldest first
  halted    \* the device has stopped executing requests

vars == <<on, pending, halted>>

Init == ~on /\ pending = <<>> /\ ~halted

\* A successful set-up: an empty queue and a working device.
Start == /\ ~on
         /\ on' = TRUE /\ pending' = <<>> /\ halted' = FALSE

\* Shutdown: everything outstanding is voided.
Stop == /\ on
        /\ on' = FALSE /\ pending' = <<>> /\ halted' = FALSE

Submit(r) == /\ on
             /\ pending' = Append(pending, r)
             /\ UNCHANGED <<on, halted>>

\* The device executes the oldest request.
Execute == /\ on /\ ~halted /\ pending # <<>>
           /\ pending' = Tail(pending)
           /\ UNCHANGED <<on, halted>>

\* The device stops; the queue stays as it is until the next reset.
Halt == /\ on /\ ~halted /\ pending # <<>>
        /\ halted' = TRUE
        /\ UNCHANGED <<on, pending>>

Next == Start \/ Stop \/ (\E r \in Requests : Submit(r)) \/ Execute \/ Halt

\* A device that is never halted works through the whole queue.
Spec == Init /\ [][Next]_vars /\ WF_vars(Execute \/ Halt)

=============================================================================
