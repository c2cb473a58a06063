--------------------------- MODULE FenceTimeline ---------------------------
(***************************************************************************)
(* What the fence page promises to whoever holds a fence: the abstract     *)
(* specification of the rows of the page, with no job, queue or client     *)
(* behind them.                                                            *)
(*                                                                         *)
(* A row belongs to an epoch (the slot generation).  Within an epoch, each *)
(* queue has a timeline: fences are issued at its end and signalled in     *)
(* order.  A row passes to a new epoch only when every fence of the old    *)
(* one is signalled, so a reader may take a foreign epoch for "signalled"  *)
(* (v3da_fence_signaled).                                                  *)
(***************************************************************************)
EXTENDS Integers

CONSTANTS Rows, Lines

VARIABLES epoch, issued, signalled

vars == <<epoch, issued, signalled>>

Zero == [q \in Lines |-> 0]

Init ==
  /\ epoch = [s \in Rows |-> 0]
  /\ issued = [s \in Rows |-> Zero]
  /\ signalled = [s \in Rows |-> Zero]

\* One submit hands out the next fence of each queue in Q.
Issue(s, Q) ==
  /\ issued' = [issued EXCEPT ![s] =
                  [q \in Lines |-> IF q \in Q THEN issued[s][q] + 1 ELSE issued[s][q]]]
  /\ UNCHANGED <<epoch, signalled>>

\* Fences are signalled in order, any number at a time, and only fences that
\* were handed out.
Signal(s) ==
  /\ \A q \in Lines : signalled'[s][q] \in signalled[s][q] .. issued[s][q]
  /\ \A t \in Rows \ {s} : signalled'[t] = signalled[t]
  /\ UNCHANGED <<epoch, issued>>

Reassign(s) ==
  /\ signalled[s] = issued[s]
  /\ epoch' = [epoch EXCEPT ![s] = @ + 1]
  /\ issued' = [issued EXCEPT ![s] = Zero]
  /\ signalled' = [signalled EXCEPT ![s] = Zero]

Next == \E s \in Rows : (\E Q \in SUBSET Lines : Issue(s, Q)) \/ Signal(s) \/ Reassign(s)

Spec == Init /\ [][Next]_vars

=============================================================================
