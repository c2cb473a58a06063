----------------------------- MODULE V3DPresent -----------------------------
(***************************************************************************)
(* Presenting frames by panning the firmware framebuffer: the flip queue   *)
(* of the render server (v3da_flip, present_run, pan in v3da_jobs.c) and   *)
(* the client side that fills it (v3d_phoenix_flip in v3da_winsys.c).      *)
(*                                                                         *)
(* A client submits frame after frame, frame n into buffer n % NBuf, and   *)
(* asks for each to be shown once its render has completed.  Renders of a  *)
(* client complete in order (FenceTimeline), so its fence is the number of *)
(* the frame.                                                              *)
(***************************************************************************)
EXTENDS Integers, Sequences, SequencesExt

CONSTANTS
  Clients,
  NBuf,        \* stacked buffers of the framebuffer (srv.scan.nbuf)
  MaxFlips,    \* V3DA_MAX_FLIPS
  MaxFrames,   \* bound: frames a client draws
  LateDone     \* renders may complete outside jobs_tick: a wedge in sched_run

ASSUME PresentAssumption ==
  NBuf \in Nat \ {0} /\ MaxFlips \in Nat \ {0} /\ MaxFrames \in Nat /\ LateDone \in BOOLEAN

VARIABLES
  issued, completed,  \* per client: frames submitted and rendered
  pc,                 \* per client: where its present loop is
  queue,              \* srv.scan.q[0 .. nq-1]
  pans,               \* every pan so far, oldest first
  dropped             \* frames whose flip was refused for good

vars == <<issued, completed, pc, queue, pans, dropped>>

Flip == [c : Clients, n : 1 .. MaxFrames, gated : BOOLEAN]

Init ==
  /\ issued = [c \in Clients |-> 0]
  /\ completed = [c \in Clients |-> 0]
  /\ pc = [c \in Clients |-> "draw"]
  /\ queue = <<>> /\ pans = <<>>
  /\ dropped = {}

\* A queued flip may be shown: not gated, or its fence has signalled.
PassedAny(f, comp) == TRUE
Passed(f, comp) == f.gated => comp[f.c] >= f.n

Pan(f) == <<f.c, f.n>>

-----------------------------------------------------------------------------
(* The client.                                                             *)

Draw(c) ==
  /\ pc[c] = "draw" /\ issued[c] < MaxFrames
  /\ issued' = [issued EXCEPT ![c] = @ + 1]
  /\ pc' = [pc EXCEPT ![c] = "flip"]
  /\ UNCHANGED <<completed, queue, pans, dropped>>

ShowNow(f) == queue = <<>> /\ Passed(f, completed)

EnqueueFirst(f) == queue' = <<f>> \o queue /\ pans' = pans
Enqueue(f) == queue' = Append(queue, f) /\ pans' = pans

FullLate == Len(queue) > MaxFlips
Full == Len(queue) >= MaxFlips

\* v3da_flip in the server, under its lock: shown at once, refused, or queued.
FlipRequest(f, ok, busy) ==
  \/ /\ ShowNow(f)
     /\ pans' = Append(pans, Pan(f)) /\ queue' = queue
     /\ pc' = [pc EXCEPT ![f.c] = ok] /\ dropped' = dropped
  \/ /\ ~ShowNow(f) /\ Full
     /\ pc' = [pc EXCEPT ![f.c] = busy]
     /\ dropped' = IF busy = "draw" THEN dropped \cup {Pan(f)} ELSE dropped
     /\ UNCHANGED <<queue, pans>>
  \/ /\ ~ShowNow(f) /\ ~Full
     /\ Enqueue(f)
     /\ pc' = [pc EXCEPT ![f.c] = ok] /\ dropped' = dropped

\* v3d_phoenix_flip: gated on the last render; a full queue sends the client
\* to wait for the render itself.
FirstFlip(c) ==
  /\ pc[c] = "flip"
  /\ FlipRequest([c |-> c, n |-> issued[c], gated |-> TRUE], "draw", "wait")
  /\ UNCHANGED <<issued, completed>>

WaitNothing(c) ==
  /\ pc[c] = "wait"
  /\ pc' = [pc EXCEPT ![c] = "again"]
  /\ UNCHANGED <<issued, completed, queue, pans, dropped>>

WaitRender(c) ==
  /\ pc[c] = "wait" /\ completed[c] >= issued[c]
  /\ pc' = [pc EXCEPT ![c] = "again"]
  /\ UNCHANGED <<issued, completed, queue, pans, dropped>>

\* The second, ungated flip; its result is not looked at.
SecondFlip(c) ==
  /\ pc[c] = "again"
  /\ FlipRequest([c |-> c, n |-> issued[c], gated |-> FALSE], "draw", "draw")
  /\ UNCHANGED <<issued, completed>>

-----------------------------------------------------------------------------
(* The event thread.                                                       *)

RunnableGated(comp) ==
  LET blocked == {i \in 1 .. Len(queue) : ~(queue[i].gated /\ Passed(queue[i], comp))}
  IN IF blocked = {} THEN Len(queue) ELSE (CHOOSE i \in blocked : \A k \in blocked : i <= k) - 1

\* present_run: how many flips at the head of the queue have passed.
Runnable(comp) ==
  LET blocked == {i \in 1 .. Len(queue) : ~Passed(queue[i], comp)}
  IN IF blocked = {} THEN Len(queue) ELSE (CHOOSE i \in blocked : \A k \in blocked : i <= k) - 1

\* One pass: the renders of the clients D complete, and then jobs_tick shows
\* what they gated, before sched_run starts the next render.
EventPass(D) ==
  /\ D \subseteq {c \in Clients : completed[c] < issued[c]}
  /\ completed' = [c \in Clients |-> IF c \in D THEN completed[c] + 1 ELSE completed[c]]
  /\ LET k == Runnable(completed') IN
       /\ pans' = pans \o [i \in 1 .. k |-> Pan(queue[i])]
       /\ queue' = SubSeq(queue, k + 1, Len(queue))
  /\ UNCHANGED <<issued, pc, dropped>>

\* A render failed by a wedge in sched_run, after jobs_tick or in a dispatch
\* thread: no present_run follows it.
SchedFail(c) ==
  /\ LateDone /\ completed[c] < issued[c]
  /\ completed' = [completed EXCEPT ![c] = @ + 1]
  /\ UNCHANGED <<issued, pc, queue, pans, dropped>>

Next ==
  \/ \E c \in Clients : Draw(c) \/ FirstFlip(c) \/ WaitRender(c) \/ SecondFlip(c) \/ SchedFail(c)
  \/ \E D \in SUBSET Clients : EventPass(D)

Spec == Init /\ [][Next]_vars

\* The event thread passes on and every render completes (or is reset); a
\* client carries on with its loop.
Fairness ==
  /\ \A c \in Clients : WF_vars(\E D \in SUBSET Clients : c \in D /\ EventPass(D))
  /\ WF_vars(EventPass({}))
  /\ \A c \in Clients : WF_vars(FirstFlip(c) \/ WaitRender(c) \/ SecondFlip(c))

FairSpec == Spec /\ Fairness

-----------------------------------------------------------------------------

\* The type invariant.
TypeOK ==
  /\ issued \in [Clients -> 0 .. MaxFrames]
  /\ completed \in [Clients -> 0 .. MaxFrames]
  /\ pc \in [Clients -> {"draw", "flip", "wait", "again"}]
  /\ queue \in Seq(Flip) /\ Len(queue) <= MaxFlips
  /\ pans \in Seq(Clients \X (1 .. MaxFrames))
  /\ dropped \subseteq Clients \X (1 .. MaxFrames)

\* A frame is never on the display before its render has completed, by the
\* gate or by the client's own wait when the queue was full.
ShownRendered == \A i \in 1 .. Len(pans) : completed[pans[i][1]] >= pans[i][2]

\* The frames of a client are shown in the order it drew them, each at most
\* once, however its flips went through the queue.
ShownInOrder ==
  \A i, k \in 1 .. Len(pans) : i < k /\ pans[i][1] = pans[k][1] => pans[i][2] < pans[k][2]

\* The render in progress does not write the buffer on the display: a deferred
\* pan is made before the next render is started.  Excused while a rendered
\* frame is overdue (behind another client's flip, or until the next pass) and
\* after a refused flip.
Overdue(c) == \E i \in 1 .. Len(queue) : queue[i].c = c /\ completed[c] >= queue[i].n

NoTearing ==
  pans # <<>> =>
    LET c == Last(pans)[1] IN
    completed[c] < issued[c] /\ ~Overdue(c) /\ dropped = {} =>
      (completed[c] + 1) % NBuf # Last(pans)[2] % NBuf

\* No frame is dropped: a client that finds the queue full waits for its render
\* and flips again.
NoFrameDropped == dropped = {}

\* Every frame drawn is shown in the end, unless its flip was refused.
EveryFrameShown ==
  \A c \in Clients, n \in 1 .. MaxFrames :
    issued[c] = n ~> <<c, n>> \in dropped \/ \E i \in 1 .. Len(pans) : pans[i] = <<c, n>>

=============================================================================
