--------------------------- MODULE KmsVblankProps ---------------------------
(***************************************************************************)
(* What the vblank thread and the event queues of the display server       *)
(* promise (KmsVblank).                                                    *)
(***************************************************************************)
EXTENDS KmsVblank

\* A deferred commit is noticed: once commit() has let go of the lock, a thread
\* that waits as if none were pending has a kick to see ("either this read of
\* pend sees the commit or vbl_wait sees the kick", kms_vblank_thread).
GateNoticed ==
  pend = "fence" /\ disp = "idle" /\ at \in {"wait", "sleep"} => gate \/ kicked

\* No reader sleeps on a queue that has an event for it: whatever pushes events
\* serves the parked reads before the lock is given up (serve_reads).
NoReaderLeft ==
  \A c \in read : c \in used /\ evq[c] = <<>>

\* A flip that asks for an event gets exactly one, and gets it itself: it is
\* pending or in the queue of the client that asked, also when slots change
\* hands; only a full queue takes an event away (complete, ev_push,
\* client_close, client_open).
OneEventPerFlip ==
  \A c \in used :
    owed[c] = Flips(evq[c]) + (IF pend # "none" /\ pclient = c /\ pevent THEN 1 ELSE 0)

\* Every accepted commit ends although sources fall silent or storm, several
\* vblanks are counted at once, one is missed between the two reads of vb.head,
\* and wake-ups are lost (vbl_wait, fallback, kms_on_vblank).
EveryCommitEnds == pend # "none" /\ ~quit ~> pend = "none" \/ quit

\* Every parked request is answered: by an event or its vblank, by its
\* deadline, by the close of its client or by DBG_QUIT (kms_expire_parked,
\* kms_answer).
EveryParkedAnswered ==
  \A c \in Clients :
    /\ (c \in read \/ <<c, "read">> \in ans) ~> (c \notin read /\ <<c, "read">> \notin ans)
    /\ (wait[c] >= 0 \/ <<c, "wait">> \in ans) ~> (wait[c] < 0 /\ <<c, "wait">> \notin ans)
=============================================================================
