--------------------------- MODULE V3DWaitsProps ---------------------------
(***************************************************************************)
(* What the render server promises to a client whose request waits         *)
(* (V3DWaits).                                                             *)
(***************************************************************************)
EXTENDS V3DWaits, TLC

Results == {"none", "WAIT", "OK", "EINVAL", "ETIMEDOUT", "EPIPE", "ENODEV"}

\* The type invariant.
TypeOK ==
  /\ used \in [Clients -> BOOLEAN]
  /\ gen \in [Clients -> Nat]
  /\ issued \in [Clients -> [Lines -> Nat]]
  /\ completed \in [Clients -> [Lines -> Nat]]
  /\ errorSeq \in [Clients -> Nat \X Nat]
  /\ pend \subseteq Fence /\ failed \subseteq Fence
  /\ sync \in [Clients -> [Handles ->
                [st : {"none", "EMPTY", "FENCE", "SIGNALED"}, fence : Fence \cup {NoFence}]]]
  /\ wait \in [Rids -> [kind : {"none", "OP", "FENCE", "BO", "SYNC"}, client : 0 .. NClients,
                        fences : SUBSET Fence, handles : SUBSET Handles, all : BOOLEAN,
                        forSubmit : BOOLEAN, res : Results, err : BOOLEAN]]
  /\ waits \subseteq Rids
  /\ ans \in [Threads \cup {Event} -> SUBSET Rids]
  /\ own \in [Threads -> SUBSET Rids]
  /\ late \subseteq Rids /\ doomed \subseteq Rids
  /\ quit \in BOOLEAN /\ quitting \subseteq Threads /\ exited \in BOOLEAN

Answerers == Threads \cup {Event}

\* Every unanswered request is in exactly one place (the parked list, a
\* thread's answer list, a thread's hands) and an answered one in none: it is
\* answered at most once, and never on an id the kernel has given to someone
\* else since (wait_claim is the one way off srv.waits).
OneHolder ==
  /\ \A r \in Rids : wait[r].kind # "none" <=>
       r \in waits \/ (\E t \in Answerers : r \in ans[t]) \/ (\E t \in Threads : r \in own[t])
  /\ \A t \in Answerers : waits \cap ans[t] = {}
  /\ \A t \in Threads : waits \cap own[t] = {}
  /\ \A t \in Answerers, u \in Threads : ans[t] \cap own[u] = {}
  /\ \A t, u \in Answerers : t # u => ans[t] \cap ans[u] = {}
  /\ \A t, u \in Threads : t # u => own[t] \cap own[u] = {}

\* A client told that its fence, or the last use of its buffer, is done finds
\* every job behind it finished, at whatever later moment the answer reaches
\* it, and whoever owns the fence's row by then.
OkMeansDone ==
  \A r \in Rids : wait[r].kind \in {"FENCE", "BO"} /\ wait[r].res = "OK" => wait[r].fences \cap pend = {}

\* No request stays parked for a client that is gone: wait_eval would read the
\* syncobjs of whoever has the slot next.
NoOrphanWait == \A r \in waits : used[wait[r].client]

\* Every request the server has taken before it is told to quit is answered,
\* with no help from the jobs or the other clients: a parked client cannot be
\* interrupted, so its deadline, the close of its client or DBG_QUIT itself,
\* whichever comes first, must free it before the process is gone.
EveryRequestAnswered ==
  \A r \in Rids : wait[r].kind # "none" /\ ~quit ~> wait[r].kind = "none"

\* DBG_QUIT: when the process exits, every parked request has been answered and
\* no job is in flight.
CleanExit == exited => waits = {} /\ pend = {}

\* A request parked on a syncobj that was destroyed is not told it succeeded.
DestroyedWaiterFails == \A r \in doomed : wait[r].res # "OK"

\* A client that waits for a fence whose job failed is told so.
FailureIsTold ==
  \A r \in Rids : wait[r].kind = "FENCE" /\ wait[r].res = "OK" /\ wait[r].fences \cap failed # {}
                    => wait[r].err

Symmetry == Permutations(Rids) \cup Permutations(Threads)

=============================================================================
