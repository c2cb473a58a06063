----------------------------- MODULE KmsCommitProps -----------------------------
(***************************************************************************)
(* What the display server's commits promise.                              *)
(***************************************************************************)
EXTENDS KmsCommit

Images == [bo : Bos \cup {None}, mode : Modes]

(* The state is well formed: counts are natural numbers, a pending commit  *)
(* touches a plane and waits only for fences of its own planes, and there  *)
(* is a setter exactly while a lower mode is set (kms_crtc_state_t).       *)
TypeOK ==
  /\ open \subseteq Clients
  /\ bo \in [Bos -> [owner : Clients \cup {None}, handle : BOOLEAN, refs : Nat]]
  /\ fb \in [Fbs -> [owner : Clients \cup {None}, user : BOOLEAN, refs : Nat,
                     bo : Bos \cup {None}]]
  /\ cur \in [Planes -> Fbs \cup {None}]
  /\ pend \in {"none", "fence", "armed"}
  /\ pst \in [Planes -> Fbs \cup {None, Keep}]
  /\ pclient \in Clients \cup {None}
  /\ gate \subseteq pmask
  /\ due \in 0..2
  /\ mode \in Modes /\ setter \in Clients \cup {None}
  /\ {fw, latched, scan} \subseteq [Planes -> Images]
  /\ phase \in {"early", "guard", "late"}
  /\ lag \in 0..MaxLag /\ got \in 0..lag
  /\ cut \in [Planes -> {"no", "cut", "healing"}]
  /\ (pend = "none") = (pst = NoCommit)
  /\ (mode = "native") = (setter = None)

(* Reference counts are exact: a framebuffer counts its user, every plane  *)
(* that shows it and every plane of the pending commit; a buffer counts its*)
(* open handle and its framebuffers (kms_fb_ref, kms_fb_unref,             *)
(* kms_bo_unref over commit, complete, RMFB and client_close).             *)
RefsExact ==
  /\ \A f \in Fbs :
       fb[f].refs = (IF fb[f].user THEN 1 ELSE 0) + Holds(cur, Planes, f) + Holds(pst, Planes, f)
  /\ \A b \in Bos :
       bo[b].refs = (IF bo[b].handle THEN 1 ELSE 0) + Cardinality({f \in Fbs : fb[f].bo = b})
  /\ \A f \in Fbs : (fb[f].refs = 0) = (fb[f] = FreeFb)

(* Through any number of flips the display reads only what the planes hold:*)
(* the buffer on screen, or the one of the armed commit.  Both are         *)
(* referenced, so scanned memory is not freed by a flip (complete drops the*)
(* outgoing framebuffer at the target vblank).  Planes changed outside a   *)
(* commit are excused until the next commit to them has completed.         *)
ScannedIsHeld ==
  \A p \in Planes : cut[p] = "no" =>
    \/ scan[p].bo = Image(cur[p], "native").bo
    \/ pend = "armed" /\ p \in pmask /\ scan[p].bo = Image(pst[p], "native").bo

(* No buffer the display reads is free (kms_bo_unref).                     *)
ScannedNotFree ==
  \A p \in Planes : scan[p].bo # None => bo[scan[p].bo].refs > 0

(* A commit completes, and its client is told so, only once the display    *)
(* reads its framebuffers: the target vblank is never early (the guard rule*)
(* of kms_try_apply), unless the plane was changed outside a commit since. *)
Completes == pend = "armed" /\ pend' = "none" /\ pclient \in open'

CompletedOnScreen ==
  [][Completes => \A p \in pmask : cut[p] = "cut" \/ scan[p].bo = Image(pst[p], mode).bo]_vars

(* The same without the excuse: "The armed commit is on screen from this   *)
(* vblank on" (complete).                                                  *)
ArmedIsOnScreen ==
  [][Completes => \A p \in pmask : scan[p].bo = Image(pst[p], mode).bo]_vars

(* A lower mode never outlives its picture or its setter (commit,          *)
(* planes_off, client_close).                                              *)
LowModeIsUsed ==
  mode # "native" =>
    setter \in open /\ (cur[Primary] # None \/ pst[Primary] \in Fbs)

(* When no commit is pending the firmware maps every shown plane by the    *)
(* current mode (commit carries the planes it does not touch, umode_native *)
(* maps them again), but for planes changed outside a commit since.        *)
MappedByMode ==
  pend = "none" =>
    \A p \in Planes : cur[p] # None /\ cut[p] = "no" => fw[p].mode = mode

(* Nothing of a client that has closed is on screen: "the console comes    *)
(* back when a client dies" (client_close, planes_off).                    *)
DeadNotShown ==
  \A p \in Planes : cur[p] # None => fb[cur[p]].owner \in open

(* Every accepted commit ends, so the client that waits for its event gets *)
(* it (kms_on_vblank, kms_try_apply, client_close).                        *)
EveryCommitEnds == pend # "none" ~> pend = "none"

===============================================================================
