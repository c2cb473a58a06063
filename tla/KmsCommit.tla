------------------------------- MODULE KmsCommit -------------------------------
(***************************************************************************)
(* The display server's commits (tools/gpu-lane/kms): one CRTC, its planes,*)
(* the framebuffers and buffers behind them, the lower modes, the firmware *)
(* that latches plane state once per frame, and the vblank thread.         *)
(*                                                                         *)
(* Every request runs under srv.lock in one dispatch thread, so each is    *)
(* one step.  The vblank thread learns of vblanks without the lock and     *)
(* acts on them with it: two steps.  The firmware takes over what SET_PLANE*)
(* gave it at a fixed point before the vblank, and the display scans it    *)
(* from that vblank on.                                                    *)
(*                                                                         *)
(* Vblank numbers are kept as differences, so they need no bound: lag is   *)
(* how many vblanks the hardware is ahead of c->seq, due is                *)
(* c->ptarget_seq - c->seq.                                                *)
(***************************************************************************)
EXTENDS Integers, FiniteSets

CONSTANTS
  Clients, Bos, Fbs,   \* slots of srv.clients, srv.bos, srv.fbs
  Planes, Primary,     \* planes of the CRTC, and the primary one
  Modes,               \* {"native"}, or with "low": a scaled mode (M9)
  None, Keep,          \* nothing shown; the commit does not touch the plane
  MaxLag,              \* vblanks the thread may be behind the hardware
  Prompt,              \* the thread acts on a vblank before the next latch
  MayFail,             \* a SET_PLANE call may fail
  Gated                \* commits may carry in-fences (-G)

ASSUME KmsAssumption ==
  /\ IsFiniteSet(Planes) /\ IsFiniteSet(Fbs) /\ Primary \in Planes
  /\ "native" \in Modes
  /\ None \notin Clients \cup Bos \cup Fbs /\ Keep \notin Fbs \cup {None}
  /\ MaxLag \in Nat \ {0}
  /\ {Prompt, MayFail, Gated} \subseteq BOOLEAN

VARIABLES
  open,      \* clients[].used
  bo,        \* srv.bos: owner, open handle, reference count
  fb,        \* srv.fbs: owner, user_ref, reference count, buffer
  cur,       \* c->cur[].fb_id: on screen, None when the plane is off
  pend,      \* c->pend: "none", "fence" or "armed"
  pst,       \* c->pst[].fb_id; Keep outside c->pmask
  pclient,   \* c->pclient
  gate,      \* planes of the commit whose in-fence has not signalled
  due,       \* c->ptarget_seq - c->seq of an armed commit
  mode,      \* c->umode_w: "native" or "low"
  setter,    \* c->umode_client
  fw,        \* what the firmware was last told of each plane
  latched,   \* what it took over at its last update point
  scan,      \* what the display reads
  phase,     \* "early": a call makes the next vblank by the guard rule;
             \* "guard": it still does, but the rule says it does not;
             \* "late": past the firmware's update point
  lag,       \* vblanks the hardware is ahead of c->seq
  got,       \* vblanks the thread has picked up and not yet acted on
  cut        \* history: "cut" since the plane was changed outside a commit,
             \* "healing" while the next commit to it is in flight

tables == <<open, bo, fb>>
crtc == <<cur, pend, pst, pclient, gate, due, mode, setter>>
display == <<fw, latched, scan, phase>>
clock == <<lag, got>>
vars == <<tables, crtc, display, clock, cut>>

Off == [bo |-> None, mode |-> "native"]
FreeBo == [owner |-> None, handle |-> FALSE, refs |-> 0]
FreeFb == [owner |-> None, user |-> FALSE, refs |-> 0, bo |-> None]
NoCommit == [p \in Planes |-> Keep]

\* What plane state fb f, applied in mode m, makes the display read.
Image(f, m) == IF f = None THEN Off ELSE [bo |-> fb[f].bo, mode |-> m]

pmask == {p \in Planes : pst[p] # Keep}

Init ==
  /\ open = {}
  /\ bo = [b \in Bos |-> FreeBo]
  /\ fb = [f \in Fbs |-> FreeFb]
  /\ cur = [p \in Planes |-> None]
  /\ pend = "none" /\ pst = NoCommit /\ pclient = None /\ gate = {} /\ due = 0
  /\ mode = "native" /\ setter = None
  /\ fw = [p \in Planes |-> Off] /\ latched = fw /\ scan = fw
  /\ phase = "early" /\ lag = 0 /\ got = 0
  /\ cut = [p \in Planes |-> "no"]
-------------------------------------------------------------------------------
\* References.  Holds(s, S, f): how many of the planes S show f in state s.
Holds(s, S, f) == Cardinality({p \in S : s[p] = f})

\* kms_fb_unref drop[f] times on each f, and kms_bo_unref for each closed
\* handle: a framebuffer's last reference drops one of its buffer.
ReleaseFbs(drop) ==
  [f \in Fbs |-> IF fb[f].refs <= drop[f] THEN FreeFb
                 ELSE [fb[f] EXCEPT !.refs = @ - drop[f]]]

ReleaseBos(drop, closed) ==
  LET freed(b) == Cardinality({f \in Fbs : fb[f].bo = b /\ fb[f].refs <= drop[f]})
      left(b) == bo[b].refs - freed(b) - (IF b \in closed THEN 1 ELSE 0)
  IN [b \in Bos |->
        IF left(b) <= 0 THEN FreeBo
        ELSE [bo[b] EXCEPT !.refs = left(b), !.handle = @ /\ b \notin closed]]

Release(drop) == fb' = ReleaseFbs(drop) /\ bo' = ReleaseBos(drop, {})

\* The SET_PLANE calls of one step that fail; the firmware keeps what it had.
Failures == IF MayFail THEN SUBSET Planes ELSE {{}}
-------------------------------------------------------------------------------
\* Clients and objects.
Open(c) ==
  /\ c \notin open
  /\ open' = open \cup {c}
  /\ UNCHANGED <<bo, fb, crtc, display, clock, cut>>

CreateDumb(c, b) ==
  /\ c \in open /\ bo[b] = FreeBo
  /\ bo' = [bo EXCEPT ![b] = [owner |-> c, handle |-> TRUE, refs |-> 1]]
  /\ UNCHANGED <<open, fb, crtc, display, clock, cut>>

DestroyDumb(c, b) ==
  /\ c \in open /\ bo[b].owner = c /\ bo[b].handle
  /\ bo' = ReleaseBos([f \in Fbs |-> 0], {b})
  /\ UNCHANGED <<open, fb, crtc, display, clock, cut>>

AddFb(c, f, b) ==
  /\ c \in open /\ bo[b].owner = c /\ bo[b].handle /\ fb[f] = FreeFb
  /\ fb' = [fb EXCEPT ![f] = [owner |-> c, user |-> TRUE, refs |-> 1, bo |-> b]]
  /\ bo' = [bo EXCEPT ![b].refs = @ + 1]
  /\ UNCHANGED <<open, crtc, display, clock, cut>>
-------------------------------------------------------------------------------
(* Arming a commit.  A call made before the update point is scanned from   *)
(* the next vblank; the rule guesses which one that is from the time since *)
(* the last vblank the thread has acted on.                                *)
TargetNext(l) == 1

Target(l) == IF l = 0 /\ phase = "early" THEN 1 ELSE 2

\* kms_try_apply of the commit in state s, m, with l vblanks not acted on.
ApplyUngated(s, m, l) ==
  /\ pend' = "armed"
  /\ due' = Target(l)
  /\ \E failed \in Failures :
       /\ fw' = [p \in Planes |-> IF s[p] = Keep \/ p \in failed THEN fw[p]
                                  ELSE Image(s[p], m)]
       /\ cut' = [p \in Planes |-> IF s[p] = Keep THEN cut[p]
                                   ELSE IF p \in failed THEN "cut"
                                   ELSE IF cut[p] = "no" THEN "no" ELSE "healing"]
  /\ UNCHANGED <<latched, scan, phase>>

TryApply(s, m, g, l) ==
  \/ g = {} /\ ApplyUngated(s, m, l)
  \/ g # {} /\ pend' = "fence" /\ due' = 0 /\ UNCHANGED <<display, cut>>

(* commit(): st gives the new framebuffer of the planes it touches, m the  *)
(* mode it sets (Keep: none), g the planes with an unsignalled in-fence.   *)
(* PAGE_FLIP, SETCRTC and ATOMIC differ only in the st and m they build.   *)
Owned(c, st) ==
  \A p \in Planes : st[p] \in Fbs => fb[st[p]].owner = c /\ fb[st[p]].user

ModeAfter(st, m) ==
  LET prim == IF st[Primary] = Keep THEN cur[Primary] ELSE st[Primary]
  IN IF prim = None THEN "native" ELSE IF m = Keep THEN mode ELSE m

\* Planes the commit leaves alone but whose rectangle moves with the mode.
CarriedNone(st, m) == {}

Carried(st, m) ==
  IF ModeAfter(st, m) = mode THEN {}
  ELSE {p \in Planes : st[p] = Keep /\ cur[p] # None}

\* References the commit takes: one per plane of the commit and its fb.
TakenOnce(s) == [f \in Fbs |-> IF f \in {s[p] : p \in Planes} THEN 1 ELSE 0]

Taken(s) == [f \in Fbs |-> Holds(s, Planes, f)]

Commit(c, st, m, g) ==
  /\ c \in open /\ pend = "none"
  /\ st # NoCommit /\ Owned(c, st)
  /\ \E outside \in SUBSET Carried(st, m) :   \* carried, but off the new mode
       LET s == [p \in Planes |-> IF p \in outside THEN None
                                  ELSE IF p \in Carried(st, m) THEN cur[p] ELSE st[p]]
       IN /\ pst' = s
          /\ fb' = [f \in Fbs |-> [fb[f] EXCEPT !.refs = @ + Taken(s)[f]]]
          /\ TryApply(s, ModeAfter(st, m), g, lag)
  /\ pclient' = c
  /\ gate' = g
  /\ mode' = ModeAfter(st, m)
  /\ setter' = IF mode' = "native" THEN None
               ELSE IF mode' # mode \/ m # Keep THEN c ELSE setter
  /\ UNCHANGED <<open, bo, cur, clock>>

States == [Planes -> Fbs \cup {None, Keep}]

CommitSome(c) ==
  \E st \in States, m \in Modes \cup {Keep} :
    \E g \in IF Gated THEN SUBSET {p \in Planes : st[p] # Keep} ELSE {{}} :
      Commit(c, st, m, g)
-------------------------------------------------------------------------------
(* Completion: the pending references move to "on screen", those of the    *)
(* outgoing framebuffers go.                                               *)
Shown(s) == [p \in Planes |-> IF s[p] = Keep THEN cur[p] ELSE s[p]]

ReleasedIncoming == [f \in Fbs |-> Holds(pst, Planes, f)]

Outgoing == [f \in Fbs |-> Holds(cur, pmask, f)]

SettleGated == pend' = "none" /\ pst' = NoCommit /\ due' = 0 /\ UNCHANGED gate

Settle == pend' = "none" /\ pst' = NoCommit /\ gate' = {} /\ due' = 0

\* complete()
Complete ==
  /\ cur' = Shown(pst)
  /\ Release(Outgoing)
  /\ Settle
  /\ cut' = [p \in Planes |-> IF p \in pmask /\ cut[p] = "healing" THEN "no"
                              ELSE cut[p]]
  /\ UNCHANGED <<open, pclient, mode, setter, display>>

\* vbl_wait returns: the thread has vblanks to act on, and no lock yet.
ThreadSees ==
  /\ lag > 0 /\ got = 0
  /\ got' = lag
  /\ UNCHANGED <<tables, crtc, display, lag, cut>>

\* c->seq >= c->ptarget_seq once n more vblanks are counted.
ReachedExactly(n) == due = n

Reached(n) == due <= n

\* kms_on_vblank for the got vblanks.
OnVblank ==
  /\ got > 0
  /\ lag' = lag - got /\ got' = 0
  /\ \/ pend = "armed" /\ Reached(got) /\ Complete
     \/ /\ pend = "armed" /\ ~ Reached(got)
        /\ due' = IF due > got THEN due - got ELSE 0
        /\ UNCHANGED <<tables, cur, pend, pst, pclient, gate, mode, setter, display, cut>>
     \/ /\ pend = "fence"
        /\ TryApply(pst, mode, gate, lag')
        /\ UNCHANGED <<tables, cur, pst, pclient, gate, mode, setter>>
     \/ /\ pend = "none"
        /\ UNCHANGED <<tables, crtc, display, cut>>

\* The poll between vblanks, every gate_us while a commit waits.
GatePoll ==
  /\ pend = "fence" /\ got = 0 /\ gate = {}
  /\ ApplyUngated(pst, mode, lag)
  /\ UNCHANGED <<tables, cur, pst, pclient, gate, mode, setter, clock>>

\* The render server completes the fence (or has exited).
FenceSignals ==
  /\ pend = "fence"
  /\ \E p \in gate : gate' = gate \ {p}
  /\ UNCHANGED <<tables, cur, pend, pst, pclient, due, mode, setter, display, clock, cut>>
-------------------------------------------------------------------------------
(* Taking planes off outside a commit.  Given the planes S that go and the *)
(* state left after it, what the firmware is told; back is whether the     *)
(* lower mode goes too, and the planes left are then mapped again.         *)
TakenOff(S, left, back, failed) ==
  LET again == IF back THEN {p \in Planes \ S : left[p] # None} ELSE {}
  IN /\ fw' = [p \in Planes |-> IF p \in failed THEN fw[p]
                                ELSE IF p \in S THEN Off
                                ELSE IF p \in again THEN Image(left[p], "native") ELSE fw[p]]
     /\ mode' = (IF back THEN "native" ELSE mode)
     /\ setter' = (IF back THEN None ELSE setter)
     /\ UNCHANGED <<latched, scan, phase>>

\* History: the planes whose picture or mode this changes.
Disturbed(S, left, back) ==
  S \cup IF back THEN {p \in Planes : left[p] # None \/ p \in pmask} ELSE {}

Without(s, S) == [p \in Planes |-> IF p \in S THEN None ELSE s[p]]

\* planes_off: a lower mode never outlives the primary plane.
PrimaryGoneNever(left, s) == FALSE

PrimaryGone(left, s) == left[Primary] = None /\ s[Primary] \notin Fbs

BackToNative(left, s) == mode # "native" /\ PrimaryGone(left, s)

RmBusy(f) == \E p \in Planes : pst[p] = f

\* KMS_OP_RMFB: off the planes that show it, then the user's reference.
RmFb(c, f) ==
  /\ c \in open /\ fb[f].owner = c /\ fb[f].user /\ ~ RmBusy(f)
  /\ LET S == {p \in Planes : cur[p] = f}
         left == Without(cur, S)
         back == BackToNative(left, pst)
         drop == [g \in Fbs |-> IF g = f THEN Cardinality(S) + 1 ELSE 0]
     IN /\ cur' = left
        /\ \E failed \in Failures : TakenOff(S, left, back, failed)
        /\ cut' = [p \in Planes |-> IF p \in Disturbed(S, left, back)
                                    THEN "cut" ELSE cut[p]]
        /\ fb' = [g \in Fbs |-> [ReleaseFbs(drop)[g] EXCEPT !.user = @ /\ g # f]]
        /\ bo' = ReleaseBos(drop, {})
  /\ UNCHANGED <<open, pend, pst, pclient, gate, due, clock>>

(* client_close: an unapplied commit of the client is dropped, an armed one *)
(* is settled at once; its planes go off, its mode goes, then its objects. *)
Mine(c) == pend # "none" /\ pclient = c

\* What is shown once an armed commit of c has been settled.
NowUnsettled(c) == cur

Now(c) == IF Mine(c) /\ pend = "armed" THEN Shown(pst) ELSE cur

\* The planes that show a framebuffer of c.
PlanesBefore(now, c) == {p \in Planes : cur[p] \in Fbs /\ fb[cur[p]].owner = c}

PlanesOf(now, c) == {p \in Planes : now[p] \in Fbs /\ fb[now[p]].owner = c}

Close(c) ==
  /\ c \in open
  /\ open' = open \ {c}
  /\ LET settled == Mine(c) /\ pend = "armed"
         now == Now(c)
         S == PlanesOf(now, c)
         left == Without(now, S)
         back == \/ BackToNative(left, IF Mine(c) THEN NoCommit ELSE pst)
                 \/ mode # "native" /\ setter = c
         drop == [f \in Fbs |->
                    (IF ~ Mine(c) THEN 0 ELSE IF settled THEN Outgoing[f] ELSE ReleasedIncoming[f])
                    + Holds(now, S, f) + (IF fb[f].owner = c /\ fb[f].user THEN 1 ELSE 0)]
     IN /\ cur' = left
        /\ \E failed \in Failures : TakenOff(S, left, back, failed)
        /\ cut' = [p \in Planes |-> IF \/ p \in Disturbed(S, left, back)
                                       \/ settled /\ p \in pmask
                                    THEN "cut" ELSE cut[p]]
        /\ fb' = [f \in Fbs |-> [ReleaseFbs(drop)[f] EXCEPT !.user = @ /\ fb[f].owner # c]]
        /\ bo' = ReleaseBos(drop, {b \in Bos : bo[b].owner = c /\ bo[b].handle})
  /\ IF Mine(c) THEN Settle ELSE UNCHANGED <<pend, pst, gate, due>>
  /\ UNCHANGED <<pclient, clock>>
-------------------------------------------------------------------------------
(* The display (external): the guard interval begins, the firmware takes   *)
(* over the plane state, the vblank comes.                                 *)
GuardBegins ==
  /\ phase = "early" /\ phase' = "guard"
  /\ UNCHANGED <<tables, crtc, fw, latched, scan, clock, cut>>

FirmwareLatches ==
  /\ phase = "guard" /\ phase' = "late"
  /\ Prompt => lag = 0
  /\ latched' = fw
  /\ UNCHANGED <<tables, crtc, fw, scan, clock, cut>>

VblankComes ==
  /\ phase = "late" /\ phase' = "early"
  /\ lag < MaxLag
  /\ lag' = lag + 1
  /\ scan' = latched
  /\ UNCHANGED <<tables, crtc, fw, latched, got, cut>>

Display == GuardBegins \/ FirmwareLatches \/ VblankComes

Request ==
  \E c \in Clients :
    \/ Open(c) \/ Close(c) \/ CommitSome(c)
    \/ \E b \in Bos : CreateDumb(c, b) \/ DestroyDumb(c, b)
    \/ \E b \in Bos, f \in Fbs : AddFb(c, f, b)
    \/ \E f \in Fbs : RmFb(c, f)

Thread == ThreadSees \/ OnVblank \/ GatePoll

Next == Request \/ Thread \/ FenceSignals \/ Display

Spec == Init /\ [][Next]_vars

(* The display runs on its own, the vblank thread is the server's highest  *)
(* priority, and the render server completes every fence it gave out.      *)
Fairness ==
  WF_vars(Display) /\ WF_vars(ThreadSees) /\ WF_vars(OnVblank) /\ WF_vars(FenceSignals)

FairSpec == Spec /\ Fairness
===============================================================================
