----------------------------- MODULE KmsVblank -----------------------------
(***************************************************************************)
(* The display server's vblank thread and event queues                     *)
(* (src/tools/gpu-lane/kms: kms_vblank.c, and the events, parked requests  *)
(* and pending commit of kms_main.c).                                      *)
(*                                                                         *)
(* Three parties run at once: the SMI handler, which only counts and wakes;*)
(* the vblank thread, which waits without srv.lock and acts with it; and   *)
(* the single dispatch thread, which handles each request with the lock    *)
(* held.  The thread reads srv.gate_kick, c->pend and the handler's        *)
(* counter outside the lock, so those reads are steps of their own, and so *)
(* are the stores of commit() they race with.                              *)
(*                                                                         *)
(* Vblank numbers are kept as distances: due counts down to ptarget_seq,   *)
(* and a request's target to the vblank it waits for.  What a commit shows *)
(* and when the firmware latches it is KmsCommit's.                        *)
(***************************************************************************)
EXTENDS Integers, Sequences, FiniteSets

CONSTANTS
  Clients,     \* slots of srv.clients
  Requests,    \* kinds of requests the clients make
  Sources,     \* the sources the probe at start may settle on
  HvsThere,    \* the HVS is mapped and a channel was found
  MaxFresh,    \* bound: vblanks not picked up by the thread
  EvqLen,      \* KMS_EVQ_LEN
  MaxAhead,    \* bound: vblanks a request may look ahead
  MaxParked,   \* KMS_MAX_PARKED
  ReadSize     \* bound: events that fit the buffer of a read()

AllRequests == {"FLIP", "READ", "WAIT", "EVENT", "QUIT"}

ASSUME VblankAssumption ==
  /\ Requests \subseteq AllRequests
  /\ Sources \subseteq {"irq", "hvs", "fwvsync", "timer"} /\ Sources # {}
  /\ HvsThere \in BOOLEAN /\ ("hvs" \in Sources => HvsThere)
  /\ {MaxFresh, EvqLen, MaxAhead, MaxParked, ReadSize} \subseteq Nat \ {0}

VARIABLES
  src,      \* srv.vbl_src
  health,   \* of the source: "ok", "storm": the SMI line is stuck, "dead": it
            \* has stopped delivering, "silent": for 250 ms since vb.last_vbl
  fresh,    \* vb.head - vb.seen; for the HVS, frame counter - vb.hvs_last
  at,       \* where the vblank thread is
  n,        \* vblanks vbl_wait has returned
  gate,     \* the thread's `gate': it polls the fence
  kicked,   \* srv.gate_kick # the thread's `kick'
  disp,     \* the dispatch thread: between requests, or in commit() before
            \* the increment of gate_kick, or before condSignal
  pend,     \* c->pend: "none", "fence" or "armed"
  pclient,  \* c->pclient, while a commit is pending
  pevent,   \* c->pevent, the same
  signaled, \* the in-fence of the pending commit has signalled
  due,      \* c->ptarget_seq - c->seq of an armed commit
  used,     \* clients[].used
  evq,      \* the client's event queue
  vblev,    \* srv.vblev: vblanks until the client's queued event, -1: none
  read,     \* clients with a parked read()
  wait,     \* vblanks until the client's parked WAIT_VBLANK is due, -1: none
  late,     \* parked requests past their deadline
  ans,      \* claimed requests the vblank thread has yet to answer
  quit,     \* srv.quit
  owed      \* history: flip events promised to the client and not yet handed over

source == <<src, health>>
thread == <<at, n, gate>>
commits == <<pend, pclient, pevent, signaled, due>>
tables == <<used, evq, vblev, read, wait, late, quit, owed>>
vars == <<source, fresh, thread, kicked, disp, commits, tables, ans>>

None == "none"

Init ==
  /\ src \in Sources /\ health = "ok"
  /\ fresh = 0 /\ at = "top" /\ n = 0 /\ gate = FALSE
  /\ kicked = FALSE /\ disp = "idle"
  /\ pend = "none" /\ pclient = None /\ pevent = FALSE /\ signaled = FALSE /\ due = 0
  /\ used = {}
  /\ evq = [c \in Clients |-> <<>>]
  /\ vblev = [c \in Clients |-> -1]
  /\ read = {}
  /\ wait = [c \in Clients |-> -1]
  /\ late = {}
  /\ ans = {} /\ quit = FALSE
  /\ owed = [c \in Clients |-> 0]

-----------------------------------------------------------------------------
(* vbl_wait                                                                *)

\* The thread reads gate_kick, then c->pend, and chooses how long to wait.
\* Mutant: the other way round.
LookSwapped ==
  \/ at = "top" /\ gate' = (pend = "fence") /\ at' = "pend" /\ UNCHANGED kicked
  \/ at = "pend" /\ kicked' = FALSE /\ at' = "wait" /\ UNCHANGED gate

Look ==
  \/ at = "top" /\ kicked' = FALSE /\ at' = "pend" /\ UNCHANGED gate
  \/ at = "pend" /\ gate' = (pend = "fence") /\ at' = "wait" /\ UNCHANGED kicked

ThreadLooks ==
  /\ Look
  /\ UNCHANGED <<source, fresh, n, disp, commits, tables, ans>>

WaitVars == <<source, gate, kicked, disp, commits, tables, ans>>

\* IRQ: the check of the loop, and condWait.
CondWait ==
  /\ at = "wait" /\ src = "irq" /\ fresh = 0 /\ ~kicked
  /\ at' = "sleep"
  /\ UNCHANGED <<fresh, n, WaitVars>>

\* A wake-up between the check and the wait is lost; the wait ends after 2 ms.
\* Mutant: only a signal ends it.
CondTimeoutNever == FALSE /\ UNCHANGED vars

CondTimeout ==
  /\ at = "sleep" /\ at' = "wait"
  /\ UNCHANGED <<fresh, n, WaitVars>>

\* IRQ: n and vb.seen are taken from two reads of vb.head.
ReadHead ==
  /\ at = "wait" /\ src = "irq" /\ fresh > 0
  /\ n' = fresh /\ at' = "seen"
  /\ UNCHANGED <<fresh, WaitVars>>

SetSeen ==
  /\ at = "seen" /\ fresh' = 0 /\ at' = "lock"
  /\ UNCHANGED <<n, WaitVars>>

\* HVS: one read of the frame counter.
ReadFrames ==
  /\ at = "wait" /\ src = "hvs" /\ fresh > 0
  /\ n' = fresh /\ fresh' = 0 /\ at' = "lock"
  /\ UNCHANGED WaitVars

\* The firmware call returns at a vblank; the timer at its period.
Paced ==
  /\ at = "wait" /\ src \in {"fwvsync", "timer"}
  /\ n' = 1 /\ at' = "lock"
  /\ UNCHANGED <<fresh, WaitVars>>

\* A kick, or the end of max_us, with no vblank in.
WaitOver ==
  /\ at = "wait" /\ src # "fwvsync" /\ fresh = 0
  /\ n' = 0 /\ at' = "lock"
  /\ UNCHANGED <<fresh, WaitVars>>

-----------------------------------------------------------------------------
(* The locked part of the thread's pass                                    *)

Counted(d, k) == IF d > k THEN d - k ELSE 0

\* ev_push: a full queue drops the event
Push(q, there, e) == IF ~there \/ Len(q) >= EvqLen THEN q ELSE Append(q, e)

Flips(q) == Cardinality({i \in DOMAIN q : q[i] = "flip"})

\* ev_fill: how many events a read takes
Fill(q) == IF Len(q) < ReadSize THEN Len(q) ELSE ReadSize
Rest(q) == SubSeq(q, Fill(q) + 1, Len(q))
Taken(q) == SubSeq(q, 1, Fill(q))

\* c->seq >= c->ptarget_seq
\* Mutant: the target is met exactly.
ReachedExactly(k) == due = k

Reached(k) == due <= k

Completing(k) == pend = "armed" /\ k > 0 /\ Reached(k)

\* kms_try_apply with the lock held: armed for the next vblank or the one after
TryApply ==
  IF pend = "fence" /\ signaled THEN pend' = "armed" /\ due' \in {1, 2}
  ELSE UNCHANGED <<pend, due>>

\* The queue of client c once k vblanks are counted: the flip's event, then
\* the vblank event it has asked for.
FlipEvent(c, k) == Completing(k) /\ pevent /\ pclient = c
VblEvent(c, k) == k > 0 /\ vblev[c] >= 0 /\ vblev[c] <= k
Queue(c, k) == Push(Push(evq[c], FlipEvent(c, k), "flip"), VblEvent(c, k), "vbl")

\* serve_reads looks at the queues after all events are in.
\* Mutant: before.
ReadyBefore(c, k) == k > 0 /\ evq[c] # <<>>

Ready(c, k) == k > 0 /\ Queue(c, k) # <<>>

Served(k) == {c \in read : Ready(c, k)}
Due(k) == {c \in Clients : k > 0 /\ wait[c] >= 0 /\ wait[c] <= k}
Expired(k) == {r \in late : r \notin Served(k) \X {"read"} \cup Due(k) \X {"wait"}}

NoCommit == pend' = "none" /\ pclient' = None /\ pevent' = FALSE /\ signaled' = FALSE /\ due' = 0

Pass ==
  /\ at = "lock" /\ disp = "idle"
  /\ IF Completing(n) THEN NoCommit
     ELSE /\ IF pend = "armed" THEN due' = Counted(due, n) /\ UNCHANGED pend ELSE TryApply
          /\ UNCHANGED <<pclient, pevent, signaled>>
  /\ LET claimed == Served(n) \X {"read"} \cup Due(n) \X {"wait"} \cup Expired(n)
         gone(c) == IF c \in Served(n) THEN Flips(Taken(Queue(c, n))) ELSE 0
         full(c) == IF FlipEvent(c, n) /\ Len(evq[c]) >= EvqLen THEN 1 ELSE 0
     IN  /\ evq' = [c \in Clients |->
                      IF c \in Served(n) THEN Rest(Queue(c, n)) ELSE Queue(c, n)]
         /\ owed' = [c \in Clients |-> owed[c] - gone(c) - full(c)]
         /\ vblev' = [c \in Clients |->
                        IF VblEvent(c, n) \/ vblev[c] < 0 THEN -1 ELSE vblev[c] - n]
         /\ wait' = [c \in Clients |->
                       IF <<c, "wait">> \in claimed \/ wait[c] < 0 THEN -1 ELSE wait[c] - n]
         /\ read' = {c \in read : <<c, "read">> \notin claimed}
         /\ ans' = claimed
         /\ late' = late \ claimed
  /\ health' = IF n > 0 /\ health = "silent" THEN "dead" ELSE health
  /\ at' = "post"
  /\ n' = 0 /\ gate' = FALSE
  /\ UNCHANGED <<src, fresh, kicked, disp, used, quit>>

\* After the pass: the claimed requests are answered, a storm (looked for every
\* 2 s) or 250 ms of silence makes the thread leave its source.
Fallback(old) == IF old # "hvs" /\ HvsThere THEN "hvs" ELSE "timer"

Left(tick) == health = "silent" \/ (health = "storm" /\ tick)

Post ==
  /\ at = "post"
  /\ ans' = {}
  /\ IF quit THEN at' = "ended" /\ UNCHANGED <<source, fresh>>
     ELSE /\ at' = "top"
          /\ \E tick \in BOOLEAN :
               IF Left(tick) THEN src' = Fallback(src) /\ health' = "ok" /\ fresh' = 0
               ELSE UNCHANGED <<source, fresh>>
  /\ UNCHANGED <<n, gate, kicked, disp, commits, tables>>

-----------------------------------------------------------------------------
(* Requests: the dispatch thread, with the lock held                       *)

Handles(c) == disp = "idle" /\ ~quit /\ c \in used

RequestVars == <<source, fresh, thread, kicked, ans, quit>>

\* client_open clears the slot.
\* Mutant: the queue of the slot's last owner is kept.
ClearedNot(c) == evq

Cleared(c) == [evq EXCEPT ![c] = <<>>]

Open(c) ==
  /\ disp = "idle" /\ ~quit /\ c \notin used
  /\ used' = used \cup {c}
  /\ evq' = Cleared(c)
  /\ owed' = [owed EXCEPT ![c] = 0]
  /\ UNCHANGED <<RequestVars, disp, commits, vblev, read, wait, late>>

\* client_close: parked requests are answered, queued ones dropped, and the
\* client's commit is dropped or settled, with no event.
Close(c) ==
  /\ Handles(c)
  /\ used' = used \ {c}
  /\ vblev' = [vblev EXCEPT ![c] = -1]
  /\ read' = read \ {c}
  /\ wait' = [wait EXCEPT ![c] = -1]
  /\ late' = {r \in late : r[1] # c}
  /\ IF pclient = c THEN NoCommit ELSE UNCHANGED commits
  /\ UNCHANGED <<RequestVars, disp, evq, owed>>

\* commit(): pend is stored first, then gate_kick, then the condition is
\* signalled; with the fences signalled already it is armed at once.
Commit(c) ==
  /\ Handles(c) /\ "FLIP" \in Requests
  /\ pend = "none"
  /\ pclient' = c
  /\ pevent' \in BOOLEAN
  /\ owed' = [owed EXCEPT ![c] = @ + (IF pevent' THEN 1 ELSE 0)]
  /\ \/ signaled' = TRUE /\ pend' = "armed" /\ due' \in {1, 2} /\ UNCHANGED disp
     \/ signaled' = FALSE /\ pend' = "fence" /\ due' = 0 /\ disp' = "kick"
  /\ UNCHANGED <<RequestVars, used, evq, vblev, read, wait, late>>

CommitKick ==
  /\ disp = "kick" /\ disp' = "signal"
  /\ kicked' = TRUE
  /\ UNCHANGED <<source, fresh, thread, commits, tables, ans>>

Woken == IF at = "sleep" THEN "wait" ELSE at

CommitSignal ==
  /\ disp = "signal" /\ disp' = "idle"
  /\ at' = Woken
  /\ UNCHANGED <<source, fresh, n, gate, kicked, commits, tables, ans>>

Parked == Cardinality(read) + Cardinality({c \in Clients : wait[c] >= 0})

\* mtRead: events now, or parked until there are some (one read per client).
ReadEvents(c) ==
  /\ Handles(c) /\ "READ" \in Requests
  /\ c \notin read /\ <<c, "read">> \notin ans
  /\ \/ /\ evq[c] # <<>>
        /\ evq' = [evq EXCEPT ![c] = Rest(@)]
        /\ owed' = [owed EXCEPT ![c] = @ - Flips(Taken(evq[c]))]
        /\ UNCHANGED read
     \/ /\ evq[c] = <<>> /\ Parked < MaxParked
        /\ read' = read \cup {c}
        /\ UNCHANGED <<evq, owed>>
  /\ UNCHANGED <<RequestVars, disp, commits, used, vblev, wait, late>>

\* WAIT_VBLANK: parked until its vblank (one per client).
WaitVblank(c) ==
  /\ Handles(c) /\ "WAIT" \in Requests
  /\ wait[c] < 0 /\ <<c, "wait">> \notin ans
  /\ Parked < MaxParked
  /\ \E d \in 1 .. MaxAhead : wait' = [wait EXCEPT ![c] = d]
  /\ UNCHANGED <<RequestVars, disp, commits, used, evq, vblev, read, late, owed>>

\* WAIT_VBLANK with EVENT, QUEUE_SEQUENCE: an event at that vblank, or at the
\* next one if it has passed (one per client), which makes that one the target.
QueueEvent(c) ==
  /\ Handles(c) /\ "EVENT" \in Requests
  /\ vblev[c] < 0
  /\ \E d \in 1 .. MaxAhead : vblev' = [vblev EXCEPT ![c] = d]
  /\ UNCHANGED <<RequestVars, disp, commits, used, evq, read, wait, late, owed>>

\* DBG_QUIT answers everything that is parked; the server handles no more.
Quit ==
  /\ "QUIT" \in Requests /\ disp = "idle" /\ ~quit /\ used # {}
  /\ quit' = TRUE
  /\ read' = {} /\ late' = {} /\ wait' = [c \in Clients |-> -1]
  /\ UNCHANGED <<source, fresh, thread, kicked, disp, commits, used, evq, vblev, ans, owed>>

-----------------------------------------------------------------------------
(* The hardware, the render server and the clock (external)                *)

\* smi_isr: counts and wakes the thread
Handler ==
  /\ src = "irq" /\ health \in {"ok", "storm"} /\ fresh < MaxFresh
  /\ fresh' = fresh + 1
  /\ at' = Woken
  /\ UNCHANGED <<source, n, gate, kicked, disp, commits, tables, ans>>

\* The HVS counts frames modulo 64; the thread, which looks every 250 us, is
\* never a whole turn behind.
Frame ==
  /\ src = "hvs" /\ health = "ok" /\ fresh < MaxFresh
  /\ fresh' = fresh + 1
  /\ UNCHANGED <<source, thread, kicked, disp, commits, tables, ans>>

SourceFails ==
  /\ src \in {"irq", "hvs"} /\ health = "ok"
  /\ health' \in {"dead"} \cup IF src = "irq" THEN {"storm"} ELSE {}
  /\ UNCHANGED <<src, fresh, thread, kicked, disp, commits, tables, ans>>

Silence ==
  /\ health = "dead" /\ health' = "silent"
  /\ UNCHANGED <<src, fresh, thread, kicked, disp, commits, tables, ans>>

FenceSignals ==
  /\ pend = "fence" /\ ~signaled
  /\ signaled' = TRUE
  /\ UNCHANGED <<source, fresh, thread, kicked, disp, pend, pclient, pevent, due, tables, ans>>

DeadlinePasses(r) ==
  /\ r \in read \X {"read"} \cup {c \in Clients : wait[c] >= 0} \X {"wait"}
  /\ r \notin late /\ late' = late \cup {r}
  /\ UNCHANGED <<source, fresh, thread, kicked, disp, commits,
                 used, evq, vblev, read, wait, quit, owed, ans>>

-----------------------------------------------------------------------------
Waiting == CondWait \/ CondTimeout \/ ReadHead \/ SetSeen \/ ReadFrames

Thread == ThreadLooks \/ Waiting \/ Paced \/ WaitOver \/ Pass \/ Post

Request ==
  \/ \E c \in Clients : \/ Open(c) \/ Close(c) \/ Commit(c) \/ ReadEvents(c)
                        \/ WaitVblank(c) \/ QueueEvent(c)
  \/ CommitKick \/ CommitSignal \/ Quit

Parkable == Clients \X {"read", "wait"}

Outside ==
  \/ Handler \/ Frame \/ SourceFails \/ Silence \/ FenceSignals
  \/ \E r \in Parkable : DeadlinePasses(r)

Next == Thread \/ Request \/ Outside

Spec == Init /\ [][Next]_vars

(* The thread has the highest priority and its waits are bounded: by max_us,*)
(* and by the timer's period where that is the source.  A live source goes *)
(* on; deadlines and the 250 ms pass; the render server completes every    *)
(* fence it gave out, or its exit flag stands for that.                    *)
Fairness ==
  /\ WF_vars(Thread) /\ SF_vars(WaitOver) /\ SF_vars(Paced) /\ SF_vars(Pass)
  /\ WF_vars(CommitKick \/ CommitSignal)
  /\ WF_vars(Handler \/ Frame) /\ WF_vars(Silence)
  /\ WF_vars(FenceSignals) /\ \A r \in Parkable : WF_vars(DeadlinePasses(r))

FairSpec == Spec /\ Fairness
=============================================================================
