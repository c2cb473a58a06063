----------------------------- MODULE BufImport -----------------------------
(***************************************************************************)
(* Buffers that cross the two servers.  The render server maps the         *)
(* /kmsbuf names of the display server and makes them BOs; the display     *)
(* server opens the /v3dbuf names of the render server and shows them.     *)
(* Opening, sizing, mapping and closing a name are requests to the other   *)
(* server, whose buffer thread answers them under that server's own lock,  *)
(* so each importer drops its lock around them and looks again at what it  *)
(* had checked before.                                                     *)
(*                                                                         *)
(* Sources (src/tools/gpu-lane/): v3d-async/v3da_bo.c (import, close,      *)
(* /v3dbuf thread), v3d-async/v3da_main.c (client_open, client_close),     *)
(* kms/kms_bo.c (imports, aliases, references, kms_reap, /kmsbuf thread),  *)
(* kms/kms_main.c (op_prime_import, dispatch_loop), kms/kms_vblank.c.      *)
(*                                                                         *)
(* A request that needs no other server is one step under its server's     *)
(* lock.  An import takes the lock, does its locked part and gives the     *)
(* lock back in steps of their own.  The planes are reduced to which       *)
(* framebuffers only a plane holds (KmsCommit has the commits); the        *)
(* pins and the quarantine of a render BO are in V3DBo.                    *)
(***************************************************************************)
EXTENDS Integers, FiniteSets, FiniteSetsExt

CONSTANTS
  RSlots,     \* client slots of the render server
  RThreads,   \* its threads that receive requests (dispatch_loop)
  MaxR,       \* its BO slots (V3DA_MAX_BOS)
  MaxGen,     \* bound: owners a client slot ever has
  VNames,     \* the render BOs that are exported under /v3dbuf
  KClients,   \* clients of the display server
  MaxK,       \* BO slots of the display server (KMS_MAX_BOS)
  MaxNames,   \* bound: pool BOs the display server ever creates
  Planes      \* framebuffers that only planes can hold at a time

RIdx == 1 .. MaxR
KIdx == 1 .. MaxK
KNames == 1 .. MaxNames
Main == "main"      \* the one dispatch thread of the display server
Vblank == "vblank"  \* its vblank thread
NoOne == "none"

ASSUME BufAssumption ==
  /\ MaxR \in Nat /\ MaxK \in Nat /\ IsFiniteSet(RThreads)
  /\ MaxGen \in Nat /\ MaxNames \in Nat /\ Planes \in Nat
  /\ {Main, Vblank, NoOne} \cap RThreads = {}
  /\ NoOne \notin RSlots \cup KClients

VARIABLES
  rlock, klock,   \* srv.lock of the render and of the display server
  rclient,        \* render: srv.clients[].used and srv.slot_gen[]
  rbo,            \* render: its imports; `for' is a history of who asked
  req,            \* render: the import each thread is serving
  maps,           \* how often the render server maps each /kmsbuf name
  vbo,            \* render: the creator's handle and the open descriptors
  kopen,          \* display: the open clients
  kbo,            \* display: srv.bos
  nextHandle,     \* display: srv.next_handle of the pool BOs
  imp,            \* display: the import the dispatch thread is serving
  reap,           \* display: srv.reap, how often it has a descriptor of a name
  list            \* display: what each thread took from srv.reap, as often

rVars == <<rlock, rclient, rbo, req, maps>>
kVars == <<klock, kopen, kbo, nextHandle, imp, reap, list>>
vars == <<rVars, kVars, vbo>>

FreeR == [st |-> "free", owner |-> NoOne, name |-> 0, for |-> 0]
FreeK == [kind |-> "free", owner |-> NoOne, open |-> FALSE, refs |-> 0,
          name |-> 0, src |-> 0, fb |-> "none"]
NoFds == [v \in VNames |-> 0]
NoReq == [at |-> "idle", slot |-> NoOne, gen |-> 0, name |-> 0]
NoImp == [at |-> "idle", client |-> NoOne, name |-> NoOne]

Init ==
  /\ rlock = NoOne /\ klock = NoOne
  /\ rclient = [s \in RSlots |-> [used |-> FALSE, gen |-> 0]]
  /\ rbo = [i \in RIdx |-> FreeR]
  /\ req = [t \in RThreads |-> NoReq]
  /\ maps = [n \in KNames |-> 0]
  /\ vbo = [v \in VNames |-> [handle |-> TRUE, opens |-> 0]]
  /\ kopen = {}
  /\ kbo = [i \in KIdx |-> FreeK]
  /\ nextHandle = 1
  /\ imp = NoImp
  /\ reap = NoFds
  /\ list = [t \in {Main, Vblank} |-> NoFds]

-----------------------------------------------------------------------------
(* The render server: clients, imports of /kmsbuf names.                   *)

\* client_open and v3da_slot_assign: a new owner of the slot, a new generation.
ROpen(s) ==
  /\ rlock = NoOne /\ ~rclient[s].used /\ rclient[s].gen < MaxGen
  /\ rclient' = [rclient EXCEPT ![s] = [used |-> TRUE, gen |-> @.gen + 1]]
  /\ UNCHANGED <<rlock, rbo, req, maps, kVars, vbo>>

\* bo_unref of an import's only reference: unmapped from the GPU, quarantined.
Quarantined(b) == [b EXCEPT !.st = "quarantine", !.owner = NoOne, !.for = 0]

\* client_close: v3da_bo_client_gone drops the imports the client owns.
RClose(s) ==
  /\ rlock = NoOne /\ rclient[s].used
  /\ rclient' = [rclient EXCEPT ![s].used = FALSE]
  /\ rbo' = [i \in RIdx |-> IF rbo[i].st = "live" /\ rbo[i].owner = s
                            THEN Quarantined(rbo[i]) ELSE rbo[i]]
  /\ UNCHANGED <<rlock, req, maps, kVars, vbo>>

\* v3da_bo_close of an import.
RBoClose(i) ==
  /\ rlock = NoOne /\ rbo[i].st = "live"
  /\ rbo' = [rbo EXCEPT ![i] = Quarantined(@)]
  /\ UNCHANGED <<rlock, rclient, req, maps, kVars, vbo>>

\* v3da_bo_quarantine_poll: the import's mapping goes, never into the pool.
RPoll(i) ==
  /\ rlock = NoOne /\ rbo[i].st = "quarantine"
  /\ maps' = [maps EXCEPT ![rbo[i].name] = @ - 1]
  /\ rbo' = [rbo EXCEPT ![i] = FreeR]
  /\ UNCHANGED <<rlock, rclient, req, kVars, vbo>>

\* A BO_IMPORT with ns=kmsbuf: a dispatch thread has the lock.
RImport(t, s, n) ==
  /\ req[t].at = "idle" /\ rlock = NoOne
  /\ rlock' = t
  /\ req' = [req EXCEPT ![t] = [at |-> "look", slot |-> s, gen |-> 0, name |-> n]]
  /\ UNCHANGED <<rclient, rbo, maps, kVars, vbo>>

\* import_find: this client's live import of the name.
RFound(s, n) == \E i \in RIdx : rbo[i].st = "live" /\ rbo[i].owner = s /\ rbo[i].name = n

RLock(t) ==
  /\ req[t].at = "mapped" /\ rlock = NoOne
  /\ rlock' = t
  /\ req' = [req EXCEPT ![t].at = "install"]
  /\ UNCHANGED <<rclient, rbo, maps, kVars, vbo>>

\* Mutant: the lock is not given back when the client has closed.
RUnlockOpen(t) == rlock' = IF rclient[req[t].slot].used THEN NoOne ELSE rlock

RUnlock(t) == rlock' = NoOne

\* v3da_bo_import, first locked part: refused if the client closed, answered
\* if it has the import already, else remembers the slot's generation.
RLook(t) ==
  LET s == req[t].slot
      n == req[t].name
  IN /\ req[t].at = "look"
     /\ RUnlock(t)
     /\ req' = [req EXCEPT ![t] =
          IF ~rclient[s].used \/ RFound(s, n) THEN NoReq
          ELSE [@ EXCEPT !.at = "map", !.gen = rclient[s].gen]]
     /\ UNCHANGED <<rclient, rbo, maps, kVars, vbo>>

\* bo_by_export of the display server: a pool BO with a reference has its name.
KExported(n) == \E i \in KIdx : kbo[i].kind = "pool" /\ kbo[i].name = n

\* import_map, unlocked: the /kmsbuf thread answers under the display server's
\* lock; the name must still be exported when it is mapped.
RMap(t) ==
  /\ req[t].at = "map" /\ klock = NoOne
  /\ KExported(req[t].name)
  /\ maps' = [maps EXCEPT ![req[t].name] = @ + 1]
  /\ req' = [req EXCEPT ![t].at = "mapped"]
  /\ UNCHANGED <<rlock, rclient, rbo, kVars, vbo>>

\* import_map refused: no such name, or no memory for the page list.
RMapFails(t) ==
  /\ req[t].at = "map" /\ klock = NoOne
  /\ req' = [req EXCEPT ![t] = NoReq]
  /\ UNCHANGED <<rlock, rclient, rbo, maps, kVars, vbo>>

\* Mutant: only whether the slot has an owner is checked again.
SameClientUsed(t) == rclient[req[t].slot].used

\* The client that asked is still there.
SameClient(t) ==
  /\ rclient[req[t].slot].used
  /\ rclient[req[t].slot].gen = req[t].gen

\* Mutant: the racing import is not looked for again.
RLostRaceNever(t) == FALSE

\* "a racing import of the same buffer won"
RLostRace(t) == RFound(req[t].slot, req[t].name)

\* Mutant: the mapping is dropped on an error only, not when the race is lost.
RUnmapsOnError(t, ok) == ~ok /\ ~RLostRace(t)

\* rc # 0: the mapping is not used.
RUnmaps(t, ok) == ~ok

\* v3da_bo_import, second locked part.
RInstall(t) ==
  LET r == req[t]
      free == {i \in RIdx : rbo[i].st = "free"}
      ok == SameClient(t) /\ ~RLostRace(t) /\ free # {}
  IN /\ r.at = "install"
     /\ IF ok
        THEN \E i \in free :
               /\ \A j \in free : i <= j
               /\ rbo' = [rbo EXCEPT ![i] = [st |-> "live", owner |-> r.slot,
                                            name |-> r.name, for |-> r.gen]]
        ELSE UNCHANGED rbo
     /\ maps' = IF RUnmaps(t, ok) THEN [maps EXCEPT ![r.name] = @ - 1] ELSE maps
     /\ RUnlock(t)
     /\ req' = [req EXCEPT ![t] = NoReq]
     /\ UNCHANGED <<rclient, kVars, vbo>>

-----------------------------------------------------------------------------
(* The render server: its own BOs under /v3dbuf.                           *)

VRefs(v) == vbo[v].opens + (IF vbo[v].handle THEN 1 ELSE 0)

\* v3da_bo_close by its creator; the last reference releases the block.
VClose(v) ==
  /\ rlock = NoOne /\ vbo[v].handle
  /\ vbo' = [vbo EXCEPT ![v].handle = FALSE]
  /\ UNCHANGED <<rVars, kVars>>

-----------------------------------------------------------------------------
(* The display server: references, the reap list.                          *)

\* bo_slot_free: the first slot that is not used.
Free(i) ==
  /\ kbo[i].kind = "free"
  /\ \A j \in KIdx : kbo[j].kind = "free" => i <= j
Used(k) == {i \in KIdx : k[i].kind # "free"}

\* kms_bo_unref, drops[i] times for each BO i: an alias that goes drops its
\* reference on the pool BO it names.
Unreferenced(drops) ==
  LET gone == {i \in Used(kbo) : kbo[i].refs = drops[i]}
      via(i) == Cardinality({a \in gone : kbo[a].kind = "alias" /\ kbo[a].src = i})
  IN [i \in KIdx |-> IF i \in Used(kbo) /\ kbo[i].refs = drops[i] + via(i) THEN FreeK
                     ELSE [kbo[i] EXCEPT !.refs = @ - drops[i] - via(i)]]

\* The imports among them: their descriptors are closed by kms_reap, later.
Reaped(k) ==
  LET gone(v) == {i \in Used(kbo) \ Used(k) : kbo[i].kind = "import" /\ kbo[i].name = v}
  IN [v \in VNames |-> reap[v] + Cardinality(gone(v))]

One(S) == [i \in KIdx |-> IF i \in S THEN 1 ELSE 0]

\* Mutant: the dispatch thread leaves the list to the vblank thread.
AfterNever == NoImp

\* After a request the dispatch thread calls kms_reap if something is on the list.
After == IF reap' = NoFds THEN NoImp ELSE [NoImp EXCEPT !.at = "reap"]

\* A request the dispatch thread serves in one locked step.
Dispatch == imp.at = "idle" /\ klock = NoOne

\* kms_bo_get: a handle of this client that is still open.
Mine(c, i) == kbo[i].kind # "free" /\ kbo[i].owner = c /\ kbo[i].open

KOpen(c) ==
  /\ Dispatch /\ c \notin kopen
  /\ kopen' = kopen \cup {c}
  /\ UNCHANGED <<klock, kbo, nextHandle, reap, list, rVars, vbo>>
  /\ imp' = After

\* The framebuffers that are left when client c closes: the other clients' own,
\* and on planes those that another client's pending mode change carries, whoever
\* made them (commit).  c's own such commit is dropped with what it carries, or
\* settled.
Kept(c) ==
  {K \in SUBSET {i \in KIdx : kbo[i].fb # "none"} :
     /\ \A i \in KIdx : kbo[i].fb = "user" /\ kbo[i].owner # c => i \in K
     /\ (\E i \in K : kbo[i].owner = c) => kopen # {c}
     /\ Cardinality({i \in K : kbo[i].owner = c \/ kbo[i].fb = "plane"}) <= Planes}

\* client_close: the planes and framebuffers of the client, then its handles
\* (kms_bo_client_gone).
KClose(c) ==
  \E K \in Kept(c) :
    LET of(i) == kbo[i].kind # "free" /\ kbo[i].owner = c
        lost(i) == kbo[i].fb # "none" /\ i \notin K
        drops == [i \in KIdx |-> (IF of(i) /\ kbo[i].open THEN 1 ELSE 0) + (IF lost(i) THEN 1 ELSE 0)]
        left == Unreferenced(drops)
        fb(i) == IF lost(i) THEN "none" ELSE IF of(i) /\ i \in K THEN "plane" ELSE kbo[i].fb
    IN /\ Dispatch /\ c \in kopen
       /\ kopen' = kopen \ {c}
       /\ kbo' = [i \in KIdx |-> IF left[i].kind = "free" THEN FreeK
                                  ELSE [left[i] EXCEPT !.open = @ /\ ~of(i), !.fb = fb(i)]]
       /\ reap' = Reaped(left)
       /\ UNCHANGED <<klock, nextHandle, list, rVars, vbo>>
       /\ imp' = After

\* kms_bo_create: a pool BO, exported under its handle before it is announced; and
\* KMS_OP_PRIME_EXPORT, after which other clients may import it.
KCreate(c, i) ==
  /\ Dispatch /\ c \in kopen /\ Free(i) /\ nextHandle \in KNames
  /\ kbo' = [kbo EXCEPT ![i] = [FreeK EXCEPT !.kind = "pool", !.owner = c, !.open = TRUE,
                                             !.refs = 1, !.name = nextHandle]]
  /\ nextHandle' = nextHandle + 1
  /\ UNCHANGED <<klock, kopen, reap, list, rVars, vbo>>
  /\ imp' = After

\* Mutant: an import's descriptor is queued when its handle closes.
KDestroyReaps(c, i) ==
  /\ Dispatch /\ Mine(c, i)
  /\ LET left == Unreferenced(One({i}))
     IN /\ kbo' = IF left[i].kind = "free" THEN left ELSE [left EXCEPT ![i].open = FALSE]
        /\ reap' = IF kbo[i].kind = "import" THEN [reap EXCEPT ![kbo[i].name] = @ + 1] ELSE reap
  /\ UNCHANGED <<klock, kopen, nextHandle, list, rVars, vbo>>
  /\ imp' = After

\* kms_bo_destroy
KDestroy(c, i) ==
  /\ Dispatch /\ Mine(c, i)
  /\ LET left == Unreferenced(One({i}))
     IN /\ kbo' = IF left[i].kind = "free" THEN left ELSE [left EXCEPT ![i].open = FALSE]
        /\ reap' = Reaped(left)
  /\ UNCHANGED <<klock, kopen, nextHandle, list, rVars, vbo>>
  /\ imp' = After

\* kms_fb_add: the framebuffer holds a reference on its BO.
KAddFb(c, i) ==
  /\ Dispatch /\ Mine(c, i) /\ kbo[i].fb = "none"
  /\ kbo' = [kbo EXCEPT ![i].fb = "user", ![i].refs = @ + 1]
  /\ UNCHANGED <<klock, kopen, nextHandle, reap, list, rVars, vbo>>
  /\ imp' = After

\* KMS_OP_RMFB: refused while a pending commit shows it, else taken off the planes.
KRmFb(c, i) ==
  /\ Dispatch /\ kbo[i].owner = c /\ kbo[i].fb = "user"
  /\ LET left == Unreferenced(One({i}))
     IN /\ kbo' = IF left[i].kind = "free" THEN left ELSE [left EXCEPT ![i].fb = "none"]
        /\ reap' = Reaped(left)
  /\ UNCHANGED <<klock, kopen, nextHandle, list, rVars, vbo>>
  /\ imp' = After

\* complete, by the vblank thread: a plane drops the framebuffer it showed.
VblankDrops(i) ==
  /\ klock = NoOne /\ list[Vblank] = NoFds /\ kbo[i].fb = "plane"
  /\ LET left == Unreferenced(One({i}))
     IN /\ kbo' = IF left[i].kind = "free" THEN left ELSE [left EXCEPT ![i].fb = "none"]
        /\ reap' = Reaped(left)
  /\ UNCHANGED <<klock, kopen, nextHandle, imp, list, rVars, vbo>>

\* Mutant: the alias takes no reference on the BO it names.
AliasedUnref(i, j, c) ==
  [kbo EXCEPT ![i] = [FreeK EXCEPT !.kind = "alias", !.owner = c, !.open = TRUE, !.refs = 1,
                                   !.name = kbo[j].name, !.src = j]]

Aliased(i, j, c) ==
  [kbo EXCEPT ![i] = [FreeK EXCEPT !.kind = "alias", !.owner = c, !.open = TRUE, !.refs = 1,
                                   !.name = kbo[j].name, !.src = j],
              ![j].refs = @ + 1]

\* import_alias: BO i becomes this client's handle of another client's pool BO j.
KAlias(c, i, j) ==
  /\ Dispatch /\ c \in kopen /\ Free(i)
  /\ kbo[j].kind = "pool" /\ ~Mine(c, j)
  /\ ~\E a \in KIdx : Mine(c, a) /\ kbo[a].kind = "alias" /\ kbo[a].src = j
  /\ kbo' = Aliased(i, j, c)
  /\ UNCHANGED <<klock, kopen, nextHandle, reap, list, rVars, vbo>>
  /\ imp' = After

-----------------------------------------------------------------------------
(* The display server: imports of /v3dbuf names.                           *)

\* KMS_OP_PRIME_IMPORT with ns=v3dbuf: the dispatch thread has the lock.
KImport(c, v) ==
  /\ imp.at = "idle" /\ klock = NoOne /\ c \in kopen
  /\ klock' = Main
  /\ imp' = [at |-> "look", client |-> c, name |-> v]
  /\ UNCHANGED <<kopen, kbo, nextHandle, reap, list, rVars, vbo>>

KLock ==
  /\ imp.at = "mapped" /\ klock = NoOne
  /\ klock' = Main
  /\ imp' = [imp EXCEPT !.at = "install"]
  /\ UNCHANGED <<kopen, kbo, nextHandle, reap, list, rVars, vbo>>

\* import_find
KFound == \E i \in KIdx : Mine(imp.client, i) /\ kbo[i].kind = "import" /\ kbo[i].name = imp.name

\* kms_import_lookup
KLook ==
  /\ imp.at = "look"
  /\ klock' = NoOne
  /\ UNCHANGED <<kopen, kbo, nextHandle, reap, list, rVars, vbo>>
  /\ imp' = IF KFound THEN After ELSE [imp EXCEPT !.at = "map"]

\* kms_import_map, unlocked: mtOpen at the /v3dbuf thread takes a reference,
\* under the render server's lock.
KMap ==
  /\ imp.at = "map" /\ rlock = NoOne /\ VRefs(imp.name) > 0
  /\ vbo' = [vbo EXCEPT ![imp.name].opens = @ + 1]
  /\ imp' = [imp EXCEPT !.at = "mapped"]
  /\ UNCHANGED <<klock, kopen, kbo, nextHandle, reap, list, rVars>>

\* No such name, or a failure after the open, which closes it again.
KMapFails ==
  /\ imp.at = "map" /\ rlock = NoOne
  /\ UNCHANGED <<klock, kopen, kbo, nextHandle, reap, list, rVars, vbo>>
  /\ imp' = After

NotInstalled == [reap EXCEPT ![imp.name] = @ + 1]

\* kms_import_install: the client cannot have closed, the same thread would
\* have served it.  Not contiguous or no BO slot: queued for kms_reap.
KInstall ==
  /\ imp.at = "install"
  /\ \/ \E i \in KIdx :
          /\ Free(i) /\ ~KFound
          /\ kbo' = [kbo EXCEPT ![i] = [FreeK EXCEPT !.kind = "import", !.owner = imp.client,
                                                     !.open = TRUE, !.refs = 1, !.name = imp.name]]
          /\ UNCHANGED reap
     \/ /\ reap' = NotInstalled
        /\ UNCHANGED kbo
  /\ klock' = NoOne
  /\ imp' = After
  /\ UNCHANGED <<kopen, nextHandle, list, rVars, vbo>>

\* Mutant: the list is not emptied by the thread that takes it.
TakenKept == UNCHANGED reap

Taken == reap' = NoFds

\* kms_reap, by the dispatch thread after a request that left something on the
\* list, by the vblank thread when it sees something: take the list under the lock.
KReap(t) ==
  /\ t = Main => imp.at = "reap"
  /\ klock = NoOne /\ reap # NoFds /\ list[t] = NoFds
  /\ list' = [list EXCEPT ![t] = reap]
  /\ Taken
  /\ imp' = IF t = Main THEN [imp EXCEPT !.at = "closing"] ELSE imp
  /\ UNCHANGED <<klock, kopen, kbo, nextHandle, rVars, vbo>>

\* ... and close each descriptor without it: mtClose at the /v3dbuf thread.
KCloseFd(t, v) ==
  /\ list[t][v] > 0 /\ rlock = NoOne
  /\ list' = [list EXCEPT ![t][v] = @ - 1]
  /\ vbo' = [vbo EXCEPT ![v].opens = @ - 1]
  /\ UNCHANGED <<klock, kopen, kbo, nextHandle, imp, reap, rVars>>

\* The dispatch thread has closed its part, or the vblank thread took the list
\* first: it receives the next request.
KNextRequest ==
  /\ \/ imp.at = "reap" /\ reap = NoFds
     \/ imp.at = "closing" /\ list[Main] = NoFds
  /\ imp' = NoImp
  /\ UNCHANGED <<klock, kopen, kbo, nextHandle, reap, list, rVars, vbo>>

-----------------------------------------------------------------------------
RThread(t) == RLock(t) \/ RLook(t) \/ RMap(t) \/ RMapFails(t) \/ RInstall(t)
KThread == KLock \/ KLook \/ KMap \/ KMapFails \/ KInstall \/ KNextRequest
Closing(t) == KReap(t) \/ \E v \in VNames : KCloseFd(t, v)

RRequest ==
  \/ \E s \in RSlots : ROpen(s) \/ RClose(s)
  \/ \E i \in RIdx : RBoClose(i)
  \/ \E t \in RThreads, s \in RSlots, n \in KNames : RImport(t, s, n)
  \/ \E v \in VNames : VClose(v)

KRequest ==
  \E c \in KClients :
    \/ KOpen(c) \/ KClose(c)
    \/ \E i \in KIdx : KCreate(c, i) \/ KDestroy(c, i) \/ KAddFb(c, i) \/ KRmFb(c, i)
    \/ \E i, j \in KIdx : KAlias(c, i, j)
    \/ \E v \in VNames : KImport(c, v)

Next ==
  \/ RRequest \/ KRequest
  \/ \E t \in RThreads : RThread(t)
  \/ KThread
  \/ \E t \in {Main, Vblank} : Closing(t)
  \/ \E i \in RIdx : RPoll(i)
  \/ \E i \in KIdx : VblankDrops(i)

Spec == Init /\ [][Next]_vars

=============================================================================
