---------------------------- MODULE V3DIrqProofs ----------------------------
(***************************************************************************)
(* Proofs about the interrupt handler and the overflow memory: no job is   *)
(* completed by a stale bit, no binner is given a chunk it did not ask for,*)
(* and no chunk is lost, held twice or reused too early.                   *)
(***************************************************************************)
EXTENDS V3DIrq, FiniteSetTheorems, NaturalsInduction, WellFoundedInduction, TLAPS

Stages == {"new", "queued", "bin", "bin-orphan", "binned", "ren", "done"}
PoolRec == [free : SUBSET Chunks, staged : Chunks \cup {None}, waiting : Int,
            attach : [Jobs -> SUBSET Chunks], va : Chunks \cup {None}]
HRec == [pc : {"idle", "clear", "grant", "report", "or"}, core : SUBSET Bits,
         va : Chunks \cup {None}, old : BOOLEAN]
TRec == [pc : {"free", "poll", "events", "tick", "sched", "flush", "drain", "or", "start"},
         q : {"bin", "ren"}, j : Jobs \cup {None}, core : SUBSET {"FL", "FR"}]

\* The types, of each part of the state.
JobTypes == st \in [Jobs -> Stages] /\ bad \subseteq Jobs
PoolTypes ==
  /\ free \subseteq Chunks /\ staged \in Chunks \cup {None} /\ waiting \in Int
  /\ attach \in [Jobs -> SUBSET Chunks] /\ stageVa \in Chunks \cup {None}
WordTypes == consumed \in Chunks \cup {None} /\ missed \in Nat /\ sts \subseteq Bits /\ ev \subseteq Bits
UnitTypes ==
  /\ hbin \in Jobs \cup {None} /\ hren \in Jobs \cup {None} /\ stalled \in BOOLEAN
  /\ given \in [Jobs -> SUBSET Chunks] /\ regrant \in BOOLEAN /\ tested \in BOOLEAN /\ irq \in BOOLEAN
Types == JobTypes /\ PoolTypes /\ WordTypes /\ UnitTypes /\ h \in HRec /\ th \in TRec

\* Who runs the handler, and what an idle one holds.
Handling ==
  /\ h.pc = "idle" => h.core = {}
  /\ h.pc # "idle" => irq \/ th.pc = "poll"
  /\ th.pc = "poll" => ~irq

\* Thread t kicks unit q; there is one job on a unit, and it is the one kicked.
Kicks(t, q) == t.pc \in {"flush", "drain", "or", "start"} /\ t.q = q
OneOf(q, on, t) == /\ \A i, k \in on : i = k
                   /\ Kicks(t, q) => t.j \in on
OneEach == OneOf("bin", Bins, th) /\ OneOf("ren", Renders, th)

\* The done bit of a unit that works on u, when the server has the jobs on there: it
\* is of the job that is on, it is cleared from the status before it gets to the
\* event word, and a kick begins without it but for a handler that it waits for.
Bit(q) == IF q = "bin" THEN "FL" ELSE "FR"
Tells(q, u, on, s, e, hh, t) ==
  /\ u # None => /\ u \in on /\ ~Kicks(t, q)
                 /\ Bit(q) \notin s /\ Bit(q) \notin e /\ Bit(q) \notin hh.core
                 /\ t.pc \in {"drain", "or"} => Bit(q) \notin t.core
  /\ Bit(q) \in s => /\ on # {} /\ ~Kicks(t, q) /\ Bit(q) \notin e
                     /\ hh.pc \in {"grant", "report", "or"} => Bit(q) \notin hh.core
                     /\ t.pc = "or" => Bit(q) \notin t.core
  /\ Kicks(t, q) => /\ Bit(q) \notin t.core
                    /\ Bit(q) \in hh.core => hh.old /\ t.pc = "flush"
                    /\ t.pc = "start" => Bit(q) \notin e
Told == Tells("bin", hbin, Bins, sts, ev, h, th) /\ Tells("ren", hren, Renders, sts, ev, h, th)

\* A stall is on its way to be answered in at most one place.
One(b) == IF b THEN 1 ELSE 0
Taken(hh) == IF hh.pc = "report" THEN hh.va ELSE None
Asks(s, hh, m, w, stl) ==
  /\ m \in Nat /\ w \in Nat
  /\ One("OOM" \in s) + One(hh.pc = "grant") + One(hh.pc = "report" /\ hh.va = None) + m + w <= One(stl)
  /\ hh.pc = "clear" /\ "OOM" \in hh.core => "OOM" \in s
Asked ==
  /\ Asks(sts, h, missed, waiting, stalled)
  /\ stalled \/ Taken(h) # None => hbin # None

\* The staged chunk x is in the word v for the handler, in its hands, or reported.
Hands(x, v, t, c) ==
  /\ v \in {None, x} /\ t \in {None, x} /\ c \in {None, x}
  /\ x # None => \/ v # None /\ t = None /\ c = None
                 \/ v = None /\ t # None /\ c = None
                 \/ v = None /\ t = None /\ c # None
Staging == Hands(staged, stageVa, Taken(h), consumed)

\* Every chunk is in one place.
Apart(f, x, a) ==
  /\ \A c \in Chunks : c \in f \/ c = x \/ \E j \in Jobs : c \in a[j]
  /\ x \notin f /\ \A j \in Jobs : x \notin a[j] /\ a[j] \cap f = {}
  /\ \A i, j \in Jobs : i # j => a[i] \cap a[j] = {}
Placed == Apart(free, staged, attach)

\* What the binner was given for a list that needs it is on the list, or on its
\* way there.
Needs(j) == hbin = j \/ hren = j \/ (st[j] \in {"bin", "binned", "ren"} /\ j \notin bad)
Holds(c, l, x, v, on) == c \in l \/ (c = x /\ v = None /\ on)
Backed ==
  /\ \A j \in Jobs : Needs(j) =>
       \A c \in given[j] : Holds(c, attach[j], staged, stageVa, j \in Bins)
  /\ \A j \in Jobs : st[j] \in {"new", "queued"} => given[j] = {}
  /\ \A j \in bad : st[j] \in {"binned", "done"}
  /\ Kicks(th, "bin") => st[th.j] = "bin"

\* The inductive invariant; Exact is lost with a self-test.
Exact == Told /\ Asked /\ Backed /\ ~regrant
IrqInv ==
  /\ Types /\ Handling /\ OneEach /\ Staging /\ Placed
  /\ ~tested => Exact

-----------------------------------------------------------------------------
(* Operations on the pool                                                  *)

\* Chunks and jobs are numbers, none of them 0.
LEMMA Numbers ==
  /\ NJobs \in Nat /\ NChunks \in Nat
  /\ \A c \in Chunks : c \in Nat /\ c # None
  /\ \A j \in Jobs : j \in Nat /\ j # None
BY IrqAssumption, SMTT(30) DEF Chunks, Jobs, None

\* A nonempty set of chunks has a least one.
LEMMA LeastChunk ==
  ASSUME NEW S \in SUBSET Chunks, S # {}
  PROVE  Min(S) \in S
<1> DEFINE R == OpToRel(<, Nat)
<1>1. IsWellFoundedOn(R, Nat) /\ S \in SUBSET Nat
  BY NatLessThanWellFounded, Numbers, ZenonT(20)
<1>2. \A x, y \in Nat : x < y => <<x, y>> \in R
  BY SMTT(30) DEF OpToRel
<1> HIDE DEF R
<1>3. PICK i \in S : \A k \in S : ~(<<k, i>> \in R)
  BY Zenon, <1>1, WFMin
<1>4. \A k \in S : i \in Nat /\ k \in Nat
  BY <1>1, SMTT(30)
<1>5. \A k \in S : ~(k < i)
  BY <1>2, <1>3, <1>4, ZenonT(20)
<1>6. \A k \in S : i =< k
  BY <1>4, <1>5, SMTT(30)
<1> QED
  BY <1>6, SMTT(30) DEF Min

\* ovf_stage takes a chunk of the free list if none is staged.
Stages1(p, r) ==
  /\ r.waiting = p.waiting /\ r.attach = p.attach
  /\ \/ r.staged = p.staged /\ r.va = p.va /\ r.free = p.free
     \/ p.staged = None /\ r.staged \in p.free /\ r.va = r.staged /\ r.free = p.free \ {r.staged}

\* ovf_stage does that, and leaves a well-formed pool.
LEMMA StageFacts ==
  ASSUME NEW p \in PoolRec
  PROVE  Stage(p) \in PoolRec /\ Stages1(p, Stage(p))
<1>1. CASE p.staged # None \/ p.free = {}
  BY <1>1, SMTT(30) DEF Stage, Stages1
<1>2. CASE ~(p.staged # None \/ p.free = {})
  <2>1. p.free \in SUBSET Chunks
    BY SMTT(30) DEF PoolRec
  <2>2. PICK c \in p.free : c = Min(p.free)
    BY <1>2, <2>1, LeastChunk, SMTT(30)
  <2>3. Stage(p) = [p EXCEPT !.free = @ \ {c}, !.staged = c, !.va = c]
    BY <1>2, <2>2, SMTT(30) DEF Stage
  <2>4. c \in Chunks
    BY <2>1, SMTT(30)
  <2>5. [p EXCEPT !.free = @ \ {c}, !.staged = c, !.va = c] \in PoolRec
    BY <2>4, ZenonT(20) DEF PoolRec
  <2> QED
    BY <1>2, <2>3, <2>5, SMTT(30) DEF Stages1, PoolRec
<1> QED
  BY <1>1, <1>2, ZenonT(20)

\* Chunks G pass from the free list to the list of the one job of B.
Moved(a, b, B, G) == b = [j \in Jobs |-> IF j \in B THEN a[j] \cup G ELSE a[j]]
Single(B, G) == (\A i, k \in B : i = k) /\ (B = {} => G = {})

\* The move keeps each chunk in one place.
LEMMA ApartMove ==
  ASSUME NEW f \in SUBSET Chunks, NEW x, NEW a \in [Jobs -> SUBSET Chunks], Apart(f, x, a),
         NEW B \in SUBSET Jobs, NEW G \in SUBSET f, Single(B, G),
         NEW b, Moved(a, b, B, G)
  PROVE  Apart(f \ G, x, b)
<1>1. \A j \in Jobs : b[j] = IF j \in B THEN a[j] \cup G ELSE a[j]
  BY ZenonT(20) DEF Moved
<1>2. ASSUME NEW c \in Chunks
      PROVE  c \in f \ G \/ c = x \/ \E j \in Jobs : c \in b[j]
  <2>1. CASE c \in G
    <3>1. PICK j \in B : TRUE
      BY <2>1, SMTT(30) DEF Single
    <3>2. c \in b[j] /\ j \in Jobs
      BY <1>1, <2>1, ZenonT(20)
    <3> QED
      BY <3>2, SMTT(30)
  <2>2. CASE c \notin G
    <3>1. c \in f \/ c = x \/ \E j \in Jobs : c \in a[j]
      BY ZenonT(20) DEF Apart
    <3>2. \A j \in Jobs : c \in a[j] => c \in b[j]
      BY <1>1, ZenonT(20)
    <3> QED
      BY <2>2, <3>1, <3>2, ZenonT(20)
  <2> QED
    BY <2>1, <2>2, ZenonT(20)
<1>3. x \notin f \ G /\ \A j \in Jobs : x \notin b[j] /\ b[j] \cap (f \ G) = {}
  BY <1>1, ZenonT(20) DEF Apart
<1>4. \A i, j \in Jobs : i # j => b[i] \cap b[j] = {}
  BY <1>1, ZenonT(20) DEF Apart, Single
<1> QED
  BY <1>2, <1>3, <1>4, ZenonT(20) DEF Apart

\* A free chunk is staged, or the staged one goes back.
LEMMA ApartStage ==
  ASSUME NEW f \in SUBSET Chunks, NEW x, NEW a \in [Jobs -> SUBSET Chunks], Apart(f, x, a)
  PROVE  /\ x = None => \A c \in f : Apart(f \ {c}, c, a)
         /\ Apart(f \cup ({x} \ {None}), None, a)
BY Numbers, ZenonT(20) DEF Apart

\* The lists of the jobs D are freed.
LEMMA ApartDone ==
  ASSUME NEW f \in SUBSET Chunks, NEW x, NEW a \in [Jobs -> SUBSET Chunks], Apart(f, x, a),
         NEW D \in SUBSET Jobs
  PROVE  Apart(f \cup UNION {a[j] : j \in D}, x, [j \in Jobs |-> IF j \in D THEN {} ELSE a[j]])
<1> DEFINE b == [j \in Jobs |-> IF j \in D THEN {} ELSE a[j]]
           U == UNION {a[j] : j \in D}
<1>1. \A j \in Jobs : b[j] = IF j \in D THEN {} ELSE a[j]
  BY ZenonT(20)
<1>2. \A c : c \in U <=> \E j \in D : c \in a[j]
  BY ZenonT(20)
<1> HIDE DEF b, U
<1>3. ASSUME NEW c \in Chunks
      PROVE  c \in f \cup U \/ c = x \/ \E j \in Jobs : c \in b[j]
  BY <1>1, <1>2, ZenonT(20) DEF Apart
<1>4. x \notin f \cup U
  BY <1>2, ZenonT(20) DEF Apart
<1>5. ASSUME NEW j \in Jobs
      PROVE  x \notin b[j] /\ b[j] \cap (f \cup U) = {}
  BY <1>1, <1>2, ZenonT(20) DEF Apart
<1>6. \A i, j \in Jobs : i # j => b[i] \cap b[j] = {}
  BY <1>1, ZenonT(20) DEF Apart
<1>7. Apart(f \cup U, x, b)
  BY <1>3, <1>4, <1>5, <1>6, ZenonT(20) DEF Apart
<1> QED
  BY <1>7, ZenonT(20) DEF b, U

\* chunk_attach.
Attaches(p, C, r) ==
  /\ r.free = p.free /\ r.staged = p.staged /\ r.waiting = p.waiting /\ r.va = p.va
  /\ r.attach = [j \in Jobs |-> IF j \in Bins THEN p.attach[j] \cup C ELSE p.attach[j]]

\* chunk_attach does that, and leaves a well-formed pool.
LEMMA AttachFacts ==
  ASSUME NEW p \in PoolRec, NEW C \in SUBSET Chunks
  PROVE  Attach(p, C) \in PoolRec /\ Attaches(p, C, Attach(p, C))
<1>1. PICK b \in [Jobs -> SUBSET Chunks] :
        b = [j \in Jobs |-> IF j \in Bins THEN p.attach[j] \cup C ELSE p.attach[j]]
  BY ZenonT(20) DEF PoolRec
<1>2. Attach(p, C) = [p EXCEPT !.attach = b]
  BY <1>1, ZenonT(20) DEF Attach
<1> QED
  BY <1>1, <1>2, ZenonT(20) DEF Attaches, PoolRec

\* ovf_service attributes what the handler has reported.
Attributed(r) ==
  /\ r.waiting = waiting /\ r.va = stageVa
  /\ consumed = None => r.staged = staged /\ r.free = free /\ r.attach = attach
  /\ consumed # None =>
       /\ r.staged = None
       /\ r.free = (IF Bins = {} THEN free \cup {consumed} ELSE free)
       /\ r.attach = [j \in Jobs |-> IF j \in Bins THEN attach[j] \cup {consumed} ELSE attach[j]]

\* The record the pool operations work on has the values of the variables.
LEMMA PoolFields ==
  ASSUME PoolTypes
  PROVE  /\ Pool \in PoolRec /\ Pool.free = free /\ Pool.staged = staged /\ Pool.waiting = waiting
         /\ Pool.attach = attach /\ Pool.va = stageVa
BY SMTT(30) DEF PoolTypes, PoolRec, Pool

\* The attribution at the head of ovf_service does that, and each chunk stays in one place.
LEMMA AttributeFacts ==
  ASSUME Types, Staging, OneEach, Placed
  PROVE  LET r == Attribute(Pool)
         IN  r \in PoolRec /\ Attributed(r) /\ Apart(r.free, r.staged, r.attach)
<1> DEFINE r == Attribute(Pool)
<1>0. PoolTypes /\ consumed \in Chunks \cup {None} /\ consumed \in {None, staged}
  BY ZenonT(20) DEF Types, WordTypes, Staging, Hands
<1>1. CASE consumed = None
  <2>1. r = Pool
    BY <1>1, ZenonT(20) DEF Attribute
  <2> QED
    BY <1>0, <1>1, <2>1, PoolFields, ZenonT(20) DEF Attributed, Placed
<1>2. CASE consumed # None
  <2>1. PICK c \in Chunks : c = consumed /\ c = staged /\ c # None
    BY <1>0, <1>2, ZenonT(20)
  <2>2. PICK p : p = [Pool EXCEPT !.staged = IF @ = consumed THEN None ELSE @]
    BY Zenon
  <2>3. /\ p \in PoolRec /\ p.free = free /\ p.staged = None /\ p.waiting = waiting
        /\ p.attach = attach /\ p.va = stageVa
    BY <1>0, <2>1, <2>2, PoolFields, ZenonT(20) DEF PoolRec
  <2>4. free \in SUBSET Chunks /\ attach \in [Jobs -> SUBSET Chunks] /\ Apart(free \cup {c}, None, attach)
    <3>1. Apart(free \cup ({staged} \ {None}), None, attach)
      BY <1>0, ApartStage, ZenonT(20) DEF PoolTypes, Placed
    <3>2. free \cup ({staged} \ {None}) = free \cup {c}
      BY <2>1, ZenonT(20)
    <3> QED
      BY <1>0, <3>1, <3>2, ZenonT(20) DEF PoolTypes
  <2>5. CASE Bins = {}
    <3>1. r = [p EXCEPT !.free = @ \cup {consumed}]
      BY <1>2, <2>2, <2>5, ZenonT(20) DEF Attribute
    <3>2. r \in PoolRec /\ r.free = free \cup {c} /\ r.staged = None /\ r.waiting = waiting
          /\ r.attach = attach /\ r.va = stageVa
      <4>1. PICK f \in SUBSET Chunks : f = free \cup {c}
        BY <2>1, <2>4, SMTT(30)
      <4>2. r = [p EXCEPT !.free = f]
        BY <2>1, <2>3, <3>1, <4>1, ZenonT(20)
      <4> QED
        BY <2>3, <4>1, <4>2, ZenonT(20) DEF PoolRec
    <3>3. attach = [j \in Jobs |-> IF j \in Bins THEN attach[j] \cup {consumed} ELSE attach[j]]
      BY <2>4, <2>5, ZenonT(20)
    <3> QED
      <4>1. Attributed(r)
        BY <1>2, <2>1, <2>5, <3>2, <3>3, ZenonT(20) DEF Attributed
      <4> QED
        BY <2>4, <3>2, <4>1, ZenonT(20)
  <2>6. CASE Bins # {}
    <3>1. r = Attach(p, {consumed})
      BY <1>2, <2>2, <2>6, ZenonT(20) DEF Attribute
    <3>2. r \in PoolRec /\ Attaches(p, {consumed}, r)
      BY <2>1, <2>3, <3>1, AttachFacts, ZenonT(20)
    <3>3. Attributed(r)
      BY <1>2, <2>3, <2>6, <3>2, ZenonT(20) DEF Attributed, Attaches
    <3>4. PICK f \in SUBSET Chunks : f = free \cup {c}
      BY <2>1, <2>4, ZenonT(20)
    <3>5. Bins \in SUBSET Jobs /\ Single(Bins, {c}) /\ {c} \in SUBSET f /\ Apart(f, None, attach)
      BY <2>4, <2>6, <3>4, ZenonT(20) DEF Bins, OneEach, OneOf, Single
    <3>6. Moved(attach, r.attach, Bins, {c})
      BY <2>1, <2>3, <3>2, ZenonT(20) DEF Attaches, Moved
    <3>9. Apart(f \ {c}, None, r.attach)
      BY <2>4, <3>4, <3>5, <3>6, ApartMove, ZenonT(20)
    <3>7. c \notin free
      BY <2>1, ZenonT(20) DEF Placed, Apart
    <3>8. f \ {c} = free
      BY <3>4, <3>7, ZenonT(20)
    <3> QED
      BY <1>2, <2>1, <2>6, <3>2, <3>3, <3>9, <3>8, SMTT(30) DEF Attributed
  <2> QED
    BY <2>5, <2>6, ZenonT(20)
<1> QED
  BY <1>1, <1>2, ZenonT(20)

\* What a service has granted; at most as much as it owes, if that is one.
LEMMA GrantedFacts ==
  ASSUME NEW p \in PoolRec, Owed \in Int
  PROVE  /\ Granted(p) \in SUBSET p.free /\ Granted(p) \in SUBSET Chunks
         /\ IsFiniteSet(Granted(p)) /\ Cardinality(Granted(p)) \in Nat
         /\ Owed = 0 => Granted(p) = {}
         /\ Owed = 1 => Cardinality(Granted(p)) <= 1
<1> DEFINE G == Granted(p)
           Less(c) == {d \in p.free : d < c}
<1>1. p.free \in SUBSET Chunks /\ G \in SUBSET p.free
  BY ZenonT(20) DEF PoolRec, Granted
<1>2. \A S \in SUBSET Chunks : IsFiniteSet(S) /\ Cardinality(S) \in Nat
  <2>1. IsFiniteSet(Chunks)
    BY Numbers, FS_Interval, SMTT(30) DEF Chunks
  <2> QED
    BY <2>1, FS_Subset, FS_CardinalityType, ZenonT(20)
<1>3. G \in SUBSET Chunks
  BY <1>1, ZenonT(20)
<1>4. \A c \in p.free : Cardinality(Less(c)) \in Nat /\ IsFiniteSet(Less(c)) /\ Less(c) \in SUBSET Chunks
  <2>1. \A c \in p.free : Less(c) \in SUBSET Chunks
    BY <1>1, ZenonT(20)
  <2> QED
    BY <1>2, <2>1, ZenonT(20)
<1>5. \A c \in G : c \in p.free /\ Cardinality(Less(c)) < Owed
  BY ZenonT(20) DEF Granted
<1> HIDE DEF G, Less
<1>6. Owed = 0 => G = {}
  BY <1>4, <1>5, SMTT(30)
<1>7. ASSUME Owed = 1
      PROVE  Cardinality(G) <= 1
  <2>1. \A c \in G : Less(c) = {}
    <3>1. \A c \in G : Cardinality(Less(c)) = 0
      BY <1>4, <1>5, <1>7, SMTT(30)
    <3> QED
      BY <1>4, <1>5, <3>1, FS_EmptySet, ZenonT(20)
  <2>2. ASSUME NEW c \in G, NEW d \in G PROVE c = d
    <3>1. c \in Nat /\ d \in Nat /\ c \in p.free /\ d \in p.free
      BY <1>3, <1>5, Numbers, ZenonT(20)
    <3>2. ~(c < d) /\ ~(d < c)
      BY <2>1, <3>1, ZenonT(20) DEF Less
    <3> QED
      BY <3>1, <3>2, SMTT(30)
  <2>3. CASE G = {}
    BY <2>3, FS_EmptySet, SMTT(30)
  <2>4. CASE G # {}
    <3>1. PICK c \in G : TRUE
      BY <2>4, ZenonT(20)
    <3>2. G = {c}
      BY <2>2, <3>1, ZenonT(20)
    <3> QED
      BY <3>2, FS_Singleton, SMTT(30)
  <2> QED
    BY <2>3, <2>4, SMTT(30)
<1> QED
  BY <1>1, <1>2, <1>3, <1>6, <1>7, ZenonT(20) DEF G

\* What ovf_service does to the pool, when it has granted G.
Services(G, r) ==
  /\ r \in PoolRec /\ Apart(r.free, r.staged, r.attach)
  /\ Hands(r.staged, r.va, Taken(h), None)
  /\ consumed = None /\ staged # None => r.staged = staged /\ r.va = stageVa
  /\ \A j \in Jobs : r.attach[j] = IF j \in Bins THEN attach[j] \cup ({consumed} \ {None}) \cup G ELSE attach[j]
  /\ r.waiting = Owed - Cardinality(G)

\* ovf_service does that.
LEMMA ServicedFacts ==
  ASSUME Types, Staging, OneEach, Placed
  PROVE  Services(Granted(Attribute(Pool)), Stage(Grant(Attribute(Pool))))
<1>1. PICK p \in PoolRec : p = Attribute(Pool) /\ Attributed(p) /\ Apart(p.free, p.staged, p.attach)
  BY AttributeFacts, ZenonT(20)
<1>2. Owed \in Int
  BY SMTT(30) DEF Owed, Types, PoolTypes, WordTypes
<1>3. PICK G \in SUBSET Chunks : G = Granted(p)
  BY <1>2, GrantedFacts, ZenonT(20)
<1>4. /\ G \in SUBSET p.free /\ Cardinality(G) \in Nat
      /\ Owed = 0 => G = {}
  BY <1>2, <1>3, GrantedFacts, ZenonT(20)
<1>5. PICK a \in PoolRec : a = Attach(p, G) /\ Attaches(p, G, a)
  BY AttachFacts, ZenonT(20)
<1>6. PICK w \in Int : w = Owed - Cardinality(G)
  BY <1>2, <1>4, SMTT(30)
<1>7. PICK g : g = [a EXCEPT !.free = @ \ G, !.waiting = w]
  BY ZenonT(20)
<1>8. g = Grant(p)
  BY <1>3, <1>5, <1>6, <1>7, ZenonT(20) DEF Grant
<1>9. /\ g \in PoolRec /\ g.free = p.free \ G /\ g.staged = p.staged /\ g.waiting = w /\ g.va = p.va
      /\ g.attach = [j \in Jobs |-> IF j \in Bins THEN p.attach[j] \cup G ELSE p.attach[j]]
  BY <1>5, <1>7, ZenonT(20) DEF PoolRec, Attaches
<1>10. Apart(g.free, g.staged, g.attach)
  <2>1. Bins \in SUBSET Jobs /\ \A i, k \in Bins : i = k
    BY ZenonT(20) DEF Bins, OneEach, OneOf
  <2>2. p.free \in SUBSET Chunks /\ p.attach \in [Jobs -> SUBSET Chunks]
    BY ZenonT(20) DEF PoolRec
  <2>3. Bins = {} => G = {}
    <3>1. Bins = {} => Owed = 0
      BY Zenon DEF Owed
    <3> QED
      BY <1>4, <3>1, Zenon
  <2>4. Apart(p.free \ G, p.staged, g.attach)
    <3>1. Single(Bins, G)
      BY <2>1, <2>3, ZenonT(20) DEF Single
    <3>2. Moved(p.attach, g.attach, Bins, G)
      BY <1>9, ZenonT(20) DEF Moved
    <3> QED
      BY <1>1, <1>4, <2>1, <2>2, <3>1, <3>2, ApartMove, ZenonT(20)
  <2> QED
    BY <1>9, <2>4, ZenonT(20)
<1>11. PICK r \in PoolRec : r = Stage(g) /\ Stages1(g, r)
  BY <1>9, StageFacts, ZenonT(20)
<1>12. r = Stage(Grant(Attribute(Pool)))
  BY <1>1, <1>8, <1>11, ZenonT(20)
<1>13. Apart(r.free, r.staged, r.attach)
  <2>1. g.free \in SUBSET Chunks /\ g.attach \in [Jobs -> SUBSET Chunks]
    BY <1>9, ZenonT(20) DEF PoolRec
  <2>2. g.staged = None => \A c \in g.free : Apart(g.free \ {c}, c, g.attach)
    BY <1>10, <2>1, ApartStage, ZenonT(20)
  <2> QED
    BY <1>10, <1>11, <2>2, ZenonT(20) DEF Stages1
<1>14. r.attach = g.attach /\ r.waiting = w
  BY <1>9, <1>11, SMTT(30) DEF Stages1
<1>15. \A j \in Jobs : r.attach[j] = IF j \in Bins THEN attach[j] \cup ({consumed} \ {None}) \cup G ELSE attach[j]
  <2>1. \A j \in Jobs : r.attach[j] = IF j \in Bins THEN p.attach[j] \cup G ELSE p.attach[j]
    BY <1>9, <1>14, ZenonT(20)
  <2>2. \A j \in Jobs : p.attach[j] = IF j \in Bins THEN attach[j] \cup ({consumed} \ {None}) ELSE attach[j]
    BY <1>1, ZenonT(20) DEF Attributed
  <2> QED
    BY <2>1, <2>2, ZenonT(20)
<1>16. /\ consumed = None => p.staged = staged
       /\ consumed # None => p.staged = None
       /\ p.va = stageVa
  BY <1>1, ZenonT(20) DEF Attributed
<1>17. \/ r.staged = p.staged /\ r.va = p.va
       \/ p.staged = None /\ r.staged \in Chunks /\ r.va = r.staged
  BY <1>9, <1>11, ZenonT(20) DEF Stages1, PoolRec
<1>18. consumed = None /\ staged # None => r.staged = staged /\ r.va = stageVa
  BY <1>16, <1>17, ZenonT(20)
<1>19. Hands(r.staged, r.va, Taken(h), None)
  BY <1>16, <1>17, Numbers, ZenonT(20) DEF Staging, Hands
<1> QED
  BY <1>1, <1>3, <1>6, <1>12, <1>13, <1>14, <1>15, <1>18, <1>19, ZenonT(20) DEF Services

\* job_done.
LEMMA DoneFacts ==
  ASSUME NEW p \in PoolRec, Apart(p.free, p.staged, p.attach), NEW D \in SUBSET Jobs
  PROVE  /\ Done(p, D) \in PoolRec
         /\ Apart(Done(p, D).free, Done(p, D).staged, Done(p, D).attach)
         /\ Done(p, D).staged = p.staged /\ Done(p, D).va = p.va /\ Done(p, D).waiting = p.waiting
         /\ \A j \in Jobs : Done(p, D).attach[j] = IF j \in Freed(D) THEN {} ELSE p.attach[j]
<1>1. Freed(D) \in SUBSET Jobs
  BY ZenonT(20) DEF Freed
<1>2. p.free \in SUBSET Chunks /\ p.attach \in [Jobs -> SUBSET Chunks]
  BY SMTT(30) DEF PoolRec
<1>3. PICK f \in SUBSET Chunks : f = p.free \cup UNION {p.attach[j] : j \in Freed(D)}
  BY <1>1, <1>2, ZenonT(20)
<1>4. PICK b \in [Jobs -> SUBSET Chunks] : b = [j \in Jobs |-> IF j \in Freed(D) THEN {} ELSE p.attach[j]]
  BY <1>1, <1>2, ZenonT(20)
<1>5. Apart(f, p.staged, b)
  BY <1>1, <1>2, <1>3, <1>4, ApartDone, SMTT(30)
<1>6. Done(p, D) = [p EXCEPT !.free = f, !.attach = b]
  BY <1>3, <1>4, SMTT(30) DEF Done
<1>7. /\ Done(p, D) \in PoolRec /\ Done(p, D).free = f /\ Done(p, D).attach = b
      /\ Done(p, D).staged = p.staged /\ Done(p, D).va = p.va /\ Done(p, D).waiting = p.waiting
  BY <1>6, ZenonT(20) DEF PoolRec
<1> QED
  BY <1>4, <1>5, <1>7, ZenonT(20)

\* Lists that need no more than before, while nothing is moved.
LEMMA BackedLess ==
  ASSUME Backed, st' = st, bad' = bad, attach' = attach, staged' = staged, stageVa' = stageVa,
         given' = given, Bins' = Bins, Kicks(th', "bin") => Kicks(th, "bin") /\ th'.j = th.j,
         \A j \in Jobs : Needs(j)' => Needs(j)
  PROVE  Backed'
<1>1. ASSUME NEW j \in Jobs, Needs(j)', NEW c \in given[j]
      PROVE  Holds(c, attach'[j], staged', stageVa', j \in Bins')
  <2>1. Holds(c, attach[j], staged, stageVa, j \in Bins)
    BY <1>1, Zenon DEF Backed
  <2> QED
    BY <2>1, Zenon
<1> QED
  BY <1>1, ZenonT(20) DEF Backed

\* The types of what the binner is given.
LEMMA GiveTypes ==
  ASSUME Types, hbin' = hbin, hren' = hren, tested' \in BOOLEAN, irq' \in BOOLEAN,
         NEW C \in SUBSET Chunks, Give(C)
  PROVE  UnitTypes'
<1>1. given' \in [Jobs -> SUBSET Chunks]
  BY ZenonT(20) DEF Types, UnitTypes, Give
<1>2. stalled' \in BOOLEAN /\ regrant' \in BOOLEAN
  BY Zenon DEF Give
<1> QED
  BY <1>1, <1>2, ZenonT(20) DEF Types, UnitTypes

-----------------------------------------------------------------------------
(* The units                                                               *)

\* What the units leave alone.
LEMMA HardwareFrame ==
  ASSUME Hardware
  PROVE  /\ st' = st /\ bad' = bad /\ attach' = attach /\ free' = free /\ staged' = staged
         /\ waiting' = waiting /\ stageVa' = stageVa /\ consumed' = consumed /\ missed' = missed
         /\ ev' = ev /\ irq' = irq /\ given' = given /\ regrant' = regrant /\ h' = h /\ th' = th
         /\ tested' = tested /\ Bins' = Bins /\ Renders' = Renders
<1>1. CASE BinStall
  BY <1>1, ZenonT(20) DEF BinStall, jobVars, ovfVars, wordVars, modeVars, Bins, Renders
<1>2. CASE BinFinish
  BY <1>2, ZenonT(20) DEF BinFinish, jobVars, ovfVars, wordVars, modeVars, ptbVars, Bins, Renders
<1>3. CASE RenFinish
  BY <1>3, ZenonT(20) DEF RenFinish, jobVars, ovfVars, wordVars, modeVars, ptbVars, Bins, Renders
<1> QED
  BY <1>1, <1>2, <1>3, Zenon DEF Hardware

\* A step of a unit: a stall asks once, and a completion tells of the job that is on.
LEMMA HardwareStep ==
  ASSUME Prompt, IrqInv, Hardware
  PROVE  IrqInv'
<1> USE HardwareFrame
<1>0. st' = st /\ bad' = bad /\ attach' = attach /\ staged' = staged /\ stageVa' = stageVa
      /\ given' = given /\ th' = th /\ Bins' = Bins
  BY ZenonT(20)
<1>1. Types'
  <2>1. UnitTypes' /\ sts' \subseteq Bits
    <3>1. CASE BinStall
      BY <3>1, ZenonT(20) DEF BinStall, IrqInv, Types, UnitTypes, WordTypes, Bits
    <3>2. CASE BinFinish
      BY <3>2, ZenonT(20) DEF BinFinish, ptbVars, IrqInv, Types, UnitTypes, WordTypes, Bits
    <3>3. CASE RenFinish
      BY <3>3, ZenonT(20) DEF RenFinish, ptbVars, IrqInv, Types, UnitTypes, WordTypes, Bits
    <3> QED
      BY <3>1, <3>2, <3>3, Zenon DEF Hardware
  <2> QED
    BY <2>1, ZenonT(20) DEF IrqInv, Types, JobTypes, PoolTypes, WordTypes
<1>2. Handling' /\ OneEach' /\ Staging' /\ Placed'
  BY SMT DEF IrqInv, Handling, OneEach, Staging, Placed
<1>3. ASSUME ~tested
      PROVE  Exact'
  <2>0. Told /\ Asked /\ Backed /\ ~regrant
    BY <1>3, Zenon DEF IrqInv, Exact
  <2>1. CASE BinStall
    <3>1. hbin' = hbin /\ hren' = hren /\ sts' = sts \cup {"OOM"} /\ stalled' = TRUE /\ hbin # None /\ ~stalled
          /\ h.pc # "report"
      BY <2>1, ZenonT(20) DEF BinStall, BinMoves
    <3>2. Told'
      BY <2>0, <3>1, ZenonT(20) DEF Told, Tells, Bit
    <3>3. Asked'
      BY <2>0, <3>1, SMTT(30) DEF Asked, Asks, One, Taken
    <3>4. Backed'
      <4>1. \A j \in Jobs : Needs(j)' => Needs(j)
        BY <1>0, <3>1, ZenonT(20) DEF Needs
      <4> QED
        BY <1>0, <2>0, <4>1, BackedLess, ZenonT(20)
    <3> QED
      BY <2>0, <3>2, <3>3, <3>4, SMTT(30) DEF Exact
  <2>2. CASE BinFinish
    <3>1. hbin' = None /\ hren' = hren /\ sts' = sts \cup {"FL"} /\ stalled' = stalled /\ hbin # None /\ ~stalled
          /\ h.pc # "report"
      BY <2>2, ZenonT(20) DEF BinFinish, BinMoves, ptbVars
    <3>2. Told'
      BY <2>0, <3>1, ZenonT(20) DEF Told, Tells, Bit
    <3>3. Asked'
      BY <2>0, <3>1, ZenonT(20) DEF Asked, Asks, One, Taken
    <3>4. Backed'
      <4>1. \A j \in Jobs : Needs(j)' => Needs(j)
        BY <1>0, <3>1, Numbers, ZenonT(20) DEF Needs
      <4> QED
        BY <1>0, <2>0, <4>1, BackedLess, ZenonT(20)
    <3> QED
      BY <2>0, <3>2, <3>3, <3>4, SMTT(30) DEF Exact
  <2>3. CASE RenFinish
    <3>1. hbin' = hbin /\ hren' = None /\ sts' = sts \cup {"FR"} /\ stalled' = stalled /\ hren # None
      BY <2>3, ZenonT(20) DEF RenFinish, ptbVars
    <3>2. Told'
      BY <2>0, <3>1, ZenonT(20) DEF Told, Tells, Bit
    <3>3. Asked'
      BY <2>0, <3>1, ZenonT(20) DEF Asked, Asks, One, Taken
    <3>4. Backed'
      <4>1. \A j \in Jobs : Needs(j)' => Needs(j)
        BY <1>0, <3>1, Numbers, ZenonT(20) DEF Needs
      <4> QED
        BY <1>0, <2>0, <4>1, BackedLess, ZenonT(20)
    <3> QED
      BY <2>0, <3>2, <3>3, <3>4, SMTT(30) DEF Exact
  <2> QED
    BY <2>1, <2>2, <2>3, Zenon DEF Hardware
<1> QED
  BY <1>1, <1>2, <1>3, SMTT(30) DEF IrqInv

-----------------------------------------------------------------------------
(* The handler                                                             *)

\* What the handler leaves alone.
LEMMA HandlerFrame ==
  ASSUME Handler
  PROVE  /\ st' = st /\ bad' = bad /\ attach' = attach /\ free' = free /\ staged' = staged
         /\ waiting' = waiting /\ irq' = irq /\ hbin' = hbin /\ hren' = hren /\ th' = th
         /\ tested' = tested /\ Bins' = Bins /\ Renders' = Renders
<1>1. tested' = tested /\ UNCHANGED handlerVars
  BY ZenonT(20) DEF Handler, HandlerEnter, HandlerClear, HandlerGrant, HandlerReport, HandlerLeave
<1> QED
  BY <1>1, ZenonT(20) DEF handlerVars, jobVars, ovfVars, Bins, Renders

\* The handler's own record, and what it does to the words.
Hand(pc, core, va, old) == h'.pc = pc /\ h'.core = core /\ h'.va = va /\ h'.old = old /\ h' \in HRec

\* Each step of the handler does that.
LEMMA HandlerFacts ==
  ASSUME Types
  PROVE  /\ HandlerEnter => /\ h.pc = "idle" /\ Hand("clear", sts, None, FALSE) /\ irq
                            /\ sts' = sts /\ ev' = ev /\ UNCHANGED wordVars /\ UNCHANGED ptbVars
         /\ HandlerClear => /\ h.pc = "clear" /\ Hand(IF "OOM" \in h.core THEN "grant" ELSE "or", h.core, h.va, h.old)
                            /\ sts' = sts \ h.core /\ ev' = ev /\ UNCHANGED wordVars /\ UNCHANGED ptbVars
         /\ HandlerGrant => /\ h.pc = "grant" /\ Hand("report", h.core, stageVa, h.old)
                            /\ sts' = sts /\ ev' = ev /\ stageVa' = None /\ consumed' = consumed
                            /\ missed' = missed /\ Give({stageVa} \ {None})
         /\ HandlerReport => /\ h.pc = "report" /\ Hand("or", h.core, h.va, h.old)
                             /\ sts' = sts /\ ev' = ev /\ stageVa' = stageVa /\ missed' = Missed(h.va)
                             /\ consumed' = (IF h.va # None THEN h.va ELSE consumed) /\ UNCHANGED ptbVars
         /\ HandlerLeave => /\ h.pc = "or" /\ Hand("idle", {}, None, FALSE)
                            /\ sts' = sts /\ ev' = ev \cup h.core /\ UNCHANGED wordVars /\ UNCHANGED ptbVars
<1> USE DEF Types, WordTypes, HRec, Hand
<1>1. HandlerEnter => h.pc = "idle" /\ Hand("clear", sts, None, FALSE) /\ irq
  BY ZenonT(20) DEF HandlerEnter, Idle
<1>2. HandlerClear => h.pc = "clear" /\ Hand(IF "OOM" \in h.core THEN "grant" ELSE "or", h.core, h.va, h.old)
  BY ZenonT(20) DEF HandlerClear
<1>3. HandlerGrant => h.pc = "grant" /\ Hand("report", h.core, stageVa, h.old)
  BY ZenonT(20) DEF HandlerGrant, PoolTypes
<1>4. HandlerReport => h.pc = "report" /\ Hand("or", h.core, h.va, h.old)
  BY ZenonT(20) DEF HandlerReport
<1>5. HandlerLeave => h.pc = "or" /\ Hand("idle", {}, None, FALSE)
  BY SMTT(30) DEF HandlerLeave, Idle
<1> HIDE DEF Types, WordTypes, HRec, Hand
<1> QED
  BY <1>1, <1>2, <1>3, <1>4, <1>5, ZenonT(20) DEF HandlerEnter, HandlerClear, HandlerGrant, HandlerReport, HandlerLeave

\* A bit waits in the status, is in the handler's hands, and gets to the event word.
LEMMA HandlerTold ==
  ASSUME Types, Handling, Told, Handler
  PROVE  Told'
<1> USE HandlerFrame, HandlerFacts DEF Told, Tells, Hand
<1>1. CASE HandlerEnter
  BY <1>1, ZenonT(20)
<1>2. CASE HandlerClear
  BY <1>2, ZenonT(20)
<1>3. CASE HandlerGrant
  BY <1>3, ZenonT(20)
<1>4. CASE HandlerReport
  BY <1>4, ZenonT(20)
<1>5. CASE HandlerLeave
  BY <1>5, ZenonT(20)
<1> QED
  BY <1>1, <1>2, <1>3, <1>4, <1>5, Zenon DEF Handler

\* A stall passes from the status to the handler, and to the miss word if no chunk is
\* staged; what is granted answers it.
LEMMA HandlerAsked ==
  ASSUME Types, Asked, ~regrant, Handler
  PROVE  Asked' /\ ~regrant'
<1> USE HandlerFrame, HandlerFacts
<1>1. CASE HandlerEnter \/ HandlerClear \/ HandlerLeave
  <2>1. missed' = missed /\ stalled' = stalled /\ regrant' = regrant
    BY <1>1, ZenonT(20) DEF wordVars, ptbVars
  <2>2. CASE HandlerEnter
    BY <2>1, <2>2, ZenonT(20) DEF Asked, Asks, One, Taken, Hand
  <2>3. CASE HandlerClear
    BY <2>1, <2>3, SMTT(30) DEF Asked, Asks, One, Taken, Hand
  <2>4. CASE HandlerLeave
    BY <2>1, <2>4, ZenonT(20) DEF Asked, Asks, One, Taken, Hand
  <2> QED
    BY <1>1, <2>2, <2>3, <2>4, Zenon
<1>2. CASE HandlerGrant
  <2>1. stalled /\ hbin # None
    BY <1>2, SMTT(30) DEF Asked, Asks, One
  <2>2. stalled' = (stalled /\ {stageVa} \ {None} = {})
        /\ regrant' = (regrant \/ Cardinality({stageVa} \ {None}) > 1)
    BY <1>2, <2>1, ZenonT(20) DEF Give
  <2>3. CASE stageVa = None
    <3>1. {stageVa} \ {None} = {}
      BY <2>3, ZenonT(20)
    <3>2. ~regrant' /\ stalled'
      <4>1. ~(Cardinality({stageVa} \ {None}) > 1)
        BY <3>1, FS_EmptySet, SMTT(30)
      <4> QED
        BY <2>1, <2>2, <3>1, <4>1, Zenon
    <3> QED
      BY <1>2, <2>1, <2>3, <3>2, SMTT(30) DEF Asked, Asks, One, Taken, Hand
  <2>4. CASE stageVa # None
    <3>1. {stageVa} \ {None} = {stageVa}
      BY <2>4, ZenonT(20)
    <3>2. ~regrant' /\ ~stalled'
      <4>1. ~(Cardinality({stageVa} \ {None}) > 1) /\ {stageVa} \ {None} # {}
        BY <3>1, FS_Singleton, SMTT(30)
      <4> QED
        BY <2>1, <2>2, <4>1, Zenon
    <3> QED
      BY <1>2, <2>1, <2>4, <3>2, SMTT(30) DEF Asked, Asks, One, Taken, Hand
  <2> QED
    BY <2>3, <2>4, ZenonT(20)
<1>3. CASE HandlerReport
  <2>1. stalled' = stalled /\ regrant' = regrant
    BY <1>3, ZenonT(20) DEF ptbVars
  <2> QED
    BY <1>3, <2>1, SMTT(30) DEF Asked, Asks, One, Taken, Hand, Missed
<1> QED
  BY <1>1, <1>2, <1>3, Zenon DEF Handler

\* The staged chunk passes through the handler's hands.
LEMMA HandlerStaging ==
  ASSUME Types, Staging, Handler
  PROVE  Staging'
<1> USE HandlerFrame, HandlerFacts
<1>1. CASE HandlerEnter \/ HandlerClear \/ HandlerLeave
  BY <1>1, ZenonT(20) DEF Staging, Hands, Taken, Hand, wordVars
<1>2. CASE HandlerGrant
  BY <1>2, ZenonT(20) DEF Staging, Hands, Taken, Hand
<1>3. CASE HandlerReport
  BY <1>3, ZenonT(20) DEF Staging, Hands, Taken, Hand
<1> QED
  BY <1>1, <1>2, <1>3, Zenon DEF Handler

\* The binner is given the staged chunk.
LEMMA HandlerBacked ==
  ASSUME Types, Staging, Told, Backed, Handler
  PROVE  Backed'
<1> USE HandlerFrame, HandlerFacts
<1>0. \A j \in Jobs : Needs(j)' => Needs(j)
  BY ZenonT(20) DEF Needs
<1>1. CASE HandlerEnter \/ HandlerClear \/ HandlerLeave \/ HandlerReport
  <2>1. stageVa' = stageVa /\ given' = given
    BY <1>1, ZenonT(20) DEF wordVars, ptbVars
  <2> QED
    BY <1>0, <2>1, BackedLess, ZenonT(20)
<1>2. CASE HandlerGrant
  <2>1. given' = IF hbin = None THEN given ELSE [given EXCEPT ![hbin] = @ \cup ({stageVa} \ {None})]
    BY <1>2, ZenonT(20) DEF Give
  <2>2. stageVa' = None /\ stageVa \in {None, staged}
    BY <1>2, ZenonT(20) DEF Staging, Hands
  <2>3. hbin # None => hbin \in Bins /\ hbin \in Jobs
    BY ZenonT(20) DEF Told, Tells, Bins
  <2>4. given \in [Jobs -> SUBSET Chunks]
    BY ZenonT(20) DEF Types, UnitTypes
  <2>5. ASSUME NEW j \in Jobs, Needs(j), NEW c \in given'[j]
        PROVE  Holds(c, attach[j], staged, None, j \in Bins)
    <3>1. CASE c \in given[j]
      <4>1. Holds(c, attach[j], staged, stageVa, j \in Bins)
        BY <2>5, <3>1, Zenon DEF Backed
      <4> QED
        BY <4>1, Zenon DEF Holds
    <3>2. CASE c \notin given[j]
      <4>1. j = hbin /\ hbin # None /\ c = stageVa /\ c # None
        BY <2>1, <2>3, <2>4, <2>5, <3>2, ZenonT(20)
      <4> QED
        BY <2>2, <2>3, <4>1, Zenon DEF Holds
    <3> QED
      BY <3>1, <3>2, ZenonT(20)
  <2>6. ASSUME NEW j \in Jobs, st[j] \in {"new", "queued"}
        PROVE  given'[j] = {}
    <3>1. j # hbin
      BY <2>3, <2>6, Numbers, ZenonT(20) DEF Bins
    <3> QED
      BY <2>1, <2>4, <2>6, <3>1, ZenonT(20) DEF Backed
  <2>7. ASSUME NEW j \in Jobs, Needs(j)', NEW c \in given'[j]
        PROVE  Holds(c, attach'[j], staged', stageVa', j \in Bins')
    BY <1>0, <2>2, <2>5, <2>7, Zenon
  <2> QED
    BY <2>6, <2>7, ZenonT(20) DEF Backed
<1> QED
  BY <1>1, <1>2, Zenon DEF Handler

\* A step of the handler.
LEMMA HandlerStep ==
  ASSUME IrqInv, Handler
  PROVE  IrqInv'
<1> USE HandlerFrame, HandlerFacts
<1>0. Types /\ Handling /\ Staging
  BY Zenon DEF IrqInv
<1>1. Types'
  <2>1. h' \in HRec /\ sts' \subseteq Bits /\ ev' \subseteq Bits
    BY <1>0, ZenonT(20) DEF Handler, Types, WordTypes, HRec, Hand
  <2>2. stageVa' \in Chunks \cup {None} /\ consumed' \in Chunks \cup {None} /\ missed' \in Nat
    <3>1. h.va \in Chunks \cup {None} /\ stageVa \in Chunks \cup {None} /\ consumed \in Chunks \cup {None} /\ missed \in Nat
      BY <1>0, ZenonT(20) DEF Types, WordTypes, PoolTypes, HRec
    <3>2. CASE HandlerReport
      BY <1>0, <3>1, <3>2, SMTT(30) DEF Missed
    <3>3. CASE HandlerGrant
      BY <1>0, <3>1, <3>3, ZenonT(20)
    <3>4. CASE HandlerEnter \/ HandlerClear \/ HandlerLeave
      BY <1>0, <3>1, <3>4, ZenonT(20) DEF wordVars
    <3> QED
      BY <3>2, <3>3, <3>4, Zenon DEF Handler
  <2>3. UnitTypes'
    <3>1. CASE HandlerGrant
      <4>1. Give({stageVa} \ {None})
        BY <1>0, <3>1, Zenon
      <4>2. {stageVa} \ {None} \in SUBSET Chunks
        BY <1>0, ZenonT(20) DEF Types, PoolTypes
      <4> QED
        <5>1. irq' \in BOOLEAN /\ tested' \in BOOLEAN
          BY <1>0, ZenonT(20) DEF Types, UnitTypes
        <5> QED
          BY <1>0, <4>1, <4>2, <5>1, GiveTypes, ZenonT(20)
    <3>2. CASE ~HandlerGrant
      BY <1>0, <3>2, ZenonT(20) DEF Handler, Types, UnitTypes, ptbVars
    <3> QED
      BY <3>1, <3>2, ZenonT(20)
  <2> QED
    BY <1>0, <2>1, <2>2, <2>3, ZenonT(20) DEF Types, JobTypes, PoolTypes, WordTypes
<1>2. Handling'
  <2>1. h.pc # "idle" \/ irq
    BY <1>0, ZenonT(20) DEF Handler
  <2>2. h'.pc = "idle" => h'.core = {}
    BY <1>0, ZenonT(20) DEF Handler, Hand
  <2> QED
    BY <1>0, <2>1, <2>2, SMTT(30) DEF Handling
<1>3. OneEach' /\ Placed'
  BY SMT DEF IrqInv, OneEach, Placed
<1>4. Staging'
  BY <1>0, HandlerStaging, ZenonT(20)
<1>5. ~tested => Exact'
  BY <1>0, HandlerTold, HandlerAsked, HandlerBacked, Zenon DEF IrqInv, Exact
<1> QED
  BY <1>1, <1>2, <1>3, <1>4, <1>5, SMTT(30) DEF IrqInv

-----------------------------------------------------------------------------
(* The kicks                                                               *)

\* The thread's record.
Thr(pc, q, j, core) == th'.pc = pc /\ th'.q = q /\ th'.j = j /\ th'.core = core /\ th' \in TRec

\* What is still owed: nothing, or every stall counted.
Counts(o, m, w) == o = 0 \/ o = w + m
Few(o, m, w, x) == o \in Int /\ o \in {0, w + m} /\ o \in {0, 1} /\ (o = 1 => x)

\* At most one stall is counted, and only one that is there.
LEMMA AsksFew ==
  ASSUME NEW s, NEW g, NEW m, NEW w, NEW x, Asks(s, g, m, w, x), NEW o, Counts(o, m, w)
  PROVE  Few(o, m, w, x)
<1>1. m \in Nat /\ w \in Nat /\ m + w <= One(x)
  BY DEF Asks, One
<1>2. One(x) \in {0, 1} /\ (One(x) = 1 => x)
  BY DEF One
<1> QED
  BY <1>1, <1>2 DEF Counts, Few

\* No stall, and nothing asked.
LEMMA AsksNone ==
  ASSUME NEW g, g.pc = "idle", g.core = {}
  PROVE  Asks({}, g, 0, 0, FALSE)
BY SMTT(30) DEF Asks, One

\* A stall is where it was if the bit of the status, and the handler, are.
LEMMA AsksLike ==
  ASSUME NEW s, NEW t, NEW g, NEW k, NEW m, NEW w, NEW x, Asks(s, g, m, w, x),
         k.pc = g.pc, k.core = g.core, k.va = g.va, "OOM" \in t <=> "OOM" \in s
  PROVE  Asks(t, k, m, w, x)
BY ZenonT(20) DEF Asks, One

\* What holds of a step that touches no job, no chunk and no word of the overflow
\* memory, and leaves the handler where it is.
LEMMA QuietStep ==
  ASSUME IrqInv, UNCHANGED <<jobVars, ovfVars, wordVars, hwVars>>, tested' = tested, irq' = irq,
         h'.pc = h.pc, h'.core = h.core, h'.va = h.va, h' \in HRec, th' \in TRec,
         sts' \subseteq Bits, ev' \subseteq Bits, "OOM" \in sts' <=> "OOM" \in sts,
         Kicks(th', "bin") => Kicks(th, "bin") /\ th'.j = th.j,
         Kicks(th', "ren") => Kicks(th, "ren") /\ th'.j = th.j,
         th'.pc # "poll", th.pc = "poll" => h.pc = "idle",
         Told => Told'
  PROVE  IrqInv'
<1>1. /\ st' = st /\ bad' = bad /\ attach' = attach /\ free' = free /\ staged' = staged
      /\ waiting' = waiting /\ hbin' = hbin /\ hren' = hren /\ stalled' = stalled /\ given' = given
      /\ regrant' = regrant /\ stageVa' = stageVa /\ consumed' = consumed /\ missed' = missed
  BY ZenonT(20) DEF jobVars, ovfVars, wordVars, hwVars, ptbVars
<1>2. Bins' = Bins /\ Renders' = Renders
  BY <1>1, ZenonT(20) DEF Bins, Renders
<1>3. Types /\ Handling /\ OneEach /\ Staging /\ Placed
  BY Zenon DEF IrqInv
<1>4. Types'
  BY <1>1, <1>3, ZenonT(20) DEF Types, JobTypes, PoolTypes, WordTypes, UnitTypes
<1>5. Handling'
  BY <1>3, ZenonT(20) DEF Handling
<1>6. OneEach'
  BY <1>2, <1>3, ZenonT(20) DEF OneEach, OneOf
<1>7. Staging' /\ Placed'
  BY <1>1, <1>3, ZenonT(20) DEF Staging, Placed, Taken
<1>8. ASSUME ~tested
      PROVE  Exact'
  <2>1. Told' /\ Asked /\ Backed /\ ~regrant
    BY <1>8, Zenon DEF IrqInv, Exact
  <2>2. Asked'
    <3>1. Asks(sts, h, missed, waiting, stalled)
      BY <2>1, Zenon DEF Asked
    <3>2. Asks(sts', h', missed, waiting, stalled)
      BY <3>1, AsksLike, ZenonT(20)
    <3>3. Taken(h') = Taken(h)
      BY ZenonT(20) DEF Taken
    <3> QED
      BY <1>1, <2>1, <3>2, <3>3, ZenonT(20) DEF Asked
  <2>3. \A j \in Jobs : Needs(j)' => Needs(j)
    BY <1>1, ZenonT(20) DEF Needs
  <2>4. Backed'
    BY <1>1, <1>2, <2>1, <2>3, BackedLess, ZenonT(20)
  <2> QED
    BY <1>1, <2>1, <2>2, <2>4, ZenonT(20) DEF Exact
<1> QED
  BY <1>4, <1>5, <1>6, <1>7, <1>8, ZenonT(20) DEF IrqInv

\* v3da_hw_drain: the stale bits of the unit that is kicked are dropped, those of the
\* other unit are passed on, and OUTOMEM is left.
LEMMA DrainStep ==
  ASSUME Prompt, IrqInv, DrainRead \/ DrainClear \/ DrainOr
  PROVE  IrqInv'
<1>0. Types /\ Handling
  BY Zenon DEF IrqInv
<1>1. UNCHANGED <<jobVars, ovfVars, wordVars, hwVars>> /\ tested' = tested /\ irq' = irq /\ h' = h
  BY ZenonT(20) DEF DrainRead, DrainClear, DrainOr, modeVars
<1>2. Bins' = Bins /\ Renders' = Renders /\ hbin' = hbin /\ hren' = hren
  BY <1>1, ZenonT(20) DEF Bins, Renders, jobVars, hwVars
<1>3. h \in HRec /\ th \in TRec /\ sts \subseteq Bits /\ ev \subseteq Bits /\ th.core \subseteq {"FL", "FR"}
  BY <1>0, ZenonT(20) DEF Types, WordTypes, TRec
<1>4. CASE DrainRead
  <2>1. th.pc = "flush" /\ ~h.old /\ sts' = sts /\ ev' = ev
    BY <1>4, ZenonT(20) DEF DrainRead
  <2>2. Thr("drain", th.q, th.j, sts \ {"OOM"})
    BY <1>3, <1>4, ZenonT(20) DEF DrainRead, Drained, Thr, TRec, Bits
  <2>3. Told => Told'
    BY <1>1, <1>2, <2>1, <2>2, ZenonT(20) DEF Told, Tells, Kicks, Bit, Thr
  <2> QED
    BY <1>1, <1>3, <2>1, <2>2, <2>3, QuietStep, ZenonT(20) DEF Kicks, Thr
<1>5. CASE DrainClear
  <2>1. th.pc = "drain" /\ sts' = sts \ th.core /\ ev' = ev
    BY <1>5, ZenonT(20) DEF DrainClear
  <2>2. Thr("or", th.q, th.j, th.core)
    BY <1>3, <1>5, ZenonT(20) DEF DrainClear, Thr, TRec
  <2>3. Told => Told'
    BY <1>1, <1>2, <2>1, <2>2, ZenonT(20) DEF Told, Tells, Kicks, Bit, Thr
  <2> QED
    BY <1>1, <1>3, <2>1, <2>2, <2>3, QuietStep, ZenonT(20) DEF Kicks, Thr
<1>6. CASE DrainOr
  <2>1. th.pc = "or" /\ sts' = sts /\ ev' = (ev \cup th.core) \ Own(th.q)
    BY <1>6, ZenonT(20) DEF DrainOr, Kept
  <2>2. Thr("start", th.q, th.j, th.core)
    BY <1>3, <1>6, ZenonT(20) DEF DrainOr, Thr, TRec
  <2>3. Told => Told'
    BY <1>1, <1>2, <1>3, <2>1, <2>2, ZenonT(20) DEF Told, Tells, Kicks, Bit, Thr, Own
  <2>4. ev' \subseteq Bits
    BY <1>3, <2>1, ZenonT(20) DEF Bits
  <2> QED
    BY <1>1, <1>3, <2>1, <2>2, <2>3, <2>4, QuietStep, ZenonT(20) DEF Kicks, Thr
<1> QED
  BY <1>4, <1>5, <1>6, Zenon

\* The end of sched_run.
LEMMA LeaveStep ==
  ASSUME IrqInv, SchedLeave
  PROVE  IrqInv'
<1>1. UNCHANGED <<jobVars, ovfVars, wordVars, hwVars>> /\ tested' = tested /\ irq' = irq /\ h' = h
      /\ sts' = sts /\ ev' = ev /\ th.pc = "sched" /\ h \in HRec /\ sts \subseteq Bits /\ ev \subseteq Bits
  BY ZenonT(20) DEF SchedLeave, modeVars, IrqInv, Types, WordTypes
<1>2. Thr("free", "bin", None, {})
  BY ZenonT(20) DEF SchedLeave, Rest, Thr, TRec
<1>3. Bins' = Bins /\ Renders' = Renders /\ hbin' = hbin /\ hren' = hren
  BY <1>1, ZenonT(20) DEF Bins, Renders, jobVars, hwVars
<1>4. Told => Told'
  BY <1>1, <1>2, <1>3, ZenonT(20) DEF Told, Tells, Kicks, Bit, Thr
<1> QED
  BY <1>1, <1>2, <1>4, QuietStep, ZenonT(20) DEF Kicks, Thr

\* A round begins: the handler is switched off between two of its runs, and in poll
\* mode the thread enters its routine.
LEMMA RoundStep ==
  ASSUME IrqInv, Round
  PROVE  IrqInv'
<1>0. Types /\ Handling /\ OneEach /\ Staging /\ Placed
  BY Zenon DEF IrqInv
<1>1. /\ st' = st /\ bad' = bad /\ attach' = attach /\ free' = free /\ staged' = staged
      /\ waiting' = waiting /\ hbin' = hbin /\ hren' = hren /\ stalled' = stalled /\ given' = given
      /\ regrant' = regrant /\ stageVa' = stageVa /\ consumed' = consumed /\ missed' = missed
      /\ sts' = sts /\ ev' = ev /\ tested' = tested /\ th.pc = "free"
  BY ZenonT(20) DEF Round, jobVars, ovfVars, wordVars, hwVars, ptbVars
<1>2. Bins' = Bins /\ Renders' = Renders
  BY <1>1, ZenonT(20) DEF Bins, Renders
<1>3. irq' \in BOOLEAN /\ (irq' => irq) /\ (irq /\ h.pc # "idle" => irq')
  BY Zenon DEF Round
<1>4. th \in TRec /\ h \in HRec /\ sts \subseteq Bits
  BY <1>0, ZenonT(20) DEF Types, WordTypes
<1>5. \/ /\ ~irq' /\ h.pc = "idle" /\ Hand("clear", sts, None, FALSE)
         /\ Thr("poll", th.q, th.j, th.core)
      \/ h' = h /\ Thr("events", th.q, th.j, th.core)
  <2>1. CASE ~irq' /\ Busy
    <3>1. h.pc = "idle"
      BY <1>0, <1>1, <1>3, <2>1, ZenonT(20) DEF Handling
    <3>2. h' = [Idle EXCEPT !.pc = "clear", !.core = sts] /\ th' = [th EXCEPT !.pc = "poll"]
      BY <2>1, ZenonT(20) DEF Round
    <3>3. Hand("clear", sts, None, FALSE)
      BY <1>4, <3>2, ZenonT(20) DEF Idle, Hand, HRec
    <3>4. Thr("poll", th.q, th.j, th.core)
      BY <1>4, <3>2, ZenonT(20) DEF Thr, TRec
    <3> QED
      BY <2>1, <3>1, <3>3, <3>4, ZenonT(20)
  <2>2. CASE ~(~irq' /\ Busy)
    <3>2. h' = h /\ th' = [th EXCEPT !.pc = "events"]
      BY <2>2, ZenonT(20) DEF Round
    <3>4. Thr("events", th.q, th.j, th.core)
      BY <1>4, <3>2, ZenonT(20) DEF Thr, TRec
    <3> QED
      BY <3>2, <3>4, ZenonT(20)
  <2> QED
    BY <2>1, <2>2, ZenonT(20)
<1>6. Types'
  <2>1. h' \in HRec /\ th' \in TRec
    BY <1>4, <1>5, ZenonT(20) DEF Hand, Thr
  <2> QED
    BY <1>0, <1>1, <1>3, <2>1, ZenonT(20) DEF Types, JobTypes, PoolTypes, WordTypes, UnitTypes
<1>7. Handling'
  BY <1>0, <1>1, <1>3, <1>5, ZenonT(20) DEF Handling, Hand, Thr
<1>8. OneEach'
  BY <1>0, <1>2, <1>5, ZenonT(20) DEF OneEach, OneOf, Kicks, Thr
<1>9. Taken(h') = Taken(h)
  BY <1>5, ZenonT(20) DEF Taken, Hand
<1>10. Staging' /\ Placed'
  BY <1>0, <1>1, <1>9, Zenon DEF Staging, Placed
<1>11. ASSUME ~tested
       PROVE  Exact'
  <2>1. Told /\ Asked /\ Backed /\ ~regrant
    BY <1>11, Zenon DEF IrqInv, Exact
  <2>2. Told'
    BY <1>1, <1>2, <1>5, <2>1, ZenonT(20) DEF Told, Tells, Kicks, Bit, Hand, Thr
  <2>3. Asked'
    BY <1>1, <1>5, <1>9, <2>1, ZenonT(20) DEF Asked, Asks, One, Hand
  <2>4. \A j \in Jobs : Needs(j)' => Needs(j)
    BY <1>1, ZenonT(20) DEF Needs
  <2>5. ~Kicks(th', "bin")
    BY <1>5, ZenonT(20) DEF Kicks, Thr
  <2>6. Backed'
    BY <1>1, <1>2, <2>1, <2>4, <2>5, BackedLess, ZenonT(20)
  <2> QED
    BY <1>1, <2>1, <2>2, <2>3, <2>6, ZenonT(20) DEF Exact
<1> QED
  BY <1>1, <1>6, <1>7, <1>8, <1>10, <1>11, ZenonT(20) DEF IrqInv

\* A kick begins: the unit is free, so no bit of it is about, but in the hands of a
\* handler that is marked as old.
LEMMA KickStep ==
  ASSUME IrqInv, NEW q \in {"bin", "ren"}, NEW j \in Jobs, Kick(q, j)
  PROVE  IrqInv'
<1>0. Types /\ Handling /\ OneEach /\ Staging /\ Placed
  BY Zenon DEF IrqInv
<1>1. /\ bad' = bad /\ attach' = attach /\ free' = free /\ staged' = staged
      /\ waiting' = waiting /\ hbin' = hbin /\ hren' = hren /\ stalled' = stalled /\ given' = given
      /\ regrant' = regrant /\ stageVa' = stageVa /\ consumed' = consumed /\ missed' = missed
      /\ sts' = sts /\ ev' = ev /\ tested' = tested /\ irq' = irq /\ th.pc = "sched"
      /\ st' = [st EXCEPT ![j] = q]
  BY ZenonT(20) DEF Kick, ovfVars, wordVars, modeVars, hwVars, ptbVars
<1>2. h \in HRec /\ st \in [Jobs -> Stages]
  BY <1>0, ZenonT(20) DEF Types, JobTypes
<1>3. Thr("flush", q, j, {})
  BY ZenonT(20) DEF Kick, Thr, TRec
<1>4. h'.pc = h.pc /\ h'.core = h.core /\ h'.va = h.va /\ (h'.old <=> h.pc # "idle") /\ h' \in HRec
  <2>1. PICK o \in BOOLEAN : o = (h.pc # "idle")
    BY Zenon
  <2>2. h' = [h EXCEPT !.old = o]
    BY <2>1, ZenonT(20) DEF Kick
  <2> QED
    BY <1>2, <2>1, <2>2, ZenonT(20) DEF HRec
<1>5. \A i \in Jobs : st'[i] = IF i = j THEN q ELSE st[i]
  BY <1>1, <1>2, ZenonT(20)
<1>6. q = "bin" => st[j] = "queued" /\ Bins = {} /\ Bins' = {j} /\ Renders' = Renders
  BY <1>5, ZenonT(20) DEF Kick, Kickable, Bins, Renders
<1>7. q = "ren" => st[j] = "binned" /\ Renders = {} /\ Renders' = {j} /\ Bins' = Bins
  BY <1>5, SMTT(30) DEF Kick, Kickable, Bins, Renders
<1>8. st' \in [Jobs -> Stages]
  BY <1>1, <1>2, ZenonT(20) DEF Stages
<1>9. Types'
  BY <1>0, <1>1, <1>3, <1>4, <1>8, ZenonT(20) DEF Types, JobTypes, PoolTypes, WordTypes, UnitTypes, Thr
<1>10. Handling'
  BY <1>0, <1>1, <1>3, <1>4, ZenonT(20) DEF Handling, Thr
<1>11. OneEach'
  BY <1>0, <1>3, <1>6, <1>7, ZenonT(20) DEF OneEach, OneOf, Kicks, Thr
<1>12. Taken(h') = Taken(h)
  BY <1>4, ZenonT(20) DEF Taken
<1>13. Staging' /\ Placed'
  BY <1>0, <1>1, <1>12, Zenon DEF Staging, Placed
<1>14. ASSUME ~tested
       PROVE  Exact'
  <2>1. Told /\ Asked /\ Backed /\ ~regrant
    BY <1>14, Zenon DEF IrqInv, Exact
  <2>2. Tells("bin", hbin, Bins', sts, ev, h', th')
    BY <1>0, <1>1, <1>3, <1>4, <1>6, <1>7, <2>1, ZenonT(20) DEF Told, Tells, Kicks, Bit, Thr, Handling
  <2>3. Tells("ren", hren, Renders', sts, ev, h', th')
    BY <1>0, <1>1, <1>3, <1>4, <1>6, <1>7, <2>1, ZenonT(20) DEF Told, Tells, Kicks, Bit, Thr, Handling
  <2>4. Told'
    BY <1>1, <2>2, <2>3, Zenon DEF Told
  <2>5. Asked'
    BY <1>1, <1>4, <1>12, <2>1, ZenonT(20) DEF Asked, Asks
  <2>6. j \notin bad
    BY <1>6, <1>7, <2>1, ZenonT(20) DEF Backed, Kick, Failed
  <2>7. ASSUME NEW i \in Jobs, Needs(i)', NEW c \in given[i]
        PROVE  Holds(c, attach[i], staged, stageVa, i \in Bins')
    <3>1. Needs(i)
      <4>1. CASE i = j
        BY <1>6, <1>7, <2>1, <2>6, <2>7, <4>1, ZenonT(20) DEF Needs, Backed
      <4>2. CASE i # j
        BY <1>1, <1>5, <2>7, <4>2, ZenonT(20) DEF Needs
      <4> QED
        BY <4>1, <4>2, ZenonT(20)
    <3>2. Holds(c, attach[i], staged, stageVa, i \in Bins)
      BY <2>1, <2>7, <3>1, Zenon DEF Backed
    <3>3. i \in Bins => i \in Bins'
      BY <1>6, <1>7, ZenonT(20)
    <3> QED
      BY <3>2, <3>3, Zenon DEF Holds
  <2>8. \A i \in Jobs : st'[i] \in {"new", "queued"} => given[i] = {}
    BY <1>5, <2>1, ZenonT(20) DEF Backed
  <2>9. \A i \in bad : st'[i] \in {"binned", "done"}
    BY <1>0, <1>5, <2>1, <2>6, ZenonT(20) DEF Backed, Types, JobTypes
  <2>10. Kicks(th', "bin") => st'[th'.j] = "bin"
    BY <1>3, <1>5, ZenonT(20) DEF Kicks, Thr
  <2>11. Backed'
    BY <1>1, <2>7, <2>8, <2>9, <2>10, ZenonT(20) DEF Backed
  <2> QED
    BY <1>1, <2>1, <2>4, <2>5, <2>11, ZenonT(20) DEF Exact
<1> QED
  BY <1>1, <1>9, <1>10, <1>11, <1>13, <1>14, ZenonT(20) DEF IrqInv

\* The pool as a bin starts with it.
Starts(r) ==
  /\ r \in PoolRec /\ r.attach = attach /\ Apart(r.free, r.staged, r.attach)
  /\ Hands(r.staged, r.va, Taken(h), consumed)
  /\ staged # None => r.staged = staged /\ r.va = stageVa

\* The staging at the start of a bin does that, and forgets what an earlier list was owed.
LEMMA StartFacts ==
  ASSUME Types, Staging, Placed
  PROVE  Starts(Stage([Pool EXCEPT !.waiting = 0])) /\ Stage([Pool EXCEPT !.waiting = 0]).waiting = 0
<1>1. PoolTypes
  BY ZenonT(20) DEF Types
<1>2. PICK p : p = [Pool EXCEPT !.waiting = 0]
  BY ZenonT(20)
<1>3. /\ p \in PoolRec /\ p.free = free /\ p.staged = staged /\ p.waiting = 0
      /\ p.attach = attach /\ p.va = stageVa
  BY <1>1, <1>2, PoolFields, SMTT(30) DEF PoolRec
<1>4. PICK r \in PoolRec : r = Stage(p) /\ Stages1(p, r)
  BY <1>3, StageFacts, ZenonT(20)
<1>5. free \in SUBSET Chunks /\ attach \in [Jobs -> SUBSET Chunks]
  BY <1>1, ZenonT(20) DEF PoolTypes
<1>6. Apart(r.free, r.staged, r.attach)
  <2>1. staged = None => \A c \in free : Apart(free \ {c}, c, attach)
    BY <1>5, ApartStage, ZenonT(20) DEF Placed
  <2> QED
    BY <1>3, <1>4, <2>1, ZenonT(20) DEF Stages1, Placed
<1>7. Hands(r.staged, r.va, Taken(h), consumed)
  BY <1>3, <1>4, <1>5, Numbers, ZenonT(20) DEF Stages1, Staging, Hands
<1>8. r.attach = attach /\ r.waiting = 0 /\ (staged # None => r.staged = staged /\ r.va = stageVa)
  BY <1>3, <1>4, ZenonT(20) DEF Stages1
<1> QED
  BY <1>2, <1>4, <1>6, <1>7, <1>8, ZenonT(20) DEF Starts

\* The start: no bit of the unit is about, and the list was given no chunk that it
\* does not hold.
LEMMA StartStep ==
  ASSUME IrqInv, Start
  PROVE  IrqInv'
<1>0. Types /\ Handling /\ OneEach /\ Staging /\ Placed
  BY Zenon DEF IrqInv
<1>1. /\ st' = st /\ bad' = bad /\ consumed' = consumed /\ missed' = missed /\ sts' = sts /\ ev' = ev
      /\ irq' = irq /\ stalled' = stalled /\ given' = given /\ regrant' = regrant /\ h' = h
      /\ tested' = tested /\ th.pc = "start"
      /\ hbin' = (IF th.q = "bin" THEN th.j ELSE hbin) /\ hren' = (IF th.q = "ren" THEN th.j ELSE hren)
  BY ZenonT(20) DEF Start, jobVars, modeVars, ptbVars
<1>2. Bins' = Bins /\ Renders' = Renders
  BY <1>1, ZenonT(20) DEF Bins, Renders
<1>3. Thr("sched", "bin", None, {})
  BY ZenonT(20) DEF Start, Rest, Thr, TRec
<1>4. PICK r : r = (IF th.q = "bin" THEN Stage([Pool EXCEPT !.waiting = 0]) ELSE Pool)
  BY ZenonT(20)
<1>5. Starts(r) /\ r.waiting \in {0, waiting}
  <2>1. CASE th.q = "bin"
    BY <1>0, <1>4, <2>1, StartFacts, ZenonT(20)
  <2>2. CASE th.q # "bin"
    <3>1. PoolTypes /\ r = Pool
      BY <1>0, <1>4, <2>2, ZenonT(20) DEF Types
    <3> QED
      BY <1>0, <3>1, PoolFields, ZenonT(20) DEF Starts, Staging, Placed
  <2> QED
    BY <2>1, <2>2, ZenonT(20)
<1>6. /\ free' = r.free /\ staged' = r.staged /\ waiting' = r.waiting
      /\ attach' = r.attach /\ stageVa' = r.va
  BY <1>4, ZenonT(20) DEF Start, SetPool
<1>7. PoolTypes'
  BY <1>5, <1>6, ZenonT(20) DEF PoolTypes, PoolRec, Starts
<1>8. th \in TRec /\ Kicks(th, th.q) /\ th.q \in {"bin", "ren"}
  BY <1>0, <1>1, ZenonT(20) DEF Types, TRec, Kicks
<1>9. /\ th.q = "bin" => th.j \in Bins
      /\ th.q = "ren" => th.j \in Renders
  BY <1>0, <1>8, ZenonT(20) DEF OneEach, OneOf
<1>10. hbin' \in Jobs \cup {None} /\ hren' \in Jobs \cup {None}
  BY <1>0, <1>1, <1>9, ZenonT(20) DEF Types, UnitTypes, Bins, Renders
<1>11. Types'
  BY <1>0, <1>1, <1>3, <1>7, <1>10, ZenonT(20) DEF Types, JobTypes, WordTypes, UnitTypes, Thr
<1>12. Handling'
  BY <1>0, <1>1, <1>3, ZenonT(20) DEF Handling, Thr
<1>13. OneEach'
  BY <1>0, <1>2, <1>3, ZenonT(20) DEF OneEach, OneOf, Kicks, Thr
<1>14. Staging' /\ Placed'
  BY <1>1, <1>5, <1>6, ZenonT(20) DEF Staging, Placed, Starts
<1>15. ASSUME ~tested
       PROVE  Exact'
  <2>1. Told /\ Asked /\ Backed /\ ~regrant
    BY <1>15, Zenon DEF IrqInv, Exact
  <2>2. Told'
    BY <1>1, <1>2, <1>3, <1>8, <1>9, <2>1, ZenonT(20) DEF Told, Tells, Kicks, Bit, Thr
  <2>3. Asked'
    <3>1. th.j # None
      BY <1>8, <1>9, Numbers, ZenonT(20) DEF Bins, Renders
    <3>2. Asks(sts, h, missed, waiting, stalled) /\ (stalled \/ Taken(h) # None => hbin # None)
      BY <2>1, ZenonT(20) DEF Asked
    <3>3. Asks(sts, h, missed, r.waiting, stalled)
      BY <1>5, <3>2, SMTT(30) DEF Asks, One
    <3> QED
      BY <1>1, <1>6, <3>1, <3>2, <3>3, ZenonT(20) DEF Asked
  <2>4. ASSUME NEW j \in Jobs, Needs(j)', NEW c \in given[j]
        PROVE  Holds(c, attach'[j], staged', stageVa', j \in Bins')
    <3>1. Needs(j)
      <4>1. CASE j = th.j
        BY <1>1, <1>8, <1>9, <2>1, <2>4, <4>1, ZenonT(20) DEF Needs, Backed, Bins, Renders
      <4>2. CASE j # th.j
        BY <1>1, <2>4, <4>2, ZenonT(20) DEF Needs
      <4> QED
        BY <4>1, <4>2, ZenonT(20)
    <3>2. Holds(c, attach[j], staged, stageVa, j \in Bins)
      BY <2>1, <2>4, <3>1, Zenon DEF Backed
    <3>3. c # None
      BY <1>0, <2>4, Numbers, ZenonT(20) DEF Types, UnitTypes
    <3> QED
      BY <1>2, <1>5, <1>6, <3>2, <3>3, ZenonT(20) DEF Holds, Starts
  <2>5. ~Kicks(th', "bin")
    BY <1>3, ZenonT(20) DEF Kicks, Thr
  <2>6. Backed'
    BY <1>1, <2>1, <2>4, <2>5, ZenonT(20) DEF Backed
  <2> QED
    BY <1>1, <2>1, <2>2, <2>3, <2>6, ZenonT(20) DEF Exact
<1> QED
  BY <1>1, <1>11, <1>12, <1>13, <1>14, <1>15, ZenonT(20) DEF IrqInv

-----------------------------------------------------------------------------
(* The service of the overflow memory                                      *)

\* ovf_service is run, with the pool r in the end; or it is not.
Full(r) ==
  /\ r = Stage(Grant(Attribute(Pool))) /\ Give(Granted(Attribute(Pool)))
  /\ consumed' = None /\ missed' = 0
Skipped(r) ==
  /\ r = Pool /\ stalled' = stalled /\ given' = given /\ regrant' = regrant
  /\ consumed' = consumed /\ missed' = missed

\* What was reported is on the list of the bin, and each chunk is in one place.
LEMMA ServeFacts ==
  ASSUME Types, Staging, OneEach, Placed, NEW r, Full(r) \/ Skipped(r),
         hbin' = hbin, hren' = hren, tested' = tested, irq' = irq
  PROVE  /\ r \in PoolRec /\ Apart(r.free, r.staged, r.attach)
         /\ Hands(r.staged, r.va, Taken(h), consumed')
         /\ consumed' \in Chunks \cup {None} /\ missed' \in Nat /\ UnitTypes'
<1>1. CASE Full(r)
  <2>1. Services(Granted(Attribute(Pool)), r)
    BY <1>1, ServicedFacts, ZenonT(20) DEF Full
  <2>2. Granted(Attribute(Pool)) \in SUBSET Chunks
    <3>1. Owed \in Int
      BY SMTT(30) DEF Owed, Types, PoolTypes, WordTypes
    <3>2. Attribute(Pool) \in PoolRec
      BY AttributeFacts, ZenonT(20)
    <3> QED
      BY <3>1, <3>2, GrantedFacts, ZenonT(20)
  <2>3. UnitTypes'
    <3>1. irq' \in BOOLEAN /\ tested' \in BOOLEAN
      BY ZenonT(20) DEF Types, UnitTypes
    <3> QED
      BY <1>1, <2>2, <3>1, GiveTypes, ZenonT(20) DEF Full
  <2> QED
    BY <1>1, <2>1, <2>3, ZenonT(20) DEF Services, Full
<1>2. CASE Skipped(r)
  <2>1. UnitTypes' /\ consumed' \in Chunks \cup {None} /\ missed' \in Nat /\ PoolTypes
    BY <1>2, ZenonT(20) DEF Skipped, Types, UnitTypes, WordTypes
  <2> QED
    BY <1>2, <2>1, PoolFields, ZenonT(20) DEF Skipped, Placed, Staging
<1> QED
  BY <1>1, <1>2, ZenonT(20)

\* A miss is answered with one chunk, or the binner goes on to wait.
LEMMA ServeAsks ==
  ASSUME Types, Staging, OneEach, Placed, Asked, ~regrant, NEW r, Full(r) \/ Skipped(r)
  PROVE  Asks(sts, h, missed', r.waiting, stalled') /\ (stalled' => stalled) /\ ~regrant'
<1>0. Asks(sts, h, missed, waiting, stalled)
  BY ZenonT(20) DEF Asked
<1>1. CASE Full(r)
  <2>1. PICK G : G = Granted(Attribute(Pool))
    BY ZenonT(20)
  <2>2. r.waiting = Owed - Cardinality(G) /\ missed' = 0
    BY <1>1, <2>1, ServicedFacts, ZenonT(20) DEF Full, Services
  <2>3. stalled' = (stalled /\ G = {}) /\ regrant' = (regrant \/ Cardinality(G) > IF stalled THEN 1 ELSE 0)
    BY <1>1, <2>1, ZenonT(20) DEF Full, Give
  <2>4. Owed \in Int /\ Owed \in {0, waiting + missed} /\ Owed \in {0, 1} /\ (Owed = 1 => stalled)
    <3>1. Counts(Owed, missed, waiting)
      BY ZenonT(20) DEF Owed, Counts
    <3>2. Few(Owed, missed, waiting, stalled)
      BY <1>0, <3>1, AsksFew, ZenonT(20)
    <3> QED
      BY <3>2, ZenonT(20) DEF Few
  <2>5. /\ IsFiniteSet(G) /\ Cardinality(G) \in Nat
        /\ Owed = 0 => G = {}
        /\ Owed = 1 => Cardinality(G) <= 1
    <3>1. Attribute(Pool) \in PoolRec
      BY AttributeFacts, ZenonT(20)
    <3> QED
      BY <2>1, <2>4, <3>1, GrantedFacts, ZenonT(20)
  <2>6. Cardinality(G) = 0 <=> G = {}
    BY <2>5, FS_EmptySet, ZenonT(20)
  <2>7. CASE G = {}
    <3>1. ~(Cardinality(G) > IF stalled THEN 1 ELSE 0) /\ r.waiting = Owed
      BY <2>2, <2>4, <2>6, <2>7, SMTT(30)
    <3>2. ~regrant' /\ (stalled' <=> stalled)
      BY <2>3, <2>7, <3>1, Zenon
    <3>3. Asks(sts, h, missed', r.waiting, stalled')
      BY <1>0, <2>2, <2>4, <3>1, <3>2, SMTT(30) DEF Asks, One
    <3> QED
      BY <3>2, <3>3, ZenonT(20)
  <2>8. CASE G # {}
    <3>1. Cardinality(G) = 1 /\ Owed = 1 /\ stalled /\ r.waiting = 0
      BY <2>2, <2>4, <2>5, <2>6, <2>8, SMTT(30)
    <3>2. ~(Cardinality(G) > IF stalled THEN 1 ELSE 0)
      BY <3>1, SMTT(30)
    <3>3. ~regrant' /\ ~stalled'
      BY <2>3, <2>8, <3>2, Zenon
    <3>4. Asks(sts, h, missed', r.waiting, stalled')
      BY <1>0, <2>2, <2>4, <3>1, <3>3, SMTT(30) DEF Asks, One
    <3> QED
      BY <3>3, <3>4, ZenonT(20)
  <2> QED
    BY <2>7, <2>8, ZenonT(20)
<1>2. CASE Skipped(r)
  <2>1. r.waiting = waiting
    BY <1>2, PoolFields, ZenonT(20) DEF Skipped, Types
  <2> QED
    BY <1>0, <1>2, <2>1, ZenonT(20) DEF Skipped
<1> QED
  BY <1>1, <1>2, ZenonT(20)

\* What a list needs is on it, or still in the hands of the handler.
LEMMA ServeHolds ==
  ASSUME Types, Staging, OneEach, Placed, Told, Backed, NEW r, Full(r) \/ Skipped(r),
         NEW j \in Jobs, Needs(j), NEW c \in given'[j]
  PROVE  \/ c \in r.attach[j]
         \/ c = r.staged /\ r.va = None /\ j \in Bins /\ (Full(r) => Taken(h) # None)
<1>1. given \in [Jobs -> SUBSET Chunks] /\ (hbin # None => hbin \in Jobs /\ hbin \in Bins)
  BY ZenonT(20) DEF Types, UnitTypes, Told, Tells, Bins
<1>2. c \in given[j] => c # None /\ Holds(c, attach[j], staged, stageVa, j \in Bins)
  <2>1. c \in given[j] => Holds(c, attach[j], staged, stageVa, j \in Bins)
    BY Zenon DEF Backed
  <2> QED
    BY <1>1, <2>1, Numbers, ZenonT(20)
<1>3. CASE Full(r)
  <2>1. PICK G : G = Granted(Attribute(Pool))
    BY ZenonT(20)
  <2>2. /\ \A i \in Jobs : r.attach[i] = IF i \in Bins THEN attach[i] \cup ({consumed} \ {None}) \cup G ELSE attach[i]
        /\ consumed = None /\ staged # None => r.staged = staged /\ r.va = stageVa
    BY <1>3, <2>1, ServicedFacts, ZenonT(20) DEF Full, Services
  <2>3. given' = IF hbin = None THEN given ELSE [given EXCEPT ![hbin] = @ \cup G]
    BY <1>3, <2>1, ZenonT(20) DEF Full, Give
  <2>4. CASE c \notin given[j]
    <3>1. j = hbin /\ j \in Bins /\ c \in G
      BY <1>1, <2>3, <2>4, ZenonT(20)
    <3> QED
      BY <2>2, <3>1, ZenonT(20)
  <2>5. CASE c \in given[j]
    <3>1. CASE c \in attach[j]
      BY <2>2, <3>1, ZenonT(20)
    <3>2. CASE c = staged /\ stageVa = None /\ j \in Bins
      <4>1. \/ consumed = c /\ c # None
            \/ consumed = None /\ Taken(h) # None
        BY <1>2, <2>5, <3>2, ZenonT(20) DEF Staging, Hands
      <4>2. CASE consumed = c /\ c # None
        BY <2>2, <3>2, <4>2, ZenonT(20)
      <4>3. CASE consumed = None /\ Taken(h) # None
        BY <1>2, <2>2, <2>5, <3>2, <4>3, ZenonT(20)
      <4> QED
        BY <4>1, <4>2, <4>3, ZenonT(20)
    <3> QED
      BY <1>2, <2>5, <3>1, <3>2, Zenon DEF Holds
  <2> QED
    BY <2>4, <2>5, ZenonT(20)
<1>4. CASE Skipped(r) /\ ~Full(r)
  <2>1. r.attach = attach /\ r.staged = staged /\ r.va = stageVa
    BY <1>4, PoolFields, ZenonT(20) DEF Skipped, Types
  <2>2. c \in given[j]
    BY <1>4, ZenonT(20) DEF Skipped
  <2> QED
    BY <1>2, <1>4, <2>1, <2>2, ZenonT(20) DEF Holds
<1> QED
  BY <1>3, <1>4, ZenonT(20)

\* A list that has not begun is given nothing.
LEMMA ServeNew ==
  ASSUME Types, Told, Backed, NEW r, Full(r) \/ Skipped(r), NEW j \in Jobs, st[j] \in {"new", "queued"}
  PROVE  given'[j] = {}
<1>1. given[j] = {} /\ given \in [Jobs -> SUBSET Chunks]
  BY ZenonT(20) DEF Backed, Types, UnitTypes
<1>2. hbin # j
  BY Numbers, ZenonT(20) DEF Told, Tells, Bins
<1>3. given' = given \/ \E G : given' = [given EXCEPT ![hbin] = @ \cup G]
  BY ZenonT(20) DEF Full, Skipped, Give
<1> QED
  BY <1>1, <1>2, <1>3, ZenonT(20)

-----------------------------------------------------------------------------
(* Events, the watchdog and the reaping of heads                           *)

\* The thread is past the part of a round in which it may run the handler's routine.
LEMMA PastPoll ==
  ASSUME Handling, h' = h, irq' = irq, th'.pc # "poll", th.pc # "poll" \/ h.pc = "idle"
  PROVE  Handling'
BY ZenonT(20) DEF Handling

\* v3da_jobs_events.
LEMMA EventsStep ==
  ASSUME IrqInv, Events
  PROVE  IrqInv'
<1>0. Types /\ Handling /\ OneEach /\ Staging /\ Placed
  BY Zenon DEF IrqInv
<1>1. /\ bad' = bad /\ sts' = sts /\ irq' = irq /\ hbin' = hbin /\ hren' = hren /\ h' = h
      /\ tested' = tested /\ ev' = {} /\ (th.pc # "poll" \/ h.pc = "idle")
  BY ZenonT(20) DEF Events, modeVars
<1>2. PICK over : over = (IF "FL" \in ev THEN Bins ELSE {}) \cup (IF "FR" \in ev THEN Renders ELSE {})
  BY ZenonT(20)
<1>3. PICK r : (Full(r) \/ Skipped(r)) /\ (Bins # {} => Full(r)) /\ SetPool(Done(r, over))
  <2>1. CASE "OOM" \in ev \/ Bins # {}
    <3>1. Full(Stage(Grant(Attribute(Pool))))
      BY <2>1, Zenon DEF Events, Service, Full
    <3>2. SetPool(Done(Stage(Grant(Attribute(Pool))), over))
      BY <1>2, <2>1, ZenonT(20) DEF Events, Serviced
    <3> QED
      BY <3>1, <3>2, Zenon
  <2>2. CASE ~("OOM" \in ev \/ Bins # {})
    <3>1. UNCHANGED <<ptbVars, consumed, missed>>
      BY <2>2, ZenonT(20) DEF Events, Service
    <3>2. Skipped(Pool)
      BY <3>1, ZenonT(20) DEF Skipped, ptbVars
    <3>3. SetPool(Done(Pool, over))
      BY <1>2, <2>2, ZenonT(20) DEF Events, Serviced
    <3> QED
      BY <2>2, <3>2, <3>3, Zenon
  <2> QED
    BY <2>1, <2>2, Zenon
<1>4. st' = Advance(over)
  BY <1>2, ZenonT(20) DEF Events
<1>5. /\ r \in PoolRec /\ Apart(r.free, r.staged, r.attach)
      /\ Hands(r.staged, r.va, Taken(h), consumed')
      /\ consumed' \in Chunks \cup {None} /\ missed' \in Nat /\ UnitTypes'
  BY <1>0, <1>1, <1>3, ServeFacts, ZenonT(20)
<1>6. over \in SUBSET Jobs /\ st \in [Jobs -> Stages]
  BY <1>0, <1>2, ZenonT(20) DEF Bins, Renders, Types, JobTypes
<1>7. PICK p \in PoolRec :
        /\ p = Done(r, over) /\ Apart(p.free, p.staged, p.attach)
        /\ p.staged = r.staged /\ p.va = r.va /\ p.waiting = r.waiting
        /\ \A j \in Jobs : p.attach[j] = IF j \in Freed(over) THEN {} ELSE r.attach[j]
  BY <1>5, <1>6, DoneFacts, ZenonT(20)
<1>8. /\ free' = p.free /\ staged' = r.staged /\ waiting' = r.waiting
      /\ attach' = p.attach /\ stageVa' = r.va
  BY <1>3, <1>7, ZenonT(20) DEF SetPool
<1>9. \A j \in Jobs : st'[j] = IF j \in over THEN (IF st[j] = "bin" THEN "binned" ELSE "done") ELSE st[j]
  BY <1>4, ZenonT(20) DEF Advance, After
<1>10. st' \in [Jobs -> Stages]
  BY <1>4, <1>6, ZenonT(20) DEF Advance, After, Stages
<1>11. Thr("tick", th.q, th.j, th.core)
  BY <1>0, ZenonT(20) DEF Events, Thr, Types, TRec
<1>12. Types'
  <2>1. PoolTypes'
    BY <1>5, <1>7, <1>8, ZenonT(20) DEF PoolTypes, PoolRec
  <2>2. WordTypes' /\ JobTypes'
    BY <1>0, <1>1, <1>5, <1>10, ZenonT(20) DEF Types, WordTypes, JobTypes
  <2> QED
    BY <1>0, <1>1, <1>5, <1>11, <2>1, <2>2, ZenonT(20) DEF Types, Thr
<1>13. Handling'
  BY <1>0, <1>1, <1>11, PastPoll, ZenonT(20) DEF Thr
<1>14. /\ Bins' \subseteq Bins /\ Renders' \subseteq Renders
       /\ "FL" \notin ev => Bins' = Bins
       /\ "FR" \notin ev => Renders' = Renders
  BY <1>2, <1>9, ZenonT(20) DEF Bins, Renders
<1>15. OneEach'
  BY <1>0, <1>11, <1>14, ZenonT(20) DEF OneEach, OneOf, Kicks, Thr
<1>16. Staging' /\ Placed'
  BY <1>1, <1>5, <1>7, <1>8, ZenonT(20) DEF Staging, Placed
<1>17. ASSUME ~tested
       PROVE  Exact'
  <2>1. Told /\ Asked /\ Backed /\ ~regrant
    BY <1>17, Zenon DEF IrqInv, Exact
  <2>2. Told'
    BY <1>1, <1>11, <1>14, <2>1, ZenonT(20) DEF Told, Tells, Kicks, Bit, Thr
  <2>3. Asks(sts, h, missed', r.waiting, stalled') /\ (stalled' => stalled) /\ ~regrant'
    BY <1>0, <1>3, <2>1, ServeAsks, ZenonT(20)
  <2>4. Asked'
    BY <1>1, <1>8, <2>1, <2>3, ZenonT(20) DEF Asked
  <2>5. /\ hbin # None => hbin \in Bins /\ hbin \notin over
        /\ hren # None => hren \in Renders /\ hren \notin over
    BY <1>2, <2>1, ZenonT(20) DEF Told, Tells, Bit, Bins, Renders
  <2>6. ASSUME NEW j \in Jobs, Needs(j)'
        PROVE  Needs(j) /\ j \notin Freed(over)
    BY <1>1, <1>9, <2>5, <2>6, Numbers, ZenonT(20) DEF Needs, Freed, After
  <2>7. ASSUME NEW j \in Jobs, Needs(j)', NEW c \in given'[j]
        PROVE  Holds(c, attach'[j], staged', stageVa', j \in Bins')
    <3>1. Needs(j) /\ attach'[j] = r.attach[j]
      BY <1>7, <1>8, <2>6, <2>7, ZenonT(20)
    <3>2. \/ c \in r.attach[j]
          \/ c = r.staged /\ r.va = None /\ j \in Bins /\ (Full(r) => Taken(h) # None)
      BY <1>0, <1>3, <2>1, <2>7, <3>1, ServeHolds, ZenonT(20)
    <3>3. j \in Bins /\ Taken(h) # None => j \in Bins'
      BY <1>14, <2>1, ZenonT(20) DEF Asked, Told, Tells, Bit
    <3> QED
      BY <1>3, <1>8, <3>1, <3>2, <3>3, ZenonT(20) DEF Holds
  <2>8. ASSUME NEW j \in Jobs, st'[j] \in {"new", "queued"}
        PROVE  given'[j] = {}
    <3>1. st[j] \in {"new", "queued"}
      BY <1>9, <2>8, ZenonT(20)
    <3> QED
      BY <1>0, <1>3, <2>1, <3>1, ServeNew, ZenonT(20)
  <2>9. \A j \in bad : st'[j] \in {"binned", "done"}
    BY <1>0, <1>2, <1>9, <2>1, ZenonT(20) DEF Backed, Types, JobTypes, Bins, Renders
  <2>10. ~Kicks(th', "bin")
    BY <1>11, ZenonT(20) DEF Kicks, Thr
  <2>11. Backed'
    BY <1>1, <2>7, <2>8, <2>9, <2>10, ZenonT(20) DEF Backed
  <2> QED
    BY <2>2, <2>3, <2>4, <2>11, ZenonT(20) DEF Exact
<1> QED
  BY <1>1, <1>12, <1>13, <1>15, <1>16, <1>17, ZenonT(20) DEF IrqInv

\* ovf_service once more, for chunks just freed.
LEMMA TickStep ==
  ASSUME IrqInv, Tick
  PROVE  IrqInv'
<1>0. Types /\ Handling /\ OneEach /\ Staging /\ Placed
  BY Zenon DEF IrqInv
<1>1. /\ st' = st /\ bad' = bad /\ sts' = sts /\ ev' = ev /\ irq' = irq /\ hbin' = hbin /\ hren' = hren
      /\ h' = h /\ tested' = tested /\ th.pc = "tick"
  BY ZenonT(20) DEF Tick, jobVars, modeVars
<1>2. Bins' = Bins /\ Renders' = Renders
  BY <1>1, ZenonT(20) DEF Bins, Renders
<1>3. PICK r : (Full(r) \/ Skipped(r)) /\ SetPool(r)
  <2>1. CASE waiting > 0 /\ Bins # {}
    <3>1. Full(Stage(Grant(Attribute(Pool))))
      BY <2>1, Zenon DEF Tick, Service, Full
    <3>2. SetPool(Stage(Grant(Attribute(Pool))))
      BY <2>1, ZenonT(20) DEF Tick, Serviced
    <3> QED
      BY <3>1, <3>2, Zenon
  <2>2. CASE ~(waiting > 0 /\ Bins # {})
    <3>1. UNCHANGED <<ptbVars, consumed, missed>>
      BY <2>2, ZenonT(20) DEF Tick, Service
    <3>2. Skipped(Pool)
      BY <3>1, ZenonT(20) DEF Skipped, ptbVars
    <3>3. SetPool(Pool)
      BY <2>2, ZenonT(20) DEF Tick, Serviced
    <3> QED
      BY <3>2, <3>3, Zenon
  <2> QED
    BY <2>1, <2>2, Zenon
<1>4. /\ r \in PoolRec /\ Apart(r.free, r.staged, r.attach)
      /\ Hands(r.staged, r.va, Taken(h), consumed')
      /\ consumed' \in Chunks \cup {None} /\ missed' \in Nat /\ UnitTypes'
  BY <1>0, <1>1, <1>3, ServeFacts, ZenonT(20)
<1>5. /\ free' = r.free /\ staged' = r.staged /\ waiting' = r.waiting
      /\ attach' = r.attach /\ stageVa' = r.va
  BY <1>3, ZenonT(20) DEF SetPool
<1>6. Thr("sched", th.q, th.j, th.core)
  BY <1>0, ZenonT(20) DEF Tick, Thr, Types, TRec
<1>7. Types'
  <2>1. PoolTypes'
    BY <1>4, <1>5, ZenonT(20) DEF PoolTypes, PoolRec
  <2> QED
    BY <1>0, <1>1, <1>4, <1>6, <2>1, ZenonT(20) DEF Types, WordTypes, JobTypes, Thr
<1>8. Handling'
  BY <1>0, <1>1, <1>6, PastPoll, ZenonT(20) DEF Thr
<1>9. OneEach'
  BY <1>0, <1>2, <1>6, ZenonT(20) DEF OneEach, OneOf, Kicks, Thr
<1>10. Staging' /\ Placed'
  BY <1>1, <1>4, <1>5, ZenonT(20) DEF Staging, Placed
<1>11. ASSUME ~tested
       PROVE  Exact'
  <2>1. Told /\ Asked /\ Backed /\ ~regrant
    BY <1>11, Zenon DEF IrqInv, Exact
  <2>2. Told'
    BY <1>1, <1>2, <1>6, <2>1, ZenonT(20) DEF Told, Tells, Kicks, Bit, Thr
  <2>3. Asks(sts, h, missed', r.waiting, stalled') /\ (stalled' => stalled) /\ ~regrant'
    BY <1>0, <1>3, <2>1, ServeAsks, ZenonT(20)
  <2>4. Asked'
    BY <1>1, <1>5, <2>1, <2>3, ZenonT(20) DEF Asked
  <2>5. ASSUME NEW j \in Jobs, Needs(j)', NEW c \in given'[j]
        PROVE  Holds(c, attach'[j], staged', stageVa', j \in Bins')
    <3>1. Needs(j)
      BY <1>1, <2>5, ZenonT(20) DEF Needs
    <3>2. \/ c \in r.attach[j]
          \/ c = r.staged /\ r.va = None /\ j \in Bins
      BY <1>0, <1>3, <2>1, <2>5, <3>1, ServeHolds, ZenonT(20)
    <3> QED
      BY <1>2, <1>5, <3>2, ZenonT(20) DEF Holds
  <2>6. \A j \in Jobs : st'[j] \in {"new", "queued"} => given'[j] = {}
    BY <1>0, <1>1, <1>3, <2>1, ServeNew, ZenonT(20)
  <2>7. ~Kicks(th', "bin")
    BY <1>6, ZenonT(20) DEF Kicks, Thr
  <2>8. Backed'
    BY <1>1, <2>1, <2>5, <2>6, <2>7, ZenonT(20) DEF Backed
  <2> QED
    BY <2>2, <2>3, <2>4, <2>8, ZenonT(20) DEF Exact
<1> QED
  BY <1>1, <1>7, <1>8, <1>9, <1>10, <1>11, ZenonT(20) DEF IrqInv

\* wedge: the reset finds no handler running; the words, the units and the lists of
\* what ran are cleared, and the staged chunk goes back.
LEMMA WedgeStep ==
  ASSUME Prompt, IrqInv, TickWedge
  PROVE  IrqInv'
<1>0. Types /\ Handling /\ OneEach /\ Staging /\ Placed
  BY Zenon DEF IrqInv
<1> DEFINE D == Bins \cup Renders
<1>1. /\ consumed' = None /\ missed' = 0 /\ sts' = {} /\ ev' = {} /\ st' = Advance(D)
      /\ bad' = bad \cup Bins /\ hbin' = None /\ hren' = None /\ stalled' = FALSE /\ irq' = irq
      /\ given' = given /\ regrant' = regrant /\ h' = h /\ tested' = tested /\ h.pc = "idle"
  BY ZenonT(20) DEF TickWedge
<1>2. PICK q : q = [Pool EXCEPT !.free = @ \cup StagedBack, !.staged = None, !.waiting = 0, !.va = None]
  BY ZenonT(20)
<1>3. /\ q \in PoolRec /\ q.free = free \cup ({staged} \ {None}) /\ q.staged = None /\ q.waiting = 0
      /\ q.attach = attach /\ q.va = None
  <2>1. PoolTypes
    BY <1>0, ZenonT(20) DEF Types
  <2>2. PICK f \in SUBSET Chunks : f = free \cup ({staged} \ {None})
    BY <2>1, ZenonT(20) DEF PoolTypes
  <2>3. q = [free |-> f, staged |-> None, waiting |-> 0, attach |-> attach, va |-> None]
    BY <1>2, <2>2, ZenonT(20) DEF StagedBack, Pool
  <2> QED
    BY <2>1, <2>2, <2>3, SMTT(30) DEF PoolRec, PoolTypes
<1>4. Apart(q.free, q.staged, q.attach)
  <2>1. free \in SUBSET Chunks /\ attach \in [Jobs -> SUBSET Chunks]
    BY <1>0, ZenonT(20) DEF Types, PoolTypes
  <2>2. Apart(free \cup ({staged} \ {None}), None, attach)
    BY <1>0, <2>1, ApartStage, ZenonT(20) DEF Placed
  <2> QED
    BY <1>3, <2>2, ZenonT(20)
<1>5. D \in SUBSET Jobs /\ st \in [Jobs -> Stages]
  BY <1>0, ZenonT(20) DEF Bins, Renders, Types, JobTypes
<1> HIDE DEF D
<1>6. PICK p \in PoolRec :
        /\ p = Done(q, D) /\ Apart(p.free, p.staged, p.attach)
        /\ p.staged = q.staged /\ p.va = q.va /\ p.waiting = q.waiting
        /\ \A j \in Jobs : p.attach[j] = IF j \in Freed(D) THEN {} ELSE q.attach[j]
  <2>1. q \in PoolRec
    BY <1>3, ZenonT(20)
  <2> QED
    BY <1>4, <1>5, <2>1, DoneFacts, ZenonT(20)
<1>7. /\ free' = p.free /\ staged' = None /\ waiting' = 0 /\ attach' = p.attach /\ stageVa' = None
  <2>1. SetPool(Done(q, D))
    BY <1>2, Zenon DEF TickWedge, D
  <2> QED
    BY <1>3, <1>6, <2>1, ZenonT(20) DEF SetPool
<1>8. \A j \in Jobs : st'[j] = IF j \in D THEN (IF st[j] = "bin" THEN "binned" ELSE "done") ELSE st[j]
  BY <1>1, ZenonT(20) DEF Advance, After
<1>9. st' \in [Jobs -> Stages]
  BY <1>1, <1>5, ZenonT(20) DEF Advance, After, Stages
<1>10. Thr("sched", th.q, th.j, th.core) /\ th.pc = "tick"
  BY <1>0, ZenonT(20) DEF TickWedge, Thr, Types, TRec
<1>11. Types'
  <2>1. PoolTypes'
    <3>1. p.free \in SUBSET Chunks /\ p.attach \in [Jobs -> SUBSET Chunks]
      BY ZenonT(20) DEF PoolRec
    <3> QED
      BY <1>7, <3>1, SMTT(30) DEF PoolTypes
  <2>2. JobTypes' /\ WordTypes' /\ UnitTypes'
    BY <1>0, <1>1, <1>9, ZenonT(20) DEF Types, JobTypes, WordTypes, UnitTypes, Bins
  <2> QED
    BY <1>0, <1>1, <1>10, <2>1, <2>2, ZenonT(20) DEF Types, Thr
<1>12. Handling'
  BY <1>0, <1>1, <1>10, PastPoll, ZenonT(20) DEF Thr
<1>13. Bins' = {} /\ Renders' = {}
  BY <1>8, ZenonT(20) DEF Bins, Renders, D
<1>14. OneEach'
  BY <1>10, <1>13, ZenonT(20) DEF OneEach, OneOf, Kicks, Thr
<1>15. Taken(h) = None
  BY <1>1, ZenonT(20) DEF Taken
<1>16. Staging' /\ Placed'
  BY <1>1, <1>3, <1>6, <1>7, <1>15, ZenonT(20) DEF Staging, Hands, Placed
<1>17. ASSUME ~tested
       PROVE  Exact'
  <2>1. Backed /\ ~regrant
    BY <1>17, Zenon DEF IrqInv, Exact
  <2>2. Told'
    BY <1>1, <1>10, ZenonT(20) DEF Told, Tells, Kicks, Thr
  <2>3. Asked'
    BY <1>1, <1>7, <1>15, SMTT(30) DEF Asked, Asks, One
  <2>4. ASSUME NEW j \in Jobs, Needs(j)', NEW c \in given'[j]
        PROVE  Holds(c, attach'[j], staged', stageVa', j \in Bins')
    <3>1. Needs(j) /\ j \notin D /\ c \in given[j]
      BY <1>1, <1>8, <2>4, Numbers, ZenonT(20) DEF Needs, Bins, Renders, D
    <3>2. attach'[j] = attach[j]
      BY <1>3, <1>6, <1>7, <3>1, ZenonT(20) DEF Freed
    <3>3. Holds(c, attach[j], staged, stageVa, j \in Bins)
      BY <2>1, <3>1, Zenon DEF Backed
    <3> QED
      BY <3>1, <3>2, <3>3, ZenonT(20) DEF Holds, D
  <2>5. \A j \in Jobs : st'[j] \in {"new", "queued"} => given'[j] = {}
    BY <1>1, <1>8, <2>1, ZenonT(20) DEF Backed, D
  <2>6. \A j \in bad' : st'[j] \in {"binned", "done"}
    <3>1. \A j \in bad : j \in Jobs /\ st[j] \in {"binned", "done"}
      BY <1>0, <2>1, ZenonT(20) DEF Backed, Types, JobTypes
    <3> QED
      BY <1>1, <1>8, <3>1, ZenonT(20) DEF Bins, Renders, D
  <2>7. ~Kicks(th', "bin")
    BY <1>10, ZenonT(20) DEF Kicks, Thr
  <2>8. Backed'
    BY <2>4, <2>5, <2>6, <2>7, ZenonT(20) DEF Backed
  <2> QED
    BY <1>1, <2>1, <2>2, <2>3, <2>8, ZenonT(20) DEF Exact
<1> QED
  BY <1>1, <1>11, <1>12, <1>14, <1>16, <1>17, ZenonT(20) DEF IrqInv

\* reap_failed_heads.
LEMMA ReapStep ==
  ASSUME IrqInv, Reap
  PROVE  IrqInv'
<1>0. Types /\ Handling /\ OneEach /\ Staging /\ Placed
  BY Zenon DEF IrqInv
<1>1. /\ bad' = bad /\ consumed' = consumed /\ missed' = missed /\ sts' = sts /\ ev' = ev /\ irq' = irq
      /\ hbin' = hbin /\ hren' = hren /\ stalled' = stalled /\ given' = given /\ regrant' = regrant
      /\ h' = h /\ th' = th /\ tested' = tested /\ th.pc = "sched"
      /\ st' = [j \in Jobs |-> IF j \in Failed THEN "done" ELSE st[j]]
  BY ZenonT(20) DEF Reap, modeVars, hwVars, ptbVars
<1>2. Failed \in SUBSET Jobs /\ st \in [Jobs -> Stages]
  BY <1>0, ZenonT(20) DEF Failed, Types, JobTypes
<1>3. PICK q \in PoolRec :
        /\ q = Pool /\ q.free = free /\ q.staged = staged /\ q.waiting = waiting
        /\ q.attach = attach /\ q.va = stageVa
  BY <1>0, PoolFields, ZenonT(20) DEF Types
<1>4. PICK p \in PoolRec :
        /\ p = Done(q, Failed) /\ Apart(p.free, p.staged, p.attach)
        /\ p.staged = q.staged /\ p.va = q.va /\ p.waiting = q.waiting
        /\ \A j \in Jobs : p.attach[j] = IF j \in Freed(Failed) THEN {} ELSE q.attach[j]
  <2>1. Apart(q.free, q.staged, q.attach)
    BY <1>0, <1>3, Zenon DEF Placed
  <2>2. PICK p : p = Done(q, Failed)
    BY Zenon
  <2>3. /\ p \in PoolRec /\ Apart(p.free, p.staged, p.attach)
        /\ p.staged = q.staged /\ p.va = q.va /\ p.waiting = q.waiting
        /\ \A j \in Jobs : p.attach[j] = IF j \in Freed(Failed) THEN {} ELSE q.attach[j]
    BY <1>2, <2>1, <2>2, DoneFacts, ZenonT(20)
  <2> QED
    BY <2>2, <2>3, Zenon
<1>5. free' = p.free /\ staged' = staged /\ waiting' = waiting /\ attach' = p.attach /\ stageVa' = stageVa
  <2>1. SetPool(p)
    BY <1>3, <1>4, Zenon DEF Reap
  <2>2. p.staged = staged /\ p.va = stageVa /\ p.waiting = waiting
    BY <1>3, <1>4, Zenon
  <2> QED
    BY <2>1, <2>2, Zenon DEF SetPool
<1>15. \A j \in Jobs : attach'[j] = IF j \in Freed(Failed) THEN {} ELSE attach[j]
  BY <1>3, <1>4, <1>5, ZenonT(20)
<1>6. \A j \in Jobs : st'[j] = IF j \in Failed THEN "done" ELSE st[j]
  BY <1>1, ZenonT(20)
<1>7. st' \in [Jobs -> Stages]
  BY <1>1, <1>2, ZenonT(20) DEF Stages
<1>8. Bins' = Bins /\ Renders' = Renders
  BY <1>6, ZenonT(20) DEF Bins, Renders, Failed
<1>9. Types'
  <2>1. PoolTypes'
    <3>1. p.free \in SUBSET Chunks /\ p.attach \in [Jobs -> SUBSET Chunks]
      BY ZenonT(20) DEF PoolRec
    <3>2. staged \in Chunks \cup {None} /\ waiting \in Int /\ stageVa \in Chunks \cup {None}
      BY <1>0, Zenon DEF Types, PoolTypes
    <3> QED
      BY <1>5, <3>1, <3>2, ZenonT(20) DEF PoolTypes
  <2> QED
    BY <1>0, <1>1, <1>7, <2>1, ZenonT(20) DEF Types, JobTypes, WordTypes, UnitTypes
<1>10. Handling' /\ OneEach'
  BY <1>0, <1>1, <1>8, Zenon DEF Handling, OneEach
<1>11. Staging' /\ Placed'
  <2>1. Staging'
    BY <1>0, <1>1, <1>5, ZenonT(20) DEF Staging
  <2>2. Placed'
    <3>1. p.staged = staged
      BY <1>3, <1>4, Zenon
    <3> QED
      BY <1>4, <1>5, <3>1, ZenonT(20) DEF Placed
  <2> QED
    BY <2>1, <2>2, ZenonT(20)
<1>12. ASSUME ~tested
       PROVE  Exact'
  <2>1. Told /\ Asked /\ Backed /\ ~regrant
    BY <1>12, Zenon DEF IrqInv, Exact
  <2>2. Told' /\ Asked'
    BY <1>1, <1>5, <1>8, <2>1, ZenonT(20) DEF Told, Asked
  <2>3. /\ hbin # None => hbin \in Bins
        /\ hren # None => hren \in Renders
    BY <2>1, ZenonT(20) DEF Told, Tells
  <2>4. ASSUME NEW j \in Jobs, Needs(j)', NEW c \in given[j]
        PROVE  Holds(c, attach'[j], staged', stageVa', j \in Bins')
    <3>1. Needs(j) /\ j \notin Failed
      BY <1>1, <1>6, <2>3, <2>4, Numbers, ZenonT(20) DEF Needs, Failed, Bins, Renders
    <3>2. attach'[j] = attach[j]
      BY <1>15, <3>1, ZenonT(20) DEF Freed
    <3>3. Holds(c, attach[j], staged, stageVa, j \in Bins)
      BY <2>1, <2>4, <3>1, Zenon DEF Backed
    <3> QED
      BY <1>5, <1>8, <3>2, <3>3, Zenon
  <2>5. \A j \in Jobs : st'[j] \in {"new", "queued"} => given[j] = {}
    BY <1>6, <2>1, ZenonT(20) DEF Backed
  <2>6. \A j \in bad : st'[j] \in {"binned", "done"}
    BY <1>0, <1>6, <2>1, ZenonT(20) DEF Backed, Types, JobTypes
  <2>7. ~Kicks(th', "bin")
    BY <1>1, ZenonT(20) DEF Kicks
  <2>8. Backed'
    BY <1>1, <2>4, <2>5, <2>6, <2>7, ZenonT(20) DEF Backed
  <2> QED
    BY <1>1, <2>1, <2>2, <2>8, ZenonT(20) DEF Exact
<1> QED
  BY <1>1, <1>9, <1>10, <1>11, <1>12, ZenonT(20) DEF IrqInv

-----------------------------------------------------------------------------
(* Requests                                                                *)

\* A list is submitted.
LEMMA SubmitStep ==
  ASSUME IrqInv, NEW j \in Jobs, Submit(j)
  PROVE  IrqInv'
<1>0. Types /\ Handling /\ OneEach /\ Staging /\ Placed
  BY Zenon DEF IrqInv
<1>1. /\ bad' = bad /\ attach' = attach /\ free' = free /\ staged' = staged /\ waiting' = waiting
      /\ stageVa' = stageVa /\ consumed' = consumed /\ missed' = missed /\ sts' = sts /\ ev' = ev
      /\ irq' = irq /\ hbin' = hbin /\ hren' = hren /\ stalled' = stalled /\ given' = given
      /\ regrant' = regrant /\ h' = h /\ tested' = tested /\ th.pc = "free"
      /\ st' = [st EXCEPT ![j] = "queued"] /\ st[j] = "new"
  BY ZenonT(20) DEF Submit, ovfVars, wordVars, modeVars, hwVars, ptbVars
<1>2. st' \in [Jobs -> Stages] /\ \A i \in Jobs : st'[i] = IF i = j THEN "queued" ELSE st[i]
  BY <1>0, <1>1, ZenonT(20) DEF Types, JobTypes, Stages
<1>3. Thr("sched", "bin", None, {})
  BY ZenonT(20) DEF Submit, Rest, Thr, TRec
<1>4. Bins' = Bins /\ Renders' = Renders
  BY <1>1, <1>2, ZenonT(20) DEF Bins, Renders
<1>5. Types'
  BY <1>0, <1>1, <1>2, <1>3, ZenonT(20) DEF Types, JobTypes, PoolTypes, WordTypes, UnitTypes, Thr
<1>6. Handling' /\ OneEach'
  BY <1>0, <1>1, <1>3, <1>4, ZenonT(20) DEF Handling, OneEach, OneOf, Kicks, Thr
<1>7. Staging' /\ Placed'
  BY <1>0, <1>1, Zenon DEF Staging, Placed
<1>8. ASSUME ~tested
      PROVE  Exact'
  <2>1. Told /\ Asked /\ Backed /\ ~regrant
    BY <1>8, Zenon DEF IrqInv, Exact
  <2>2. Told'
    BY <1>1, <1>3, <1>4, <2>1, ZenonT(20) DEF Told, Tells, Kicks, Thr
  <2>3. Asked'
    BY <1>1, <2>1, ZenonT(20) DEF Asked
  <2>4. ASSUME NEW i \in Jobs, Needs(i)', NEW c \in given[i]
        PROVE  Holds(c, attach[i], staged, stageVa, i \in Bins)
    <3>1. Needs(i)
      BY <1>1, <1>2, <2>4, ZenonT(20) DEF Needs
    <3> QED
      BY <2>1, <2>4, <3>1, Zenon DEF Backed
  <2>5. \A i \in Jobs : st'[i] \in {"new", "queued"} => given[i] = {}
    BY <1>1, <1>2, <2>1, ZenonT(20) DEF Backed
  <2>6. \A i \in bad : st'[i] \in {"binned", "done"}
    BY <1>0, <1>1, <1>2, <2>1, ZenonT(20) DEF Backed, Types, JobTypes
  <2>7. ~Kicks(th', "bin")
    BY <1>3, ZenonT(20) DEF Kicks, Thr
  <2>8. Backed'
    BY <1>1, <1>4, <2>4, <2>5, <2>6, <2>7, ZenonT(20) DEF Backed
  <2> QED
    BY <1>1, <2>1, <2>2, <2>3, <2>8, ZenonT(20) DEF Exact
<1> QED
  BY <1>1, <1>5, <1>6, <1>7, <1>8, ZenonT(20) DEF IrqInv

\* The jobs of a dead client are discarded; a running bin goes on as an orphan.
LEMMA DiscardStep ==
  ASSUME IrqInv, NEW j \in Jobs, Discard(j)
  PROVE  IrqInv'
<1>0. Types /\ Handling /\ OneEach /\ Staging /\ Placed
  BY Zenon DEF IrqInv
<1>1. /\ bad' = bad /\ staged' = staged /\ waiting' = waiting
      /\ stageVa' = stageVa /\ consumed' = consumed /\ missed' = missed /\ sts' = sts /\ ev' = ev
      /\ irq' = irq /\ hbin' = hbin /\ hren' = hren /\ stalled' = stalled /\ given' = given
      /\ regrant' = regrant /\ h' = h /\ tested' = tested /\ th.pc = "free"
      /\ st' = [st EXCEPT ![j] = IF @ = "bin" THEN "bin-orphan" ELSE "done"]
      /\ st[j] \in {"queued", "bin", "binned"}
      /\ free' = free \cup (IF st[j] = "binned" THEN attach[j] ELSE {})
      /\ attach' = [attach EXCEPT ![j] = IF st[j] = "binned" THEN {} ELSE @]
  BY ZenonT(20) DEF Discard, wordVars, modeVars, hwVars, ptbVars
<1>2. /\ st' \in [Jobs -> Stages]
      /\ \A i \in Jobs : st'[i] = IF i = j THEN (IF st[j] = "bin" THEN "bin-orphan" ELSE "done") ELSE st[i]
  BY <1>0, <1>1, ZenonT(20) DEF Types, JobTypes, Stages
<1>3. Thr("sched", "bin", None, {})
  BY ZenonT(20) DEF Discard, Rest, Thr, TRec
<1>4. Bins' = Bins /\ Renders' = Renders
  BY <1>1, <1>2, ZenonT(20) DEF Bins, Renders
<1>5. free \in SUBSET Chunks /\ attach \in [Jobs -> SUBSET Chunks]
  BY <1>0, ZenonT(20) DEF Types, PoolTypes
<1>6. free' \in SUBSET Chunks /\ attach' \in [Jobs -> SUBSET Chunks] /\ Apart(free', staged, attach')
  <2>1. CASE st[j] # "binned"
    <3>1. free' = free /\ attach' = attach
      BY <1>1, <1>5, <2>1, ZenonT(20)
    <3> QED
      BY <1>0, <1>5, <3>1, ZenonT(20) DEF Placed
  <2>2. CASE st[j] = "binned"
    <3>1. PICK D \in SUBSET Jobs : D = {j}
      BY Zenon
    <3>2. /\ free' = free \cup UNION {attach[i] : i \in D}
          /\ attach' = [i \in Jobs |-> IF i \in D THEN {} ELSE attach[i]]
      BY <1>1, <1>5, <2>2, <3>1, ZenonT(20)
    <3>3. Apart(free \cup UNION {attach[i] : i \in D}, staged, [i \in Jobs |-> IF i \in D THEN {} ELSE attach[i]])
      BY <1>0, <1>5, ApartDone, SMTT(30) DEF Placed
    <3>4. free' \in SUBSET Chunks /\ attach' \in [Jobs -> SUBSET Chunks]
      BY <1>1, <1>5, <2>2, ZenonT(20)
    <3> QED
      BY <3>2, <3>3, <3>4, ZenonT(20)
  <2> QED
    BY <2>1, <2>2, ZenonT(20)
<1>7. Types'
  BY <1>0, <1>1, <1>2, <1>3, <1>6, ZenonT(20) DEF Types, JobTypes, PoolTypes, WordTypes, UnitTypes, Thr
<1>8. Handling' /\ OneEach'
  BY <1>0, <1>1, <1>3, <1>4, ZenonT(20) DEF Handling, OneEach, OneOf, Kicks, Thr
<1>9. Staging' /\ Placed'
  BY <1>0, <1>1, <1>6, Zenon DEF Staging, Placed
<1>10. ASSUME ~tested
       PROVE  Exact'
  <2>1. Told /\ Asked /\ Backed /\ ~regrant
    BY <1>10, Zenon DEF IrqInv, Exact
  <2>2. Told'
    BY <1>1, <1>3, <1>4, <2>1, ZenonT(20) DEF Told, Tells, Kicks, Thr
  <2>3. Asked'
    BY <1>1, <2>1, ZenonT(20) DEF Asked
  <2>4. /\ hbin # None => hbin \in Bins
        /\ hren # None => hren \in Renders
    BY <2>1, ZenonT(20) DEF Told, Tells
  <2>5. ASSUME NEW i \in Jobs, Needs(i)', NEW c \in given[i]
        PROVE  Holds(c, attach'[i], staged, stageVa, i \in Bins)
    <3>1. Needs(i) /\ (i = j => st[j] = "bin")
      BY <1>1, <1>2, <2>1, <2>4, <2>5, Numbers, ZenonT(20) DEF Needs, Bins, Renders, Backed
    <3>2. Holds(c, attach[i], staged, stageVa, i \in Bins)
      BY <2>1, <2>5, <3>1, Zenon DEF Backed
    <3>3. attach'[i] = attach[i]
      BY <1>1, <1>5, <3>1, ZenonT(20)
    <3> QED
      BY <3>2, <3>3, Zenon
  <2>6. \A i \in Jobs : st'[i] \in {"new", "queued"} => given[i] = {}
    BY <1>1, <1>2, <2>1, ZenonT(20) DEF Backed
  <2>7. \A i \in bad : st'[i] \in {"binned", "done"}
    BY <1>0, <1>1, <1>2, <2>1, ZenonT(20) DEF Backed, Types, JobTypes
  <2>8. ~Kicks(th', "bin")
    BY <1>3, ZenonT(20) DEF Kicks, Thr
  <2>9. Backed'
    BY <1>1, <1>4, <2>5, <2>6, <2>7, <2>8, ZenonT(20) DEF Backed
  <2> QED
    BY <1>1, <2>1, <2>2, <2>3, <2>9, ZenonT(20) DEF Exact
<1> QED
  BY <1>1, <1>7, <1>8, <1>9, <1>10, ZenonT(20) DEF IrqInv

\* DBG_IRQ_MODE and the self-test, which voids what is said of done bits.
LEMMA DebugStep ==
  ASSUME IrqInv, (\E on \in BOOLEAN : IrqMode(on)) \/ RaiseTest
  PROVE  IrqInv'
<1>0. Types /\ Handling /\ OneEach /\ Staging /\ Placed
  BY Zenon DEF IrqInv
<1>1. /\ st' = st /\ bad' = bad /\ attach' = attach /\ free' = free /\ staged' = staged
      /\ waiting' = waiting /\ hbin' = hbin /\ hren' = hren /\ stalled' = stalled /\ given' = given
      /\ regrant' = regrant /\ stageVa' = stageVa /\ consumed' = consumed /\ missed' = missed
      /\ h' = h /\ th' = th /\ th.pc = "free"
  BY ZenonT(20) DEF IrqMode, RaiseTest, jobVars, ovfVars, wordVars, hwVars, ptbVars
<1>2. Bins' = Bins /\ Renders' = Renders
  BY <1>1, ZenonT(20) DEF Bins, Renders
<1>3. OneEach' /\ Staging' /\ Placed'
  BY <1>0, <1>1, <1>2, Zenon DEF OneEach, Staging, Placed
<1>4. CASE \E on \in BOOLEAN : IrqMode(on)
  <2>1. PICK on \in BOOLEAN : IrqMode(on)
    BY <1>4, ZenonT(20)
  <2>2. irq' = on /\ h.pc = "idle" /\ sts' \subseteq sts /\ ev' = ev /\ tested' = tested
    BY <2>1, ZenonT(20) DEF IrqMode
  <2>3. Types'
    BY <1>0, <1>1, <2>2, ZenonT(20) DEF Types, JobTypes, PoolTypes, WordTypes, UnitTypes
  <2>4. Handling'
    BY <1>0, <1>1, <2>2, ZenonT(20) DEF Handling
  <2>5. ASSUME ~tested
        PROVE  Exact'
    <3>1. Told /\ Asked /\ Backed /\ ~regrant
      BY <2>5, Zenon DEF IrqInv, Exact
    <3>2. Told'
      BY <1>1, <1>2, <2>2, <3>1, ZenonT(20) DEF Told, Tells
    <3>3. Asked'
      BY <1>1, <2>2, <3>1, SMTT(30) DEF Asked, Asks, One
    <3>4. \A j \in Jobs : Needs(j)' => Needs(j)
      BY <1>1, ZenonT(20) DEF Needs
    <3>5. Backed'
      BY <1>1, <1>2, <3>1, <3>4, BackedLess, ZenonT(20)
    <3> QED
      BY <1>1, <3>1, <3>2, <3>3, <3>5, ZenonT(20) DEF Exact
  <2> QED
    BY <1>3, <2>2, <2>3, <2>4, <2>5, ZenonT(20) DEF IrqInv
<1>5. CASE RaiseTest
  <2>1. tested' = TRUE /\ irq' = irq
        /\ sts' = (IF irq THEN sts \cup {"FL"} ELSE {}) /\ ev' = (IF irq THEN ev ELSE ev \cup sts \cup {"FL"})
    BY <1>5, ZenonT(20) DEF RaiseTest, modeVars
  <2>2. sts' \subseteq Bits /\ ev' \subseteq Bits
    BY <1>0, <2>1, ZenonT(20) DEF Types, WordTypes, Bits
  <2>3. Types'
    BY <1>0, <1>1, <2>1, <2>2, ZenonT(20) DEF Types, JobTypes, PoolTypes, WordTypes, UnitTypes
  <2>4. Handling'
    BY <1>0, <1>1, <2>1, Zenon DEF Handling
  <2> QED
    BY <1>3, <2>1, <2>3, <2>4, ZenonT(20) DEF IrqInv
<1> QED
  BY <1>4, <1>5, ZenonT(20)

-----------------------------------------------------------------------------
(* The theorems                                                            *)

\* The invariant holds at the start.
LEMMA IrqInitInv ==
  ASSUME Init
  PROVE  IrqInv
<1>1. /\ st = [j \in Jobs |-> "new"] /\ bad = {} /\ attach = [j \in Jobs |-> {}]
      /\ free = Chunks /\ staged = None /\ waiting = 0 /\ stageVa = None /\ consumed = None /\ missed = 0
      /\ sts = {} /\ ev = {} /\ irq \in BOOLEAN /\ hbin = None /\ hren = None /\ stalled = FALSE
      /\ given = [j \in Jobs |-> {}] /\ regrant = FALSE /\ tested = FALSE
  BY ZenonT(20) DEF Init
<1>2. h \in HRec /\ h.pc = "idle" /\ h.core = {}
  <2>1. h = Idle
    BY ZenonT(20) DEF Init
  <2> QED
    BY <2>1, ZenonT(20) DEF Idle, HRec
<1>3. th \in TRec /\ th.pc = "free"
  BY ZenonT(20) DEF Init, Rest, TRec
<1>4. Bins = {} /\ Renders = {}
  BY <1>1, ZenonT(20) DEF Bins, Renders
<1>5. Types
  <2>1. JobTypes
    BY <1>1, ZenonT(20) DEF JobTypes, Stages
  <2>2. PoolTypes
    BY <1>1, SMTT(30) DEF PoolTypes
  <2>3. WordTypes /\ UnitTypes
    BY <1>1, ZenonT(20) DEF WordTypes, UnitTypes
  <2> QED
    BY <1>2, <1>3, <2>1, <2>2, <2>3, ZenonT(20) DEF Types
<1>6. Handling /\ OneEach
  BY <1>2, <1>3, <1>4, ZenonT(20) DEF Handling, OneEach, OneOf, Kicks
<1>7. Taken(h) = None
  BY <1>2, ZenonT(20) DEF Taken
<1>8. Staging /\ Placed
  BY <1>1, <1>7, Numbers, ZenonT(20) DEF Staging, Hands, Placed, Apart
<1>9. Told /\ Asked
  <2>1. Told
    BY <1>1, <1>3, ZenonT(20) DEF Told, Tells, Kicks
  <2>2. Asks({}, h, 0, 0, FALSE)
    BY <1>2, AsksNone, ZenonT(20)
  <2>3. Asks(sts, h, missed, waiting, stalled)
    BY <1>1, <2>2, ZenonT(20)
  <2> QED
    BY <1>1, <1>7, <2>1, <2>3, ZenonT(20) DEF Asked
<1>10. Backed
  BY <1>1, <1>3, ZenonT(20) DEF Backed, Kicks
<1> QED
  BY <1>1, <1>5, <1>6, <1>8, <1>9, <1>10, ZenonT(20) DEF IrqInv, Exact

\* Every step preserves the invariant.
LEMMA IrqNextInv ==
  ASSUME Prompt, IrqInv, [Next]_vars
  PROVE  IrqInv'
<1>1. CASE Thread
  BY <1>1, RoundStep, EventsStep, WedgeStep, TickStep, ReapStep, KickStep, DrainStep, StartStep, LeaveStep, ZenonT(20)
     DEF Thread
<1>2. CASE Request
  BY <1>2, SubmitStep, DiscardStep, DebugStep, ZenonT(20) DEF Request
<1>3. CASE UNCHANGED vars
  <2>1. /\ st' = st /\ bad' = bad /\ attach' = attach /\ free' = free /\ staged' = staged
        /\ waiting' = waiting /\ hbin' = hbin /\ hren' = hren /\ stalled' = stalled /\ given' = given
        /\ regrant' = regrant /\ stageVa' = stageVa /\ consumed' = consumed /\ missed' = missed
        /\ sts' = sts /\ ev' = ev /\ irq' = irq /\ tested' = tested /\ h' = h /\ th' = th
    BY <1>3, ZenonT(20) DEF vars, jobVars, ovfVars, wordVars, modeVars, hwVars, ptbVars
  <2>2. Bins' = Bins /\ Renders' = Renders
    BY <2>1, ZenonT(20) DEF Bins, Renders
  <2>3. Types' /\ Handling' /\ OneEach' /\ Staging' /\ Placed'
    BY <2>1, <2>2, ZenonT(20) DEF IrqInv, Types, JobTypes, PoolTypes, WordTypes, UnitTypes, Handling, OneEach, Staging, Placed
  <2>4. ASSUME ~tested
        PROVE  Exact'
    <3>1. Told /\ Asked /\ Backed /\ ~regrant
      BY <2>4, Zenon DEF IrqInv, Exact
    <3>2. Told' /\ Asked'
      BY <2>1, <2>2, <3>1, ZenonT(20) DEF Told, Asked
    <3>3. \A j \in Jobs : Needs(j)' => Needs(j)
      BY <2>1, ZenonT(20) DEF Needs
    <3>4. Backed'
      BY <2>1, <2>2, <3>1, <3>3, BackedLess, ZenonT(20)
    <3> QED
      BY <2>1, <3>1, <3>2, <3>4, ZenonT(20) DEF Exact
  <2> QED
    BY <2>1, <2>3, <2>4, ZenonT(20) DEF IrqInv
<1> QED
  BY <1>1, <1>2, <1>3, HardwareStep, HandlerStep, Zenon DEF Next

\* The invariant holds throughout, of a handler that is fast against the flushes, the
\* reset and the binner's work on a chunk.
LEMMA IrqAlways ==
  ASSUME Prompt
  PROVE  Spec => []IrqInv
<1>1. Init => IrqInv
  BY IrqInitInv, ZenonT(20)
<1>2. IrqInv /\ [Next]_vars => IrqInv'
  BY IrqNextInv, ZenonT(20)
<1> QED
  BY <1>1, <1>2, PTL DEF Spec

\* Every overflow chunk is free, staged or on the list of one job, whatever stalls, is
\* reset, dies or is tested: none leaks and none is handed out twice.
THEOREM ChunksPartitioned ==
  ASSUME Prompt
  PROVE  Spec => []ChunkPartition
<1>1. IrqInv => ChunkPartition
  <2> SUFFICES ASSUME IrqInv PROVE ChunkPartition
    BY ZenonT(20)
  <2>1. free \in SUBSET Chunks /\ staged \in Chunks \cup {None} /\ attach \in [Jobs -> SUBSET Chunks]
    BY ZenonT(20) DEF IrqInv, Types, PoolTypes
  <2>2. Apart(free, staged, attach)
    BY ZenonT(20) DEF IrqInv, Placed
  <2> DEFINE U == UNION {attach[j] : j \in Jobs}
             X == {staged} \ {None}
  <2>4. \A c : c \in U <=> \E j \in Jobs : c \in attach[j]
    BY ZenonT(20)
  <2>5. \A c : c \in X <=> c = staged /\ c # None
    BY ZenonT(20)
  <2> HIDE DEF U, X
  <2>6. U \in SUBSET Chunks /\ X \in SUBSET Chunks
    BY <2>1, <2>4, <2>5, SMTT(30)
  <2>7. free \cap U = {} /\ X \cap U = {} /\ free \cap X = {}
    BY <2>2, <2>4, <2>5, SMTT(30) DEF Apart
  <2>8. free \cup U \cup X = Chunks
    BY <2>1, <2>2, <2>4, <2>5, <2>6, Numbers, ZenonT(20) DEF Apart
  <2>9. \A i, j \in Jobs : i # j => attach[i] \cap attach[j] = {}
    BY <2>2, ZenonT(20) DEF Apart
  <2>10. IsFiniteSet(Chunks) /\ Cardinality(Chunks) = NChunks
    BY Numbers, FS_Interval, SMTT(30) DEF Chunks
  <2>11. IsFiniteSet(free) /\ IsFiniteSet(U) /\ IsFiniteSet(X)
    BY <2>1, <2>6, <2>10, FS_Subset, ZenonT(20)
  <2>12. Cardinality(free) \in Nat /\ Cardinality(U) \in Nat /\ Cardinality(X) \in Nat
    BY <2>11, FS_CardinalityType, ZenonT(20)
  <2>13. Cardinality(free) + Cardinality(X) + Cardinality(U) = NChunks
    <3>1. IsFiniteSet(free \cup U) /\ Cardinality(free \cup U) = Cardinality(free) + Cardinality(U) - Cardinality({})
      BY <2>7, <2>11, FS_Union, SMTT(30)
    <3>2. (free \cup U) \cap X = {}
      BY <2>7, ZenonT(20)
    <3>3. Cardinality((free \cup U) \cup X) = Cardinality(free \cup U) + Cardinality(X) - Cardinality({})
      BY <2>11, <3>1, <3>2, FS_Union, SMTT(30)
    <3>4. NChunks = Cardinality(free \cup U) + Cardinality(X) - Cardinality({}) /\ Cardinality({}) = 0
      BY <2>8, <2>10, <3>3, FS_EmptySet, Zenon
    <3> QED
      BY <2>12, <3>1, <3>4, SMTT(30)
  <2> QED
    <3>1. free \cup (UNION {attach[j] : j \in Jobs}) \cup ({staged} \ {None}) = Chunks
      BY <2>8, ZenonT(20) DEF U, X
    <3>2. Cardinality(free) + Cardinality({staged} \ {None}) + Cardinality(UNION {attach[j] : j \in Jobs}) = NChunks
      BY <2>13, ZenonT(20) DEF U, X
    <3> QED
      BY <2>9, <3>1, <3>2, Zenon DEF ChunkPartition
<1> QED
  BY <1>1, IrqAlways, PTL

\* Until a self-test is run, what the binner was given for a list stays with the list
\* while it is binned, waits for its render or is rendered.
THEOREM ChunksKept ==
  ASSUME Prompt
  PROVE  Spec => []ChunksOutliveBin
<1>1. IrqInv => ChunksOutliveBin
  <2> SUFFICES ASSUME IrqInv, ~tested, NEW j \in Jobs, Needs(j), NEW c \in given[j]
               PROVE  c \notin free /\ c # stageVa /\ \A i \in Jobs \ {j} : c \notin attach[i]
    BY ZenonT(20) DEF ChunksOutliveBin, Needs
  <2>1. Holds(c, attach[j], staged, stageVa, j \in Bins)
    BY Zenon DEF IrqInv, Exact, Backed
  <2>2. c \in Chunks /\ c # None
    BY Numbers, ZenonT(20) DEF IrqInv, Types, UnitTypes
  <2>3. Apart(free, staged, attach) /\ stageVa \in {None, staged}
    BY ZenonT(20) DEF IrqInv, Placed, Staging, Hands
  <2> QED
    BY <2>1, <2>2, <2>3, ZenonT(20) DEF Holds, Apart
<1> QED
  BY <1>1, IrqAlways, PTL

\* Until a self-test is run, a unit works only on a job that the server has on it: no
\* stale done bit completes the next job.
THEOREM NoneEndedEarly ==
  ASSUME Prompt
  PROVE  Spec => []NoEarlyDone
<1>1. IrqInv => NoEarlyDone
  BY ZenonT(20) DEF IrqInv, Exact, Told, Tells, NoEarlyDone, Bins, Renders
<1> QED
  BY <1>1, IrqAlways, PTL

\* Until a self-test is run, only a binner that waits is given a chunk, and one chunk.
THEOREM StallsAnsweredOnce ==
  ASSUME Prompt
  PROVE  Spec => []OneGrantPerStall
<1>1. IrqInv => OneGrantPerStall
  BY Zenon DEF IrqInv, Exact, OneGrantPerStall
<1> QED
  BY <1>1, IrqAlways, PTL

=============================================================================
