-------------------------- MODULE BufImportProofs --------------------------
(***************************************************************************)
(* Proofs, for every number of slots, threads, clients, names and BOs, of  *)
(* what the two servers' imports promise although they run without the     *)
(* lock between their locked parts: one import per name, mappings, source  *)
(* references and descriptors that add up.                                 *)
(***************************************************************************)
EXTENDS BufImportProps, FiniteSetTheorems, TLAPS

BoRec == [st : {"free", "live", "quarantine"}, owner : RSlots \cup {NoOne},
          name : KNames \cup {0}, for : Nat]
ReqRec == [at : {"idle", "look", "map", "mapped", "install"}, slot : RSlots \cup {NoOne},
           gen : Nat, name : KNames \cup {0}]
ImpRec == [at : {"idle", "look", "map", "mapped", "install", "reap", "closing"},
           client : KClients \cup {NoOne}, name : VNames \cup {NoOne}]

\* The types of the state the import of the render server and the two locks use.
ImportTypes ==
  /\ rlock \in RThreads \cup {NoOne}
  /\ rbo \in [RIdx -> BoRec]
  /\ rclient \in [RSlots -> [used : BOOLEAN, gen : Nat]]
  /\ req \in [RThreads -> ReqRec]
  /\ imp \in ImpRec
  /\ \A t \in RThreads : req[t].at # "idle" => req[t].slot \in RSlots /\ req[t].name \in KNames

\* A live import has an owner.
LiveOwned == \A i \in RIdx : rbo[i].st = "live" => rbo[i].owner \in RSlots

\* The inductive invariant.
ImportInv ==
  /\ ImportTypes
  /\ LiveOwned
  /\ LockedPartsOnly
  /\ OneImportPerName
  /\ ImportOfItsClient

USE DEF Main, Vblank, NoOne

\* A quarantined BO is a BO.
LEMMA QuarantinedBo ==
  ASSUME NEW b \in BoRec
  PROVE  Quarantined(b) \in BoRec /\ Quarantined(b).st = "quarantine"
  BY ZenonT(20) DEF Quarantined, BoRec

\* The records the actions build anew are of their types.
LEMMA NewRecords ==
  /\ FreeR \in BoRec /\ FreeR.st = "free"
  /\ NoReq \in ReqRec /\ NoReq.at = "idle"
  /\ NoImp \in ImpRec /\ NoImp.at = "idle"
  BY DEF FreeR, NoReq, NoImp, BoRec, ReqRec, ImpRec

\* An import that moves on is still for the same client and name.
LEMMA MovedAt ==
  ASSUME NEW q \in ReqRec, NEW a \in {"look", "map", "mapped", "install"}
  PROVE  /\ [q EXCEPT !.at = a] \in ReqRec /\ [q EXCEPT !.at = a].at = a
         /\ [q EXCEPT !.at = a].slot = q.slot /\ [q EXCEPT !.at = a].name = q.name
  BY DEF ReqRec

\* ... also when it remembers the generation of the client slot.
LEMMA MovedOn ==
  ASSUME NEW q \in ReqRec, NEW g \in Nat
  PROVE  /\ [q EXCEPT !.at = "map", !.gen = g] \in ReqRec
         /\ [q EXCEPT !.at = "map", !.gen = g].at = "map"
         /\ [q EXCEPT !.at = "map", !.gen = g].slot = q.slot
         /\ [q EXCEPT !.at = "map", !.gen = g].name = q.name
  BY ZenonT(20) DEF ReqRec

\* No server starts with an import or a lock held.
LEMMA ImportInit == Init => ImportInv
  BY BufAssumption DEF BufAssumption, Init, ImportInv, ImportTypes, LiveOwned, LockedPartsOnly, OneImportPerName,
     ImportOfItsClient, FreeR, NoReq, NoImp, BoRec, ReqRec, ImpRec

\* A step that leaves the render server's import state alone.
LEMMA RenderSame ==
  ASSUME ImportInv, UNCHANGED rVars,
         imp' \in ImpRec,
         (klock = Main <=> imp.at \in {"look", "install"})'
  PROVE  ImportInv'
  BY DEF rVars, ImportInv, ImportTypes, LiveOwned, LockedPartsOnly, OneImportPerName, ImportOfItsClient, RFound

\* A step that leaves the display server alone.
LEMMA DisplaySame ==
  ASSUME ImportInv, UNCHANGED kVars
  PROVE  /\ imp' \in ImpRec
         /\ (klock = Main <=> imp.at \in {"look", "install"})'
  BY DEF kVars, ImportInv, ImportTypes, LockedPartsOnly

\* Opening a client slot: its imports of an earlier owner are gone already.
LEMMA OpenStep ==
  ASSUME ImportInv, NEW s \in RSlots, ROpen(s)
  PROVE  ImportInv'
<1>1. ImportTypes'
  BY DisplaySame DEF ROpen, ImportInv, ImportTypes
<1>2. LiveOwned' /\ OneImportPerName'
  BY DEF ROpen, ImportInv, LiveOwned, OneImportPerName
<1>3. LockedPartsOnly'
  BY DisplaySame DEF ROpen, ImportInv, LockedPartsOnly
<1>4. ImportOfItsClient'
  BY DEF ROpen, ImportInv, ImportOfItsClient, ImportTypes, LiveOwned
<1> QED
  BY <1>1, <1>2, <1>3, <1>4 DEF ImportInv

\* Closing a client slot drops its imports with it.
LEMMA CloseStep ==
  ASSUME ImportInv, NEW s \in RSlots, RClose(s)
  PROVE  ImportInv'
<1>1. ImportTypes'
  <2>1. rbo' \in [RIdx -> BoRec]
    BY QuarantinedBo DEF RClose, ImportInv, ImportTypes
  <2>2. rclient' \in [RSlots -> [used : BOOLEAN, gen : Nat]]
    BY ZenonT(20) DEF RClose, ImportInv, ImportTypes
  <2> QED
    BY <2>1, <2>2, DisplaySame DEF RClose, ImportInv, ImportTypes
<1>2. \A i \in RIdx : rbo'[i].st = "live" => rbo[i].st = "live" /\ rbo'[i] = rbo[i] /\ rbo[i].owner # s
  BY QuarantinedBo DEF RClose, ImportInv, ImportTypes
<1>3. LiveOwned' /\ OneImportPerName'
  BY <1>2 DEF ImportInv, LiveOwned, OneImportPerName
<1>4. LockedPartsOnly'
  BY DisplaySame DEF RClose, ImportInv, LockedPartsOnly
<1>5. ImportOfItsClient'
  BY <1>2 DEF RClose, ImportInv, ImportOfItsClient, ImportTypes, LiveOwned
<1> QED
  BY <1>1, <1>3, <1>4, <1>5 DEF ImportInv

\* Closing an import, or letting go of its mapping, makes no import live.
LEMMA ReleaseStep ==
  ASSUME ImportInv, NEW i \in RIdx, RBoClose(i) \/ RPoll(i)
  PROVE  ImportInv'
<1>1. ImportTypes'
  BY DisplaySame, QuarantinedBo, NewRecords DEF RBoClose, RPoll, ImportInv, ImportTypes
<1>2. \A j \in RIdx : rbo'[j].st = "live" => rbo[j].st = "live" /\ rbo'[j] = rbo[j]
  BY QuarantinedBo, NewRecords DEF RBoClose, RPoll, ImportInv, ImportTypes
<1>3. LiveOwned' /\ OneImportPerName'
  BY <1>2 DEF ImportInv, LiveOwned, OneImportPerName
<1>4. LockedPartsOnly'
  BY DisplaySame DEF RBoClose, RPoll, ImportInv, LockedPartsOnly
<1>5. ImportOfItsClient'
  BY <1>2 DEF RBoClose, RPoll, ImportInv, ImportOfItsClient, LiveOwned
<1> QED
  BY <1>1, <1>3, <1>4, <1>5 DEF ImportInv

\* The steps of an import up to the second locked part change neither the BOs nor
\* the clients.
LEMMA ThreadStep ==
  ASSUME ImportInv, NEW t \in RThreads,
         \/ \E s \in RSlots, n \in KNames : RImport(t, s, n)
         \/ RLock(t) \/ RLook(t) \/ RMap(t) \/ RMapFails(t)
  PROVE  ImportInv'
<1>1. UNCHANGED <<rbo, rclient, kVars>>
  BY DEF RImport, RLock, RLook, RMap, RMapFails
<1>2. PICK q \in ReqRec :
        /\ req' = [req EXCEPT ![t] = q]
        /\ q.at # "idle" => q.slot \in RSlots /\ q.name \in KNames
        /\ q.at \in {"look", "install"} => rlock = NoOne /\ rlock' = t
        /\ q.at \notin {"look", "install"} =>
             rlock' = IF req[t].at \in {"look", "install"} THEN NoOne ELSE rlock
  <2>1. CASE \E s \in RSlots, n \in KNames : RImport(t, s, n)
    <3>1. PICK s \in RSlots, n \in KNames : RImport(t, s, n)
      BY <2>1
    <3> DEFINE q == [at |-> "look", slot |-> s, gen |-> 0, name |-> n]
    <3>2. q \in ReqRec /\ q.at = "look" /\ q.slot = s /\ q.name = n
      BY DEF ReqRec
    <3>3. req' = [req EXCEPT ![t] = q] /\ rlock = NoOne /\ rlock' = t
      BY <3>1 DEF RImport
    <3> HIDE DEF q
    <3> QED
      BY <3>2, <3>3, ZenonT(20)
  <2>2. CASE RLock(t) \/ RMap(t)
    <3> DEFINE a == IF RLock(t) THEN "install" ELSE "mapped"
               q == [req[t] EXCEPT !.at = a]
    <3>0. req[t] \in ReqRec
      BY DEF ImportInv, ImportTypes
    <3>1. /\ q \in ReqRec /\ q.slot = req[t].slot /\ q.name = req[t].name
          /\ q.at = a
      <4>1. a \in {"look", "map", "mapped", "install"}
        OBVIOUS
      <4> HIDE DEF a
      <4> QED
        BY <3>0, <4>1, MovedAt, ZenonT(20)
    <3>2. req' = [req EXCEPT ![t] = q]
      BY <2>2 DEF RLock, RMap
    <3>3. /\ req[t].slot \in RSlots /\ req[t].name \in KNames
          /\ IF RLock(t) THEN rlock = NoOne /\ rlock' = t
                         ELSE rlock' = rlock /\ req[t].at = "map"
      BY <2>2 DEF RLock, RMap, ImportInv, ImportTypes
    <3> HIDE DEF q
    <3> QED
      BY <3>1, <3>2, <3>3, ZenonT(20)
  <2>3. CASE RMapFails(t)
    BY <2>3, NewRecords, ZenonT(20) DEF RMapFails
  <2>4. CASE RLook(t)
    <3>1. req[t].slot \in RSlots /\ req[t].name \in KNames /\ rclient[req[t].slot].gen \in Nat
      BY <2>4 DEF RLook, ImportInv, ImportTypes
    <3>2. CASE ~rclient[req[t].slot].used \/ RFound(req[t].slot, req[t].name)
      BY <2>4, <3>2, NewRecords, ZenonT(20) DEF RLook, RUnlock
    <3>3. CASE ~(~rclient[req[t].slot].used \/ RFound(req[t].slot, req[t].name))
      <4> DEFINE q == [req[t] EXCEPT !.at = "map", !.gen = rclient[req[t].slot].gen]
      <4>1. q \in ReqRec /\ q.slot = req[t].slot /\ q.name = req[t].name /\ q.at = "map"
        <5>1. req[t] \in ReqRec
          BY DEF ImportInv, ImportTypes
        <5> QED
          BY <3>1, <5>1, MovedOn, ZenonT(20)
      <4>2. req' = [req EXCEPT ![t] = q] /\ rlock' = NoOne /\ req[t].at = "look"
        BY <2>4, <3>3 DEF RLook, RUnlock
      <4> HIDE DEF q
      <4> QED
        BY <3>1, <4>1, <4>2, ZenonT(20)
    <3> QED
      BY <3>2, <3>3
  <2> QED
    BY <2>1, <2>2, <2>3, <2>4
<1>3. ImportTypes'
  BY <1>1, <1>2, DisplaySame DEF ImportInv, ImportTypes
<1>4. LiveOwned' /\ OneImportPerName' /\ ImportOfItsClient'
  BY <1>1 DEF ImportInv, LiveOwned, OneImportPerName, ImportOfItsClient
<1>5. LockedPartsOnly'
  <2>1. (klock = Main <=> imp.at \in {"look", "install"})'
    BY <1>1, DisplaySame
  <2>2. \A u \in RThreads : rlock' = u <=> req'[u].at \in {"look", "install"}
    BY <1>2, BufAssumption DEF BufAssumption, ImportInv, ImportTypes, LockedPartsOnly
  <2> QED
    BY <2>1, <2>2 DEF LockedPartsOnly
<1> QED
  BY <1>3, <1>4, <1>5 DEF ImportInv

\* The second locked part: the client that asked is still the owner of the slot
\* and has no import of the name, so the new one is its first.
LEMMA InstallStep ==
  ASSUME ImportInv, NEW t \in RThreads, RInstall(t)
  PROVE  ImportInv'
<1> DEFINE r == req[t]
           free == {i \in RIdx : rbo[i].st = "free"}
           ok == SameClient(t) /\ ~RLostRace(t) /\ free # {}
           new == [st |-> "live", owner |-> r.slot, name |-> r.name, for |-> r.gen]
<1>1. /\ r.at = "install" /\ r.slot \in RSlots /\ r.name \in KNames /\ r.gen \in Nat
      /\ req' = [req EXCEPT ![t] = NoReq] /\ rlock' = NoOne
      /\ UNCHANGED <<rclient, kVars>>
  BY DEF RInstall, RUnlock, ImportInv, ImportTypes, ReqRec
<1>2. LockedPartsOnly'
  BY <1>1, DisplaySame, BufAssumption, NewRecords DEF BufAssumption, ImportInv, ImportTypes, LockedPartsOnly
<1>3. CASE ~ok
  <2>1. UNCHANGED rbo
    BY <1>3 DEF RInstall
  <2>2. ImportTypes'
    BY <1>1, <2>1, DisplaySame, NewRecords DEF ImportInv, ImportTypes, BoRec
  <2>3. LiveOwned' /\ OneImportPerName' /\ ImportOfItsClient'
    BY <1>1, <2>1 DEF ImportInv, LiveOwned, OneImportPerName, ImportOfItsClient
  <2> QED
    BY <1>2, <2>2, <2>3 DEF ImportInv
<1>4. CASE ok
  <2>1. PICK i \in RIdx : rbo' = [rbo EXCEPT ![i] = new]
    BY <1>4 DEF RInstall
  <2>2. ImportTypes'
    BY <1>1, <2>1, DisplaySame, NewRecords DEF ImportInv, ImportTypes, BoRec
  <2>3. /\ rbo'[i] = new
        /\ \A j \in RIdx : j # i => rbo'[j] = rbo[j]
    BY <2>1 DEF ImportInv, ImportTypes
  <2>4. LiveOwned'
    BY <1>1, <2>3 DEF ImportInv, LiveOwned
  <2>5. OneImportPerName'
    <3>1. \A j \in RIdx : j # i /\ rbo[j].st = "live" => ~(rbo[j].owner = r.slot /\ rbo[j].name = r.name)
      BY <1>4 DEF RLostRace, RFound
    <3> QED
      BY <2>3, <3>1 DEF ImportInv, OneImportPerName
  <2>6. ImportOfItsClient'
    <3>1. rclient[r.slot].used /\ rclient[r.slot].gen = r.gen
      BY <1>4 DEF SameClient
    <3> QED
      BY <1>1, <2>3, <3>1 DEF ImportInv, ImportOfItsClient
  <2> QED
    BY <1>2, <2>2, <2>4, <2>5, <2>6 DEF ImportInv
<1> QED
  BY <1>3, <1>4

\* The dispatch thread of the display server holds its lock only in the two locked
\* parts of its import.
LEMMA DisplayStep ==
  ASSUME ImportInv,
         \/ KRequest \/ KThread
         \/ \E t \in {Main, Vblank} : Closing(t)
         \/ \E i \in KIdx : VblankDrops(i)
         \/ \E v \in VNames : VClose(v)
  PROVE  ImportInv'
<1>1. UNCHANGED rVars
  BY ZenonT(20) DEF KRequest, KThread, Closing, VblankDrops, VClose, KOpen, KClose, KCreate, KDestroy, KAddFb, KRmFb,
     KAlias, KImport, KLock, KLook, KMap, KMapFails, KInstall, KNextRequest, KReap, KCloseFd
<1>2. /\ imp \in ImpRec
      /\ klock = Main <=> imp.at \in {"look", "install"}
  BY DEF ImportInv, ImportTypes, LockedPartsOnly
<1>3. \A a \in {"map", "mapped", "install", "reap", "closing"} :
        [imp EXCEPT !.at = a] \in ImpRec /\ [imp EXCEPT !.at = a].at = a
  BY <1>2 DEF ImpRec
<1>4. After \in ImpRec /\ After.at \in {"idle", "reap"}
  BY DEF After, NoImp, ImpRec
<1> HIDE DEF After
<1>5. imp' \in ImpRec /\ (klock' = Main <=> imp'.at \in {"look", "install"})
  <2>1. CASE KRequest
    <3>1. CASE \E c \in KClients, v \in VNames : KImport(c, v)
      BY <3>1 DEF KImport, ImpRec
    <3>2. CASE imp' = After /\ klock' = klock /\ klock = NoOne
      BY <3>2, <1>4
    <3> QED
      BY <2>1, <3>1, <3>2, ZenonT(20)
      DEF KRequest, KOpen, KClose, KCreate, KDestroy, KAddFb, KRmFb, KAlias, Dispatch
  <2>2. CASE KThread
    <3>1. CASE KLook
      BY <3>1, <1>3, <1>4 DEF KLook
    <3>2. CASE KLock \/ KMap
      BY <3>2, <1>2, <1>3, ZenonT(20) DEF KLock, KMap
    <3>3. CASE KMapFails \/ KInstall
      BY <3>3, <1>2, <1>4 DEF KMapFails, KInstall
    <3>4. CASE KNextRequest
      BY <3>4, <1>2, NewRecords DEF KNextRequest
    <3> QED
      BY <2>2, <3>1, <3>2, <3>3, <3>4 DEF KThread
  <2>3. CASE \E t \in {Main, Vblank} : Closing(t)
    BY <2>3, <1>2, <1>3, ZenonT(20) DEF Closing, KReap, KCloseFd
  <2>4. CASE (\E i \in KIdx : VblankDrops(i)) \/ (\E v \in VNames : VClose(v))
    BY <2>4, <1>2, ZenonT(20) DEF VblankDrops, VClose, kVars
  <2> QED
    BY <2>1, <2>2, <2>3, <2>4
<1> QED
  BY <1>1, <1>5, RenderSame

\* Every step keeps the invariant.
LEMMA ImportNext == ImportInv /\ [Next]_vars => ImportInv'
<1> SUFFICES ASSUME ImportInv, [Next]_vars
             PROVE  ImportInv'
  OBVIOUS
<1>1. CASE UNCHANGED vars
  BY <1>1, RenderSame, DisplaySame DEF vars
<1>2. CASE RRequest
  BY <1>2, OpenStep, CloseStep, ReleaseStep, ThreadStep, DisplayStep DEF RRequest
<1>3. CASE \E t \in RThreads : RThread(t)
  BY <1>3, ThreadStep, InstallStep DEF RThread
<1>4. CASE \E i \in RIdx : RPoll(i)
  BY <1>4, ReleaseStep
<1>5. CASE \/ KRequest \/ KThread
           \/ \E t \in {Main, Vblank} : Closing(t)
           \/ \E i \in KIdx : VblankDrops(i)
  BY <1>5, DisplayStep
<1> QED
  BY <1>1, <1>2, <1>3, <1>4, <1>5 DEF Next

\* Two threads that import one /kmsbuf name for a client leave one BO, no client
\* gets another's import although its slot changed hands while the buffer was being
\* mapped, and neither server asks the other with its own lock held, for any number
\* of threads, clients and buffers (v3da_bo_import, op_prime_import).
THEOREM ImportsSafe == Spec => [](OneImportPerName /\ ImportOfItsClient /\ LockedPartsOnly)
<1>1. ImportInv => OneImportPerName /\ ImportOfItsClient /\ LockedPartsOnly
  BY DEF ImportInv
<1> QED
  BY <1>1, ImportInit, ImportNext, PTL DEF Spec

-----------------------------------------------------------------------------
(* Mappings                                                                *)

\* The BOs made of a /kmsbuf name, and the threads that have mapped it for one.
MadeOf(n) == {i \in RIdx : rbo[i].st # "free" /\ rbo[i].name = n}
OnTheWay(n) == {t \in RThreads : req[t].at \in {"mapped", "install"} /\ req[t].name = n}

\* The inductive invariant of the mappings.
MapInv ==
  /\ maps \in [KNames -> Int]
  /\ \A i \in RIdx : rbo[i].st # "free" => rbo[i].name \in KNames
  /\ \A n \in KNames : maps[n] = Cardinality(MadeOf(n)) + Cardinality(OnTheWay(n))

\* There are finitely many BO slots and threads.
LEMMA FiniteTables ==
  /\ \A n : IsFiniteSet(MadeOf(n)) /\ Cardinality(MadeOf(n)) \in Nat
  /\ \A n : IsFiniteSet(OnTheWay(n)) /\ Cardinality(OnTheWay(n)) \in Nat
<1>1. IsFiniteSet(RIdx)
  BY BufAssumption, FS_Interval DEF RIdx
<1>2. ASSUME NEW n
      PROVE  /\ IsFiniteSet(MadeOf(n)) /\ Cardinality(MadeOf(n)) \in Nat
             /\ IsFiniteSet(OnTheWay(n)) /\ Cardinality(OnTheWay(n)) \in Nat
  <2>1. MadeOf(n) \in SUBSET RIdx /\ OnTheWay(n) \in SUBSET RThreads
    BY DEF MadeOf, OnTheWay
  <2>2. IsFiniteSet(MadeOf(n)) /\ IsFiniteSet(OnTheWay(n))
    BY <1>1, <2>1, BufAssumption, FS_Subset
  <2> QED
    BY <2>2, FS_CardinalityType
<1> QED
  BY <1>2

\* Nothing is mapped initially.
LEMMA MapInit == Init => MapInv
<1> SUFFICES ASSUME Init PROVE MapInv
  OBVIOUS
<1>1. \A n : MadeOf(n) = {} /\ OnTheWay(n) = {}
  BY DEF Init, MadeOf, OnTheWay, FreeR, NoReq
<1>2. Cardinality({}) = 0
  BY FS_EmptySet
<1> QED
  <2>1. maps = [n \in KNames |-> 0] /\ \A i \in RIdx : rbo[i].st = "free"
    BY DEF Init, FreeR
  <2>2. \A n \in KNames : maps[n] = Cardinality(MadeOf(n)) + Cardinality(OnTheWay(n))
    BY <1>1, <1>2, <2>1
  <2> QED
    BY <2>1, <2>2 DEF MapInv

\* A step that keeps the BOs made of each name, and the threads on their way.
LEMMA MapSame ==
  ASSUME MapInv, maps' = maps,
         \A i \in RIdx : rbo'[i].st # "free" => rbo[i].st # "free" /\ rbo'[i].name = rbo[i].name,
         \A i \in RIdx : rbo[i].st # "free" => rbo'[i].st # "free",
         \A t \in RThreads : req'[t].at \in {"mapped", "install"} <=> req[t].at \in {"mapped", "install"},
         \A t \in RThreads : req[t].at \in {"mapped", "install"} => req'[t].name = req[t].name
  PROVE  MapInv'
<1>1. \A n : MadeOf(n)' = MadeOf(n) /\ OnTheWay(n)' = OnTheWay(n)
  BY DEF MadeOf, OnTheWay
<1> QED
  BY <1>1 DEF MapInv

\* A BO that lets go of its mapping.
LEMMA PollMaps ==
  ASSUME ImportInv, MapInv, NEW i \in RIdx, RPoll(i)
  PROVE  MapInv'
<1>1. /\ rbo[i].st = "quarantine" /\ rbo'[i] = FreeR /\ \A j \in RIdx : j # i => rbo'[j] = rbo[j]
      /\ maps' = [maps EXCEPT ![rbo[i].name] = @ - 1] /\ req' = req
  BY DEF RPoll, ImportInv, ImportTypes
<1>2. rbo[i].name \in KNames
  BY <1>1 DEF MapInv
<1>3. ASSUME NEW n \in KNames
      PROVE  maps'[n] = Cardinality(MadeOf(n)') + Cardinality(OnTheWay(n)')
  <2>1. OnTheWay(n)' = OnTheWay(n)
    BY <1>1 DEF OnTheWay
  <2>2. MadeOf(n)' = MadeOf(n) \ {i}
    BY <1>1 DEF MadeOf, FreeR
  <2>3. i \in MadeOf(n) <=> n = rbo[i].name
    BY <1>1 DEF MadeOf
  <2>4. Cardinality(MadeOf(n)') = IF n = rbo[i].name THEN Cardinality(MadeOf(n)) - 1 ELSE Cardinality(MadeOf(n))
    BY <2>2, <2>3, FiniteTables, FS_RemoveElement, ZenonT(20)
  <2>5. maps'[n] = IF n = rbo[i].name THEN maps[n] - 1 ELSE maps[n]
    BY <1>1, <1>2 DEF MapInv
  <2> QED
    BY <2>1, <2>4, <2>5, FiniteTables DEF MapInv
<1>4. maps' \in [KNames -> Int]
  BY <1>1, <1>2 DEF MapInv
<1>5. \A j \in RIdx : rbo'[j].st # "free" => rbo'[j].name \in KNames
  BY <1>1 DEF MapInv, FreeR
<1> QED
  BY <1>3, <1>4, <1>5 DEF MapInv

\* A thread that maps its name.
LEMMA MapMaps ==
  ASSUME ImportInv, MapInv, NEW t \in RThreads, RMap(t)
  PROVE  MapInv'
<1> DEFINE m == req[t].name
<1>1. /\ req[t].at = "map" /\ req'[t].at = "mapped" /\ req'[t].name = m
      /\ \A u \in RThreads : u # t => req'[u] = req[u]
      /\ maps' = [maps EXCEPT ![m] = @ + 1] /\ rbo' = rbo
  BY DEF RMap, ImportInv, ImportTypes, ReqRec
<1>2. m \in KNames
  BY <1>1 DEF ImportInv, ImportTypes
<1> HIDE DEF m
<1>3. ASSUME NEW n \in KNames
      PROVE  maps'[n] = Cardinality(MadeOf(n)') + Cardinality(OnTheWay(n)')
  <2>1. MadeOf(n)' = MadeOf(n)
    BY <1>1 DEF MadeOf
  <2>2. t \notin OnTheWay(n)
    BY <1>1 DEF OnTheWay
  <2>3. CASE n = m
    <3>1. OnTheWay(n)' = OnTheWay(n) \cup {t}
      BY <1>1, <2>3 DEF OnTheWay, m
    <3>2. Cardinality(OnTheWay(n)') = Cardinality(OnTheWay(n)) + 1
      BY <2>2, <3>1, FiniteTables, FS_AddElement
    <3> QED
      BY <1>1, <1>2, <2>1, <2>3, <3>2, FiniteTables DEF MapInv
  <2>4. CASE n # m
    <3>1. OnTheWay(n)' = OnTheWay(n)
      BY <1>1, <2>4 DEF OnTheWay, m
    <3> QED
      BY <1>1, <1>2, <2>1, <2>4, <3>1 DEF MapInv
  <2> QED
    BY <2>3, <2>4
<1>4. maps' \in [KNames -> Int]
  BY <1>1, <1>2 DEF MapInv
<1> QED
  BY <1>1, <1>3, <1>4 DEF MapInv

\* The second locked part uses the mapping for a new BO, or lets go of it.
LEMMA InstallMaps ==
  ASSUME ImportInv, MapInv, NEW t \in RThreads, RInstall(t)
  PROVE  MapInv'
<1> DEFINE m == req[t].name
<1>1. /\ req[t].at = "install" /\ req'[t] = NoReq /\ \A u \in RThreads : u # t => req'[u] = req[u]
  BY DEF RInstall, ImportInv, ImportTypes
<1>2. m \in KNames
  BY <1>1 DEF ImportInv, ImportTypes
<1>3. \/ /\ rbo' = rbo /\ maps' = [maps EXCEPT ![m] = @ - 1]
      \/ /\ maps' = maps
         /\ \E i \in RIdx : /\ rbo[i].st = "free" /\ rbo'[i].st = "live" /\ rbo'[i].name = m
                            /\ \A j \in RIdx : j # i => rbo'[j] = rbo[j]
  BY DEF RInstall, RUnmaps, ImportInv, ImportTypes
<1>4. ASSUME NEW n
      PROVE  Cardinality(OnTheWay(n)') = IF n = m THEN Cardinality(OnTheWay(n)) - 1 ELSE Cardinality(OnTheWay(n))
  <2>1. OnTheWay(n)' = OnTheWay(n) \ {t} /\ (t \in OnTheWay(n) <=> n = m)
    BY <1>1 DEF OnTheWay, NoReq
  <2> QED
    BY <2>1, FiniteTables, FS_RemoveElement, ZenonT(20)
<1>5. CASE rbo' = rbo /\ maps' = [maps EXCEPT ![m] = @ - 1]
  <2>1. \A n : MadeOf(n)' = MadeOf(n)
    BY <1>5 DEF MadeOf
  <2>2. \A n \in KNames : maps'[n] = Cardinality(MadeOf(n)') + Cardinality(OnTheWay(n)')
    BY <1>2, <1>4, <1>5, <2>1, FiniteTables DEF MapInv
  <2> QED
    BY <1>2, <1>5, <2>2 DEF MapInv
<1>6. CASE /\ maps' = maps
           /\ \E i \in RIdx : /\ rbo[i].st = "free" /\ rbo'[i].st = "live" /\ rbo'[i].name = m
                              /\ \A j \in RIdx : j # i => rbo'[j] = rbo[j]
  <2>1. PICK i \in RIdx : /\ rbo[i].st = "free" /\ rbo'[i].st = "live" /\ rbo'[i].name = m
                          /\ \A j \in RIdx : j # i => rbo'[j] = rbo[j]
    BY <1>6
  <2>2. ASSUME NEW n
        PROVE  Cardinality(MadeOf(n)') = IF n = m THEN Cardinality(MadeOf(n)) + 1 ELSE Cardinality(MadeOf(n))
    <3>1. i \notin MadeOf(n) /\ MadeOf(n)' = IF n = m THEN MadeOf(n) \cup {i} ELSE MadeOf(n)
      BY <2>1 DEF MadeOf
    <3> QED
      BY <3>1, FiniteTables, FS_AddElement, ZenonT(20)
  <2>3. \A n \in KNames : maps'[n] = Cardinality(MadeOf(n)') + Cardinality(OnTheWay(n)')
    BY <1>4, <1>6, <2>2, FiniteTables DEF MapInv
  <2>4. \A j \in RIdx : rbo'[j].st # "free" => rbo'[j].name \in KNames
    BY <1>2, <2>1 DEF MapInv
  <2> QED
    BY <1>6, <2>3, <2>4 DEF MapInv
<1> QED
  BY <1>3, <1>5, <1>6

\* Every step keeps the mappings exact.
LEMMA MapNext == ImportInv /\ MapInv /\ [Next]_vars => MapInv'
<1> SUFFICES ASSUME ImportInv, MapInv, [Next]_vars
             PROVE  MapInv'
  OBVIOUS
<1>1. CASE UNCHANGED <<rbo, req, maps>>
  BY <1>1, MapSame
<1>2. CASE RRequest
  <2>1. ASSUME NEW s \in RSlots, RClose(s) PROVE MapInv'
    <3>1. \A i \in RIdx : rbo[i] \in BoRec /\ rbo'[i] \in {rbo[i], Quarantined(rbo[i])}
                          /\ (rbo'[i] = rbo[i] \/ rbo[i].st = "live")
      BY <2>1 DEF RClose, ImportInv, ImportTypes
    <3>2. \A i \in RIdx : Quarantined(rbo[i]).st = "quarantine" /\ Quarantined(rbo[i]).name = rbo[i].name
      BY <3>1, ZenonT(20) DEF Quarantined, BoRec
    <3> QED
      BY <2>1, <3>1, <3>2, MapSame DEF RClose
  <2>2. ASSUME NEW i \in RIdx, RBoClose(i) PROVE MapInv'
    <3>1. rbo[i] \in BoRec /\ rbo[i].st = "live"
          /\ rbo'[i] = Quarantined(rbo[i]) /\ \A j \in RIdx : j # i => rbo'[j] = rbo[j]
      BY <2>2 DEF RBoClose, ImportInv, ImportTypes
    <3>2. rbo'[i].st = "quarantine" /\ rbo'[i].name = rbo[i].name
      BY <3>1 DEF Quarantined, BoRec
    <3> QED
      BY <2>2, <3>1, <3>2, MapSame DEF RBoClose
  <2>3. ASSUME NEW t \in RThreads, NEW s \in RSlots, NEW n \in KNames, RImport(t, s, n) PROVE MapInv'
    <3>1. req[t].at = "idle" /\ req'[t].at = "look" /\ \A u \in RThreads : u # t => req'[u] = req[u]
      BY <2>3 DEF RImport, ImportInv, ImportTypes
    <3> QED
      BY <2>3, <3>1, MapSame DEF RImport
  <2> QED
    BY <1>1, <1>2, <2>1, <2>2, <2>3 DEF RRequest, ROpen, VClose, rVars
<1>3. ASSUME NEW t \in RThreads, RThread(t) PROVE MapInv'
  <2>1. CASE RLock(t)
    <3>1. /\ req[t].at = "mapped" /\ req'[t].at = "install" /\ req'[t].name = req[t].name
          /\ \A u \in RThreads : u # t => req'[u] = req[u]
      BY <2>1 DEF RLock, ImportInv, ImportTypes, ReqRec
    <3> QED
      BY <2>1, <3>1, MapSame DEF RLock
  <2>2. CASE RLook(t) \/ RMapFails(t)
    <3>1. /\ req[t].at \in {"look", "map"} /\ req'[t].at \in {"idle", "map"}
          /\ \A u \in RThreads : u # t => req'[u] = req[u]
      <4>1. req \in [RThreads -> ReqRec] /\ req[t] \in ReqRec
        BY DEF ImportInv, ImportTypes
      <4>2. [req[t] EXCEPT !.at = "map", !.gen = rclient[req[t].slot].gen].at = "map"
        BY <4>1 DEF ReqRec
      <4> QED
        BY <2>2, <4>1, <4>2, NewRecords, ZenonT(20) DEF RLook, RMapFails
    <3> QED
      BY <2>2, <3>1, MapSame DEF RLook, RMapFails
  <2> QED
    BY <1>3, <2>1, <2>2, MapMaps, InstallMaps DEF RThread
<1>4. CASE \E i \in RIdx : RPoll(i)
  BY <1>4, PollMaps
<1>5. CASE \/ KRequest \/ KThread
           \/ \E t \in {Main, Vblank} : Closing(t)
           \/ \E i \in KIdx : VblankDrops(i)
  <2>1. UNCHANGED rVars
    BY <1>5, ZenonT(20) DEF KRequest, KThread, Closing, VblankDrops, KOpen, KClose, KCreate, KDestroy, KAddFb, KRmFb,
       KAlias, KImport, KLock, KLook, KMap, KMapFails, KInstall, KNextRequest, KReap, KCloseFd
  <2> QED
    BY <1>1, <2>1 DEF rVars
<1> QED
  BY <1>1, <1>2, <1>3, <1>4, <1>5 DEF Next, vars, rVars

\* The render server maps a /kmsbuf name exactly as often as it has BOs made of it
\* and imports of it on their way, for any number of threads that import it, close
\* it and lose races for it (v3da_bo_import, v3da_bo_quarantine_poll).
THEOREM MappingsBalanced == Spec => []MappingsExact
<1>1. ImportInv /\ MapInv => MappingsExact
  BY DEF MapInv, MappingsExact, MadeOf, OnTheWay
<1> QED
  BY <1>1, ImportInit, ImportNext, MapInit, MapNext, PTL DEF Spec

-----------------------------------------------------------------------------
(* References of the display server's BOs                                  *)

KRec == [kind : {"free", "pool", "alias", "import"}, owner : KClients \cup {NoOne},
         open : BOOLEAN, refs : Nat, name : KNames \cup VNames \cup {0},
         src : 0 .. MaxK, fb : {"none", "user", "plane"}]

\* What holds a BO: its handle, its framebuffer, the aliases that name it.
Own(i) == (IF kbo[i].open THEN 1 ELSE 0) + (IF kbo[i].fb # "none" THEN 1 ELSE 0)
Aliases(i) == {a \in KIdx : kbo[a].kind = "alias" /\ kbo[a].src = i}

\* The inductive invariant of the references.
RefInv ==
  /\ kbo \in [KIdx -> KRec]
  /\ \A i \in KIdx : kbo[i].kind = "free" => kbo[i] = FreeK
  /\ \A i \in KIdx : kbo[i].kind # "free" => kbo[i].refs > 0
  /\ \A i \in KIdx : kbo[i].refs = Own(i) + Cardinality(Aliases(i))
  /\ \A a \in KIdx : kbo[a].kind = "alias" => kbo[a].src \in KIdx
  /\ AliasKeepsSource

\* The BOs a drop of references frees by itself, as in Unreferenced.
Gone(drops) == {i \in Used(kbo) : kbo[i].refs = drops[i]}

\* There are finitely many BO slots.
LEMMA FiniteKIdx ==
  /\ IsFiniteSet(KIdx)
  /\ \A S \in SUBSET KIdx : IsFiniteSet(S) /\ Cardinality(S) \in Nat
<1>1. IsFiniteSet(KIdx)
  BY BufAssumption, FS_Interval DEF KIdx
<1> QED
  BY <1>1, FS_Subset, FS_CardinalityType

\* The fields of a BO.
LEMMA KFields ==
  ASSUME RefInv, NEW i \in KIdx
  PROVE  /\ kbo[i] \in KRec /\ kbo[i].kind \in {"free", "pool", "alias", "import"}
         /\ kbo[i].refs \in Nat /\ kbo[i].open \in BOOLEAN
         /\ kbo[i].fb \in {"none", "user", "plane"}
         /\ Own(i) \in Nat
<1>1. kbo[i] \in KRec
  BY DEF RefInv
<1> QED
  BY <1>1 DEF KRec, Own

\* The fields of a free BO.
LEMMA FreeKFields ==
  /\ FreeK \in KRec /\ FreeK.kind = "free" /\ FreeK.refs = 0 /\ FreeK.open = FALSE
  /\ FreeK.fb = "none" /\ FreeK.src = 0 /\ FreeK.name = 0 /\ FreeK.owner = NoOne
BY BufAssumption DEF FreeK, KRec

\* A BO that loses none stays as it is.
LEMMA SameRefs ==
  ASSUME NEW b \in KRec
  PROVE  [b EXCEPT !.refs = b.refs] = b
BY DEF KRec

\* A BO that loses references keeps its other fields.
LEMMA FewerRefs ==
  ASSUME NEW b \in KRec, NEW n \in Nat
  PROVE  LET c == [b EXCEPT !.refs = n]
         IN /\ c \in KRec /\ c.refs = n /\ c.kind = b.kind /\ c.owner = b.owner /\ c.open = b.open
            /\ c.name = b.name /\ c.src = b.src /\ c.fb = b.fb
BY DEF KRec

\* The references a request drops are among those of the holders.
Droppable(drops) == \A i \in KIdx : drops[i] \in Nat /\ drops[i] <= Own(i)

\* What is left of BO i, b, after the drops.
Leaves(drops, i, b) ==
  /\ b.kind = "free" => b = FreeK /\ Aliases(i) \subseteq Gone(drops)
  /\ b.kind # "free" =>
       /\ b \in KRec /\ kbo[i].kind # "free"
       /\ b.kind = kbo[i].kind /\ b.owner = kbo[i].owner /\ b.open = kbo[i].open
       /\ b.name = kbo[i].name /\ b.src = kbo[i].src /\ b.fb = kbo[i].fb
       /\ b.refs > 0 /\ b.refs = Own(i) - drops[i] + Cardinality(Aliases(i) \ Gone(drops))
  /\ kbo[i].kind = "alias" => (i \in Gone(drops) <=> b.kind = "free")

\* What a drop of references does: a BO goes when nothing is left that holds it,
\* and an alias goes exactly when its own holders do.
LEMMA Unref ==
  ASSUME RefInv, NEW drops, Droppable(drops), NEW i \in KIdx
  PROVE  Leaves(drops, i, Unreferenced(drops)[i])
<1> DEFINE G == Gone(drops)
           A == Aliases(i)
           V == {a \in G : kbo[a].kind = "alias" /\ kbo[a].src = i}
           d == drops[i]
           v == Cardinality(V)
           u == Unreferenced(drops)[i]
<1>1. u = IF i \in Used(kbo) /\ kbo[i].refs = d + v THEN FreeK
          ELSE [kbo[i] EXCEPT !.refs = @ - d - v]
  BY DEF Unreferenced, Gone
<1>2. V = A \cap G
  BY DEF Aliases, Gone, Used
<1>3. /\ IsFiniteSet(A) /\ Cardinality(A) \in Nat /\ v \in Nat
      /\ Cardinality(A \ G) \in Nat /\ Cardinality(A \ G) = Cardinality(A) - v
  <2>1. A \in SUBSET KIdx /\ V \in SUBSET KIdx /\ A \ G \in SUBSET KIdx
    BY DEF Aliases, Gone, Used
  <2>2. IsFiniteSet(A) /\ Cardinality(A) \in Nat /\ v \in Nat /\ Cardinality(A \ G) \in Nat
    BY <2>1, FiniteKIdx
  <2> QED
    BY <1>2, <2>2, FS_Difference, ZenonT(20)
<1>4. /\ kbo[i] \in KRec /\ kbo[i].refs \in Nat /\ Own(i) \in Nat /\ d \in Nat /\ d <= Own(i)
      /\ kbo[i].refs = Own(i) + Cardinality(A)
  BY KFields DEF RefInv, Droppable
<1>5. i \in Used(kbo) <=> kbo[i].kind # "free"
  BY DEF Used
<1>6. CASE kbo[i].kind = "free"
  <2>1. kbo[i] = FreeK /\ kbo[i].refs = 0
    BY <1>6, FreeKFields DEF RefInv
  <2>2. d = 0 /\ Cardinality(A) = 0 /\ v = 0
    BY <1>3, <1>4, <2>1
  <2>3. A = {}
    BY <1>3, <2>2, FS_EmptySet
  <2>4. u = [kbo[i] EXCEPT !.refs = @ - d - v]
    BY <1>1, <1>5, <1>6
  <2>5. u = FreeK
    <3>1. [FreeK EXCEPT !.refs = 0] = FreeK
      BY FreeKFields, SameRefs
    <3>2. FreeK.refs - d - v = 0
      BY <2>2, FreeKFields
    <3> QED
      BY <2>1, <2>4, <3>1, <3>2
  <2> QED
    BY <1>6, <2>3, <2>5, FreeKFields DEF Leaves
<1>7. CASE kbo[i].kind # "free" /\ kbo[i].refs = d + v
  <2>1. u = FreeK
    BY <1>1, <1>5, <1>7
  <2>2. d = Own(i) /\ Cardinality(A \ G) = 0
    BY <1>3, <1>4, <1>7
  <2>3. A \subseteq G
    <3>1. IsFiniteSet(A \ G)
      BY <1>3, FS_Difference, ZenonT(20)
    <3> QED
      BY <2>2, <3>1, FS_EmptySet
  <2>4. ASSUME kbo[i].kind = "alias"
        PROVE  i \in G
    <3>1. A = {}
      BY <2>4 DEF RefInv, AliasKeepsSource, Aliases
    <3>2. v = 0
      BY <1>2, <3>1, FS_EmptySet
    <3> QED
      BY <1>4, <1>5, <1>7, <3>2 DEF Gone
  <2> QED
    BY <1>7, <2>1, <2>3, <2>4, FreeKFields DEF Leaves
<1>8. CASE kbo[i].kind # "free" /\ kbo[i].refs # d + v
  <2>1. u = [kbo[i] EXCEPT !.refs = @ - d - v]
    BY <1>1, <1>8, ZenonT(20)
  <2>2. /\ kbo[i].refs - d - v \in Nat /\ kbo[i].refs - d - v > 0
        /\ kbo[i].refs - d - v = Own(i) - d + Cardinality(A \ G)
    BY <1>3, <1>4, <1>8
  <2>3. i \notin G
    <3>1. ASSUME i \in G PROVE FALSE
      <4>1. kbo[i].refs = d
        BY <3>1 DEF Gone
      <4> QED
        BY <1>3, <2>2, <4>1, <1>4
    <3> QED
      BY <3>1, ZenonT(20)
  <2>4. /\ u \in KRec /\ u.refs = kbo[i].refs - d - v /\ u.kind = kbo[i].kind /\ u.owner = kbo[i].owner
        /\ u.open = kbo[i].open /\ u.name = kbo[i].name /\ u.src = kbo[i].src /\ u.fb = kbo[i].fb
    BY <1>4, <2>1, <2>2, FewerRefs
  <2> QED
    BY <1>8, <2>2, <2>3, <2>4 DEF Leaves
<1> QED
  BY <1>6, <1>7, <1>8

\* The table has the BOs that the drops leave.
Follows(drops) ==
  /\ \A i \in KIdx : Unreferenced(drops)[i].kind = "free" => kbo'[i] = FreeK
  /\ \A i \in KIdx : Unreferenced(drops)[i].kind # "free" =>
       /\ kbo'[i].kind = Unreferenced(drops)[i].kind
       /\ kbo'[i].name = Unreferenced(drops)[i].name
       /\ kbo'[i].src = Unreferenced(drops)[i].src
       /\ kbo'[i].refs = Unreferenced(drops)[i].refs
       /\ Own(i)' = Own(i) - drops[i]

\* A request that drops references keeps the counts exact, if what it drops is what
\* it takes from the holders of each BO that is left.
LEMMA DropKeeps ==
  ASSUME RefInv, NEW drops, Droppable(drops), kbo' \in [KIdx -> KRec], Follows(drops)
  PROVE  RefInv'
<1> DEFINE left(i) == Unreferenced(drops)[i]
<1>1. ASSUME NEW i \in KIdx
      PROVE  /\ kbo'[i].kind = "free" => kbo'[i] = FreeK /\ Aliases(i) \subseteq Gone(drops)
             /\ kbo'[i].kind # "free" =>
                  /\ kbo[i].kind # "free" /\ kbo'[i].kind = kbo[i].kind
                  /\ kbo'[i].name = kbo[i].name /\ kbo'[i].src = kbo[i].src
                  /\ kbo'[i].refs > 0
                  /\ kbo'[i].refs = Own(i)' + Cardinality(Aliases(i) \ Gone(drops))
             /\ kbo[i].kind = "alias" => (i \in Gone(drops) <=> kbo'[i].kind = "free")
  <2>0. Leaves(drops, i, left(i))
    BY Unref
  <2>1. CASE left(i).kind = "free"
    BY <2>0, <2>1, FreeKFields, ZenonT(20) DEF Leaves, Follows
  <2>2. CASE left(i).kind # "free"
    <3>1. /\ left(i) \in KRec /\ kbo[i].kind # "free" /\ left(i).kind = kbo[i].kind
          /\ left(i).name = kbo[i].name /\ left(i).src = kbo[i].src /\ left(i).refs > 0
          /\ left(i).refs = Own(i) - drops[i] + Cardinality(Aliases(i) \ Gone(drops))
          /\ kbo[i].kind = "alias" => i \notin Gone(drops)
      BY <2>0, <2>2, ZenonT(20) DEF Leaves
    <3>2. /\ kbo'[i].kind = left(i).kind /\ kbo'[i].name = left(i).name /\ kbo'[i].src = left(i).src
          /\ kbo'[i].refs = left(i).refs /\ Own(i)' = Own(i) - drops[i]
      BY <2>2 DEF Follows
    <3> HIDE DEF left
    <3>3. /\ kbo'[i].kind # "free" /\ kbo[i].kind # "free" /\ kbo'[i].kind = kbo[i].kind
          /\ kbo'[i].name = kbo[i].name /\ kbo'[i].src = kbo[i].src
          /\ kbo[i].kind = "alias" => i \notin Gone(drops)
      BY <2>2, <3>1, <3>2, ZenonT(30)
    <3>4. kbo'[i].refs > 0 /\ kbo'[i].refs = Own(i)' + Cardinality(Aliases(i) \ Gone(drops))
      BY <3>1, <3>2
    <3> QED
      BY <3>3, <3>4, ZenonT(30)
  <2> QED
    BY <2>1, <2>2, ZenonT(20)
<1>2. ASSUME NEW i \in KIdx
      PROVE  Aliases(i)' = Aliases(i) \ Gone(drops)
  <2>1. ASSUME NEW a \in KIdx
        PROVE  kbo'[a].kind = "alias" /\ kbo'[a].src = i <=>
                 kbo[a].kind = "alias" /\ kbo[a].src = i /\ a \notin Gone(drops)
    <3>1. CASE kbo'[a].kind = "free"
      BY <1>1, <3>1, ZenonT(20)
    <3>2. CASE kbo'[a].kind # "free"
      BY <1>1, <3>2, ZenonT(20)
    <3> QED
      BY <3>1, <3>2
  <2> QED
    BY <2>1 DEF Aliases
<1>3. ASSUME NEW i \in KIdx
      PROVE  kbo'[i].refs = Own(i)' + Cardinality(Aliases(i)')
  <2>1. CASE kbo'[i].kind = "free"
    <3>1. Aliases(i)' = {}
      BY <1>1, <1>2, <2>1
    <3>2. kbo'[i].refs = 0 /\ Own(i)' = 0
      <4>1. kbo'[i] = FreeK
        BY <1>1, <2>1, ZenonT(20)
      <4>2. kbo'[i].refs = 0 /\ kbo'[i].open = FALSE /\ kbo'[i].fb = "none"
        BY <4>1, FreeKFields, ZenonT(20)
      <4> QED
        BY <4>2 DEF Own
    <3> QED
      BY <3>1, <3>2, FS_EmptySet
  <2>2. CASE kbo'[i].kind # "free"
    BY <1>1, <1>2, <2>2
  <2> QED
    BY <2>1, <2>2
<1>4. ASSUME NEW a \in KIdx, kbo'[a].kind = "alias"
      PROVE  /\ kbo'[a].src \in KIdx
             /\ kbo'[kbo'[a].src].kind = "pool" /\ kbo'[kbo'[a].src].name = kbo'[a].name
  <2>1. kbo[a].kind = "alias" /\ kbo'[a].src = kbo[a].src /\ kbo'[a].name = kbo[a].name /\ a \notin Gone(drops)
    BY <1>1, <1>4, ZenonT(20)
  <2>2. PICK s \in KIdx : s = kbo[a].src
    BY <2>1 DEF RefInv
  <2>3. kbo[s].kind = "pool" /\ kbo[s].name = kbo[a].name
    BY <2>1, <2>2 DEF RefInv, AliasKeepsSource
  <2>4. a \in Aliases(s)
    BY <2>1, <2>2 DEF Aliases
  <2>5. kbo'[s].kind # "free"
    BY <1>1, <2>1, <2>4, ZenonT(20)
  <2> QED
    <3>1. kbo'[s].kind = "pool" /\ kbo'[s].name = kbo[s].name
      BY <1>1, <2>3, <2>5, ZenonT(20)
    <3> QED
      BY <2>1, <2>2, <2>3, <3>1, ZenonT(20)
<1> QED
  BY <1>1, <1>3, <1>4, ZenonT(20) DEF RefInv, AliasKeepsSource

\* What is left after the drops are BOs.
LEMMA UnrefType ==
  ASSUME RefInv, NEW drops, Droppable(drops)
  PROVE  Unreferenced(drops) \in [KIdx -> KRec]
<1>1. \A i \in KIdx : Unreferenced(drops)[i] \in KRec
  <2> TAKE i \in KIdx
  <2>1. Leaves(drops, i, Unreferenced(drops)[i])
    BY Unref
  <2> QED
    BY <2>1, FreeKFields DEF Leaves
<1>2. \E F : Unreferenced(drops) = [i \in KIdx |-> F[i]]
  <2> WITNESS Unreferenced(drops)
  <2> QED
    BY DEF Unreferenced
<1> QED
  BY <1>1, <1>2

\* The records the actions build: a BO with what is left of its holders, with a
\* framebuffer, a new BO and a new alias.
Held(b, o, f) == [b EXCEPT !.open = o, !.fb = f]
WithFb(b, n) == [b EXCEPT !.fb = "user", !.refs = n]
NewOf(k, c, n) == [FreeK EXCEPT !.kind = k, !.owner = c, !.open = TRUE, !.refs = 1, !.name = n]
NewAlias(c, n, s) == [FreeK EXCEPT !.kind = "alias", !.owner = c, !.open = TRUE, !.refs = 1, !.name = n, !.src = s]

\* A BO whose handle or framebuffer goes keeps its other fields.
LEMMA LessHeld ==
  ASSUME NEW b \in KRec, NEW o \in BOOLEAN, NEW f \in {"none", "user", "plane"}
  PROVE  /\ Held(b, o, f) \in KRec /\ Held(b, o, f).open = o /\ Held(b, o, f).fb = f
         /\ Held(b, o, f).kind = b.kind /\ Held(b, o, f).refs = b.refs
         /\ Held(b, o, f).name = b.name /\ Held(b, o, f).src = b.src
BY ZenonT(20) DEF KRec, Held

\* A BO that gets a framebuffer keeps its other fields.
LEMMA FbComes ==
  ASSUME NEW b \in KRec, NEW n \in Nat
  PROVE  /\ WithFb(b, n) \in KRec /\ WithFb(b, n).fb = "user" /\ WithFb(b, n).refs = n
         /\ WithFb(b, n).kind = b.kind /\ WithFb(b, n).open = b.open
         /\ WithFb(b, n).name = b.name /\ WithFb(b, n).src = b.src
BY ZenonT(20) DEF KRec, WithFb

\* ... when only the handle goes,
LEMMA HandleGoes ==
  ASSUME NEW b \in KRec
  PROVE  LET c == [b EXCEPT !.open = FALSE]
         IN /\ c \in KRec /\ c.open = FALSE /\ c.fb = b.fb /\ c.kind = b.kind /\ c.owner = b.owner
            /\ c.refs = b.refs /\ c.name = b.name /\ c.src = b.src
BY ZenonT(20) DEF KRec

\* ... when only the framebuffer goes.
LEMMA FbGoes ==
  ASSUME NEW b \in KRec
  PROVE  LET c == [b EXCEPT !.fb = "none"]
         IN /\ c \in KRec /\ c.open = b.open /\ c.fb = "none" /\ c.kind = b.kind /\ c.owner = b.owner
            /\ c.refs = b.refs /\ c.name = b.name /\ c.src = b.src
BY DEF KRec

\* One holder of a BO goes, its handle or its framebuffer.
OneGoes(i) ==
  LET left == Unreferenced(One({i}))
  IN \/ /\ kbo[i].open
        /\ kbo' = IF left[i].kind = "free" THEN left ELSE [left EXCEPT ![i].open = FALSE]
     \/ /\ kbo[i].fb # "none"
        /\ kbo' = IF left[i].kind = "free" THEN left ELSE [left EXCEPT ![i].fb = "none"]

\* A holder that goes may drop one reference.
LEMMA OneDrop ==
  ASSUME RefInv, NEW i \in KIdx, kbo[i].open \/ kbo[i].fb # "none"
  PROVE  /\ Droppable(One({i}))
         /\ One({i})[i] = 1 /\ \A j \in KIdx : j # i => One({i})[j] = 0
<1>1. One({i})[i] = 1 /\ \A j \in KIdx : j # i => One({i})[j] = 0
  BY DEF One
<1>2. ASSUME NEW j \in KIdx
      PROVE  One({i})[j] \in Nat /\ One({i})[j] <= Own(j)
  <2>1. CASE j = i
    BY <1>1, <2>1 DEF Own
  <2>2. CASE j # i
    BY <1>1, <2>2, KFields
  <2> QED
    BY <2>1, <2>2
<1> QED
  BY <1>1, <1>2 DEF Droppable

\* One reference goes with its holder.
LEMMA OneFollows ==
  ASSUME RefInv, NEW i \in KIdx, OneGoes(i)
  PROVE  Droppable(One({i})) /\ kbo' \in [KIdx -> KRec] /\ Follows(One({i}))
<1> DEFINE d == One({i})
           left == Unreferenced(d)
<1>1. Droppable(d) /\ d[i] = 1 /\ \A j \in KIdx : j # i => d[j] = 0
  BY OneDrop DEF OneGoes
<1>2. left \in [KIdx -> KRec]
  BY <1>1, UnrefType
<1>3. ASSUME NEW j \in KIdx PROVE Leaves(d, j, left[j])
  BY <1>1, Unref
<1>4. \/ kbo[i].open /\ kbo' = IF left[i].kind = "free" THEN left ELSE [left EXCEPT ![i].open = FALSE]
      \/ kbo[i].fb # "none" /\ kbo' = IF left[i].kind = "free" THEN left ELSE [left EXCEPT ![i].fb = "none"]
  BY DEF OneGoes
<1> HIDE DEF d, left
<1>5. kbo' \in [KIdx -> KRec] /\ \A j \in KIdx : j # i => kbo'[j] = left[j]
  BY <1>2, <1>4, HandleGoes, FbGoes
<1>6. left[i].kind = "free" => kbo'[i] = left[i]
  BY <1>4
<1>7. left[i].kind # "free" =>
        \/ kbo[i].open /\ kbo'[i] = [left[i] EXCEPT !.open = FALSE]
        \/ kbo[i].fb # "none" /\ kbo'[i] = [left[i] EXCEPT !.fb = "none"]
  BY <1>2, <1>4, ZenonT(20)
<1>8. ASSUME NEW j \in KIdx, left[j].kind = "free"
      PROVE  kbo'[j] = FreeK
  <2>1. left[j] = FreeK
    BY <1>3, <1>8, ZenonT(20) DEF Leaves
  <2> QED
    BY <1>5, <1>6, <1>8, <2>1
<1>9. ASSUME NEW j \in KIdx, left[j].kind # "free"
      PROVE  /\ kbo'[j].kind = left[j].kind /\ kbo'[j].name = left[j].name
             /\ kbo'[j].src = left[j].src /\ kbo'[j].refs = left[j].refs
             /\ Own(j)' = Own(j) - d[j]
  <2>1. left[j].open = kbo[j].open /\ left[j].fb = kbo[j].fb /\ left[j] \in KRec
    BY <1>3, <1>9, ZenonT(20) DEF Leaves
  <2>2. CASE j # i
    <3>1. kbo'[j] = left[j] /\ d[j] = 0
      BY <1>1, <1>5, <2>2 DEF d
    <3>2. Own(j)' = Own(j)
      BY <2>1, <3>1 DEF Own
    <3> QED
      BY <3>1, <3>2, KFields
  <2>3. CASE j = i /\ kbo[i].open /\ kbo'[i] = [left[i] EXCEPT !.open = FALSE]
    <3>1. /\ kbo'[i].open = FALSE /\ kbo'[i].fb = left[i].fb /\ kbo'[i].kind = left[i].kind
          /\ kbo'[i].refs = left[i].refs /\ kbo'[i].name = left[i].name /\ kbo'[i].src = left[i].src
      BY <2>1, <2>3, HandleGoes
    <3>2. Own(i)' = Own(i) - 1
      BY <2>1, <2>3, <3>1 DEF Own
    <3> QED
      BY <1>1, <2>3, <3>1, <3>2 DEF d
  <2>4. CASE j = i /\ kbo[i].fb # "none" /\ kbo'[i] = [left[i] EXCEPT !.fb = "none"]
    <3>1. /\ kbo'[i].fb = "none" /\ kbo'[i].open = left[i].open /\ kbo'[i].kind = left[i].kind
          /\ kbo'[i].refs = left[i].refs /\ kbo'[i].name = left[i].name /\ kbo'[i].src = left[i].src
      BY <2>1, <2>4, FbGoes
    <3>2. Own(i)' = Own(i) - 1
      BY <2>1, <2>4, <3>1 DEF Own
    <3> QED
      BY <1>1, <2>4, <3>1, <3>2 DEF d
  <2> QED
    BY <1>7, <1>9, <2>2, <2>3, <2>4
<1> QED
  BY <1>1, <1>5, <1>8, <1>9, ZenonT(20) DEF Follows, d, left

\* What client_close takes from BO i when the framebuffers K are left.
OfClient(c, i) == kbo[i].kind # "free" /\ kbo[i].owner = c
FbLost(K, i) == kbo[i].fb # "none" /\ i \notin K
FbLeft(c, K, i) == IF FbLost(K, i) THEN "none" ELSE IF OfClient(c, i) /\ i \in K THEN "plane" ELSE kbo[i].fb
CloseDrops(c, K) == [i \in KIdx |-> (IF OfClient(c, i) /\ kbo[i].open THEN 1 ELSE 0) + (IF FbLost(K, i) THEN 1 ELSE 0)]

\* client_close takes no more than there is.
LEMMA CloseDrop ==
  ASSUME RefInv, NEW c, NEW K, \A i \in K : kbo[i].fb # "none"
  PROVE  /\ Droppable(CloseDrops(c, K))
         /\ \A i \in KIdx : /\ FbLeft(c, K, i) \in {"none", "user", "plane"}
                            /\ FbLeft(c, K, i) # "none" <=> kbo[i].fb # "none" /\ ~FbLost(K, i)
<1>1. ASSUME NEW i \in KIdx
      PROVE  /\ CloseDrops(c, K)[i] \in Nat /\ CloseDrops(c, K)[i] <= Own(i)
             /\ FbLeft(c, K, i) \in {"none", "user", "plane"}
             /\ FbLeft(c, K, i) # "none" <=> kbo[i].fb # "none" /\ ~FbLost(K, i)
  <2>1. kbo[i].open \in BOOLEAN /\ kbo[i].fb \in {"none", "user", "plane"}
    BY KFields
  <2>2. CloseDrops(c, K)[i] = (IF OfClient(c, i) /\ kbo[i].open THEN 1 ELSE 0) + (IF FbLost(K, i) THEN 1 ELSE 0)
    BY ZenonT(20) DEF CloseDrops
  <2>3. CloseDrops(c, K)[i] \in Nat /\ CloseDrops(c, K)[i] <= Own(i)
    BY <2>1, <2>2 DEF Own, FbLost
  <2> QED
    BY <2>1, <2>3 DEF FbLeft, FbLost
<1> QED
  BY <1>1, ZenonT(20) DEF Droppable

\* What client_close leaves follows the drops.
LEMMA CloseFollows ==
  ASSUME RefInv, NEW c, NEW K, \A i \in K : kbo[i].fb # "none",
         NEW left, left = Unreferenced(CloseDrops(c, K)),
         kbo' = [i \in KIdx |-> IF left[i].kind = "free" THEN FreeK
                                ELSE [left[i] EXCEPT !.open = @ /\ ~OfClient(c, i), !.fb = FbLeft(c, K, i)]]
  PROVE  Droppable(CloseDrops(c, K)) /\ kbo' \in [KIdx -> KRec] /\ Follows(CloseDrops(c, K))
<1> DEFINE drops == CloseDrops(c, K)
<1>1. /\ Droppable(drops)
      /\ \A i \in KIdx : /\ FbLeft(c, K, i) \in {"none", "user", "plane"}
                         /\ FbLeft(c, K, i) # "none" <=> kbo[i].fb # "none" /\ ~FbLost(K, i)
  BY CloseDrop, ZenonT(20)
<1>2. ASSUME NEW i \in KIdx
      PROVE  drops[i] = (IF OfClient(c, i) /\ kbo[i].open THEN 1 ELSE 0) + (IF FbLost(K, i) THEN 1 ELSE 0)
  BY ZenonT(20) DEF CloseDrops
<1>3. ASSUME NEW i \in KIdx PROVE Leaves(drops, i, left[i])
  BY <1>1, Unref, ZenonT(20)
<1> HIDE DEF drops
<1>4. ASSUME NEW i \in KIdx
      PROVE  kbo'[i] = IF left[i].kind = "free" THEN FreeK
                       ELSE [left[i] EXCEPT !.open = @ /\ ~OfClient(c, i), !.fb = FbLeft(c, K, i)]
  BY ZenonT(20)
<1>5. ASSUME NEW i \in KIdx, left[i].kind # "free"
      PROVE  /\ kbo'[i] \in KRec
             /\ kbo'[i].kind = left[i].kind /\ kbo'[i].name = left[i].name
             /\ kbo'[i].src = left[i].src /\ kbo'[i].refs = left[i].refs
             /\ kbo'[i].open = (kbo[i].open /\ ~OfClient(c, i)) /\ kbo'[i].fb = FbLeft(c, K, i)
  <2>1. left[i] \in KRec /\ left[i].open = kbo[i].open
    BY <1>3, <1>5, ZenonT(20) DEF Leaves
  <2>2. kbo'[i] = Held(left[i], kbo[i].open /\ ~OfClient(c, i), FbLeft(c, K, i))
    BY <1>4, <1>5, <2>1, ZenonT(20) DEF Held
  <2>3. FbLeft(c, K, i) \in {"none", "user", "plane"} /\ (kbo[i].open /\ ~OfClient(c, i)) \in BOOLEAN
    BY <1>1, ZenonT(20)
  <2> QED
    <3> DEFINE o == kbo[i].open /\ ~OfClient(c, i)
               f == FbLeft(c, K, i)
               b == left[i]
    <3>1. b \in KRec /\ o \in BOOLEAN /\ f \in {"none", "user", "plane"} /\ kbo'[i] = Held(b, o, f)
      BY <2>1, <2>2, <2>3, ZenonT(20)
    <3> HIDE DEF o, f, b
    <3>2. /\ kbo'[i] \in KRec /\ kbo'[i].kind = b.kind /\ kbo'[i].name = b.name
          /\ kbo'[i].src = b.src /\ kbo'[i].refs = b.refs /\ kbo'[i].open = o /\ kbo'[i].fb = f
      BY ONLY <3>1, LessHeld, SMT
    <3> QED
      BY <3>2, ZenonT(20) DEF o, f, b
<1>6. ASSUME NEW i \in KIdx, left[i].kind # "free"
      PROVE  Own(i)' = Own(i) - drops[i]
  <2>1. /\ kbo'[i].open <=> (kbo[i].open /\ ~OfClient(c, i))
        /\ kbo'[i].fb # "none" <=> kbo[i].fb # "none" /\ ~FbLost(K, i)
        /\ FbLost(K, i) => kbo[i].fb # "none"
    BY <1>1, <1>5, <1>6, ZenonT(20) DEF FbLost
  <2>2. drops[i] = (IF OfClient(c, i) /\ kbo[i].open THEN 1 ELSE 0) + (IF FbLost(K, i) THEN 1 ELSE 0)
    BY <1>2, ZenonT(20)
  <2>3. kbo[i].open \in BOOLEAN
    BY KFields, ZenonT(20)
  <2> QED
    BY ONLY <2>1, <2>2, <2>3 DEF Own
<1>7. kbo' \in [KIdx -> KRec]
  <2>1. \A i \in KIdx : kbo'[i] \in KRec
    BY <1>4, <1>5, FreeKFields, ZenonT(20)
  <2>2. kbo' = [i \in KIdx |-> kbo'[i]]
    BY ZenonT(20)
  <2> QED
    BY ONLY <2>1, <2>2
<1>8. left = Unreferenced(drops)
  BY ZenonT(20) DEF drops
<1>9. \A i \in KIdx : left[i].kind = "free" => kbo'[i] = FreeK
  BY <1>4, ZenonT(20)
<1>10. \A i \in KIdx : left[i].kind # "free" =>
         /\ kbo'[i].kind = left[i].kind /\ kbo'[i].name = left[i].name
         /\ kbo'[i].src = left[i].src /\ kbo'[i].refs = left[i].refs
         /\ Own(i)' = Own(i) - drops[i]
  BY <1>5, <1>6, ZenonT(20)
<1>11. Follows(drops)
  BY ONLY <1>8, <1>9, <1>10, ZenonT(20) DEF Follows
<1> QED
  BY <1>1, <1>7, <1>11, ZenonT(20) DEF drops

\* The step that leaves the BOs alone.
LEMMA RefSame == ASSUME RefInv, kbo' = kbo PROVE RefInv'
<1>1. \A i : Own(i)' = Own(i) /\ Aliases(i)' = Aliases(i)
  BY DEF Own, Aliases
<1> QED
  BY <1>1 DEF RefInv, AliasKeepsSource

\* A free BO has no holder.
LEMMA FreeHeld ==
  ASSUME RefInv, NEW i \in KIdx, kbo[i].kind = "free"
  PROVE  Own(i) = 0 /\ Aliases(i) = {}
<1>1. Own(i) = 0 /\ kbo[i].refs = 0
  BY FreeKFields DEF RefInv, Own
<1>2. Aliases(i) \in SUBSET KIdx
  BY DEF Aliases
<1>3. Cardinality(Aliases(i)) = 0
  <2>1. kbo[i].refs = Own(i) + Cardinality(Aliases(i))
    BY DEF RefInv
  <2>2. Cardinality(Aliases(i)) \in Nat
    BY <1>2, FiniteKIdx
  <2> QED
    BY ONLY <1>1, <2>1, <2>2
<1> QED
  <2>1. IsFiniteSet(Aliases(i))
    BY <1>2, FiniteKIdx
  <2> QED
    BY <1>1, <1>3, <2>1, FS_EmptySet, ZenonT(20)

\* A new BO has one holder, its handle.
LEMMA NewBo ==
  ASSUME RefInv, NEW i \in KIdx, kbo[i].kind = "free", NEW b \in KRec,
         b.kind \in {"pool", "import"}, b.open, b.refs = 1, b.fb = "none",
         kbo' = [kbo EXCEPT ![i] = b]
  PROVE  RefInv'
<1>1. kbo' \in [KIdx -> KRec] /\ kbo'[i] = b /\ \A j \in KIdx : j # i => kbo'[j] = kbo[j]
  BY DEF RefInv
<1>2. \A j \in KIdx : Aliases(j)' = Aliases(j)
  BY <1>1 DEF Aliases
<1>3. ASSUME NEW j \in KIdx
      PROVE  kbo'[j].refs = Own(j)' + Cardinality(Aliases(j)')
  <2>1. CASE j = i
    <3>1. Own(i)' = 1
      BY <1>1 DEF Own
    <3> QED
      BY <1>1, <1>2, <2>1, <3>1, FreeHeld, FS_EmptySet
  <2>2. CASE j # i
    <3>1. Own(j)' = Own(j) /\ kbo'[j] = kbo[j]
      BY <1>1, <2>2, ZenonT(20) DEF Own
    <3> QED
      BY <1>2, <3>1 DEF RefInv
  <2> QED
    BY <2>1, <2>2
<1>4. ASSUME NEW a \in KIdx, kbo'[a].kind = "alias"
      PROVE  /\ kbo'[a].src \in KIdx
             /\ kbo'[kbo'[a].src].kind = "pool" /\ kbo'[kbo'[a].src].name = kbo'[a].name
  <2>1. kbo'[a] = kbo[a] /\ kbo[a].kind = "alias"
    BY <1>1, <1>4, ZenonT(20)
  <2>2. kbo[a].src \in KIdx /\ kbo[kbo[a].src].kind = "pool" /\ kbo[kbo[a].src].name = kbo[a].name
    BY <2>1, ZenonT(20) DEF RefInv, AliasKeepsSource
  <2> QED
    BY <1>1, <2>1, <2>2
<1>5. \A j \in KIdx : /\ kbo'[j].kind = "free" => kbo'[j] = FreeK
                      /\ kbo'[j].kind # "free" => kbo'[j].refs > 0
  BY <1>1 DEF RefInv
<1> QED
  BY <1>1, <1>3, <1>4, <1>5 DEF RefInv, AliasKeepsSource

\* A framebuffer is one more holder.
LEMMA FbRefs ==
  ASSUME RefInv, NEW i \in KIdx, kbo[i].kind # "free", kbo[i].fb = "none",
         kbo' = [kbo EXCEPT ![i].fb = "user", ![i].refs = @ + 1]
  PROVE  RefInv'
<1> DEFINE b == WithFb(kbo[i], kbo[i].refs + 1)
<1>1. kbo[i] \in KRec /\ kbo[i].refs \in Nat /\ kbo[i].open \in BOOLEAN
  BY KFields
<1>2. /\ b \in KRec /\ b.fb = "user" /\ b.refs = kbo[i].refs + 1 /\ b.kind = kbo[i].kind
      /\ b.open = kbo[i].open /\ b.name = kbo[i].name /\ b.src = kbo[i].src
  <2>1. kbo[i].refs + 1 \in Nat
    BY ONLY <1>1
  <2> QED
    BY <1>1, <2>1, FbComes, ZenonT(20)
<1>3. kbo'[i] = b /\ \A j \in KIdx : j # i => kbo'[j] = kbo[j]
  <2>1. kbo[i].refs = [kbo EXCEPT ![i].fb = "user"][i].refs
    BY <1>1 DEF RefInv, KRec
  <2> QED
    BY <1>1, <2>1, ZenonT(20) DEF RefInv, WithFb
<1>4. kbo' \in [KIdx -> KRec]
  BY <1>2, <1>3 DEF RefInv
<1> HIDE DEF b
<1>5. \A j \in KIdx : Aliases(j)' = Aliases(j)
  <2>1. \A a \in KIdx : kbo'[a].kind = kbo[a].kind /\ kbo'[a].src = kbo[a].src
    BY <1>2, <1>3, ZenonT(20)
  <2> QED
    BY <2>1, ZenonT(20) DEF Aliases
<1>6. ASSUME NEW j \in KIdx
      PROVE  kbo'[j].refs = Own(j)' + Cardinality(Aliases(j)')
  <2>1. CASE j = i
    <3>1. Own(i)' = Own(i) + 1
      BY <1>2, <1>3 DEF Own
    <3>2. Cardinality(Aliases(i)) \in Nat /\ Own(i) \in Nat
      BY FiniteKIdx, KFields DEF Aliases
    <3> QED
      BY <1>2, <1>3, <1>5, <2>1, <3>1, <3>2 DEF RefInv
  <2>2. CASE j # i
    <3>1. Own(j)' = Own(j) /\ kbo'[j] = kbo[j]
      BY <1>3, <2>2, ZenonT(20) DEF Own
    <3> QED
      BY <1>5, <3>1, ZenonT(20) DEF RefInv
  <2> QED
    BY <2>1, <2>2
<1>7. \A j \in KIdx : kbo'[j].kind = kbo[j].kind /\ kbo'[j].name = kbo[j].name /\ kbo'[j].src = kbo[j].src
  BY <1>2, <1>3, ZenonT(20)
<1>8. \A j \in KIdx : /\ kbo'[j].kind = "free" => kbo'[j] = FreeK
                      /\ kbo'[j].kind # "free" => kbo'[j].refs > 0
  BY <1>1, <1>2, <1>3 DEF RefInv
<1>9. ASSUME NEW a \in KIdx, kbo'[a].kind = "alias"
      PROVE  /\ kbo'[a].src \in KIdx
             /\ kbo'[kbo'[a].src].kind = "pool" /\ kbo'[kbo'[a].src].name = kbo'[a].name
  <2>1. kbo[a].kind = "alias" /\ kbo'[a].src = kbo[a].src /\ kbo'[a].name = kbo[a].name
    BY <1>7, <1>9, ZenonT(20)
  <2>2. PICK k \in KIdx : k = kbo[a].src
    BY <2>1 DEF RefInv
  <2>3. kbo[k].kind = "pool" /\ kbo[k].name = kbo[a].name
    BY <2>1, <2>2 DEF RefInv, AliasKeepsSource
  <2>4. kbo'[k].kind = "pool" /\ kbo'[k].name = kbo[k].name
    BY <1>7, <2>3, ZenonT(20)
  <2> QED
    BY <2>1, <2>2, <2>3, <2>4
<1> QED
  BY <1>4, <1>6, <1>8, <1>9 DEF RefInv, AliasKeepsSource

\* An alias is one more holder of the BO it names.
LEMMA AliasRefs ==
  ASSUME RefInv, NEW c \in KClients, NEW i \in KIdx, NEW j \in KIdx,
         kbo[i].kind = "free", kbo[j].kind = "pool", kbo' = Aliased(i, j, c)
  PROVE  RefInv'
<1> DEFINE b == NewAlias(c, kbo[j].name, j)
           n == kbo[j].refs + 1
           s == [kbo[j] EXCEPT !.refs = n]
<1>1. kbo[j] \in KRec /\ kbo[j].refs \in Nat /\ i # j /\ j \in 0 .. MaxK
  BY KFields, BufAssumption DEF KIdx
<1>2. /\ b \in KRec /\ b.kind = "alias" /\ b.open = TRUE /\ b.refs = 1 /\ b.fb = "none"
      /\ b.name = kbo[j].name /\ b.src = j
  <2>1. kbo[j].name \in KNames \cup VNames \cup {0}
    BY <1>1 DEF KRec
  <2> QED
    <3> DEFINE m == kbo[j].name
    <3>1. m \in KNames \cup VNames \cup {0} /\ j \in 0 .. MaxK /\ FreeK \in KRec /\ FreeK.fb = "none" /\ 1 \in Nat
      BY <1>1, <2>1, FreeKFields
    <3> HIDE DEF m
    <3>2. /\ NewAlias(c, m, j) \in KRec /\ NewAlias(c, m, j).kind = "alias" /\ NewAlias(c, m, j).open = TRUE
          /\ NewAlias(c, m, j).refs = 1 /\ NewAlias(c, m, j).fb = "none"
          /\ NewAlias(c, m, j).name = m /\ NewAlias(c, m, j).src = j
      BY <3>1, ZenonT(40) DEF NewAlias, KRec
    <3> QED
      BY <3>2, ZenonT(20) DEF m
<1>3. /\ s \in KRec /\ s.refs = kbo[j].refs + 1 /\ s.kind = "pool" /\ s.open = kbo[j].open
      /\ s.fb = kbo[j].fb /\ s.name = kbo[j].name /\ s.src = kbo[j].src
  <2>1. n \in Nat
    BY <1>1
  <2> HIDE DEF n
  <2>2. /\ s \in KRec /\ s.refs = n /\ s.kind = kbo[j].kind /\ s.open = kbo[j].open
        /\ s.fb = kbo[j].fb /\ s.name = kbo[j].name /\ s.src = kbo[j].src
    BY <1>1, <2>1, FewerRefs
  <2> QED
    BY <2>2, ZenonT(20) DEF n
<1>4. kbo' = [[kbo EXCEPT ![i] = b] EXCEPT ![j] = s]
  <2>1. [kbo EXCEPT ![i] = b][j] = kbo[j]
    BY <1>1 DEF RefInv
  <2> QED
    BY <2>1, ZenonT(20) DEF Aliased, NewAlias
<1> HIDE DEF b, s
<1>5. /\ kbo' \in [KIdx -> KRec] /\ kbo'[i] = b /\ kbo'[j] = s
      /\ \A k \in KIdx : k # i /\ k # j => kbo'[k] = kbo[k]
  BY <1>1, <1>2, <1>3, <1>4, ZenonT(20) DEF RefInv
<1>6. \A k \in KIdx : k # i => /\ kbo'[k].kind = kbo[k].kind /\ kbo'[k].name = kbo[k].name
                              /\ kbo'[k].src = kbo[k].src /\ Own(k)' = Own(k)
  BY <1>3, <1>5 DEF Own
<1>7. ASSUME NEW k \in KIdx
      PROVE  Aliases(k)' = IF k = j THEN Aliases(k) \cup {i} ELSE Aliases(k)
  <2>1. ASSUME NEW a \in KIdx
        PROVE  kbo'[a].kind = "alias" /\ kbo'[a].src = k <=>
                 (kbo[a].kind = "alias" /\ kbo[a].src = k) \/ (a = i /\ k = j)
    <3>1. CASE a = i
      BY <1>2, <1>5, <3>1
    <3>2. CASE a # i
      BY <1>6, <3>2
    <3> QED
      BY <3>1, <3>2
  <2> QED
    BY <2>1 DEF Aliases
<1>8. ASSUME NEW k \in KIdx
      PROVE  kbo'[k].refs = Own(k)' + Cardinality(Aliases(k)')
  <2>0. /\ IsFiniteSet(Aliases(k)) /\ Cardinality(Aliases(k)) \in Nat /\ Own(k) \in Nat
        /\ kbo[k].refs = Own(k) + Cardinality(Aliases(k)) /\ i \notin Aliases(k)
    BY FiniteKIdx, KFields, ZenonT(20) DEF RefInv, Aliases
  <2>1. CASE k = i
    <3>1. Own(i)' = 1 /\ kbo'[i].refs = 1
      BY <1>2, <1>5 DEF Own
    <3>2. Aliases(i)' = {}
      BY <1>1, <1>7, FreeHeld
    <3> QED
      BY <2>1, <3>1, <3>2, FS_EmptySet
  <2>2. CASE k = j
    <3>1. kbo'[j].refs = kbo[j].refs + 1 /\ Own(j)' = Own(j)
      BY <1>1, <1>3, <1>5, <1>6
    <3>2. Cardinality(Aliases(j)') = Cardinality(Aliases(j)) + 1
      BY <1>7, <2>0, <2>2, FS_AddElement
    <3> QED
      BY <2>0, <2>2, <3>1, <3>2
  <2>3. CASE k # i /\ k # j
    BY <1>5, <1>6, <1>7, <2>0, <2>3, ZenonT(20)
  <2> QED
    BY <2>1, <2>2, <2>3
<1>9. ASSUME NEW a \in KIdx, kbo'[a].kind = "alias"
      PROVE  /\ kbo'[a].src \in KIdx
             /\ kbo'[kbo'[a].src].kind = "pool" /\ kbo'[kbo'[a].src].name = kbo'[a].name
  <2>1. CASE a = i
    BY <1>2, <1>3, <1>5, <2>1
  <2>2. CASE a # i
    <3>1. kbo[a].kind = "alias" /\ kbo'[a].src = kbo[a].src /\ kbo'[a].name = kbo[a].name
      BY <1>6, <1>9, <2>2
    <3>2. PICK k \in KIdx : k = kbo[a].src
      BY <3>1 DEF RefInv
    <3>3. kbo[k].kind = "pool" /\ kbo[k].name = kbo[a].name
      BY <3>1, <3>2 DEF RefInv, AliasKeepsSource
    <3>4. kbo'[k].kind = "pool" /\ kbo'[k].name = kbo[k].name
      BY <1>6, <3>3
    <3> QED
      BY <3>1, <3>2, <3>3, <3>4
  <2> QED
    BY <2>1, <2>2
<1>10. \A k \in KIdx : /\ kbo'[k].kind = "free" => kbo'[k] = FreeK
                       /\ kbo'[k].kind # "free" => kbo'[k].refs > 0
  BY <1>1, <1>2, <1>3, <1>5 DEF RefInv
<1> QED
  BY <1>5, <1>8, <1>9, <1>10 DEF RefInv, AliasKeepsSource

-----------------------------------------------------------------------------
(* Descriptors                                                             *)

\* The imports of a /v3dbuf name, the one on its way, and all descriptors of it.
Imports(v) == {i \in KIdx : kbo[i].kind = "import" /\ kbo[i].name = v}
Coming(v) == IF imp.at \in {"mapped", "install"} /\ imp.name = v THEN 1 ELSE 0
Fds(v) == Cardinality(Imports(v)) + Coming(v) + reap[v] + list[Main][v] + list[Vblank][v]

\* The types of the state the descriptors are counted in.
FdTypes ==
  /\ vbo \in [VNames -> [handle : BOOLEAN, opens : Int]]
  /\ reap \in [VNames -> Nat]
  /\ list \in [{Main, Vblank} -> [VNames -> Nat]]
  /\ imp.at \in {"look", "map", "mapped", "install"} => imp.name \in VNames
  /\ \A i \in KIdx : kbo[i].kind = "import" => kbo[i].name \in VNames

\* The inductive invariant of the descriptors.
FdInv == FdTypes /\ \A v \in VNames : vbo[v].opens = Fds(v)

\* The counts are natural numbers.
LEMMA FdCounts ==
  ASSUME FdTypes, NEW v \in VNames
  PROVE  /\ IsFiniteSet(Imports(v)) /\ Cardinality(Imports(v)) \in Nat /\ Coming(v) \in 0 .. 1
         /\ reap[v] \in Nat /\ list[Main][v] \in Nat /\ list[Vblank][v] \in Nat
         /\ vbo[v].opens \in Int /\ Fds(v) \in Nat
<1>1. Imports(v) \in SUBSET KIdx
  BY DEF Imports
<1>2. IsFiniteSet(Imports(v)) /\ Cardinality(Imports(v)) \in Nat
  BY <1>1, FiniteKIdx
<1>3. reap[v] \in Nat /\ list[Main][v] \in Nat /\ list[Vblank][v] \in Nat /\ vbo[v].opens \in Int
  BY DEF FdTypes
<1>4. Coming(v) \in 0 .. 1
  BY DEF Coming
<1> QED
  BY <1>2, <1>3, <1>4 DEF Fds

\* A step that opens as many descriptors as it accounts for.
LEMMA FdBalance ==
  ASSUME FdInv, FdTypes', \A v \in VNames : vbo'[v].opens + Fds(v) = vbo[v].opens + Fds(v)'
  PROVE  FdInv'
<1>1. ASSUME NEW v \in VNames PROVE vbo'[v].opens = Fds(v)'
  <2>1. Fds(v) \in Nat /\ vbo[v].opens = Fds(v)
    BY FdCounts DEF FdInv
  <2>2. vbo'[v].opens \in Int
    BY DEF FdTypes
  <2>3. Fds(v)' \in Nat
    <3>1. Imports(v)' \in SUBSET KIdx
      BY DEF Imports
    <3>2. Cardinality(Imports(v)') \in Nat
      BY <3>1, FiniteKIdx
    <3>3. reap'[v] \in Nat /\ list'[Main][v] \in Nat /\ list'[Vblank][v] \in Nat
      BY DEF FdTypes
    <3>4. Coming(v)' \in 0 .. 1
      BY DEF Coming
    <3> QED
      BY <3>2, <3>3, <3>4 DEF Fds
  <2> QED
    BY <2>1, <2>2, <2>3
<1> QED
  BY <1>1 DEF FdInv

\* No descriptor is open initially.
LEMMA FdInit == Init => FdInv
<1> SUFFICES ASSUME Init PROVE FdInv
  OBVIOUS
<1>1. \A i \in KIdx : kbo[i].kind = "free"
  BY FreeKFields DEF Init
<1>2. /\ vbo = [v \in VNames |-> [handle |-> TRUE, opens |-> 0]]
      /\ reap = [v \in VNames |-> 0] /\ list = [t \in {Main, Vblank} |-> [v \in VNames |-> 0]]
      /\ imp.at = "idle"
  BY DEF Init, NoFds, NoImp
<1>3. FdTypes
  BY <1>1, <1>2 DEF FdTypes
<1>4. ASSUME NEW v \in VNames PROVE vbo[v].opens = Fds(v)
  <2>1. Imports(v) = {}
    BY <1>1 DEF Imports
  <2>2. Coming(v) = 0 /\ reap[v] = 0 /\ list[Main][v] = 0 /\ list[Vblank][v] = 0 /\ vbo[v].opens = 0
    BY <1>2 DEF Coming
  <2> QED
    BY <2>1, <2>2, FS_EmptySet DEF Fds
<1> QED
  BY <1>3, <1>4 DEF FdInv

\* Imports that go leave their descriptors on the reap list.
LEMMA ReapsFds ==
  ASSUME RefInv, FdTypes, NEW drops, Droppable(drops), Follows(drops), reap' = Reaped(Unreferenced(drops))
  PROVE  /\ reap' \in [VNames -> Nat]
         /\ \A v \in VNames : reap'[v] + Cardinality(Imports(v)') = reap[v] + Cardinality(Imports(v))
         /\ \A i \in KIdx : kbo'[i].kind = "import" => kbo'[i].name \in VNames
<1> DEFINE left == Unreferenced(drops)
           gone(v) == {i \in Used(kbo) \ Used(left) : kbo[i].kind = "import" /\ kbo[i].name = v}
<1>1. ASSUME NEW i \in KIdx
      PROVE  /\ kbo'[i].kind = left[i].kind
             /\ left[i].kind # "free" => kbo'[i].name = kbo[i].name /\ kbo'[i].kind = kbo[i].kind
  <2>1. Leaves(drops, i, left[i])
    BY Unref
  <2>2. CASE left[i].kind = "free"
    BY <2>2, FreeKFields, ZenonT(20) DEF Follows
  <2>3. CASE left[i].kind # "free"
    BY <2>1, <2>3, ZenonT(20) DEF Follows, Leaves
  <2> QED
    BY <2>2, <2>3
<1>2. ASSUME NEW v \in VNames
      PROVE  /\ reap'[v] = reap[v] + Cardinality(gone(v))
             /\ Imports(v)' = Imports(v) \ gone(v) /\ gone(v) \subseteq Imports(v)
  <2>1. reap'[v] = reap[v] + Cardinality(gone(v))
    BY ZenonT(20) DEF Reaped
  <2>2. ASSUME NEW i \in KIdx
        PROVE  i \in Imports(v)' <=> i \in Imports(v) /\ i \notin gone(v)
    <3>1. i \in Imports(v)' <=> kbo'[i].kind = "import" /\ kbo'[i].name = v
      BY DEF Imports
    <3>2. i \in Imports(v) <=> kbo[i].kind = "import" /\ kbo[i].name = v
      BY DEF Imports
    <3>3. i \in gone(v) <=> kbo[i].kind = "import" /\ kbo[i].name = v /\ left[i].kind = "free"
      BY DEF Used
    <3> HIDE DEF gone, left
    <3> QED
      BY <1>1, <3>1, <3>2, <3>3, ZenonT(20)
  <2>3. \A i : (i \in Imports(v)' => i \in KIdx) /\ (i \in Imports(v) => i \in KIdx)
    BY DEF Imports
  <2>4. gone(v) \subseteq Imports(v)
    BY ZenonT(20) DEF Imports, Used
  <2> HIDE DEF gone
  <2> QED
    BY <2>1, <2>2, <2>3, <2>4
<1>3. ASSUME NEW v \in VNames
      PROVE  reap'[v] \in Nat /\ reap'[v] + Cardinality(Imports(v)') = reap[v] + Cardinality(Imports(v))
  <2> HIDE DEF gone
  <2>1. IsFiniteSet(Imports(v)) /\ Cardinality(Imports(v)) \in Nat /\ reap[v] \in Nat
    BY FdCounts, ZenonT(20)
  <2>2. IsFiniteSet(gone(v)) /\ Cardinality(gone(v)) \in Nat
    BY <1>2, <2>1, FS_Subset, FS_CardinalityType
  <2>3. Imports(v) \cap gone(v) = gone(v)
    BY <1>2
  <2>4. Cardinality(Imports(v)') = Cardinality(Imports(v)) - Cardinality(gone(v))
    <3>1. Imports(v)' = Imports(v) \ gone(v)
      BY <1>2
    <3>2. Cardinality(Imports(v) \ gone(v)) = Cardinality(Imports(v)) - Cardinality(Imports(v) \cap gone(v))
      BY <2>1, FS_Difference
    <3> QED
      BY ONLY <2>3, <3>1, <3>2
  <2> QED
    BY <1>2, <2>1, <2>2, <2>4
<1>4. reap' = [v \in VNames |-> reap'[v]]
  BY ZenonT(20) DEF Reaped
<1>5. \A i \in KIdx : kbo'[i].kind = "import" => kbo'[i].name \in VNames
  <2> HIDE DEF left
  <2>1. ASSUME NEW i \in KIdx, kbo'[i].kind = "import" PROVE kbo'[i].name \in VNames
    <3>1. left[i].kind # "free"
      BY <1>1, <2>1
    <3> QED
      BY <1>1, <2>1, <3>1, ZenonT(20) DEF FdTypes
  <2> QED
    BY <2>1
<1> QED
  BY ONLY <1>3, <1>4, <1>5

\* The request being served names a buffer, and is not one that has opened it.
Quiet == imp.at \notin {"mapped", "install"} /\ (imp.at \in {"look", "map"} => imp.name \in VNames)

\* After a request the dispatch thread has no import under way.
LEMMA AfterQuiet == ASSUME imp' = After PROVE Quiet'
BY DEF After, NoImp, Quiet

\* An import that is not open adds no descriptor.
LEMMA QuietComing == (Quiet => \A v : Coming(v) = 0) /\ (Quiet' => \A v : Coming(v)' = 0)
BY DEF Quiet, Coming

\* A step that drops references.
LEMMA DropStep ==
  ASSUME RefInv, FdInv, NEW drops, Droppable(drops), kbo' \in [KIdx -> KRec], Follows(drops),
         reap' = Reaped(Unreferenced(drops)), vbo' = vbo, list' = list,
         imp' = imp \/ (Quiet /\ Quiet')
  PROVE  RefInv' /\ FdInv'
<1>1. RefInv'
  BY DropKeeps, ZenonT(20)
<1>2. /\ reap' \in [VNames -> Nat]
      /\ \A v \in VNames : reap'[v] + Cardinality(Imports(v)') = reap[v] + Cardinality(Imports(v))
      /\ \A i \in KIdx : kbo'[i].kind = "import" => kbo'[i].name \in VNames
  BY ReapsFds DEF FdInv
<1>3. \A v : Coming(v)' = Coming(v)
  BY QuietComing DEF Coming
<1>4. imp'.at \in {"look", "map", "mapped", "install"} => imp'.name \in VNames
  BY DEF Quiet, FdInv, FdTypes
<1>5. FdTypes'
  BY <1>2, <1>4, ZenonT(20) DEF FdInv, FdTypes
<1>6. ASSUME NEW v \in VNames PROVE vbo'[v].opens + Fds(v) = vbo[v].opens + Fds(v)'
  <2>1. Fds(v)' = Fds(v)
    <3>1. /\ Cardinality(Imports(v)) \in Nat /\ reap[v] \in Nat /\ Coming(v) \in 0 .. 1
          /\ list[Main][v] \in Nat /\ list[Vblank][v] \in Nat
      BY FdCounts, ZenonT(20) DEF FdInv
    <3>2. reap'[v] \in Nat /\ Cardinality(Imports(v)') \in Nat
      <4>1. Imports(v)' \in SUBSET KIdx
        BY ZenonT(20) DEF Imports
      <4> QED
        BY <1>2, <4>1, FiniteKIdx
    <3>3. reap'[v] + Cardinality(Imports(v)') = reap[v] + Cardinality(Imports(v)) /\ Coming(v)' = Coming(v)
      BY <1>2, <1>3, ZenonT(20)
    <3>4. Fds(v)' = Cardinality(Imports(v)') + Coming(v)' + reap'[v] + list[Main][v] + list[Vblank][v]
      BY ZenonT(20) DEF Fds
    <3> QED
      BY ONLY <3>1, <3>2, <3>3, <3>4 DEF Fds
  <2>2. Fds(v) \in Nat /\ vbo[v].opens \in Int
    BY FdCounts DEF FdInv
  <2> QED
    BY <2>1, <2>2, ZenonT(20)
<1> QED
  BY <1>1, <1>5, <1>6, FdBalance

\* A step that changes neither the imports nor the descriptors.
LEMMA FdSame ==
  ASSUME FdInv, vbo' = vbo, list' = list, reap' = reap, imp' = imp \/ (Quiet /\ Quiet'),
         \A i \in KIdx : kbo'[i].kind = "import" <=> kbo[i].kind = "import",
         \A i \in KIdx : kbo[i].kind = "import" => kbo'[i].name = kbo[i].name
  PROVE  FdInv'
<1>1. \A v : Coming(v)' = Coming(v)
  BY QuietComing DEF Coming
<1>2. imp'.at \in {"look", "map", "mapped", "install"} => imp'.name \in VNames
  BY DEF Quiet, FdInv, FdTypes
<1>3. FdTypes'
  BY <1>2, ZenonT(20) DEF FdInv, FdTypes
<1>4. \A v : Imports(v)' = Imports(v)
  BY DEF Imports
<1>5. \A v : Fds(v)' = Fds(v)
  BY <1>1, <1>4 DEF Fds
<1> QED
  BY <1>3, <1>5 DEF FdInv

\* One holder that goes.
LEMMA OneGoesStep ==
  ASSUME RefInv, FdInv, NEW i \in KIdx, OneGoes(i), reap' = Reaped(Unreferenced(One({i}))),
         vbo' = vbo, list' = list, imp' = imp \/ (Quiet /\ Quiet')
  PROVE  RefInv' /\ FdInv'
BY OneFollows, DropStep, ZenonT(20)

\* client_close
LEMMA KCloseStep ==
  ASSUME RefInv, FdInv, NEW c \in KClients, KClose(c)
  PROVE  RefInv' /\ FdInv'
<1>1. PICK K \in Kept(c) :
        /\ kbo' = [i \in KIdx |->
             IF Unreferenced(CloseDrops(c, K))[i].kind = "free" THEN FreeK
             ELSE [Unreferenced(CloseDrops(c, K))[i] EXCEPT !.open = @ /\ ~OfClient(c, i), !.fb = FbLeft(c, K, i)]]
        /\ reap' = Reaped(Unreferenced(CloseDrops(c, K)))
        /\ vbo' = vbo /\ list' = list /\ imp.at = "idle" /\ imp' = After
  BY ZenonT(60) DEF KClose, CloseDrops, FbLeft, FbLost, OfClient, Dispatch
<1>2. \A i \in K : kbo[i].fb # "none"
  BY DEF Kept
<1>3. Quiet /\ Quiet'
  BY <1>1, AfterQuiet, ZenonT(20) DEF Quiet
<1>4. Droppable(CloseDrops(c, K)) /\ kbo' \in [KIdx -> KRec] /\ Follows(CloseDrops(c, K))
  BY <1>1, <1>2, CloseFollows, ZenonT(20)
<1> QED
  BY <1>1, <1>3, <1>4, DropStep, ZenonT(20)

\* kms_bo_create
LEMMA KCreateStep ==
  ASSUME RefInv, FdInv, NEW c \in KClients, NEW i \in KIdx, KCreate(c, i)
  PROVE  RefInv' /\ FdInv'
<1> DEFINE b == NewOf("pool", c, nextHandle)
<1>1. /\ kbo[i].kind = "free" /\ kbo' = [kbo EXCEPT ![i] = b]
      /\ vbo' = vbo /\ list' = list /\ reap' = reap /\ imp.at = "idle" /\ imp' = After
  BY ZenonT(20) DEF KCreate, NewOf, Free, Dispatch
<1>2. b \in KRec /\ b.kind = "pool" /\ b.open = TRUE /\ b.refs = 1 /\ b.fb = "none"
  <2>1. nextHandle \in KNames \cup VNames \cup {0} /\ FreeK \in KRec /\ FreeK.fb = "none" /\ 1 \in Nat
    BY FreeKFields DEF KCreate
  <2> QED
    BY <2>1, ZenonT(40) DEF NewOf, KRec
<1> HIDE DEF b
<1>3. Quiet /\ Quiet'
  BY <1>1, AfterQuiet, ZenonT(20) DEF Quiet
<1>4. RefInv'
  BY <1>1, <1>2, NewBo, ZenonT(20)
<1>5. kbo'[i] = b /\ \A j \in KIdx : j # i => kbo'[j] = kbo[j]
  BY <1>1 DEF RefInv
<1>6. FdInv'
  BY <1>1, <1>2, <1>3, <1>5, FdSame
<1> QED
  BY <1>4, <1>6

\* kms_fb_add
LEMMA KAddFbStep ==
  ASSUME RefInv, FdInv, NEW c \in KClients, NEW i \in KIdx, KAddFb(c, i)
  PROVE  RefInv' /\ FdInv'
<1>1. /\ kbo[i].kind # "free" /\ kbo[i].fb = "none"
      /\ kbo' = [kbo EXCEPT ![i].fb = "user", ![i].refs = @ + 1]
      /\ vbo' = vbo /\ list' = list /\ reap' = reap /\ imp.at = "idle" /\ imp' = After
  BY ZenonT(20) DEF KAddFb, Mine, Dispatch
<1>2. RefInv'
  BY <1>1, FbRefs, ZenonT(20)
<1>3. \A j \in KIdx : kbo'[j].kind = kbo[j].kind /\ kbo'[j].name = kbo[j].name
  <2>1. kbo \in [KIdx -> KRec]
    BY DEF RefInv
  <2> QED
    BY <1>1, <2>1, ZenonT(20) DEF KRec
<1>4. Quiet /\ Quiet'
  BY <1>1, AfterQuiet, ZenonT(20) DEF Quiet
<1> QED
  BY <1>1, <1>2, <1>3, <1>4, FdSame, ZenonT(20)

\* import_alias
LEMMA KAliasStep ==
  ASSUME RefInv, FdInv, NEW c \in KClients, NEW i \in KIdx, NEW j \in KIdx, KAlias(c, i, j)
  PROVE  RefInv' /\ FdInv'
<1>1. /\ kbo[i].kind = "free" /\ kbo[j].kind = "pool" /\ kbo' = Aliased(i, j, c)
      /\ vbo' = vbo /\ list' = list /\ reap' = reap /\ imp.at = "idle" /\ imp' = After
  BY ZenonT(20) DEF KAlias, Free, Dispatch
<1>2. RefInv'
  BY <1>1, AliasRefs
<1>3. kbo'[i].kind = "alias" /\ \A k \in KIdx : k # i => kbo'[k].kind = kbo[k].kind /\ kbo'[k].name = kbo[k].name
  <2>1. kbo \in [KIdx -> KRec] /\ FreeK \in KRec
    BY FreeKFields DEF RefInv
  <2> QED
    BY <1>1, <2>1, ZenonT(40) DEF Aliased, KRec
<1>4. Quiet /\ Quiet'
  BY <1>1, AfterQuiet, ZenonT(20) DEF Quiet
<1> QED
  BY <1>1, <1>2, <1>3, <1>4, FdSame

\* kms_import_map: the name is opened.
LEMMA KMapStep ==
  ASSUME ImportInv, FdInv, KMap
  PROVE  FdInv'
<1> DEFINE m == imp.name
<1>1. /\ imp.at = "map" /\ imp'.at = "mapped" /\ imp'.name = m
      /\ vbo' = [vbo EXCEPT ![m].opens = @ + 1] /\ kbo' = kbo /\ reap' = reap /\ list' = list
  BY ZenonT(20) DEF KMap, ImportInv, ImportTypes, ImpRec
<1>2. m \in VNames
  BY <1>1 DEF FdInv, FdTypes
<1> HIDE DEF m
<1>3. /\ vbo' \in [VNames -> [handle : BOOLEAN, opens : Int]]
      /\ \A v \in VNames : vbo'[v].opens = IF v = m THEN vbo[v].opens + 1 ELSE vbo[v].opens
  BY <1>1, <1>2 DEF FdInv, FdTypes
<1>4. FdTypes'
  BY <1>1, <1>2, <1>3, ZenonT(20) DEF FdInv, FdTypes
<1>5. ASSUME NEW v \in VNames PROVE vbo'[v].opens + Fds(v) = vbo[v].opens + Fds(v)'
  <2>1. Coming(v) = 0 /\ Coming(v)' = IF v = m THEN 1 ELSE 0
    BY <1>1 DEF Coming, m
  <2>2. Imports(v)' = Imports(v)
    BY <1>1, ZenonT(20) DEF Imports
  <2>3. Fds(v)' = Fds(v) + Coming(v)'
    <3>1. /\ Cardinality(Imports(v)) \in Nat /\ reap[v] \in Nat
          /\ list[Main][v] \in Nat /\ list[Vblank][v] \in Nat
      BY FdCounts DEF FdInv
    <3>2. Fds(v)' = Cardinality(Imports(v)) + Coming(v)' + reap[v] + list[Main][v] + list[Vblank][v]
      BY <1>1, <2>2 DEF Fds
    <3>3. Coming(v)' \in 0 .. 1
      BY <2>1
    <3> QED
      BY ONLY <2>1, <3>1, <3>2, <3>3 DEF Fds
  <2>4. Fds(v) \in Nat /\ vbo[v].opens \in Int
    BY FdCounts DEF FdInv
  <2> QED
    BY ONLY <1>3, <2>1, <2>3, <2>4
<1> QED
  BY <1>4, <1>5, FdBalance

\* kms_import_install: the descriptor is the new BO's, or goes to the reap list.
LEMMA KInstallStep ==
  ASSUME ImportInv, RefInv, FdInv, KInstall
  PROVE  RefInv' /\ FdInv'
<1> DEFINE m == imp.name
           b == NewOf("import", imp.client, m)
<1>1. imp.at = "install" /\ imp' = After /\ vbo' = vbo /\ list' = list
  BY ZenonT(20) DEF KInstall
<1>2. m \in VNames /\ imp.client \in KClients \cup {NoOne}
  BY <1>1 DEF FdInv, FdTypes, ImportInv, ImportTypes, ImpRec
<1>3. \/ /\ reap' = reap
         /\ \E i \in KIdx : kbo[i].kind = "free" /\ kbo' = [kbo EXCEPT ![i] = b]
      \/ reap' = [reap EXCEPT ![m] = @ + 1] /\ kbo' = kbo
  BY ZenonT(20) DEF KInstall, NewOf, Free, NotInstalled
<1>4. b \in KRec /\ b.kind = "import" /\ b.open = TRUE /\ b.refs = 1 /\ b.fb = "none" /\ b.name = m
  <2>1. m \in KNames \cup VNames \cup {0} /\ FreeK \in KRec /\ FreeK.fb = "none" /\ 1 \in Nat
    BY <1>2, FreeKFields
  <2> QED
    BY <1>2, <2>1, ZenonT(40) DEF NewOf, KRec
<1>5. \A v : Coming(v) = (IF v = m THEN 1 ELSE 0) /\ Coming(v)' = 0
  BY <1>1, AfterQuiet, QuietComing DEF Coming
<1>6. Quiet'
  BY <1>1, AfterQuiet
<1> HIDE DEF m, b
<1>7. CASE reap' = reap /\ \E i \in KIdx : kbo[i].kind = "free" /\ kbo' = [kbo EXCEPT ![i] = b]
  <2>1. PICK i \in KIdx : kbo[i].kind = "free" /\ kbo' = [kbo EXCEPT ![i] = b]
    BY <1>7, ZenonT(20)
  <2>2. RefInv'
    BY <1>4, <2>1, NewBo, ZenonT(20)
  <2>3. kbo'[i] = b /\ \A j \in KIdx : j # i => kbo'[j] = kbo[j]
    BY <2>1 DEF RefInv
  <2>4. FdTypes'
    <3>1. \A j \in KIdx : kbo'[j].kind = "import" => kbo'[j].name \in VNames
      BY <1>2, <1>4, <2>3 DEF FdInv, FdTypes
    <3>2. imp'.at \in {"look", "map", "mapped", "install"} => imp'.name \in VNames
      BY <1>6 DEF Quiet
    <3> QED
      BY <1>1, <1>7, <3>1, <3>2, ZenonT(20) DEF FdInv, FdTypes
  <2>5. ASSUME NEW v \in VNames PROVE vbo'[v].opens + Fds(v) = vbo[v].opens + Fds(v)'
    <3>1. i \notin Imports(v) /\ Imports(v)' = IF v = m THEN Imports(v) \cup {i} ELSE Imports(v)
      <4>1. i \notin Imports(v)
        BY <2>1 DEF Imports
      <4>2. \A j \in KIdx : kbo'[j].kind = "import" /\ kbo'[j].name = v <=>
                              (kbo[j].kind = "import" /\ kbo[j].name = v) \/ (j = i /\ v = m)
        BY <1>4, <2>1, <2>3
      <4> QED
        BY <4>1, <4>2 DEF Imports
    <3>2. Cardinality(Imports(v)') = Cardinality(Imports(v)) + (IF v = m THEN 1 ELSE 0)
      <4>1. IsFiniteSet(Imports(v)) /\ Cardinality(Imports(v)) \in Nat
        BY FdCounts DEF FdInv
      <4> QED
        <5>1. CASE v = m
          BY <3>1, <4>1, <5>1, FS_AddElement
        <5>2. CASE v # m
          BY <3>1, <4>1, <5>2
        <5> QED
          BY <5>1, <5>2
    <3>3. /\ Cardinality(Imports(v)) \in Nat /\ reap[v] \in Nat
          /\ list[Main][v] \in Nat /\ list[Vblank][v] \in Nat
      BY FdCounts DEF FdInv
    <3>4. Fds(v)' = Cardinality(Imports(v)') + Coming(v)' + reap[v] + list[Main][v] + list[Vblank][v]
      BY <1>1, <1>7 DEF Fds
    <3>5. Coming(v) = (IF v = m THEN 1 ELSE 0) /\ Coming(v)' = 0
      BY <1>5, ZenonT(20)
    <3>6. Fds(v)' = Fds(v)
      BY ONLY <3>2, <3>3, <3>4, <3>5 DEF Fds
    <3> QED
      BY <1>1, <3>6, ZenonT(20)
  <2> QED
    BY <2>2, <2>4, <2>5, FdBalance
<1>8. CASE reap' = [reap EXCEPT ![m] = @ + 1] /\ kbo' = kbo
  <2>1. RefInv'
    BY <1>8, RefSame
  <2>2. /\ reap' \in [VNames -> Nat]
        /\ \A v \in VNames : reap'[v] = reap[v] + (IF v = m THEN 1 ELSE 0)
    BY <1>2, <1>8 DEF FdInv, FdTypes
  <2>3. FdTypes'
    <3>1. imp'.at \in {"look", "map", "mapped", "install"} => imp'.name \in VNames
      BY <1>6 DEF Quiet
    <3> QED
      BY <1>1, <1>8, <2>2, <3>1, ZenonT(20) DEF FdInv, FdTypes
  <2>4. ASSUME NEW v \in VNames PROVE vbo'[v].opens + Fds(v) = vbo[v].opens + Fds(v)'
    <3>1. Imports(v)' = Imports(v)
      BY <1>8 DEF Imports
    <3>2. /\ Cardinality(Imports(v)) \in Nat /\ reap[v] \in Nat
          /\ list[Main][v] \in Nat /\ list[Vblank][v] \in Nat
      BY FdCounts DEF FdInv
    <3>3. Fds(v)' = Cardinality(Imports(v)) + Coming(v)' + reap'[v] + list[Main][v] + list[Vblank][v]
      BY <1>1, <3>1 DEF Fds
    <3>4. Coming(v) = (IF v = m THEN 1 ELSE 0) /\ Coming(v)' = 0 /\ reap'[v] = reap[v] + (IF v = m THEN 1 ELSE 0)
      BY <1>5, <2>2
    <3>5. Fds(v)' = Fds(v)
      BY ONLY <3>2, <3>3, <3>4 DEF Fds
    <3> QED
      BY <1>1, <3>5, ZenonT(20)
  <2> QED
    BY <2>1, <2>3, <2>4, FdBalance
<1> QED
  BY <1>3, <1>7, <1>8

\* kms_reap takes the list.
LEMMA KReapStep ==
  ASSUME ImportInv, FdInv, NEW t \in {Main, Vblank}, KReap(t)
  PROVE  FdInv'
<1>1. /\ kbo' = kbo /\ vbo' = vbo /\ reap' = NoFds /\ list[t] = NoFds
      /\ list' = [list EXCEPT ![t] = reap]
      /\ imp' = imp \/ (imp.at = "reap" /\ imp'.at = "closing")
  BY ZenonT(20) DEF KReap, Taken, ImportInv, ImportTypes, ImpRec
<1>2. imp' = imp \/ (Quiet /\ Quiet')
  BY <1>1 DEF Quiet
<1>3. \A v : Coming(v)' = Coming(v)
  BY <1>2, QuietComing DEF Coming
<1>4. imp'.at \in {"look", "map", "mapped", "install"} => imp'.name \in VNames
  BY <1>2 DEF Quiet, FdInv, FdTypes
<1>5. /\ reap \in [VNames -> Nat] /\ list \in [{Main, Vblank} -> [VNames -> Nat]]
      /\ reap' \in [VNames -> Nat] /\ list' \in [{Main, Vblank} -> [VNames -> Nat]]
  <2>1. reap \in [VNames -> Nat] /\ list \in [{Main, Vblank} -> [VNames -> Nat]]
    BY DEF FdInv, FdTypes
  <2>2. NoFds \in [VNames -> Nat]
    BY DEF NoFds
  <2> QED
    BY <1>1, <2>1, <2>2
<1>6. FdTypes'
  BY <1>1, <1>4, <1>5, ZenonT(20) DEF FdInv, FdTypes
<1>7. ASSUME NEW v \in VNames PROVE vbo'[v].opens + Fds(v) = vbo[v].opens + Fds(v)'
  <2>1. Imports(v)' = Imports(v) /\ Coming(v)' = Coming(v)
    BY <1>1, <1>3 DEF Imports
  <2>2. reap'[v] = 0 /\ list[t][v] = 0
    BY <1>1 DEF NoFds
  <2>3. list'[t] = reap /\ \A u \in {Main, Vblank} : u # t => list'[u] = list[u]
    BY <1>1, <1>5
  <2>4. reap'[v] + list'[Main][v] + list'[Vblank][v] = reap[v] + list[Main][v] + list[Vblank][v]
    <3>1. reap[v] \in Nat /\ list[Main][v] \in Nat /\ list[Vblank][v] \in Nat
      BY FdCounts DEF FdInv
    <3>2. CASE t = Main
      <4>1. list'[Main][v] = reap[v] /\ list'[Vblank][v] = list[Vblank][v] /\ list[Main][v] = 0
        BY <2>2, <2>3, <3>2 DEF Main, Vblank
      <4> QED
        BY ONLY <2>2, <3>1, <4>1
    <3>3. CASE t = Vblank
      <4>1. list'[Vblank][v] = reap[v] /\ list'[Main][v] = list[Main][v] /\ list[Vblank][v] = 0
        BY <2>2, <2>3, <3>3, ZenonT(20) DEF Main, Vblank
      <4> QED
        BY ONLY <2>2, <3>1, <4>1
    <3> QED
      BY <3>2, <3>3
  <2>5. Fds(v)' = Fds(v)
    <3>1. /\ Cardinality(Imports(v)) \in Nat /\ Coming(v) \in 0 .. 1
          /\ reap[v] \in Nat /\ list[Main][v] \in Nat /\ list[Vblank][v] \in Nat
      BY FdCounts DEF FdInv
    <3>2. reap'[v] \in Nat /\ list'[Main][v] \in Nat /\ list'[Vblank][v] \in Nat
      BY <1>5
    <3>3. Fds(v)' = Cardinality(Imports(v)) + Coming(v) + reap'[v] + list'[Main][v] + list'[Vblank][v]
      BY <2>1 DEF Fds
    <3> QED
      BY ONLY <2>4, <3>1, <3>2, <3>3 DEF Fds
  <2> QED
    BY <1>1, <2>5
<1> QED
  BY <1>6, <1>7, FdBalance

\* ... and closes its descriptors one by one.
LEMMA KCloseFdStep ==
  ASSUME FdInv, NEW t \in {Main, Vblank}, NEW m \in VNames, KCloseFd(t, m)
  PROVE  FdInv'
<1>1. /\ kbo' = kbo /\ reap' = reap /\ imp' = imp /\ list[t][m] > 0
      /\ list' = [list EXCEPT ![t][m] = @ - 1] /\ vbo' = [vbo EXCEPT ![m].opens = @ - 1]
  BY ZenonT(20) DEF KCloseFd
<1>2. list \in [{Main, Vblank} -> [VNames -> Nat]] /\ list[t][m] \in Nat
  BY DEF FdInv, FdTypes
<1>3. /\ list' \in [{Main, Vblank} -> [VNames -> Nat]]
      /\ \A v \in VNames : list'[t][v] = list[t][v] - (IF v = m THEN 1 ELSE 0)
      /\ \A u \in {Main, Vblank}, v \in VNames : u # t => list'[u][v] = list[u][v]
  BY <1>1, <1>2
<1>4. /\ vbo' \in [VNames -> [handle : BOOLEAN, opens : Int]]
      /\ \A v \in VNames : vbo'[v].opens = vbo[v].opens - (IF v = m THEN 1 ELSE 0)
  BY <1>1 DEF FdInv, FdTypes
<1>5. FdTypes'
  BY <1>1, <1>3, <1>4, ZenonT(20) DEF FdInv, FdTypes
<1>6. ASSUME NEW v \in VNames PROVE vbo'[v].opens + Fds(v) = vbo[v].opens + Fds(v)'
  <2>1. Imports(v)' = Imports(v) /\ Coming(v)' = Coming(v)
    BY <1>1, ZenonT(20) DEF Imports, Coming
  <2>2. /\ Cardinality(Imports(v)) \in Nat /\ Coming(v) \in 0 .. 1 /\ vbo[v].opens \in Int
        /\ reap[v] \in Nat /\ list[Main][v] \in Nat /\ list[Vblank][v] \in Nat
    BY FdCounts DEF FdInv
  <2> DEFINE e == IF v = m THEN 1 ELSE 0
  <2>0. e \in 0 .. 1 /\ list'[t][v] = list[t][v] - e /\ vbo'[v].opens = vbo[v].opens - e
    BY <1>3, <1>4
  <2> HIDE DEF e
  <2>3. /\ list'[Main][v] + list'[Vblank][v] = list[Main][v] + list[Vblank][v] - e
        /\ list'[Main][v] \in Nat /\ list'[Vblank][v] \in Nat
    <3>1. list'[Main][v] \in Nat /\ list'[Vblank][v] \in Nat
      BY <1>3, ZenonT(20)
    <3>2. CASE t = Main
      <4>1. list'[Main][v] = list[Main][v] - e /\ list'[Vblank][v] = list[Vblank][v]
        BY <1>3, <2>0, <3>2, ZenonT(20) DEF Main, Vblank
      <4> QED
        BY ONLY <2>0, <2>2, <3>1, <4>1
    <3>3. CASE t = Vblank
      <4>1. list'[Vblank][v] = list[Vblank][v] - e /\ list'[Main][v] = list[Main][v]
        BY <1>3, <2>0, <3>3 DEF Main, Vblank
      <4> QED
        BY ONLY <2>0, <2>2, <3>1, <4>1, ZenonT(20)
    <3> QED
      BY <3>2, <3>3
  <2>4. Fds(v)' = Cardinality(Imports(v)) + Coming(v) + reap[v] + list'[Main][v] + list'[Vblank][v]
    BY <1>1, <2>1 DEF Fds
  <2> QED
    BY ONLY <2>0, <2>2, <2>3, <2>4 DEF Fds
<1> QED
  BY <1>5, <1>6, FdBalance

\* v3da_bo_close by the creator takes its handle, no descriptor.
LEMMA VCloseStep ==
  ASSUME FdInv, NEW m \in VNames, VClose(m)
  PROVE  FdInv'
<1>1. UNCHANGED <<kbo, reap, list, imp>> /\ vbo' = [vbo EXCEPT ![m].handle = FALSE]
  BY ZenonT(20) DEF VClose, kVars
<1>2. /\ vbo' \in [VNames -> [handle : BOOLEAN, opens : Int]]
      /\ \A v \in VNames : vbo'[v].opens = vbo[v].opens
  BY <1>1, ZenonT(20) DEF FdInv, FdTypes
<1>3. FdTypes'
  BY <1>1, <1>2, ZenonT(20) DEF FdInv, FdTypes
<1>4. \A v : Fds(v)' = Fds(v)
  <2>1. \A v : Imports(v)' = Imports(v) /\ Coming(v)' = Coming(v)
    BY <1>1 DEF Imports, Coming
  <2> QED
    BY <1>1, <2>1 DEF Fds
<1> QED
  BY <1>2, <1>3, <1>4 DEF FdInv

\* The BOs and descriptors start unreferenced.
LEMMA RefInit == Init => RefInv
<1> SUFFICES ASSUME Init PROVE RefInv
  OBVIOUS
<1>1. kbo = [i \in KIdx |-> FreeK]
  BY DEF Init
<1>2. \A i \in KIdx : kbo[i] = FreeK
  BY <1>1
<1>3. kbo \in [KIdx -> KRec]
  BY <1>1, FreeKFields, ZenonT(20)
<1>4. ASSUME NEW i \in KIdx PROVE kbo[i].refs = Own(i) + Cardinality(Aliases(i))
  <2>1. Aliases(i) = {}
    BY <1>2, FreeKFields DEF Aliases
  <2>2. Own(i) = 0 /\ kbo[i].refs = 0
    BY <1>2, FreeKFields DEF Own
  <2> QED
    BY <2>1, <2>2, FS_EmptySet
<1> QED
  BY <1>2, <1>3, <1>4, FreeKFields DEF RefInv, AliasKeepsSource

\* A request of a client of the display server.
LEMMA RequestRefs ==
  ASSUME RefInv, FdInv, NEW c \in KClients,
         \/ KOpen(c) \/ KClose(c)
         \/ \E i \in KIdx : KCreate(c, i) \/ KDestroy(c, i) \/ KAddFb(c, i) \/ KRmFb(c, i)
         \/ \E i, j \in KIdx : KAlias(c, i, j)
         \/ \E v \in VNames : KImport(c, v)
  PROVE  RefInv' /\ FdInv'
<1>1. CASE KOpen(c)
  <2>1. kbo' = kbo /\ vbo' = vbo /\ list' = list /\ reap' = reap /\ imp.at = "idle" /\ imp' = After
    BY <1>1, ZenonT(20) DEF KOpen, Dispatch
  <2>2. Quiet /\ Quiet'
    BY <2>1, AfterQuiet, ZenonT(20) DEF Quiet
  <2> QED
    BY <2>1, <2>2, RefSame, FdSame
<1>2. ASSUME NEW i \in KIdx, KDestroy(c, i) \/ KRmFb(c, i) PROVE RefInv' /\ FdInv'
  <2>1. /\ OneGoes(i) /\ reap' = Reaped(Unreferenced(One({i})))
        /\ vbo' = vbo /\ list' = list /\ imp.at = "idle" /\ imp' = After
    BY <1>2, ZenonT(20) DEF KDestroy, KRmFb, OneGoes, Mine, Dispatch
  <2>2. Quiet /\ Quiet'
    BY <2>1, AfterQuiet, ZenonT(20) DEF Quiet
  <2> QED
    BY <2>1, <2>2, OneGoesStep
<1>3. ASSUME NEW v \in VNames, KImport(c, v) PROVE RefInv' /\ FdInv'
  <2>1. /\ kbo' = kbo /\ vbo' = vbo /\ list' = list /\ reap' = reap /\ imp.at = "idle"
        /\ imp'.at = "look" /\ imp'.name = v
    BY <1>3, ZenonT(20) DEF KImport
  <2>2. Quiet /\ Quiet'
    BY <2>1, ZenonT(20) DEF Quiet
  <2> QED
    BY <2>1, <2>2, RefSame, FdSame
<1> QED
  BY <1>1, <1>2, <1>3, KCloseStep, KCreateStep, KAddFbStep, KAliasStep, ZenonT(40)

\* A step of the import the dispatch thread serves.
LEMMA ThreadRefs ==
  ASSUME ImportInv, RefInv, FdInv, KThread
  PROVE  RefInv' /\ FdInv'
<1>1. CASE KLock
  <2>1. /\ kbo' = kbo /\ vbo' = vbo /\ list' = list /\ reap' = reap
        /\ imp.at = "mapped" /\ imp'.at = "install" /\ imp'.name = imp.name
    BY <1>1, ZenonT(20) DEF KLock, ImportInv, ImportTypes, ImpRec
  <2>2. \A v : Imports(v)' = Imports(v) /\ Coming(v)' = Coming(v)
    BY <2>1 DEF Imports, Coming
  <2>3. FdTypes'
    BY <2>1, ZenonT(20) DEF FdInv, FdTypes
  <2>4. \A v : Fds(v)' = Fds(v)
    BY <2>1, <2>2 DEF Fds
  <2> QED
    BY <2>1, <2>3, <2>4, RefSame DEF FdInv
<1>2. CASE KLook \/ KMapFails \/ KNextRequest
  <2>1. /\ kbo' = kbo /\ vbo' = vbo /\ list' = list /\ reap' = reap
        /\ imp.at \in {"look", "map", "reap", "closing"}
    BY <1>2, ZenonT(20) DEF KLook, KMapFails, KNextRequest
  <2>2. Quiet
    BY <2>1 DEF Quiet, FdInv, FdTypes
  <2>3. \/ imp' = After \/ imp' = NoImp
        \/ imp.at = "look" /\ imp'.at = "map" /\ imp'.name = imp.name
    BY <1>2, ZenonT(20) DEF KLook, KMapFails, KNextRequest, ImportInv, ImportTypes, ImpRec
  <2>4. Quiet'
    <3>1. CASE imp' = After
      BY <3>1, AfterQuiet
    <3>2. CASE imp' = NoImp
      BY <3>2 DEF NoImp, Quiet
    <3>3. CASE imp.at = "look" /\ imp'.at = "map" /\ imp'.name = imp.name
      BY <2>2, <3>3 DEF Quiet
    <3> QED
      BY <2>3, <3>1, <3>2, <3>3
  <2> QED
    BY <2>1, <2>2, <2>4, RefSame, FdSame
<1>3. CASE KMap
  BY <1>3, KMapStep, RefSame DEF KMap
<1>4. CASE KInstall
  BY <1>4, KInstallStep
<1> QED
  BY <1>1, <1>2, <1>3, <1>4, ZenonT(20) DEF KThread

\* Every step keeps the references and descriptors exact.
LEMMA RefNext == ImportInv /\ RefInv /\ FdInv /\ [Next]_vars => RefInv' /\ FdInv'
<1> SUFFICES ASSUME ImportInv, RefInv, FdInv, [Next]_vars
             PROVE  RefInv' /\ FdInv'
  OBVIOUS
<1>1. CASE UNCHANGED kVars /\ UNCHANGED vbo
  BY <1>1, RefSame, FdSame DEF kVars
<1>2. CASE RRequest
  <2>1. ASSUME NEW v \in VNames, VClose(v) PROVE RefInv' /\ FdInv'
    <3>1. kbo' = kbo
      BY <2>1 DEF VClose, kVars
    <3> QED
      BY <2>1, <3>1, VCloseStep, RefSame
  <2> QED
    BY <1>1, <1>2, <2>1, ZenonT(20) DEF RRequest, ROpen, RClose, RBoClose, RImport
<1>3. CASE KRequest
  BY <1>3, RequestRefs, ZenonT(20) DEF KRequest
<1>4. ASSUME NEW t \in RThreads, RThread(t) PROVE RefInv' /\ FdInv'
  BY <1>1, <1>4, ZenonT(20) DEF RThread, RLock, RLook, RMap, RMapFails, RInstall
<1>5. CASE KThread
  BY <1>5, ThreadRefs
<1>6. ASSUME NEW t \in {Main, Vblank}, Closing(t) PROVE RefInv' /\ FdInv'
  <2>1. kbo' = kbo
    BY <1>6, ZenonT(20) DEF Closing, KReap, KCloseFd
  <2>2. FdInv'
    BY <1>6, KReapStep, KCloseFdStep, ZenonT(20) DEF Closing
  <2> QED
    BY <2>1, <2>2, RefSame
<1>7. ASSUME NEW i \in RIdx, RPoll(i) PROVE RefInv' /\ FdInv'
  BY <1>1, <1>7 DEF RPoll
<1>8. ASSUME NEW i \in KIdx, VblankDrops(i) PROVE RefInv' /\ FdInv'
  <2>1. /\ OneGoes(i) /\ reap' = Reaped(Unreferenced(One({i})))
        /\ vbo' = vbo /\ list' = list /\ imp' = imp
    BY <1>8, ZenonT(20) DEF VblankDrops, OneGoes
  <2> QED
    BY <2>1, OneGoesStep
<1>9. CASE UNCHANGED vars
  BY <1>1, <1>9 DEF vars
<1> QED
  BY <1>2, <1>3, <1>4, <1>5, <1>6, <1>7, <1>8, <1>9, ZenonT(20) DEF Next

\* The inductive invariant holds of every behaviour.
LEMMA RefAlways == Spec => [](ImportInv /\ RefInv /\ FdInv)
BY ImportInit, ImportNext, RefInit, FdInit, RefNext, PTL DEF Spec

\* The BO slot an alias refers to by its index is the pool BO it was made of, however
\* the clients close, share and remove their buffers and framebuffers around it
\* (import_alias, kms_bo_unref).
THEOREM AliasesSafe == Spec => []AliasKeepsSource
<1>1. RefInv => AliasKeepsSource
  BY DEF RefInv
<1> QED
  BY <1>1, RefAlways, PTL

\* No descriptor of a /v3dbuf name is lost or closed twice, whichever of the two
\* threads takes the reap list (kms_import_install, kms_bo_unref, kms_reap).
THEOREM DescriptorsBalanced == Spec => []DescriptorsExact
<1>1. FdInv => DescriptorsExact
  BY DEF FdInv, DescriptorsExact, Fds, Imports, Coming
<1> QED
  BY <1>1, RefAlways, PTL

\* A render buffer that the display server has imported keeps a reference in the
\* render server for as long (kms_bo_unref, v3da_bufns_thread).
THEOREM ShownReferenced == Spec => []ShownIsReferenced
<1>1. ASSUME RefInv, FdInv PROVE ShownIsReferenced
  <2>1. ASSUME NEW i \in KIdx, kbo[i].kind = "import" PROVE VRefs(kbo[i].name) > 0
    <3>1. PICK v \in VNames : v = kbo[i].name
      BY <1>1, <2>1 DEF FdInv, FdTypes
    <3>2. i \in Imports(v)
      BY <2>1, <3>1 DEF Imports
    <3>3. /\ IsFiniteSet(Imports(v)) /\ Cardinality(Imports(v)) \in Nat /\ Coming(v) \in 0 .. 1
          /\ reap[v] \in Nat /\ list[Main][v] \in Nat /\ list[Vblank][v] \in Nat
          /\ vbo[v].opens = Fds(v)
      BY <1>1, FdCounts, ZenonT(20) DEF FdInv
    <3>4. Cardinality(Imports(v)) # 0
      BY <3>2, <3>3, FS_EmptySet, ZenonT(20)
    <3>5. vbo[v].opens > 0 /\ vbo[v].opens \in Nat
      BY ONLY <3>3, <3>4 DEF Fds
    <3> QED
      BY <3>1, <3>5 DEF VRefs
  <2> QED
    BY <2>1 DEF ShownIsReferenced
<1> QED
  BY <1>1, RefAlways, PTL

=============================================================================
