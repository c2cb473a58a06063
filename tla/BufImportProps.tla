--------------------------- MODULE BufImportProps ---------------------------
(***************************************************************************)
(* What the two servers promise about the buffers they import from each    *)
(* other.                                                                  *)
(***************************************************************************)
EXTENDS BufImport, TLC

\* The state has its types: every counter of references, mappings and
\* descriptors stays a natural number (none is dropped more often than taken).
TypeOK ==
  /\ rlock \in RThreads \cup {NoOne} /\ klock \in {Main, NoOne}
  /\ rclient \in [RSlots -> [used : BOOLEAN, gen : 0 .. MaxGen]]
  /\ rbo \in [RIdx -> [st : {"free", "live", "quarantine"}, owner : RSlots \cup {NoOne},
                       name : KNames \cup {0}, for : 0 .. MaxGen]]
  /\ req \in [RThreads -> [at : {"idle", "look", "map", "mapped", "install"},
                           slot : RSlots \cup {NoOne}, gen : 0 .. MaxGen, name : KNames \cup {0}]]
  /\ maps \in [KNames -> Nat]
  /\ vbo \in [VNames -> [handle : BOOLEAN, opens : Nat]]
  /\ kopen \subseteq KClients
  /\ kbo \in [KIdx -> [kind : {"free", "pool", "alias", "import"}, owner : KClients \cup {NoOne},
                       open : BOOLEAN, refs : Nat, name : KNames \cup VNames \cup {0},
                       src : 0 .. MaxK, fb : {"none", "user", "plane"}]]
  /\ nextHandle \in 1 .. MaxNames + 1
  /\ imp.at \in {"idle", "look", "map", "mapped", "install", "reap", "closing"}
  /\ reap \in [VNames -> Nat] /\ list \in [{Main, Vblank} -> [VNames -> Nat]]

-----------------------------------------------------------------------------
\* One import per client and name (v3da_bo_import): two threads that import the
\* same /kmsbuf name for one client, both past the first look while neither had
\* installed it, leave one BO, whose handle both answer.
OneImportPerName ==
  \A i, j \in RIdx :
    rbo[i].st = "live" /\ rbo[j].st = "live" /\ rbo[i].owner = rbo[j].owner /\ rbo[i].name = rbo[j].name
      => i = j

\* An import belongs to the client it was looked up for (v3da_bo_import): the
\* client slot may close, and be given to another client, while the buffer is
\* mapped without the lock; the new owner never finds the old owner's import
\* among its handles.
ImportOfItsClient ==
  \A i \in RIdx : rbo[i].st = "live" =>
    rclient[rbo[i].owner].used /\ rclient[rbo[i].owner].gen = rbo[i].for

\* The render server maps a /kmsbuf name once for each BO made of it and for each
\* import on its way (v3da_bo_import, v3da_bo_quarantine_poll): no path leaks a
\* mapping, and none unmaps pages that the GPU page table still has.
MappingsExact ==
  \A n \in KNames :
    maps[n] = Cardinality({i \in RIdx : rbo[i].st # "free" /\ rbo[i].name = n})
            + Cardinality({t \in RThreads : req[t].at \in {"mapped", "install"} /\ req[t].name = n})

\* The descriptors the display server has of a /v3dbuf name are those of its
\* imports, of the one on its way, and of those released but not yet closed
\* (kms_import_install, kms_bo_unref, kms_reap), whichever of the two threads
\* takes the list: none is lost, none closed twice.
DescriptorsExact ==
  \A v \in VNames :
    vbo[v].opens = Cardinality({i \in KIdx : kbo[i].kind = "import" /\ kbo[i].name = v})
                 + (IF imp.at \in {"mapped", "install"} /\ imp.name = v THEN 1 ELSE 0)
                 + reap[v] + list[Main][v] + list[Vblank][v]

\* A render buffer that the display server can still show keeps a reference in the
\* render server (kms_bo_unref, v3da_bufns_thread): its creator may close it or die,
\* and the importer close its handle, while a plane scans it.
ShownIsReferenced ==
  \A i \in KIdx : kbo[i].kind = "import" => VRefs(kbo[i].name) > 0

\* "The alias holds one reference on the pool BO: its pages and its /kmsbuf name
\* stay" (import_alias): the BO slot an alias refers to by index is not freed, nor
\* taken by another buffer, while the alias is in use.
AliasKeepsSource ==
  \A a \in KIdx : kbo[a].kind = "alias" =>
    kbo[kbo[a].src].kind = "pool" /\ kbo[kbo[a].src].name = kbo[a].name

\* "the reap list has room for every BO" (kms_bo_unref): the list never overflows,
\* so that no descriptor is closed under the lock, nor dropped by
\* kms_import_install.
ReapHasRoom == MapThenSumSet(LAMBDA v : reap[v], VNames) <= MaxK

\* Neither server asks the other with its own lock held (v3da_bo_import,
\* op_prime_import): a lock is held only by a thread inside one of the two locked
\* parts of an import, on no path while a name is opened, mapped or closed, and not
\* after the answer.  Each server's buffer thread needs its lock to answer the
\* other, so that with this no cycle of servers waiting for each other can form.
LockedPartsOnly ==
  /\ \A t \in RThreads : rlock = t <=> req[t].at \in {"look", "install"}
  /\ klock = Main <=> imp.at \in {"look", "install"}

\* Threads and clients are alike.
Alike == Permutations(RThreads) \cup Permutations(KClients)

=============================================================================
