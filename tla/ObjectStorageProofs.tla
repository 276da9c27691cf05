------------------------- MODULE ObjectStorageProofs -------------------------
(***************************************************************************)
(* Proofs about ObjectStorage, for any threads, keys and backends: types,  *)
(* which errors callers get, and that each adapter is an object store.     *)
(***************************************************************************)
EXTENDS ObjectStorage, TLAPS

\* The operations that come to a label.
At(label, do) ==
    /\ label \in {"create", "create_set"} => do = "init"
    /\ label \in {"probe", "open", "write"} => do = "upload"
    /\ label \in {"container", "get_container"} => do \in {"upload", "size", "download", "delete"}
    /\ label = "find" => do \in {"size", "download", "delete"}
    /\ label = "read" => do = "download"
    /\ label = "delete" => do = "delete"
    /\ label \in {"clean", "drop", "sweep_start", "sweep"} => do = "clean"

DoInv == \A t \in Threads : At(pc[t], op[t].do)

\* What a thread at a label has seen of the container.
Seen == {"get_container", "probe", "open", "write", "find", "read", "delete", "drop",
         "sweep_start", "sweep"}

\* It can rely on the container or object it has seen until something is deleted.
Relies(t) ==
    /\ t \in cached => container
    /\ pc[t] \in Seen => container
    /\ pc[t] = "read" => Key(t) \in Present

SeenInv ==
    ~deleted => orphans = {} /\ (\A t \in Threads : Relies(t) /\ outcome[t] # "raw")

\* A local file that a thread writes is there, unless it was deleted.
WriteInv ==
    /\ PartsExplained
    /\ \A t \in Threads :
         /\ backend = "local" /\ pc[t] = "write" /\ t \notin orphans => Key(t) \in Present
         /\ pc[t] = "create_set" => backend = "fake"

IInv == TypeOK /\ DoInv /\ SeenInv /\ WriteInv

-----------------------------------------------------------------------------
(* One thread moves *)

\* A thread in an operation has one, with a key.
LEMMA Running ==
    ASSUME TypeOK, NEW t \in Threads, pc[t] # "idle"
    PROVE  op[t] \in Operations /\ op[t] # None /\ Key(t) \in Keys
  BY StorageAssumption DEF TypeOK, ThreadsOK, Operations, Key

\* The other threads are where they were.
Others(t) ==
    \A u \in Threads \ {t} : pc'[u] = pc[u] /\ op'[u] = op[u] /\ outcome'[u] = outcome[u]

LEMMA Going ==
    ASSUME TypeOK, DoInv, NEW t \in Threads, pc[t] # "idle",
           NEW label \in Labels \ {"idle"}, At(label, op[t].do), Goto(t, label)
    PROVE  /\ ThreadsOK' /\ DoInv' /\ Others(t)
           /\ pc'[t] = label /\ op'[t] = op[t] /\ outcome'[t] = outcome[t]
  <1>1. pc' = [pc EXCEPT ![t] = label] /\ op' = op /\ outcome' = outcome BY DEF Goto
  <1>2. Others(t) /\ pc'[t] = label BY <1>1 DEF TypeOK, ThreadsOK, Others
  <1>3. ThreadsOK' BY <1>1, <1>2 DEF TypeOK, ThreadsOK, Others
  <1>4. DoInv' BY <1>1, <1>2 DEF DoInv, Others
  <1> QED BY <1>1, <1>2, <1>3, <1>4

LEMMA Ending ==
    ASSUME TypeOK, DoInv, NEW t \in Threads, NEW result \in Outcomes, Ends(t, result)
    PROVE  /\ ThreadsOK' /\ DoInv' /\ Others(t)
           /\ pc'[t] = "idle" /\ op'[t] = None /\ outcome'[t] = result
  <1>1. /\ pc' = [pc EXCEPT ![t] = "idle"] /\ op' = [op EXCEPT ![t] = None]
        /\ outcome' = [outcome EXCEPT ![t] = result]
    BY DEF Ends
  <1>2. Others(t) /\ pc'[t] = "idle" /\ op'[t] = None /\ outcome'[t] = result
    BY <1>1 DEF TypeOK, ThreadsOK, Others
  <1>3. ThreadsOK'
    <2>1. pc' \in [Threads -> Labels] /\ outcome' \in [Threads -> Outcomes]
      BY <1>1 DEF TypeOK, ThreadsOK, Labels
    <2>2. op' \in [Threads -> Operations \cup {None}] BY <1>1 DEF TypeOK, ThreadsOK
    <2>3. \A u \in Threads : pc'[u] = "idle" <=> op'[u] = None
      BY <1>2 DEF TypeOK, ThreadsOK, Others
    <2> QED BY <2>1, <2>2, <2>3 DEF ThreadsOK
  <1>4. DoInv' BY <1>2 DEF DoInv, Others, At
  <1> QED BY <1>2, <1>3, <1>4

\* What is left to show of a thread that moves.
LEMMA StillSeen ==
    ASSUME TypeOK, SeenInv, NEW t \in Threads, Others(t), deleted => deleted',
           cached \subseteq cached', cached' \subseteq cached \cup {t},
           ~deleted' => /\ orphans' = {} /\ Relies(t)' /\ outcome'[t] # "raw"
                        /\ container => container'
                        /\ \/ Present \subseteq Present'
                           \/ \A u \in Threads : pc[u] # "read"
    PROVE  SeenInv'
  <1> SUFFICES ASSUME ~deleted', NEW u \in Threads \ {t} PROVE (Relies(u) /\ outcome[u] # "raw")'
    BY DEF SeenInv
  <1>1. Relies(u) /\ outcome[u] # "raw" BY DEF SeenInv
  <1>2. pc'[u] = pc[u] /\ op'[u] = op[u] /\ outcome'[u] = outcome[u] BY DEF Others
  <1>3. Key(u)' = Key(u) BY <1>2 DEF Key
  <1> QED BY <1>1, <1>2, <1>3 DEF Relies

\* A step of a thread that writes no file.
LEMMA FilesStay ==
    ASSUME TypeOK, WriteInv, NEW t \in Threads, Others(t), pc[t] # "write",
           UNCHANGED <<backend, objects, orphans, torn>>,
           backend = "local" => pc'[t] # "write", pc'[t] = "create_set" => backend = "fake",
           outcome'[t] = "part" => backend = "local"
    PROVE  WriteInv'
  <1>1. \A u \in Threads \ {t} : pc'[u] = pc[u] /\ outcome'[u] = outcome[u] /\ Key(u)' = Key(u)
    BY DEF Others, Key
  <1>2. ASSUME NEW k \in Keys, backend = "local" PROVE Writers(k) \subseteq Writers(k)'
    BY <1>1, <1>2 DEF Writers
  <1>3. PartsExplained' BY <1>1, <1>2 DEF WriteInv, PartsExplained
  <1> QED BY <1>1, <1>3 DEF WriteInv, Present

-----------------------------------------------------------------------------
(* Every action keeps the invariant *)

LEMMA InitIInv == Init => IInv
  <1> SUFFICES ASSUME Init PROVE IInv OBVIOUS
  <1>1. ThreadsOK BY DEF Init, ThreadsOK, Labels, Outcomes
  <1>2. StoreOK BY DEF Init, StoreOK, Present
  <1>3. TypeOK BY <1>1, <1>2, StorageAssumption DEF Init, TypeOK
  <1>4. DoInv BY DEF Init, DoInv, At
  <1>5. SeenInv BY DEF Init, SeenInv, Relies, Seen
  <1>6. WriteInv BY DEF Init, WriteInv, PartsExplained
  <1> QED BY <1>3, <1>4, <1>5, <1>6 DEF IInv

LEMMA BeginKeeps ==
    ASSUME IInv, NEW t \in Threads, NEW o \in Operations, Begin(t, o) PROVE IInv'
  <1>1. o # None /\ o.do \in {"init", "upload", "size", "download", "delete", "clean"}
    BY StorageAssumption DEF Operations
  <1>2. First(t, o) \in Labels \ {"idle"} /\ At(First(t, o), o.do)
        /\ (First(t, o) \in Seen => t \in cached) /\ First(t, o) # "read"
    BY <1>1 DEF First, At, Labels, Seen
  <1>3. /\ op' = [op EXCEPT ![t] = o] /\ pc' = [pc EXCEPT ![t] = First(t, o)]
        /\ outcome' = [outcome EXCEPT ![t] = "none"] /\ ops < MaxOps /\ ops' = ops + 1
        /\ UNCHANGED <<backend, container, objects, orphans, torn, deleted, cached, left>>
    BY DEF Begin, store, auxiliary
  <1>4. Others(t) /\ op'[t] = o /\ pc'[t] = First(t, o) /\ outcome'[t] = "none"
    BY <1>3 DEF IInv, TypeOK, ThreadsOK, Others
  <1>5. ThreadsOK'
    <2>1. pc' \in [Threads -> Labels] /\ outcome' \in [Threads -> Outcomes]
      BY <1>2, <1>3 DEF IInv, TypeOK, ThreadsOK, Outcomes
    <2>2. op' \in [Threads -> Operations \cup {None}] BY <1>3 DEF IInv, TypeOK, ThreadsOK
    <2>3. \A u \in Threads : pc'[u] = "idle" <=> op'[u] = None
      BY <1>1, <1>2, <1>4 DEF IInv, TypeOK, ThreadsOK, Others
    <2> QED BY <2>1, <2>2, <2>3 DEF ThreadsOK
  <1>6. StoreOK' BY <1>3 DEF IInv, TypeOK, StoreOK, Present
  <1>7. TypeOK' BY <1>3, <1>5, <1>6, StorageAssumption DEF IInv, TypeOK
  <1>8. DoInv' BY <1>2, <1>4 DEF IInv, DoInv, Others
  <1>9. SeenInv'
    <2>1. ASSUME ~deleted' PROVE Relies(t)' /\ orphans' = {} /\ Present' = Present
      BY <2>1, <1>2, <1>3, <1>4 DEF IInv, SeenInv, Relies, Present
    <2> QED BY <2>1, <1>3, <1>4, StillSeen DEF IInv
  <1>10. WriteInv'
    <2>1. pc[t] # "write" /\ pc'[t] # "write" /\ pc'[t] # "create_set"
      <3>1. First(t, o) # "write" /\ First(t, o) # "create_set" BY <1>1 DEF First
      <3> QED BY <1>4, <3>1 DEF Begin, IInv, TypeOK, ThreadsOK
    <2> QED BY <2>1, <1>3, <1>4, FilesStay DEF IInv
  <1> QED BY <1>7, <1>8, <1>9, <1>10 DEF IInv

\* A thread that goes on or ends its operation.
Moved(t) == ThreadsOK' /\ DoInv' /\ Others(t)

LEMMA CreateKeeps == ASSUME IInv, NEW t \in Threads, Create(t) PROVE IInv'
  <1>0. op[t].do = "init" /\ pc[t] # "idle" /\ TypeOK /\ DoInv
    BY DEF Create, IInv, DoInv, At
  <1>1. Moved(t) /\ outcome'[t] \in {outcome[t], "ok"}
        /\ pc'[t] \in {"idle", "create_set"} /\ (pc'[t] = "create_set" => backend = "fake")
    <2>1. CASE Ends(t, "ok") BY <1>0, <2>1, Ending DEF Outcomes, Moved
    <2>2. CASE Fake /\ Goto(t, "create_set")
      BY <1>0, <2>2, Going DEF Labels, At, Moved, Fake
    <2> QED BY <2>1, <2>2 DEF Create
  <1>2. /\ UNCHANGED <<backend, objects, orphans, torn, deleted, ops, cached, left>>
        /\ container' \in BOOLEAN /\ (container => container')
    BY DEF Create, auxiliary, IInv, TypeOK, StoreOK
  <1>3. StoreOK' BY <1>0, <1>2 DEF TypeOK, StoreOK, Present
  <1>4. TypeOK' BY <1>0, <1>1, <1>2, <1>3 DEF TypeOK, Moved
  <1>5. SeenInv'
    <2>1. ASSUME ~deleted' PROVE Relies(t)' /\ orphans' = {} /\ Present' = Present /\ outcome'[t] # "raw"
      BY <2>1, <1>1, <1>2 DEF IInv, SeenInv, Relies, Present, Seen
    <2> QED BY <2>1, <1>1, <1>2, StillSeen DEF IInv, Moved
  <1>6. WriteInv'
    <2>1. pc[t] # "write" /\ (outcome'[t] = "part" => outcome[t] = "part") BY <1>1 DEF Create
    <2> QED BY <2>1, <1>1, <1>2, FilesStay DEF IInv, Moved, WriteInv, PartsExplained
  <1> QED BY <1>1, <1>4, <1>5, <1>6 DEF IInv, Moved

LEMMA CreateSetKeeps == ASSUME IInv, NEW t \in Threads, CreateSet(t) PROVE IInv'
  <1>0. TypeOK /\ DoInv BY DEF IInv
  <1>1. Moved(t) /\ outcome'[t] = "ok" /\ pc'[t] = "idle"
    BY <1>0, Ending DEF Outcomes, Moved, CreateSet
  <1>2. /\ UNCHANGED <<backend, orphans, torn, ops, cached, left>> /\ container' = TRUE
        /\ objects' = [k \in Keys |-> "none"] /\ deleted' = (deleted \/ Present # {})
    BY DEF CreateSet
  <1>3. StoreOK' BY <1>0, <1>2 DEF TypeOK, StoreOK, Present
  <1>4. TypeOK' BY <1>0, <1>1, <1>2, <1>3 DEF TypeOK, Moved
  <1>5. SeenInv'
    <2>1. ASSUME ~deleted' PROVE Relies(t)' /\ orphans' = {} /\ \A u \in Threads : pc[u] # "read"
      BY <2>1, <1>1, <1>2 DEF IInv, SeenInv, Relies, Seen
    <2> QED BY <2>1, <1>1, <1>2, StillSeen DEF IInv, Moved
  <1>6. WriteInv'
    <2>1. backend = "fake" BY DEF CreateSet, IInv, WriteInv
    <2> QED BY <2>1, <1>1, <1>2 DEF IInv, Moved, WriteInv, PartsExplained, Others
  <1> QED BY <1>1, <1>4, <1>5, <1>6 DEF IInv, Moved

LEMMA ContainerKeeps ==
    ASSUME IInv, NEW t \in Threads, ListContainers(t) \/ GetContainer(t) PROVE IInv'
  <1>0. op[t].do \in {"upload", "size", "download", "delete"} /\ pc[t] # "idle" /\ TypeOK /\ DoInv
    BY DEF ListContainers, GetContainer, IInv, DoInv, At
  <1>1. /\ Moved(t)
        /\ \/ pc'[t] = "idle" /\ outcome'[t] = "no container" /\ cached' = cached
           \/ /\ container /\ pc'[t] \in {"get_container", "probe", "find"}
              /\ outcome'[t] = outcome[t] /\ cached' \in {cached, cached \cup {t}}
    <2>1. CASE Ends(t, "no container") /\ cached' = cached
      BY <1>0, <2>1, Ending DEF Outcomes, Moved
    <2>2. CASE container /\ Goto(t, "get_container") /\ cached' = cached
      BY <1>0, <2>2, Going DEF Labels, At, Moved
    <2>3. CASE /\ container /\ Goto(t, IF op[t].do = "upload" THEN "probe" ELSE "find")
               /\ cached' = IF op[t].do = "upload" THEN cached \cup {t} ELSE cached
      <3>1. CASE op[t].do = "upload" BY <1>0, <2>3, <3>1, Going DEF Labels, At, Moved
      <3>2. CASE op[t].do # "upload" BY <1>0, <2>3, <3>2, Going DEF Labels, At, Moved
      <3> QED BY <3>1, <3>2
    <2> QED BY <2>1, <2>2, <2>3 DEF ListContainers, GetContainer
  <1>2. UNCHANGED <<backend, container, objects, orphans, torn, deleted, ops, left>>
    BY DEF ListContainers, GetContainer, store, auxiliary
  <1>3. StoreOK' BY <1>0, <1>2 DEF TypeOK, StoreOK, Present
  <1>4. TypeOK' BY <1>0, <1>1, <1>2, <1>3 DEF TypeOK, Moved
  <1>5. SeenInv'
    <2>1. ASSUME ~deleted' PROVE Relies(t)' /\ orphans' = {} /\ Present' = Present /\ outcome'[t] # "raw"
      BY <2>1, <1>1, <1>2 DEF IInv, SeenInv, Relies, Present, Seen
    <2> QED BY <2>1, <1>1, <1>2, StillSeen DEF IInv, Moved
  <1>6. WriteInv'
    <2>1. pc[t] # "write" BY DEF ListContainers, GetContainer
    <2> QED BY <2>1, <1>1, <1>2, FilesStay DEF IInv, Moved, WriteInv, PartsExplained
  <1> QED BY <1>1, <1>4, <1>5, <1>6 DEF IInv, Moved

LEMMA ProbeKeeps == ASSUME IInv, NEW t \in Threads, Probe(t) PROVE IInv'
  <1>0. op[t].do = "upload" /\ pc[t] = "probe" /\ TypeOK /\ DoInv
    BY DEF Probe, IInv, DoInv, At
  <1>1. /\ Moved(t) /\ outcome'[t] \in {outcome[t], "ok", "no container"}
        /\ pc'[t] \in {"idle", "open"}
    <2>1. CASE Ends(t, "ok") BY <1>0, <2>1, Ending DEF Outcomes, Moved
    <2>2. CASE Goto(t, "open") BY <1>0, <2>2, Going DEF Labels, At, Moved
    <2>3. CASE Ends(t, "no container") BY <1>0, <2>3, Ending DEF Outcomes, Moved
    <2> QED BY <2>1, <2>2, <2>3 DEF Probe
  <1>2. UNCHANGED <<backend, container, objects, orphans, torn, deleted, ops, cached, left>>
    BY DEF Probe, store, auxiliary
  <1>3. StoreOK' BY <1>0, <1>2 DEF TypeOK, StoreOK, Present
  <1>4. TypeOK' BY <1>0, <1>1, <1>2, <1>3 DEF TypeOK, Moved
  <1>5. SeenInv'
    <2>1. ASSUME ~deleted' PROVE Relies(t)' /\ orphans' = {} /\ Present' = Present /\ outcome'[t] # "raw"
      BY <2>1, <1>0, <1>1, <1>2 DEF IInv, SeenInv, Relies, Present, Seen
    <2> QED BY <2>1, <1>1, <1>2, StillSeen DEF IInv, Moved
  <1>6. WriteInv' BY <1>0, <1>1, <1>2, FilesStay DEF IInv, Moved, WriteInv, PartsExplained
  <1> QED BY <1>1, <1>4, <1>5, <1>6 DEF IInv, Moved

LEMMA OpenKeeps == ASSUME IInv, NEW t \in Threads, Open(t) PROVE IInv'
  <1>0. op[t].do = "upload" /\ pc[t] = "open" /\ TypeOK /\ DoInv /\ Key(t) \in Keys
    BY Running DEF Open, IInv, DoInv, At
  <1>1. /\ Moved(t) /\ outcome'[t] \in {outcome[t], "no container"} /\ pc'[t] \in {"idle", "write"}
    <2>1. CASE Goto(t, "write") BY <1>0, <2>1, Going DEF Labels, At, Moved
    <2>2. CASE Ends(t, "no container") BY <1>0, <2>2, Ending DEF Outcomes, Moved
    <2> QED BY <2>1, <2>2 DEF Open
  <1>2. /\ UNCHANGED <<backend, container, torn, deleted, ops, cached, left>>
        /\ orphans' \subseteq orphans
        /\ \/ objects' = objects
           \/ container /\ objects' = [objects EXCEPT ![Key(t)] = "part"]
    BY DEF Open, auxiliary
  <1>3. Present \subseteq Present' /\ StoreOK'
    <2>1. CASE objects' = objects BY <1>0, <1>2, <2>1 DEF TypeOK, StoreOK, Present
    <2>2. CASE container /\ objects' = [objects EXCEPT ![Key(t)] = "part"]
      BY <1>0, <1>2, <2>2 DEF TypeOK, StoreOK, Present
    <2> QED BY <1>2, <2>1, <2>2
  <1>4. TypeOK' BY <1>0, <1>1, <1>2, <1>3 DEF TypeOK, Moved
  <1>5. SeenInv'
    <2>1. ASSUME ~deleted' PROVE Relies(t)' /\ orphans' = {} /\ outcome'[t] # "raw"
      BY <2>1, <1>0, <1>1, <1>2 DEF IInv, SeenInv, Relies, Seen
    <2> QED BY <2>1, <1>1, <1>2, <1>3, StillSeen DEF IInv, Moved
  <1>6. WriteInv'
    <2>1. CASE backend # "local"
      BY <2>1, <1>0, <1>1, <1>2, FilesStay DEF Open, IInv, Moved, WriteInv, PartsExplained
    <2>2. CASE backend = "local" /\ Ends(t, "no container") /\ UNCHANGED <<objects, orphans>>
      <3>1. pc'[t] = "idle" BY <2>2, <1>0, Ending DEF Outcomes
      <3> QED BY <2>2, <3>1, <1>0, <1>1, <1>2, FilesStay DEF IInv, Moved
    <2>3. CASE /\ backend = "local" /\ Goto(t, "write")
               /\ objects' = [objects EXCEPT ![Key(t)] = "part"] /\ orphans' = orphans \ {t}
      <3>1. pc'[t] = "write" /\ Key(t)' = Key(t) /\ outcome' = outcome /\ backend' = "local"
        BY <2>3, <1>0, <1>2, Going DEF Goto, Labels, At, Key
      <3>2. \A u \in Threads \ {t} : pc'[u] = pc[u] /\ Key(u)' = Key(u) BY <1>1 DEF Moved, Others, Key
      <3>3. \A l \in Keys : Writers(l) \subseteq Writers(l)' BY <2>3, <3>2, <1>0 DEF Writers
      <3>4. t \in Writers(Key(t))' BY <2>3, <3>1 DEF Writers
      <3>5. \A l \in Keys : objects'[l] = IF l = Key(t) THEN "part" ELSE objects[l]
        BY <2>3, <1>0 DEF TypeOK, StoreOK
      <3>6. PartsExplained'
        BY <3>1, <3>3, <3>4, <3>5, <1>0, <1>2 DEF IInv, WriteInv, PartsExplained
      <3>7. Present \subseteq Present' /\ Key(t) \in Present' BY <3>5, <1>0 DEF Present
      <3> QED BY <2>3, <3>1, <3>2, <3>6, <3>7 DEF IInv, WriteInv
    <2> QED BY <2>1, <2>2, <2>3 DEF Open
  <1> QED BY <1>1, <1>4, <1>5, <1>6 DEF IInv, Moved

LEMMA WriteKeeps == ASSUME IInv, NEW t \in Threads, Write(t) PROVE IInv'
  <1>0. /\ op[t].do = "upload" /\ pc[t] = "write" /\ TypeOK /\ DoInv
        /\ ~deleted => container /\ orphans = {}
        /\ backend = "local" /\ t \notin orphans => container
    BY Running DEF Write, IInv, DoInv, At, SeenInv, Relies, Seen, TypeOK, StoreOK, WriteInv
  <1>1. PICK k \in Keys : Key(t) = k BY <1>0, Running
  <1>2. /\ Moved(t) /\ pc'[t] = "idle" /\ outcome'[t] # "part"
        /\ outcome'[t] = "raw" => deleted
    <2>1. CASE Ends(t, "ok") BY <1>0, <2>1, Ending DEF Outcomes, Moved
    <2>2. CASE Ends(t, "no container") BY <1>0, <2>2, Ending DEF Outcomes, Moved
    <2>3. CASE Ends(t, "no object") BY <1>0, <2>3, Ending DEF Outcomes, Moved
    <2>4. CASE deleted /\ Ends(t, "raw") BY <1>0, <2>4, Ending DEF Outcomes, Moved
    <2> QED BY <1>0, <2>1, <2>2, <2>3, <2>4 DEF Write
  <1>3. /\ UNCHANGED <<backend, container, orphans, deleted, ops, cached, left>>
        /\ \/ objects' = objects /\ torn' = torn /\ (backend # "local" \/ t \in orphans)
           \/ container /\ objects' = [objects EXCEPT ![k] = "whole"] /\ torn' \subseteq torn /\ torn \subseteq torn' \cup {k}
           \/ /\ backend = "local" /\ container /\ objects' = [objects EXCEPT ![k] = "part"]
              /\ Writers(k) # {t} /\ t \notin orphans /\ torn' = torn \ {k}
    BY <1>0, <1>1 DEF Write
  <1>4. \A l \in Keys : objects'[l] = objects[l] \/ (l = k /\ container /\ objects'[l] \in {"part", "whole"})
    BY <1>0, <1>3 DEF TypeOK, StoreOK
  <1>5. objects' \in [Keys -> {"none", "part", "whole"}] /\ torn' \subseteq Keys
    BY <1>0, <1>3 DEF TypeOK, StoreOK
  <1>6. Present \subseteq Present' BY <1>4 DEF Present
  <1>7. StoreOK' BY <1>0, <1>3, <1>4, <1>5 DEF TypeOK, StoreOK, Present
  <1>8. TypeOK' BY <1>0, <1>2, <1>3, <1>7 DEF TypeOK, Moved
  <1>9. SeenInv'
    <2>1. ASSUME ~deleted' PROVE Relies(t)' /\ orphans' = {} /\ outcome'[t] # "raw"
      BY <2>1, <1>0, <1>1, <1>2, <1>3 DEF IInv, SeenInv, Relies, Seen
    <2> QED BY <2>1, <1>2, <1>3, <1>6, StillSeen DEF IInv, Moved
  <1>10. WriteInv'
    <2>1. \A u \in Threads \ {t} : pc'[u] = pc[u] /\ outcome'[u] = outcome[u] /\ Key(u)' = Key(u)
      BY <1>2 DEF Moved, Others, Key
    <2>2. \A l \in Keys \ {k} : Writers(l)' = Writers(l) BY <2>1, <1>1, <1>2, <1>3 DEF Writers
    <2>3. Writers(k)' = Writers(k) \ {t} BY <2>1, <1>1, <1>2, <1>3 DEF Writers
    <2>4. PartsExplained'
      <3>1. \A u \in Threads : outcome'[u] = "part" => backend' = "local"
        BY <2>1, <1>1, <1>2, <1>3 DEF IInv, WriteInv, PartsExplained
      <3>2. \A l \in Keys \ {k} : objects'[l] = objects[l] /\ (l \in torn <=> l \in torn')
        BY <1>0, <1>3 DEF TypeOK, StoreOK
      <3>3. objects'[k] = "part" => backend' = "local" /\ (Writers(k)' # {} \/ k \in torn')
        <4>1. CASE objects' = objects /\ torn' = torn /\ (backend # "local" \/ t \in orphans)
          BY <4>1, <2>3, <1>0, <1>1, <1>3 DEF IInv, WriteInv, PartsExplained, Writers
        <4>2. CASE objects' = [objects EXCEPT ![k] = "whole"]
          BY <4>2, <1>0 DEF TypeOK, StoreOK
        <4>3. CASE backend = "local" /\ Writers(k) # {t} /\ t \notin orphans
          <5>1. t \in Writers(k) BY <4>3, <1>0, <1>1 DEF Writers
          <5> QED BY <4>3, <5>1, <2>3, <1>3
        <4> QED BY <4>1, <4>2, <4>3, <1>3
      <3> QED BY <3>1, <3>2, <3>3, <2>2, <1>3 DEF IInv, WriteInv, PartsExplained
    <2> QED BY <2>1, <2>4, <1>2, <1>3, <1>6 DEF IInv, WriteInv
  <1> QED BY <1>2, <1>8, <1>9, <1>10 DEF IInv, Moved

LEMMA WriteFailKeeps == ASSUME IInv, NEW t \in Threads, WriteFail(t) PROVE IInv'
  <1>0. op[t].do = "upload" /\ pc[t] = "write" /\ TypeOK /\ DoInv
    BY DEF WriteFail, IInv, DoInv, At
  <1>1. PICK k \in Keys : Key(t) = k BY <1>0, Running
  <1>2. Moved(t) /\ pc'[t] = "idle" /\ outcome'[t] = "raised"
    BY <1>0, Ending DEF WriteFail, Outcomes, Moved
  <1>3. /\ UNCHANGED <<backend, container, objects, orphans, deleted, ops, cached, left>>
        /\ torn' = IF backend = "local" /\ t \notin orphans THEN torn \cup {k} ELSE torn
    BY <1>1 DEF WriteFail
  <1>4. StoreOK' BY <1>0, <1>3 DEF TypeOK, StoreOK, Present
  <1>5. TypeOK' BY <1>0, <1>2, <1>3, <1>4 DEF TypeOK, Moved
  <1>6. SeenInv'
    <2>1. ASSUME ~deleted' PROVE Relies(t)' /\ orphans' = {} /\ Present' = Present /\ outcome'[t] # "raw"
      BY <2>1, <1>0, <1>2, <1>3 DEF IInv, SeenInv, Relies, Present, Seen
    <2> QED BY <2>1, <1>2, <1>3, StillSeen DEF IInv, Moved
  <1>7. WriteInv'
    <2>1. \A u \in Threads \ {t} : pc'[u] = pc[u] /\ outcome'[u] = outcome[u] /\ Key(u)' = Key(u)
      BY <1>2 DEF Moved, Others, Key
    <2>2. \A l \in Keys \ {k} : Writers(l)' = Writers(l) BY <2>1, <1>1, <1>2, <1>3 DEF Writers
    <2>3. Writers(k)' = Writers(k) \ {t} BY <2>1, <1>1, <1>2, <1>3 DEF Writers
    <2>4. backend = "local" => Writers(k)' = Writers(k) \/ k \in torn'
      BY <2>3, <1>3 DEF Writers
    <2>5. PartsExplained'
      BY <2>1, <2>2, <2>4, <1>2, <1>3 DEF IInv, WriteInv, PartsExplained
    <2> QED BY <2>1, <2>5, <1>2, <1>3 DEF IInv, WriteInv, Present
  <1> QED BY <1>2, <1>5, <1>6, <1>7 DEF IInv, Moved

LEMMA FindKeeps == ASSUME IInv, NEW t \in Threads, Find(t) PROVE IInv'
  <1>0. op[t].do \in {"size", "download", "delete"} /\ pc[t] = "find" /\ TypeOK /\ DoInv
        /\ Key(t) \in Keys
    BY Running DEF Find, IInv, DoInv, At
  <1>1. /\ Moved(t) /\ pc'[t] \in {"idle", "read", "delete"}
        /\ outcome'[t] = "part" => backend = "local"
        /\ outcome'[t] = "raw" => outcome[t] = "raw"
        /\ pc'[t] = "read" => Key(t)' = Key(t) /\ Key(t) \in Present
    <2>1. CASE Key(t) \in Present /\ Ends(t, objects[Key(t)])
      <3>1. objects[Key(t)] \in {"part", "whole"}
            /\ (objects[Key(t)] = "part" => backend = "local")
        BY <2>1, <1>0 DEF TypeOK, StoreOK, Present, IInv, WriteInv, PartsExplained
      <3> QED BY <2>1, <3>1, <1>0, Ending DEF Outcomes, Moved
    <2>2. CASE Key(t) \in Present /\ op[t].do = "download" /\ Goto(t, "read")
      <3>1. outcome[t] = "part" => backend = "local" BY DEF IInv, WriteInv, PartsExplained
      <3> QED BY <2>2, <3>1, <1>0, Going DEF Labels, At, Moved, Key
    <2>3. CASE op[t].do = "delete" /\ Goto(t, "delete")
      <3>1. outcome[t] = "part" => backend = "local" BY DEF IInv, WriteInv, PartsExplained
      <3> QED BY <2>3, <3>1, <1>0, Going DEF Labels, At, Moved
    <2>4. CASE Ends(t, "no object") BY <2>4, <1>0, Ending DEF Outcomes, Moved
    <2>5. CASE Ends(t, "no container") BY <2>5, <1>0, Ending DEF Outcomes, Moved
    <2> QED BY <2>1, <2>2, <2>3, <2>4, <2>5 DEF Find
  <1>2. UNCHANGED <<backend, container, objects, orphans, torn, deleted, ops, cached, left>>
    BY DEF Find, store, auxiliary
  <1>3. StoreOK' BY <1>0, <1>2 DEF TypeOK, StoreOK, Present
  <1>4. TypeOK' BY <1>0, <1>1, <1>2, <1>3 DEF TypeOK, Moved
  <1>5. SeenInv'
    <2>1. ASSUME ~deleted' PROVE Relies(t)' /\ orphans' = {} /\ Present' = Present /\ outcome'[t] # "raw"
      BY <2>1, <1>0, <1>1, <1>2 DEF IInv, SeenInv, Relies, Present, Seen
    <2> QED BY <2>1, <1>1, <1>2, StillSeen DEF IInv, Moved
  <1>6. WriteInv' BY <1>0, <1>1, <1>2, FilesStay DEF IInv, Moved
  <1> QED BY <1>1, <1>4, <1>5, <1>6 DEF IInv, Moved

LEMMA ReadKeeps == ASSUME IInv, NEW t \in Threads, Read(t) PROVE IInv'
  <1>0. pc[t] = "read" /\ TypeOK /\ DoInv /\ Key(t) \in Keys BY Running DEF Read, IInv
  <1>1. /\ Moved(t) /\ pc'[t] = "idle"
        /\ outcome'[t] = "part" => backend = "local"
        /\ outcome'[t] = "raw" => Key(t) \notin Present
    <2>1. CASE Key(t) \in Present /\ Ends(t, objects[Key(t)])
      <3>1. objects[Key(t)] \in {"part", "whole"}
            /\ (objects[Key(t)] = "part" => backend = "local")
        BY <2>1, <1>0 DEF TypeOK, StoreOK, Present, IInv, WriteInv, PartsExplained
      <3> QED BY <2>1, <3>1, <1>0, Ending DEF Outcomes, Moved
    <2>2. CASE Key(t) \notin Present /\ Ends(t, "raw") BY <2>2, <1>0, Ending DEF Outcomes, Moved
    <2> QED BY <2>1, <2>2 DEF Read
  <1>2. UNCHANGED <<backend, container, objects, orphans, torn, deleted, ops, cached, left>>
    BY DEF Read, store, auxiliary
  <1>3. StoreOK' BY <1>0, <1>2 DEF TypeOK, StoreOK, Present
  <1>4. TypeOK' BY <1>0, <1>1, <1>2, <1>3 DEF TypeOK, Moved
  <1>5. SeenInv'
    <2>1. ASSUME ~deleted' PROVE Relies(t)' /\ orphans' = {} /\ Present' = Present /\ outcome'[t] # "raw"
      BY <2>1, <1>0, <1>1, <1>2 DEF IInv, SeenInv, Relies, Present, Seen
    <2> QED BY <2>1, <1>1, <1>2, StillSeen DEF IInv, Moved
  <1>6. WriteInv' BY <1>0, <1>1, <1>2, FilesStay DEF IInv, Moved
  <1> QED BY <1>1, <1>4, <1>5, <1>6 DEF IInv, Moved

\* What a deletion leaves.
LEMMA Deletes ==
    ASSUME TypeOK, WriteInv, NEW t \in Threads, NEW S \in SUBSET Keys, Deleting(S),
           pc[t] # "write", pc'[t] \notin {"write", "create_set"}, Others(t), backend' = backend,
           outcome'[t] = "part" => backend = "local"
    PROVE  /\ objects' \in [Keys -> {"none", "part", "whole"}] /\ orphans' \subseteq Threads
           /\ torn' \subseteq Keys /\ deleted' = TRUE /\ Present' = Present \ S /\ WriteInv'
  <1>1. /\ objects' = [l \in Keys |-> IF l \in S THEN "none" ELSE objects[l]]
        /\ orphans' = orphans \cup UNION {Writers(l) : l \in S}
        /\ torn' = torn \ S /\ deleted' = TRUE
    BY DEF Deleting
  <1>2. objects' \in [Keys -> {"none", "part", "whole"}] /\ Present' = Present \ S
    BY <1>1 DEF TypeOK, StoreOK, Present
  <1>3. orphans' \subseteq Threads /\ torn' \subseteq Keys
    BY <1>1 DEF TypeOK, StoreOK, Writers
  <1>4. \A u \in Threads \ {t} : pc'[u] = pc[u] /\ outcome'[u] = outcome[u] /\ Key(u)' = Key(u)
    BY DEF Others, Key
  <1>5. ASSUME NEW l \in Keys \ S, NEW u \in Writers(l) PROVE u \in Writers(l)'
    <2>1. u \in Threads \ {t} /\ pc[u] = "write" /\ Key(u) = l /\ u \notin orphans
      BY <1>5 DEF Writers
    <2>2. \A m \in S : u \notin Writers(m) BY <2>1 DEF Writers
    <2> QED BY <2>1, <2>2, <1>1, <1>4 DEF Writers
  <1>6. PartsExplained'
    <2>1. ASSUME NEW l \in Keys, objects'[l] = "part"
          PROVE  backend' = "local" /\ (Writers(l)' # {} \/ l \in torn')
      BY <2>1, <1>1, <1>5 DEF WriteInv, PartsExplained
    <2> QED BY <2>1, <1>4 DEF WriteInv, PartsExplained
  <1>7. ASSUME NEW u \in Threads, backend' = "local", pc'[u] = "write", u \notin orphans'
        PROVE  Key(u)' \in Present'
    <2>1. u # t /\ pc[u] = "write" /\ Key(u)' = Key(u) /\ u \notin orphans BY <1>1, <1>4, <1>7
    <2>2. Key(u) \in Present BY <2>1, <1>7 DEF WriteInv
    <2>3. Key(u) \notin S BY <2>1, <1>1, <1>7 DEF Writers
    <2> QED BY <2>1, <2>2, <2>3, <1>2
  <1>8. \A u \in Threads : pc'[u] = "create_set" => backend' = "fake" BY <1>4 DEF WriteInv
  <1> QED BY <1>1, <1>2, <1>3, <1>6, <1>7, <1>8 DEF WriteInv

LEMMA DeleteKeeps == ASSUME IInv, NEW t \in Threads, Delete(t) PROVE IInv'
  <1>0. pc[t] = "delete" /\ TypeOK /\ DoInv /\ WriteInv /\ Key(t) \in Keys
    BY Running DEF Delete, IInv
  <1>1. Moved(t) /\ pc'[t] = "idle" /\ outcome'[t] # "part"
    <2>1. CASE Ends(t, "ok") BY <2>1, <1>0, Ending DEF Outcomes, Moved
    <2>2. CASE Ends(t, "no object") BY <2>2, <1>0, Ending DEF Outcomes, Moved
    <2>3. CASE Ends(t, "false") BY <2>3, <1>0, Ending DEF Outcomes, Moved
    <2> QED BY <2>1, <2>2, <2>3 DEF Delete
  <1>2. Deleting({Key(t)}) /\ UNCHANGED <<backend, container, ops, cached, left>> BY DEF Delete
  <1>3. /\ objects' \in [Keys -> {"none", "part", "whole"}] /\ orphans' \subseteq Threads
        /\ torn' \subseteq Keys /\ deleted' = TRUE /\ Present' \subseteq Present /\ WriteInv'
    BY <1>0, <1>1, <1>2, Deletes DEF Moved
  <1>4. TypeOK' BY <1>0, <1>1, <1>2, <1>3 DEF TypeOK, StoreOK, Moved
  <1> QED BY <1>1, <1>3, <1>4 DEF IInv, Moved, SeenInv

LEMMA CleanKeeps ==
    ASSUME IInv, NEW t \in Threads, Clean(t) \/ SweepStart(t) PROVE IInv'
  <1>0. op[t].do = "clean" /\ pc[t] \in {"clean", "sweep_start"} /\ TypeOK /\ DoInv
    BY DEF Clean, SweepStart, IInv, DoInv, At
  <1>1. /\ Moved(t) /\ outcome'[t] \in {outcome[t], "ok", "no container"}
        /\ \/ pc'[t] = "idle"
           \/ pc'[t] \in {"drop", "sweep_start", "sweep"} /\ container
    <2>1. CASE Ends(t, "ok") BY <1>0, <2>1, Ending DEF Outcomes, Moved
    <2>2. CASE Ends(t, "no container") BY <1>0, <2>2, Ending DEF Outcomes, Moved
    <2>3. CASE container /\ Goto(t, "drop") BY <1>0, <2>3, Going DEF Labels, At, Moved
    <2>4. CASE container /\ Goto(t, "sweep_start") BY <1>0, <2>4, Going DEF Labels, At, Moved
    <2>5. CASE container /\ Goto(t, "sweep") BY <1>0, <2>5, Going DEF Labels, At, Moved
    <2> QED BY <2>1, <2>2, <2>3, <2>4, <2>5 DEF Clean, SweepStart
  <1>2. UNCHANGED <<backend, container, objects, orphans, torn, deleted, ops, cached>>
    BY DEF Clean, SweepStart, store, auxiliary
  <1>3. left' \in [Threads -> SUBSET Keys]
    <2>1. left' = left \/ left' = [left EXCEPT ![t] = Present] BY DEF Clean, SweepStart
    <2> QED BY <2>1, <1>0 DEF TypeOK, Present
  <1>4. StoreOK' BY <1>0, <1>2 DEF TypeOK, StoreOK, Present
  <1>5. TypeOK' BY <1>0, <1>1, <1>2, <1>3, <1>4 DEF TypeOK, Moved
  <1>6. SeenInv'
    <2>1. ASSUME ~deleted' PROVE Relies(t)' /\ orphans' = {} /\ Present' = Present /\ outcome'[t] # "raw"
      BY <2>1, <1>0, <1>1, <1>2 DEF IInv, SeenInv, Relies, Present, Seen
    <2> QED BY <2>1, <1>1, <1>2, StillSeen DEF IInv, Moved
  <1>7. WriteInv' BY <1>0, <1>1, <1>2, FilesStay DEF IInv, Moved, WriteInv, PartsExplained
  <1> QED BY <1>1, <1>5, <1>6, <1>7 DEF IInv, Moved

LEMMA DropKeeps == ASSUME IInv, NEW t \in Threads, Drop(t) PROVE IInv'
  <1>0. pc[t] = "drop" /\ TypeOK /\ DoInv /\ WriteInv /\ (~deleted => container)
    BY DEF Drop, IInv, SeenInv, Relies, Seen
  <1>1. CASE ~container /\ Ends(t, "raw") /\ UNCHANGED store
    <2>1. Moved(t) /\ pc'[t] = "idle" /\ outcome'[t] = "raw"
      BY <1>1, <1>0, Ending DEF Outcomes, Moved
    <2>2. UNCHANGED <<backend, container, objects, orphans, torn, deleted, ops, cached, left>>
      BY <1>1 DEF Drop, store, auxiliary
    <2>3. StoreOK' BY <1>0, <2>2 DEF TypeOK, StoreOK, Present
    <2>4. TypeOK' BY <1>0, <2>1, <2>2, <2>3 DEF TypeOK, Moved
    <2>5. SeenInv' BY <1>0, <1>1, <2>2 DEF SeenInv
    <2>6. WriteInv' BY <1>0, <2>1, <2>2, FilesStay DEF Moved
    <2> QED BY <2>1, <2>4, <2>5, <2>6 DEF IInv, Moved
  <1>2. CASE Deleting(Keys) /\ container' = FALSE /\ Ends(t, "ok")
    <2>1. Moved(t) /\ pc'[t] = "idle" /\ outcome'[t] = "ok"
      BY <1>2, <1>0, Ending DEF Outcomes, Moved
    <2>2. UNCHANGED <<backend, ops, cached, left>> BY DEF Drop
    <2>3. /\ objects' \in [Keys -> {"none", "part", "whole"}] /\ orphans' \subseteq Threads
          /\ torn' \subseteq Keys /\ deleted' = TRUE /\ Present' = {} /\ WriteInv'
      <3>1. Present \ Keys = {} BY DEF Present
      <3> QED BY <3>1, <1>0, <1>2, <2>1, <2>2, Deletes DEF Moved
    <2>4. TypeOK' BY <1>0, <1>2, <2>1, <2>2, <2>3 DEF TypeOK, StoreOK, Moved
    <2> QED BY <2>1, <2>3, <2>4 DEF IInv, Moved, SeenInv
  <1> QED BY <1>1, <1>2 DEF Drop

LEMMA SweepKeeps ==
    ASSUME IInv, NEW t \in Threads, NEW k \in Keys, Sweep(t, k) PROVE IInv'
  <1>0. /\ pc[t] = "sweep" /\ TypeOK /\ DoInv /\ WriteInv
        /\ outcome[t] = "part" => backend = "local"
    BY DEF Sweep, IInv, WriteInv, PartsExplained
  <1>1. /\ Deleting({k}) /\ UNCHANGED <<backend, container, ops, op, pc, cached, outcome>>
        /\ left' = [left EXCEPT ![t] = @ \ {k}]
    BY DEF Sweep
  <1>2. ThreadsOK' /\ DoInv' /\ Others(t) BY <1>0, <1>1 DEF TypeOK, ThreadsOK, DoInv, Others
  <1>3. /\ objects' \in [Keys -> {"none", "part", "whole"}] /\ orphans' \subseteq Threads
        /\ torn' \subseteq Keys /\ deleted' = TRUE /\ Present' \subseteq Present /\ WriteInv'
    BY <1>0, <1>1, <1>2, Deletes
  <1>4. left' \in [Threads -> SUBSET Keys] BY <1>0, <1>1 DEF TypeOK
  <1>5. TypeOK' BY <1>0, <1>1, <1>2, <1>3, <1>4 DEF TypeOK, StoreOK
  <1> QED BY <1>2, <1>3, <1>5 DEF IInv, SeenInv

LEMMA SweepEndKeeps == ASSUME IInv, NEW t \in Threads, SweepEnd(t) PROVE IInv'
  <1>0. pc[t] = "sweep" /\ TypeOK /\ DoInv /\ WriteInv BY DEF SweepEnd, IInv
  <1>1. /\ Moved(t) /\ pc'[t] = "idle" /\ outcome'[t] # "part"
        /\ container' = container \/ (container' = FALSE /\ Present = {})
    <2>1. CASE Ends(t, "false") /\ container' = container
      BY <2>1, <1>0, Ending DEF Outcomes, Moved
    <2>2. CASE Ends(t, "error") /\ container' = container
      BY <2>2, <1>0, Ending DEF Outcomes, Moved
    <2>3. CASE Ends(t, "no object") /\ container' = container
      BY <2>3, <1>0, Ending DEF Outcomes, Moved
    <2>4. CASE Present = {} /\ Ends(t, "ok") /\ container' = FALSE
      BY <2>4, <1>0, Ending DEF Outcomes, Moved
    <2> QED BY <2>1, <2>2, <2>3, <2>4 DEF SweepEnd
  <1>2. UNCHANGED <<backend, objects, orphans, torn, ops, cached>> /\ deleted' = TRUE
        /\ left' = [left EXCEPT ![t] = {}]
    BY DEF SweepEnd
  <1>3. StoreOK'
    <2>1. Present' = Present BY <1>2 DEF Present
    <2>2. container' \in BOOLEAN /\ (Present # {} => container')
      <3>1. CASE container' = container BY <3>1, <1>0 DEF TypeOK, StoreOK
      <3>2. CASE container' = FALSE /\ Present = {} BY <3>2
      <3> QED BY <3>1, <3>2, <1>1
    <2> QED BY <2>1, <2>2, <1>0, <1>2 DEF TypeOK, StoreOK
  <1>4. left' \in [Threads -> SUBSET Keys] BY <1>0, <1>2 DEF TypeOK
  <1>5. TypeOK' BY <1>0, <1>1, <1>2, <1>3, <1>4 DEF TypeOK, Moved
  <1>6. WriteInv' BY <1>0, <1>1, <1>2, FilesStay DEF Moved
  <1> QED BY <1>1, <1>2, <1>5, <1>6 DEF IInv, Moved, SeenInv

LEMMA NextIInv == IInv /\ [Next]_vars => IInv'
  <1> SUFFICES ASSUME IInv, [Next]_vars PROVE IInv' OBVIOUS
  <1>1. ASSUME UNCHANGED vars PROVE IInv'
    <2>1. UNCHANGED <<backend, container, objects, orphans, torn, deleted, ops, op, pc, cached,
                      left, outcome>>
      BY <1>1 DEF vars, store, auxiliary
    <2> QED
      BY <2>1 DEF IInv, TypeOK, ThreadsOK, StoreOK, Present, DoInv, SeenInv, Relies, Key, WriteInv,
                  PartsExplained, Writers
  <1>2. ASSUME NEW t \in Threads, Thread(t) PROVE IInv'
    BY <1>2, BeginKeeps, CreateKeeps, CreateSetKeeps, ContainerKeeps, ProbeKeeps, OpenKeeps,
       WriteKeeps, WriteFailKeeps, FindKeeps, ReadKeeps, DeleteKeeps, CleanKeeps, DropKeeps,
       SweepKeeps, SweepEndKeeps DEF Thread
  <1> QED BY <1>1, <1>2 DEF Next, Terminated

-----------------------------------------------------------------------------
(* Theorems *)

THEOREM Invariant == Spec => []IInv
  BY InitIInv, NextIInv, PTL DEF Spec

\* Variables keep their types, an operation runs as long as its thread is in it, and only a
\* container that exists has objects (the state of fake.py and of a libcloud driver).
THEOREM TypesCorrect == Spec => []TypeOK
  BY Invariant, PTL DEF IInv

\* Part of an object exists in a local storage only, while somebody writes it or after an
\* upload failed (upload_object_via_stream of LibcloudObjectStorage).
THEOREM PartsAreExplained == Spec => []PartsExplained
  <1>1. IInv => PartsExplained BY DEF IInv, WriteInv
  <1> QED BY <1>1, Invariant, PTL

\* Until something is deleted no error of the driver or of a dictionary reaches a caller
\* (wraps_exception, FakeObjectStorage).
THEOREM RawErrorsNeedDeletes == Spec => []RawOnlyAfterDelete
  <1>1. IInv => RawOnlyAfterDelete BY DEF IInv, SeenInv, RawOnlyAfterDelete, TypeOK, StoreOK
  <1> QED BY <1>1, Invariant, PTL

-----------------------------------------------------------------------------
(* Each adapter is an object store *)

LEMMA StoreInit == Init => Store!Init
  BY DEF Init, Store!Init, Present, Answer

\* The answers as ObjectStore sees them.
Answers == [t \in Threads |-> Answer(outcome[t])]

\* A step inside an operation answers nothing.
LEMMA Silent ==
    ASSUME TypeOK, NEW t \in Threads, NEW label, Goto(t, label)
    PROVE  op' = op /\ Answers' = Answers
  BY DEF Goto, Answers

LEMMA StoreEnds ==
    ASSUME TypeOK, NEW t \in Threads, pc[t] # "idle", NEW result \in Outcomes, Ends(t, result)
    PROVE  Store!Ends(t, Answer(result))
  <1>1. op[t] # None /\ op' = [op EXCEPT ![t] = None]
        /\ outcome' = [outcome EXCEPT ![t] = result]
    BY Running DEF Ends
  <1>2. Answers' = [Answers EXCEPT ![t] = Answer(result)]
    BY <1>1 DEF Answers, TypeOK, ThreadsOK
  <1> QED BY <1>1, <1>2 DEF Store!Ends, Answers

LEMMA AnswerOf ==
    /\ Answer("ok") = "ok" /\ Answer("whole") = "ok" /\ Answer("part") = "ok"
    /\ Answer("none") = "none"
    /\ \A r \in {"false", "no object", "no container", "error", "raw", "raised"} :
           Answer(r) = "failed"
  BY DEF Answer

\* What a step may be to ObjectStore.
Refines == CreatedTwice \/ Store!Next \/ UNCHANGED Store!vars

\* An operation that finds no container fails, as it does when its object is missing.
LEMMA NoContainer ==
    ASSUME IInv, NEW t \in Threads, pc[t] # "idle", NEW result \in Outcomes,
           op[t].do \in {"upload", "size", "download", "delete"}, Answer(result) = "failed",
           Ends(t, result), op[t].do = "upload" \/ Key(t) \notin Present,
           UNCHANGED <<container, objects>>
    PROVE  Refines
  <1>1. Store!Ends(t, "failed") /\ op[t] # None BY StoreEnds, Running DEF IInv
  <1>2. Present' = Present BY DEF Present
  <1>3. CASE op[t].do = "upload"
    <2>1. Store!NotUploaded(t)
      BY <1>1, <1>2, <1>3 DEF Store!NotUploaded, Store!Does
    <2> QED BY <2>1 DEF Refines, Store!Next
  <1>4. CASE op[t].do \in {"size", "download"}
    <2>1. Store!Look(t) BY <1>1, <1>2, <1>4 DEF Store!Look, Store!Does, Key
    <2> QED BY <2>1 DEF Refines, Store!Next
  <1>5. CASE op[t].do = "delete"
    <2>1. Store!Delete(t) BY <1>1, <1>2, <1>5 DEF Store!Delete, Store!Does, Key
    <2> QED BY <2>1 DEF Refines, Store!Next
  <1> QED BY <1>3, <1>4, <1>5

LEMMA GoesOn ==
    ASSUME IInv, NEW t \in Threads, NEW label, Goto(t, label), UNCHANGED container,
           Present' = Present
    PROVE  Refines
  BY Silent DEF IInv, Answers, Refines, Store!vars

LEMMA BeginRefines ==
    ASSUME IInv, NEW t \in Threads, NEW o \in Operations, Begin(t, o) PROVE Refines
  <1>1. /\ op[t] = None /\ op' = [op EXCEPT ![t] = o]
        /\ outcome' = [outcome EXCEPT ![t] = "none"] /\ UNCHANGED <<container, objects>>
    BY DEF Begin, store
  <1>2. Answers' = [Answers EXCEPT ![t] = "none"]
    BY <1>1, AnswerOf DEF IInv, TypeOK, ThreadsOK, Answers
  <1>3. Store!Call(t, o) BY <1>1, <1>2 DEF Store!Call, Answers, Present
  <1> QED BY <1>3 DEF Refines, Store!Next, Store!Operations, Operations

LEMMA CreateRefines ==
    ASSUME IInv, NEW t \in Threads, Create(t) \/ CreateSet(t) PROVE Refines
  <1>0. /\ op[t].do = "init" /\ pc[t] # "idle" /\ TypeOK /\ op[t] # None
    BY Running DEF Create, CreateSet, IInv, DoInv, At
  <1>1. ASSUME Ends(t, "ok"), container' = TRUE, Present' = Present PROVE Refines
    <2>1. Store!Ends(t, "ok") BY <1>0, <1>1, StoreEnds, AnswerOf DEF Outcomes
    <2>2. Store!Create(t) BY <2>1, <1>0, <1>1 DEF Store!Create, Store!Does
    <2> QED BY <2>2 DEF Refines, Store!Next
  <1>2. CASE Create(t)
    <2>1. Present' = Present BY <1>2 DEF Create, Present
    <2>2. CASE Goto(t, "create_set") /\ container' = container BY <2>1, <2>2, GoesOn
    <2>3. CASE Ends(t, "ok") /\ container' = TRUE BY <2>1, <2>3, <1>1
    <2> QED BY <1>2, <2>2, <2>3 DEF Create, IInv, TypeOK, StoreOK
  <1>3. CASE CreateSet(t) /\ container
    <2>1. pc'[t] = "idle" BY <1>3, <1>0 DEF CreateSet, Ends, TypeOK, ThreadsOK
    <2> QED BY <2>1, <1>3 DEF Refines, CreatedTwice, CreateSet
  <1>4. CASE CreateSet(t) /\ ~container
    <2>1. Present = {} BY <1>0, <1>4 DEF TypeOK, StoreOK
    <2>2. Present' = Present BY <2>1, <1>4 DEF CreateSet, Present
    <2> QED BY <2>2, <1>1, <1>4 DEF CreateSet
  <1> QED BY <1>2, <1>3, <1>4

LEMMA ContainerRefines ==
    ASSUME IInv, NEW t \in Threads, ListContainers(t) \/ GetContainer(t) PROVE Refines
  <1>0. op[t].do \in {"upload", "size", "download", "delete"} /\ pc[t] # "idle"
    BY DEF ListContainers, GetContainer, IInv, DoInv, At
  <1>1. UNCHANGED <<container, objects>> BY DEF ListContainers, GetContainer, store
  <1>2. Present' = Present BY <1>1 DEF Present
  <1>3. CASE ~container /\ Ends(t, "no container")
    <2>1. Key(t) \notin Present BY <1>3 DEF IInv, TypeOK, StoreOK
    <2> QED BY <2>1, <1>0, <1>1, <1>3, NoContainer, AnswerOf DEF Outcomes
  <1>4. CASE \E label : Goto(t, label) BY <1>1, <1>2, <1>4, GoesOn
  <1> QED BY <1>3, <1>4 DEF ListContainers, GetContainer

LEMMA ProbeRefines == ASSUME IInv, NEW t \in Threads, Probe(t) PROVE Refines
  <1>0. op[t].do = "upload" /\ pc[t] # "idle" /\ op[t] # None
    BY Running DEF Probe, IInv, DoInv, At
  <1>1. UNCHANGED <<container, objects>> BY DEF Probe, store
  <1>2. Present' = Present BY <1>1 DEF Present
  <1>3. CASE Key(t) \in Present /\ Ends(t, "ok")
    <2>1. Store!Ends(t, "ok") BY <1>0, <1>3, StoreEnds, AnswerOf DEF IInv, Outcomes
    <2>2. Store!Uploaded(t)
      BY <2>1, <1>0, <1>1, <1>2, <1>3 DEF Store!Uploaded, Store!Does, Key
    <2> QED BY <2>2 DEF Refines, Store!Next
  <1>4. CASE Goto(t, "open") BY <1>1, <1>2, <1>4, GoesOn
  <1>5. CASE Ends(t, "no container")
    BY <1>0, <1>1, <1>5, NoContainer, AnswerOf DEF Outcomes
  <1> QED BY <1>3, <1>4, <1>5 DEF Probe

LEMMA OpenRefines == ASSUME IInv, NEW t \in Threads, Open(t) PROVE Refines
  <1>0. op[t].do = "upload" /\ pc[t] # "idle" /\ op[t] # None /\ Key(t) \in Keys /\ TypeOK
    BY Running DEF Open, IInv, DoInv, At
  <1>1. container' = container BY DEF Open
  <1>2. CASE Goto(t, "write") /\ objects' = objects BY <1>1, <1>2, GoesOn DEF Present
  <1>3. CASE Ends(t, "no container") /\ objects' = objects
    BY <1>0, <1>1, <1>3, NoContainer, AnswerOf DEF Outcomes
  <1>4. CASE container /\ Goto(t, "write") /\ objects' = [objects EXCEPT ![Key(t)] = "part"]
    <2>1. Present' = Present \cup {Key(t)} BY <1>0, <1>4 DEF Present, TypeOK, StoreOK
    <2>2. op' = op /\ Answers' = Answers BY <1>0, <1>4, Silent
    <2>3. Store!Put(t)
      BY <2>1, <2>2, <1>0, <1>1, <1>4 DEF Store!Put, Store!Does, Key, Answers
    <2> QED BY <2>3 DEF Refines, Store!Next
  <1> QED BY <1>2, <1>3, <1>4 DEF Open

LEMMA WriteRefines ==
    ASSUME IInv, NEW t \in Threads, Write(t) \/ WriteFail(t) PROVE Refines
  <1>0. /\ op[t].do = "upload" /\ pc[t] = "write" /\ op[t] # None /\ Key(t) \in Keys /\ TypeOK
        /\ backend = "local" /\ t \notin orphans => Key(t) \in Present
    BY Running DEF Write, WriteFail, IInv, DoInv, At, WriteInv
  <1>1. container' = container BY DEF Write, WriteFail
  <1>2. ASSUME NEW result \in {"no object", "no container", "raw", "raised"}, Ends(t, result),
               objects' = objects
        PROVE  Refines
    BY <1>0, <1>1, <1>2, NoContainer, AnswerOf DEF Outcomes
  <1>3. ASSUME Ends(t, "ok"), Present' = Present \cup {Key(t)}, container \/ Key(t) \in Present
        PROVE  Refines
    <2>1. Store!Ends(t, "ok") BY <1>0, <1>3, StoreEnds, AnswerOf DEF Outcomes
    <2>2. Store!Uploaded(t)
      BY <2>1, <1>0, <1>1, <1>3 DEF Store!Uploaded, Store!Does, Key
    <2> QED BY <2>2 DEF Refines, Store!Next
  <1>4. CASE Write(t) /\ backend # "local"
    <2>1. CASE container /\ objects' = [objects EXCEPT ![Key(t)] = "whole"] /\ Ends(t, "ok")
      <3>1. Present' = Present \cup {Key(t)} BY <1>0, <2>1 DEF Present, TypeOK, StoreOK
      <3> QED BY <3>1, <2>1, <1>3
    <2>2. CASE Ends(t, "raw") /\ objects' = objects BY <2>2, <1>2
    <2>3. CASE Ends(t, "no container") /\ objects' = objects BY <2>3, <1>2
    <2> QED BY <2>1, <2>2, <2>3, <1>4 DEF Write
  <1>5. CASE Write(t) /\ backend = "local" /\ t \notin orphans
    <2>1. PICK v \in {"part", "whole"} :
             Ends(t, "ok") /\ objects' = [objects EXCEPT ![Key(t)] = v]
      BY <1>5 DEF Write
    <2>2. Present' = Present \cup {Key(t)} BY <1>0, <2>1 DEF Present, TypeOK, StoreOK
    <2> QED BY <2>1, <2>2, <1>0, <1>3, <1>5
  <1>6. CASE Write(t) /\ backend = "local" /\ t \in orphans
    <2>1. CASE Key(t) \in Present /\ Ends(t, "ok") /\ objects' = objects
      <3>1. Present' = Present \cup {Key(t)} BY <2>1 DEF Present
      <3> QED BY <3>1, <2>1, <1>3
    <2>2. CASE Ends(t, "no object") /\ objects' = objects BY <2>2, <1>2
    <2>3. CASE Ends(t, "raw") /\ objects' = objects BY <2>3, <1>2
    <2> QED BY <2>1, <2>2, <2>3, <1>6 DEF Write
  <1>7. CASE WriteFail(t) BY <1>2, <1>7 DEF WriteFail
  <1> QED BY <1>4, <1>5, <1>6, <1>7

LEMMA LookRefines ==
    ASSUME IInv, NEW t \in Threads, Find(t) \/ Read(t) PROVE Refines
  <1>0. /\ op[t].do \in {"size", "download", "delete"} /\ pc[t] # "idle" /\ op[t] # None
        /\ Key(t) \in Keys /\ (pc[t] = "read" => op[t].do = "download") /\ TypeOK
    BY Running DEF Find, Read, IInv, DoInv, At
  <1>1. UNCHANGED <<container, objects>> BY DEF Find, Read, store
  <1>2. Present' = Present BY <1>1 DEF Present
  <1>3. CASE /\ op[t].do \in {"size", "download"} /\ Key(t) \in Present
             /\ Ends(t, objects[Key(t)])
    <2>1. objects[Key(t)] \in {"part", "whole"} BY <1>0, <1>3 DEF TypeOK, StoreOK, Present
    <2>2. Store!Ends(t, "ok") BY <2>1, <1>0, <1>3, StoreEnds, AnswerOf DEF Outcomes
    <2>3. Store!Look(t) BY <2>2, <1>0, <1>1, <1>2, <1>3 DEF Store!Look, Store!Does, Key
    <2> QED BY <2>3 DEF Refines, Store!Next
  <1>4. CASE \E label : Goto(t, label) BY <1>1, <1>2, <1>4, GoesOn
  <1>5. ASSUME NEW result \in {"no object", "no container", "raw"}, Ends(t, result),
               Key(t) \notin Present
        PROVE  Refines
    BY <1>0, <1>1, <1>5, NoContainer, AnswerOf DEF Outcomes
  <1>6. CASE Find(t) BY <1>0, <1>3, <1>4, <1>5, <1>6 DEF Find
  <1>7. CASE Read(t) BY <1>0, <1>3, <1>5, <1>7 DEF Read
  <1> QED BY <1>6, <1>7

LEMMA DeleteRefines == ASSUME IInv, NEW t \in Threads, Delete(t) PROVE Refines
  <1>0. op[t].do = "delete" /\ pc[t] # "idle" /\ op[t] # None /\ Key(t) \in Keys /\ TypeOK
    BY Running DEF Delete, IInv, DoInv, At
  <1>1. Present' = Present \ {Key(t)} /\ container' = container
    BY DEF Delete, Deleting, Present
  <1>2. CASE Ends(t, "ok")
    <2>1. Store!Ends(t, "ok") BY <1>0, <1>2, StoreEnds, AnswerOf DEF Outcomes
    <2>2. Store!Delete(t) BY <2>1, <1>0, <1>1 DEF Store!Delete, Store!Does, Key
    <2> QED BY <2>2 DEF Refines, Store!Next
  <1>3. ASSUME Key(t) \notin Present, NEW result \in {"no object", "false"}, Ends(t, result)
        PROVE  Refines
    <2>1. Store!Ends(t, "failed") BY <1>0, <1>3, StoreEnds, AnswerOf DEF Outcomes
    <2>2. Store!Delete(t) BY <2>1, <1>0, <1>1, <1>3 DEF Store!Delete, Store!Does, Key
    <2> QED BY <2>2 DEF Refines, Store!Next
  <1> QED BY <1>2, <1>3 DEF Delete

LEMMA CleanRefines ==
    ASSUME IInv, NEW t \in Threads,
           Clean(t) \/ Drop(t) \/ SweepStart(t) \/ (\E k \in Keys : Sweep(t, k)) \/ SweepEnd(t)
    PROVE  Refines
  <1>0. op[t].do = "clean" /\ pc[t] # "idle" /\ op[t] # None /\ TypeOK
    BY Running DEF Clean, Drop, SweepStart, Sweep, SweepEnd, IInv, DoInv, At
  <1>1. ASSUME Ends(t, "ok"), container' = FALSE, Present' = {} PROVE Refines
    <2>1. Store!Ends(t, "ok") BY <1>0, <1>1, StoreEnds, AnswerOf DEF Outcomes
    <2>2. Store!Clean(t) BY <2>1, <1>0, <1>1 DEF Store!Clean, Store!Does
    <2> QED BY <2>2 DEF Refines, Store!Next
  <1>2. ASSUME NEW result \in {"no container", "false", "error", "no object", "raw"},
               Ends(t, result), container' = container, objects' = objects
        PROVE  Refines
    <2>1. Store!Ends(t, "failed") BY <1>0, <1>2, StoreEnds, AnswerOf DEF Outcomes
    <2>2. Present' = Present BY <1>2 DEF Present
    <2>3. Store!Clean(t) BY <2>1, <2>2, <1>0, <1>2 DEF Store!Clean, Store!Does
    <2> QED BY <2>3 DEF Refines, Store!Next
  <1>3. ASSUME NEW label, Goto(t, label), container' = container, objects' = objects
        PROVE  Refines
    BY <1>3, GoesOn DEF Present
  <1>4. ~container => Present = {} BY <1>0 DEF TypeOK, StoreOK
  <1>5. CASE Clean(t)
    <2>1. container' = container /\ objects' = objects BY <1>5 DEF Clean, store
    <2>2. CASE ~container /\ Ends(t, "ok")
      <3>1. container' = FALSE /\ Present' = {}
        BY <2>1, <2>2, <1>0, <1>4 DEF Present, TypeOK, StoreOK
      <3> QED BY <2>2, <3>1, <1>1
    <2> QED BY <2>1, <2>2, <1>3, <1>5 DEF Clean
  <1>6. CASE Drop(t)
    <2>1. CASE Deleting(Keys) /\ container' = FALSE /\ Ends(t, "ok")
      BY <2>1, <1>1 DEF Deleting, Present
    <2>2. CASE Ends(t, "raw") /\ UNCHANGED store BY <2>2, <1>2 DEF store
    <2> QED BY <2>1, <2>2, <1>6 DEF Drop
  <1>7. CASE SweepStart(t) BY <1>2, <1>3, <1>7 DEF SweepStart, store
  <1>8. ASSUME NEW k \in Keys, Sweep(t, k) PROVE Refines
    <2>1. Present' = Present \ {k} BY <1>8 DEF Sweep, Deleting, Present
    <2>2. UNCHANGED <<container, op, outcome>> BY <1>8 DEF Sweep
    <2>3. Store!Remove(t, k) BY <2>1, <2>2, <1>0 DEF Store!Remove, Store!Does
    <2> QED BY <2>3 DEF Refines, Store!Next
  <1>9. CASE SweepEnd(t)
    <2>1. objects' = objects BY <1>9 DEF SweepEnd
    <2>2. CASE Present = {} /\ Ends(t, "ok") /\ container' = FALSE
      BY <2>1, <2>2, <1>1 DEF Present
    <2> QED BY <2>1, <2>2, <1>2, <1>9 DEF SweepEnd
  <1> QED BY <1>5, <1>6, <1>7, <1>8, <1>9

\* Each adapter, the fake and a libcloud driver over a service or a directory, is an object
\* store, whatever its threads do and in whatever order their calls overlap, but for a second
\* creation of the fake's container (create_container of FakeObjectStorage).
THEOREM AdaptersImplementStore == Spec => ImplementsObjectStore
  <1>1. ASSUME IInv, [Next]_vars PROVE Refines
    <2>1. CASE UNCHANGED vars
      <3>1. UNCHANGED <<container, objects, op, outcome>> BY <2>1 DEF vars, store
      <3> QED BY <3>1 DEF Refines, Store!vars, Present
    <2>2. ASSUME NEW t \in Threads, Thread(t) PROVE Refines
      BY <1>1, <2>2, BeginRefines, CreateRefines, ContainerRefines, ProbeRefines, OpenRefines,
         WriteRefines, LookRefines, DeleteRefines, CleanRefines DEF Thread
    <2> QED BY <1>1, <2>1, <2>2 DEF Next, Terminated
  <1>2. IInv /\ [Next]_vars => [CreatedTwice \/ Store!Next \/ UNCHANGED Store!vars]_vars
    BY <1>1 DEF Refines
  <1> QED BY <1>2, StoreInit, Invariant, PTL DEF Spec, ImplementsObjectStore
=============================================================================
