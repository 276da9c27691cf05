---------------------------- MODULE ObjectStorage ----------------------------
(***************************************************************************)
(* The adapters of neogit/object_storage and what the program and its      *)
(* fixtures do with them, by several threads: Neogit.init, the probe and   *)
(* upload of ObjectUploader, get_object_size, download_object_as_stream,   *)
(* delete_object, and the clean-up of the fixtures.                        *)
(*                                                                         *)
(* Backends: FakeObjectStorage ("fake", one dictionary of the process),    *)
(* and LibcloudObjectStorage over a service ("remote": an object appears   *)
(* when its upload ends) or over a directory ("local", the default: the    *)
(* file is truncated when its upload starts).  A call of a libcloud driver *)
(* is a step, and so is a statement of the fake that reads or writes the   *)
(* dictionary: nothing excludes other threads in between.  (A driver may   *)
(* lock the file it writes; that allows fewer orders, and none is needed.) *)
(*                                                                         *)
(* All use one container (settings.object.container_name) and a key stands *)
(* for its content, so an object is whole or a part of it.  Which error is *)
(* raised is kept: one of abstract.py, or a "raw" one, libcloud's or a     *)
(* KeyError.                                                               *)
(***************************************************************************)
EXTENDS FiniteSets, Naturals

CONSTANTS
    Threads,
    Keys,
    Backends,   \* of "fake", "remote" and "local", those to look at
    MaxOps,     \* bound on the operations of a behaviour
    None

Operations == [do : {"init", "upload", "size", "download", "delete", "clean"}, key : Keys]

ASSUME StorageAssumption ==
    Backends \subseteq {"fake", "remote", "local"} /\ MaxOps \in Nat /\ None \notin Operations

VARIABLES
    backend,
    container,  \* whether it exists
    objects,    \* what is stored under each key: "none", "part" or "whole"
    ops,        \* operations started, for the bound
    op,         \* the one a thread runs, or None
    pc,
    cached,     \* threads whose uploader has got its container
    left,       \* objects a clean-up has yet to delete
    outcome,    \* how the last operation of a thread ended
    orphans,    \* local: threads whose file was deleted while they write it
    torn,       \* auxiliary: keys whose upload ended in the middle
    deleted     \* auxiliary: something was deleted, or lost to a second creation

auxiliary == <<torn, deleted>>
store == <<container, objects, orphans, auxiliary>>
vars == <<backend, store, ops, op, pc, cached, left, outcome>>

Fake == backend = "fake"

Present == {k \in Keys : objects[k] # "none"}

Key(t) == op[t].key

Goto(t, label) == pc' = [pc EXCEPT ![t] = label] /\ UNCHANGED <<op, outcome>>

\* The operation returns or raises.
Ends(t, result) ==
    /\ pc' = [pc EXCEPT ![t] = "idle"] /\ op' = [op EXCEPT ![t] = None]
    /\ outcome' = [outcome EXCEPT ![t] = result]

Writers(k) == {t \in Threads : pc[t] = "write" /\ Key(t) = k /\ t \notin orphans}

-----------------------------------------------------------------------------
(* Faulty variants, to see that the properties notice: no specification uses them *)

ListContainersBlind(t) ==
    /\ pc[t] = "container" /\ Goto(t, IF op[t].do = "upload" THEN "probe" ELSE "find")
    /\ cached' = IF op[t].do = "upload" THEN cached \cup {t} ELSE cached
    /\ UNCHANGED <<backend, store, ops, left>>

OpenTruncating(t) ==
    /\ pc[t] = "open" /\ container /\ Goto(t, "write")
    /\ objects' = [objects EXCEPT ![Key(t)] = "part"]
    /\ UNCHANGED <<backend, container, orphans, auxiliary, ops, cached, left>>

WriteAnywhere(t) ==
    /\ pc[t] = "write" /\ objects' = [objects EXCEPT ![Key(t)] = "whole"] /\ Ends(t, "ok")
    /\ UNCHANGED <<backend, container, orphans, auxiliary, ops, cached, left>>

SweepEndAnyway(t) ==
    /\ pc[t] = "sweep" /\ left[t] \cap Present = {}
    /\ container' = FALSE /\ Ends(t, "ok") /\ left' = [left EXCEPT ![t] = {}]
    /\ UNCHANGED <<backend, objects, orphans, auxiliary, ops, cached>>

-----------------------------------------------------------------------------

Init ==
    /\ backend \in Backends
    /\ container = FALSE /\ objects = [k \in Keys |-> "none"] /\ ops = 0
    /\ op = [t \in Threads |-> None] /\ pc = [t \in Threads |-> "idle"]
    /\ cached = {} /\ left = [t \in Threads |-> {}]
    /\ outcome = [t \in Threads |-> "none"]
    /\ orphans = {} /\ torn = {} /\ deleted = FALSE

-----------------------------------------------------------------------------

\* The first call of each operation; an uploader keeps the container it has got.
First(t, o) ==
    CASE o.do = "init" -> "create"
      [] o.do = "upload" -> IF t \in cached THEN "probe" ELSE "container"
      [] o.do = "clean" -> "clean"
      [] OTHER -> "container"

Begin(t, o) ==
    /\ op[t] = None /\ ops < MaxOps /\ ops' = ops + 1
    /\ op' = [op EXCEPT ![t] = o] /\ pc' = [pc EXCEPT ![t] = First(t, o)]
    /\ outcome' = [outcome EXCEPT ![t] = "none"]
    /\ UNCHANGED <<backend, store, cached, left>>

\* create_container; init ignores that it exists.  The fake looks, then stores.
Create(t) ==
    /\ pc[t] = "create"
    /\ \/ container /\ Ends(t, "ok") /\ UNCHANGED container
       \/ ~container /\ Fake /\ Goto(t, "create_set") /\ UNCHANGED container
       \/ ~container /\ ~Fake /\ Ends(t, "ok") /\ container' = TRUE
    /\ UNCHANGED <<backend, objects, orphans, auxiliary, ops, cached, left>>

CreateSet(t) ==
    /\ pc[t] = "create_set" /\ Ends(t, "ok") /\ container' = TRUE
    /\ objects' = [k \in Keys |-> "none"] /\ deleted' = (deleted \/ Present # {})
    /\ UNCHANGED <<backend, orphans, torn, ops, cached, left>>

\* get_container: libcloud lists the containers and then gets the one.
ListContainers(t) ==
    /\ pc[t] = "container"
    /\ \/ ~container /\ Ends(t, "no container") /\ UNCHANGED cached
       \/ container /\ ~Fake /\ Goto(t, "get_container") /\ UNCHANGED cached
       \/ /\ container /\ Fake
          /\ Goto(t, IF op[t].do = "upload" THEN "probe" ELSE "find")
          /\ cached' = IF op[t].do = "upload" THEN cached \cup {t} ELSE cached
    /\ UNCHANGED <<backend, store, ops, left>>

GetContainer(t) ==
    /\ pc[t] = "get_container"
    /\ \/ ~container /\ Ends(t, "no container") /\ UNCHANGED cached
       \/ /\ container /\ Goto(t, IF op[t].do = "upload" THEN "probe" ELSE "find")
          /\ cached' = IF op[t].do = "upload" THEN cached \cup {t} ELSE cached
    /\ UNCHANGED <<backend, store, ops, left>>

-----------------------------------------------------------------------------
(* Uploads *)

\* get_object; the fake does not tell a container that is gone from an object.
Probe(t) ==
    /\ pc[t] = "probe"
    /\ \/ Key(t) \in Present /\ Ends(t, "ok")
       \/ Key(t) \notin Present /\ (container \/ Fake) /\ Goto(t, "open")
       \/ ~container /\ ~Fake /\ Ends(t, "no container")
    /\ UNCHANGED <<backend, store, ops, cached, left>>

\* upload_object_via_stream starts: the local driver truncates the file.
Open(t) ==
    /\ pc[t] = "open"
    /\ \/ backend # "local" /\ Goto(t, "write") /\ UNCHANGED <<objects, orphans>>
       \/ backend = "local" /\ ~container /\ Ends(t, "no container") /\ UNCHANGED <<objects, orphans>>
       \/ /\ backend = "local" /\ container /\ Goto(t, "write")
          /\ objects' = [objects EXCEPT ![Key(t)] = "part"] /\ orphans' = orphans \ {t}
    /\ UNCHANGED <<backend, container, auxiliary, ops, cached, left>>

\* It ends: over a service or in the fake, the object appears; a local file is
\* whole when nobody else still writes it.
Write(t) ==
    /\ pc[t] = "write"
    /\ LET k == Key(t)
       IN  \/ /\ backend # "local" /\ container
              /\ objects' = [objects EXCEPT ![k] = "whole"] /\ Ends(t, "ok") /\ UNCHANGED torn
           \/ /\ backend # "local" /\ ~container
              /\ Ends(t, IF Fake THEN "raw" ELSE "no container") /\ UNCHANGED <<objects, torn>>
           \/ /\ backend = "local" /\ t \notin orphans /\ Ends(t, "ok")
              /\ objects' = [objects EXCEPT ![k] = IF Writers(k) = {t} THEN "whole" ELSE "part"]
              /\ torn' = torn \ {k}
           \/ /\ backend = "local" /\ t \in orphans
              /\ \/ k \in Present /\ Ends(t, "ok")
                 \/ k \notin Present /\ (Ends(t, "no object") \/ Ends(t, "raw"))
              /\ UNCHANGED <<objects, torn>>
    /\ UNCHANGED <<backend, container, orphans, deleted, ops, cached, left>>

\* The file cannot be read to its end.
WriteFail(t) ==
    /\ pc[t] = "write" /\ Ends(t, "raised")
    /\ torn' = IF backend = "local" /\ t \notin orphans THEN torn \cup {Key(t)} ELSE torn
    /\ UNCHANGED <<backend, container, objects, orphans, deleted, ops, cached, left>>

-----------------------------------------------------------------------------
(* Sizes, downloads, deletions *)

\* get_object, which is all of get_object_size
Find(t) ==
    /\ pc[t] = "find"
    /\ \/ Key(t) \in Present /\ op[t].do = "size" /\ Ends(t, objects[Key(t)])
       \/ Key(t) \in Present /\ op[t].do = "download" /\ Goto(t, "read")
       \/ Key(t) \in Present /\ op[t].do = "delete" /\ Goto(t, "delete")
       \/ Key(t) \notin Present /\ Ends(t, IF container \/ Fake THEN "no object" ELSE "no container")
    /\ UNCHANGED <<backend, store, ops, cached, left>>

\* download_object_as_stream is a generator: wraps_exception has returned before it
\* raises.
Read(t) ==
    /\ pc[t] = "read"
    /\ Ends(t, IF Key(t) \in Present THEN objects[Key(t)] ELSE "raw")
    /\ UNCHANGED <<backend, store, ops, cached, left>>

\* The objects of S are no more.
Deleting(S) ==
    /\ objects' = [k \in Keys |-> IF k \in S THEN "none" ELSE objects[k]]
    /\ orphans' = orphans \cup UNION {Writers(k) : k \in S}
    /\ torn' = torn \ S /\ deleted' = TRUE

\* delete_object; for an object that is gone meanwhile drivers differ.
Delete(t) ==
    /\ pc[t] = "delete" /\ Deleting({Key(t)})
    /\ \/ Key(t) \in Present /\ Ends(t, "ok")
       \/ Key(t) \notin Present /\ ~Fake /\ (Ends(t, "ok") \/ Ends(t, "no object"))
       \/ Key(t) \notin Present /\ Ends(t, "false")
    /\ UNCHANGED <<backend, container, ops, cached, left>>

-----------------------------------------------------------------------------
(* The clean-up: delete_container of each of iterate_containers *)

Clean(t) ==
    /\ pc[t] = "clean"
    /\ \/ container /\ Goto(t, IF Fake THEN "drop" ELSE "sweep_start")
       \/ ~container /\ Ends(t, "ok")
    /\ UNCHANGED <<backend, store, ops, cached, left>>

Drop(t) ==
    /\ pc[t] = "drop"
    /\ \/ ~container /\ Ends(t, "raw") /\ UNCHANGED store
       \/ container /\ Deleting(Keys) /\ container' = FALSE /\ Ends(t, "ok")
    /\ UNCHANGED <<backend, ops, cached, left>>

SweepStart(t) ==
    /\ pc[t] = "sweep_start"
    /\ \/ ~container /\ Ends(t, "no container") /\ UNCHANGED left
       \/ container /\ Goto(t, "sweep") /\ left' = [left EXCEPT ![t] = Present]
    /\ UNCHANGED <<backend, store, ops, cached>>

\* The listing has all that was there at its start, and maybe what came since.
Sweep(t, k) ==
    /\ pc[t] = "sweep" /\ k \in Present /\ Deleting({k})
    /\ left' = [left EXCEPT ![t] = @ \ {k}]
    /\ UNCHANGED <<backend, container, ops, op, pc, cached, outcome>>

SweepEnd(t) ==
    /\ pc[t] = "sweep" /\ left[t] \cap Present = {}
    /\ \/ ~container /\ Ends(t, "false") /\ UNCHANGED container
       \/ container /\ Present # {} /\ Ends(t, "error") /\ UNCHANGED container
       \/ left[t] # {} /\ Ends(t, "no object") /\ UNCHANGED container
       \/ container /\ Present = {} /\ Ends(t, "ok") /\ container' = FALSE
    /\ deleted' = TRUE /\ left' = [left EXCEPT ![t] = {}]
    /\ UNCHANGED <<backend, objects, orphans, torn, ops, cached>>

Thread(t) ==
    \/ \E o \in Operations : Begin(t, o)
    \/ Create(t) \/ CreateSet(t) \/ ListContainers(t) \/ GetContainer(t)
    \/ Probe(t) \/ Open(t) \/ Write(t) \/ WriteFail(t)
    \/ Find(t) \/ Read(t) \/ Delete(t)
    \/ Clean(t) \/ Drop(t) \/ SweepStart(t) \/ (\E k \in Keys : Sweep(t, k)) \/ SweepEnd(t)

Terminated == ops = MaxOps /\ (\A t \in Threads : op[t] = None) /\ UNCHANGED vars

Next == (\E t \in Threads : Thread(t)) \/ Terminated

Spec == Init /\ [][Next]_vars

-----------------------------------------------------------------------------
(* Properties *)

Labels == {"idle", "create", "create_set", "container", "get_container", "probe", "open", "write",
           "find", "read", "delete", "clean", "drop", "sweep_start", "sweep"}

Outcomes == {"none", "ok", "false", "whole", "part", "no object", "no container", "error", "raw",
             "raised"}

ThreadsOK ==
    /\ op \in [Threads -> Operations \cup {None}] /\ pc \in [Threads -> Labels]
    /\ outcome \in [Threads -> Outcomes]
    /\ \A t \in Threads : pc[t] = "idle" <=> op[t] = None

StoreOK ==
    /\ container \in BOOLEAN /\ objects \in [Keys -> {"none", "part", "whole"}]
    /\ orphans \subseteq Threads /\ torn \subseteq Keys /\ deleted \in BOOLEAN
    /\ Present # {} => container

\* Types of the variables; an operation runs as long as its thread is in it, and
\* only a container that exists has objects.
TypeOK ==
    /\ backend \in Backends /\ ops \in 0..MaxOps
    /\ cached \subseteq Threads /\ left \in [Threads -> SUBSET Keys]
    /\ ThreadsOK /\ StoreOK

\* Part of an object is only ever in a local storage, while an upload of its content
\* runs or after one that failed: this is also what get_object_size and a download of
\* a content that was committed long ago may get.
PartsExplained ==
    /\ \A k \in Keys : objects[k] = "part" => backend = "local" /\ (Writers(k) # {} \/ k \in torn)
    /\ \A t \in Threads : outcome[t] = "part" => backend = "local"

\* As long as nothing is deleted, and no second creation empties the fake's container,
\* callers get the errors of abstract.py only (or
\* those of the file they upload), though the generators are not wrapped and the fake
\* looks nothing up before it stores.
RawOnlyAfterDelete == \A t \in Threads : outcome[t] = "raw" => deleted

Answer(result) ==
    CASE result \in {"ok", "whole", "part"} -> "ok"
      [] result = "none" -> "none"
      [] OTHER -> "failed"

Store == INSTANCE ObjectStore WITH
    present <- Present, asked <- op, answer <- [t \in Threads |-> Answer(outcome[t])]

\* Each adapter is an object store: what an operation finds and does, it does at one
\* moment between its call and its return.  The exception is the fake, when two
\* threads create its container at once: the second one empties it.
CreatedTwice == \E t \in Threads : pc[t] = "create_set" /\ pc'[t] = "idle" /\ container

ImplementsObjectStore ==
    Store!Init /\ [][CreatedTwice \/ Store!Next \/ UNCHANGED Store!vars]_vars
=============================================================================
