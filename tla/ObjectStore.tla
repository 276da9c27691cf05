----------------------------- MODULE ObjectStore -----------------------------
(***************************************************************************)
(* What the object storage promises its callers: whatever they do at the   *)
(* same time, each operation finds or changes what is stored at one moment *)
(* of its own between its call and its return.  Only to clean up takes     *)
(* several: the objects go one by one, then the empty container.           *)
(***************************************************************************)
EXTENDS FiniteSets

CONSTANTS Threads, Keys, None

VARIABLES
    container,  \* whether it exists
    present,    \* the keys of the objects in it
    asked,      \* the operation each thread has called, with its key, or None
    answer      \* how its last one ended

vars == <<container, present, asked, answer>>

Operations == [do : {"init", "upload", "size", "download", "delete", "clean"}, key : Keys]

Init ==
    /\ container = FALSE /\ present = {}
    /\ asked = [t \in Threads |-> None] /\ answer = [t \in Threads |-> "none"]

Call(t, o) ==
    /\ asked[t] = None /\ asked' = [asked EXCEPT ![t] = o]
    /\ answer' = [answer EXCEPT ![t] = "none"]
    /\ UNCHANGED <<container, present>>

Ends(t, result) ==
    /\ asked[t] # None /\ asked' = [asked EXCEPT ![t] = None]
    /\ answer' = [answer EXCEPT ![t] = result]

Does(t, do) == asked[t] # None /\ asked[t].do = do

Create(t) ==
    Does(t, "init") /\ Ends(t, "ok") /\ container' = TRUE /\ UNCHANGED present

\* The object appears, before the upload ends or when it does.
Put(t) ==
    /\ Does(t, "upload") /\ container /\ present' = present \cup {asked[t].key}
    /\ UNCHANGED <<container, asked, answer>>

Uploaded(t) ==
    /\ Does(t, "upload") /\ asked[t].key \in present'
    /\ Ends(t, "ok") /\ UNCHANGED container
    /\ present' = present \/ (container /\ present' = present \cup {asked[t].key})

\* The file cannot be read, or the object or the container is deleted meanwhile.
NotUploaded(t) == Does(t, "upload") /\ Ends(t, "failed") /\ UNCHANGED <<container, present>>

Look(t) ==
    /\ Does(t, "size") \/ Does(t, "download")
    /\ Ends(t, IF asked[t].key \in present THEN "ok" ELSE "failed")
    /\ UNCHANGED <<container, present>>

Delete(t) ==
    /\ Does(t, "delete") /\ present' = present \ {asked[t].key} /\ UNCHANGED container
    /\ \/ Ends(t, "ok")
       \/ asked[t].key \notin present /\ Ends(t, "failed")

Remove(t, k) ==
    /\ Does(t, "clean") /\ present' = present \ {k} /\ UNCHANGED <<container, asked, answer>>

\* It fails when others add or delete something meanwhile.
Clean(t) ==
    /\ Does(t, "clean")
    /\ \/ container' = FALSE /\ present' = {} /\ Ends(t, "ok")
       \/ Ends(t, "failed") /\ UNCHANGED <<container, present>>

Next ==
    \E t \in Threads :
        \/ \E o \in Operations : Call(t, o)
        \/ Create(t) \/ Put(t) \/ Uploaded(t) \/ NotUploaded(t) \/ Look(t) \/ Delete(t)
        \/ (\E k \in Keys : Remove(t, k)) \/ Clean(t)

Spec == Init /\ [][Next]_vars
=============================================================================
