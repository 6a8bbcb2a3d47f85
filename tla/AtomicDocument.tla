---------------------------- MODULE AtomicDocument ----------------------------
(***************************************************************************)
(* What _atomic_write_json and _read_json promise of a document: each      *)
(* write and each read takes effect at one instant, and a read yields the  *)
(* document of that instant.  AtomicFile implements it as long as the      *)
(* writers of the document do not overlap; it is how SessionStore takes    *)
(* the documents it reads and replaces.                                    *)
(***************************************************************************)
CONSTANTS Docs, Readers, None

VARIABLES
    document,   \* the document that path holds, or None
    view        \* [Readers -> the document read last, or None]

Init ==
    /\ document = None
    /\ view = [r \in Readers |-> None]

Write(d) ==
    /\ document' = d
    /\ UNCHANGED view

Read(r) ==
    /\ document # None
    /\ view' = [view EXCEPT ![r] = document]
    /\ UNCHANGED document

Next ==
    \/ \E d \in Docs : Write(d)
    \/ \E r \in Readers : Read(r)

Spec == Init /\ [][Next]_<<document, view>>
===============================================================================
