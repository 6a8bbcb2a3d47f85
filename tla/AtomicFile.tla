----------------------------- MODULE AtomicFile -----------------------------
(***************************************************************************)
(* One JSON document of the session store and the processes that replace   *)
(* it (_atomic_write_json) and read it (_read_json), at the level of the   *)
(* file system: names, inodes and the blocks that have reached an inode.   *)
(* The temporary name is fixed, `.index.json.tmp` beside `index.json`, so  *)
(* all writers of a document share it, also with a leftover of a process   *)
(* that died.                                                              *)
(*                                                                         *)
(* The operating system is modelled as POSIX has it: opening a name        *)
(* yields its inode, truncation and writing act on the inode, replace      *)
(* moves the name, and a descriptor goes on denoting the inode it opened.  *)
(* The model is of a process that dies, not of a machine that loses power  *)
(* (the code calls no fsync).                                              *)
(***************************************************************************)
EXTENDS Naturals, Sequences

CONSTANTS
    Docs,       \* the documents written
    Size,       \* [Docs -> Nat \ {0}]: their lengths, in blocks
    Writers,
    Readers,
    Inodes,     \* enough for both names and for every open descriptor
    None        \* no inode, no document

ASSUME SizeAssumption == Size \in [Docs -> Nat \ {0}]
ASSUME NoneAssumption == None \notin Inodes /\ None \notin Docs

(* What a complete document looks like: every block is there and is its. *)
Whole(d) == [i \in 1 .. Size[d] |-> d]

VARIABLES
    target,   \* the inode path names, or None
    temp,     \* the inode temp_path names, or None
    blocks,   \* [Inodes -> Seq(Docs)]: whose block is at each offset
    writer,   \* [Writers -> [pc, doc, ino, off]]
    reader    \* [Readers -> [pc, ino, got, since]]; since: the documents that
              \*  path has named since the read began (history)

vars == <<target, temp, blocks, writer, reader>>

NotWriting == [pc |-> "idle", doc |-> None, ino |-> None, off |-> 0]
NotReading == [pc |-> "idle", ino |-> None, got |-> <<>>, since |-> {}]

Init ==
    /\ target = None
    /\ temp = None
    /\ blocks = [i \in Inodes |-> <<>>]
    /\ writer = [w \in Writers |-> NotWriting]
    /\ reader = [r \in Readers |-> NotReading]

(* Inodes that no name and no descriptor refers to. *)
Free ==
    Inodes \ ({target, temp} \union {writer[w].ino : w \in Writers}
                             \union {reader[r].ino : r \in Readers})

(* What path holds now. *)
Current == IF target = None THEN None ELSE blocks[target]

-----------------------------------------------------------------------------
(* _atomic_write_json.  write_text opens the temporary file (creating or   *)
(* truncating it), writes the text and closes it; then replace.            *)

(* Mutant: the document is written in place. *)
OpenInPlace(w, d, i) ==
    /\ writer[w].pc = "idle"
    /\ IF target = None THEN i \in Free ELSE i = target
    /\ target' = i
    /\ blocks' = [blocks EXCEPT ![i] = <<>>]
    /\ writer' = [writer EXCEPT ![w] = [pc |-> "writing", doc |-> d, ino |-> i,
                                        off |-> 0]]
    /\ UNCHANGED <<temp, reader>>

Open(w, d, i) ==
    /\ writer[w].pc = "idle"
    /\ IF temp = None THEN i \in Free ELSE i = temp
    /\ temp' = i
    /\ blocks' = [blocks EXCEPT ![i] = <<>>]
    /\ writer' = [writer EXCEPT ![w] = [pc |-> "writing", doc |-> d, ino |-> i,
                                        off |-> 0]]
    /\ UNCHANGED <<target, reader>>

(* One write: the block goes to the descriptor's own offset, whatever      *)
(* other descriptors of the inode have done.  A gap (another process       *)
(* truncated) reads as blocks of no document.                              *)
WriteBlock(w) ==
    LET i == writer[w].ino
        k == writer[w].off + 1
        b == blocks[i]
        top == IF Len(b) > k THEN Len(b) ELSE k
    IN
    /\ writer[w].pc = "writing"
    /\ k <= Size[writer[w].doc]
    /\ blocks' = [blocks EXCEPT ![i] =
                    [n \in 1 .. top |-> IF n = k THEN writer[w].doc
                                        ELSE IF n <= Len(b) THEN b[n]
                                        ELSE None]]
    /\ writer' = [writer EXCEPT ![w].off = k]
    /\ UNCHANGED <<target, temp, reader>>

(* Mutant: the name is moved before the text is flushed. *)
ReplaceEarly(w) ==
    /\ writer[w].pc = "writing"
    /\ temp # None
    /\ target' = temp
    /\ temp' = None
    /\ reader' = [r \in Readers |->
                    IF reader[r].pc = "reading"
                    THEN [reader[r] EXCEPT !.since = @ \union {blocks[temp]}]
                    ELSE reader[r]]
    /\ IF writer[w].off = Size[writer[w].doc]
       THEN writer' = [writer EXCEPT ![w] = NotWriting]
       ELSE UNCHANGED writer
    /\ UNCHANGED blocks

(* replace moves whatever the temporary name denotes by now. *)
Replace(w) ==
    /\ writer[w].pc = "writing"
    /\ writer[w].off = Size[writer[w].doc]
    /\ temp # None
    /\ target' = temp
    /\ temp' = None
    /\ writer' = [writer EXCEPT ![w] = NotWriting]
    /\ reader' = [r \in Readers |->
                    IF reader[r].pc = "reading"
                    THEN [reader[r] EXCEPT !.since = @ \union {blocks[temp]}]
                    ELSE reader[r]]
    /\ UNCHANGED blocks

(* The process dies, or an operation raises: among them replace, when      *)
(* another writer's replace has taken the temporary name away.             *)
Die(w) ==
    /\ writer[w].pc # "idle"
    /\ writer' = [writer EXCEPT ![w] = NotWriting]
    /\ UNCHANGED <<target, temp, blocks, reader>>

-----------------------------------------------------------------------------
(* _read_json, of a path that exists.                                      *)
OpenToRead(r) ==
    /\ reader[r].pc # "reading"
    /\ target # None
    /\ reader' = [reader EXCEPT ![r] = [pc |-> "reading", ino |-> target,
                                        got |-> <<>>, since |-> {Current}]]
    /\ UNCHANGED <<target, temp, blocks, writer>>

ReadBlock(r) ==
    LET b == blocks[reader[r].ino]
        k == Len(reader[r].got) + 1
    IN
    /\ reader[r].pc = "reading"
    /\ k <= Len(b)
    /\ reader' = [reader EXCEPT ![r].got = Append(@, b[k])]
    /\ UNCHANGED <<target, temp, blocks, writer>>

(* End of file: the text is parsed. *)
EndOfFile(r) ==
    /\ reader[r].pc = "reading"
    /\ Len(reader[r].got) >= Len(blocks[reader[r].ino])
    /\ reader' = [reader EXCEPT ![r].pc = "done", ![r].ino = None]
    /\ UNCHANGED <<target, temp, blocks, writer>>

-----------------------------------------------------------------------------
WriteStep(w) == WriteBlock(w) \/ Replace(w)
ReadStep(r) == ReadBlock(r) \/ EndOfFile(r)

Next ==
    \/ \E w \in Writers :
        \/ \E d \in Docs, i \in Inodes : Open(w, d, i)
        \/ WriteStep(w)
        \/ Die(w)
    \/ \E r \in Readers : OpenToRead(r) \/ ReadStep(r)

Spec == Init /\ [][Next]_vars

-----------------------------------------------------------------------------
(* Properties, of writers that do not overlap.                             *)

Cells == Docs \union {None}

WriterStates == [pc : {"idle", "writing"}, doc : Docs \union {None},
                 ino : Inodes \union {None}, off : Nat]

ReaderStates == [pc : {"idle", "reading", "done"}, ino : Inodes \union {None},
                 got : Seq(Cells), since : SUBSET Seq(Cells)]

(* The type of every variable. *)
TypeOK ==
    /\ target \in Inodes \union {None}
    /\ temp \in Inodes \union {None}
    /\ blocks \in [Inodes -> Seq(Cells)]
    /\ writer \in [Writers -> WriterStates]
    /\ reader \in [Readers -> ReaderStates]

(* Wherever a writer is cut off, and whatever an earlier one left under    *)
(* the temporary name, path holds one complete document or does not exist. *)
PathIsWhole == target # None => \E d \in Docs : Current = Whole(d)

(* What a reader parses, however its reads interleave with the writes, is  *)
(* one complete document, and one that path held during the read: no half  *)
(* of one document followed by half of another, and nothing out of date.   *)
ReadsAreWhole ==
    \A r \in Readers : reader[r].pc = "done" =>
        /\ \E d \in Docs : reader[r].got = Whole(d)
        /\ reader[r].got \in reader[r].since

(* The document changes in one step, to the one that is being written.     *)
(* SessionStore takes every replacement of a document as one step.         *)
ChangesAtOnce ==
    [][Current' # Current =>
         \E w \in Writers : writer[w].pc = "writing"
                             /\ Current' = Whole(writer[w].doc)]_vars

(* Why: while one process writes, the temporary name's inode is its own,   *)
(* apart from the one that path names and from those that readers hold.    *)
TempIsApart ==
    temp # None => /\ temp # target
                   /\ \A r \in Readers : reader[r].pc = "reading"
                                         => reader[r].ino # temp

WriterOwnsTemp ==
    \A w \in Writers : writer[w].pc = "writing" =>
        /\ temp # None
        /\ writer[w].ino = temp
        /\ writer[w].doc \in Docs
        /\ writer[w].off <= Size[writer[w].doc]
        /\ blocks[temp] = [n \in 1 .. writer[w].off |-> writer[w].doc]

HoldsWhole(r) ==
    /\ reader[r].ino # None
    /\ \E d \in Docs :
         /\ blocks[reader[r].ino] = Whole(d)
         /\ Whole(d) \in reader[r].since
         /\ Len(reader[r].got) <= Size[d]
         /\ reader[r].got = [n \in 1 .. Len(reader[r].got) |-> d]

ReadersHoldWhole ==
    \A r \in Readers : reader[r].pc = "reading" => HoldsWhole(r)

(* The inductive invariant of writers that do not overlap. *)
Inv ==
    /\ TypeOK
    /\ TempIsApart
    /\ WriterOwnsTemp
    /\ ReadersHoldWhole
    /\ PathIsWhole
    /\ ReadsAreWhole

(* The processes that change the document do so one after the other,       *)
(* whichever they are.                                                     *)
NoOverlap ==
    \A u, w \in Writers : writer[u].pc = "writing" /\ writer[w].pc = "writing"
                          => u = w
=============================================================================
