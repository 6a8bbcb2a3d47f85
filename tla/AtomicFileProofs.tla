-------------------------- MODULE AtomicFileProofs --------------------------
(* Proofs about AtomicFile, for every set of documents and readers, and    *)
(* every size of the documents.                                            *)
EXTENDS AtomicFile, TLAPS

(* A document cut off after k blocks is a sequence of k cells. *)
LEMMA Cut ==
    ASSUME NEW d \in Cells, NEW k \in Nat
    PROVE  /\ [n \in 1 .. k |-> d] \in Seq(Cells)
           /\ Len([n \in 1 .. k |-> d]) = k
  OBVIOUS

(* A reader's copy grows along the document it is reading. *)
LEMMA Grow ==
    ASSUME NEW d \in Cells, NEW k \in Nat
    PROVE  Append([n \in 1 .. k |-> d], d) = [n \in 1 .. k + 1 |-> d]
  OBVIOUS

(* The writer's next block extends what is in its temporary file. *)
LEMMA Extend ==
    ASSUME NEW d \in Cells, NEW k \in Nat, NEW b, b = [n \in 1 .. k |-> d]
    PROVE  LET top == IF Len(b) > k + 1 THEN Len(b) ELSE k + 1
           IN  [n \in 1 .. top |-> IF n = k + 1 THEN d
                                   ELSE IF n <= Len(b) THEN b[n]
                                   ELSE None]
               = [n \in 1 .. k + 1 |-> d]
  OBVIOUS

(* Every document is a sequence of cells, of its size. *)
LEMMA Documents ==
    \A d \in Docs : /\ Size[d] \in Nat \ {0}
                    /\ Whole(d) \in Seq(Cells)
                    /\ Len(Whole(d)) = Size[d]
  BY Cut, SizeAssumption DEF Whole, Cells

LEMMA InvInit == Init => Inv
  BY NoneAssumption DEF Init, Inv, TypeOK, TempIsApart, WriterOwnsTemp,
     ReadersHoldWhole, PathIsWhole, ReadsAreWhole, NotWriting, NotReading, Cells,
     WriterStates, ReaderStates

-----------------------------------------------------------------------------
(* The inductive step, one lemma per action.                               *)

LEMMA OpenStep ==
    ASSUME Inv, NoOverlap, NoOverlap', NEW w \in Writers,
           NEW d \in Docs, NEW i \in Inodes, Open(w, d, i)
    PROVE  Inv'
<1> USE NoneAssumption DEF Inv, WriterStates, ReaderStates
<1>1. /\ i # None
      /\ i # target
      /\ \A r \in Readers : reader[r].pc = "reading" => reader[r].ino # i
  BY DEF Open, Free, TypeOK, TempIsApart
<1>2. /\ writer' = [writer EXCEPT ![w] = [pc |-> "writing", doc |-> d,
                                          ino |-> i, off |-> 0]]
      /\ blocks' = [blocks EXCEPT ![i] = <<>>]
      /\ temp' = i
      /\ UNCHANGED <<target, reader>>
  BY <1>1 DEF Open
<1>3. TypeOK'
  BY <1>2 DEF TypeOK, Cells
<1>4. TempIsApart'
  BY <1>1, <1>2 DEF TempIsApart
<1>5. WriterOwnsTemp'
  <2> SUFFICES ASSUME NEW u \in Writers, writer'[u].pc = "writing"
               PROVE  /\ temp' # None
                      /\ writer'[u].ino = temp'
                      /\ writer'[u].doc \in Docs
                      /\ writer'[u].off <= Size[writer'[u].doc]
                      /\ blocks'[temp'] = [n \in 1 .. writer'[u].off |-> writer'[u].doc]
    BY DEF WriterOwnsTemp
  <2>1. u = w
    BY <1>2 DEF NoOverlap, TypeOK
  <2>2. writer'[u] = [pc |-> "writing", doc |-> d, ino |-> i, off |-> 0]
    BY <1>2, <2>1 DEF TypeOK
  <2>3. blocks'[i] = [n \in 1 .. 0 |-> d]
    BY <1>2 DEF TypeOK
  <2> QED
    BY <1>1, <1>2, <2>2, <2>3, Documents
<1>6. ReadersHoldWhole'
  <2>1. \A r \in Readers : reader[r].pc = "reading" =>
            blocks'[reader[r].ino] = blocks[reader[r].ino]
    BY <1>1, <1>2 DEF TypeOK
  <2> QED
    BY <1>2, <2>1 DEF ReadersHoldWhole, HoldsWhole
<1>7. PathIsWhole'
  BY <1>1, <1>2 DEF PathIsWhole, Current, TypeOK
<1>8. ReadsAreWhole'
  BY <1>2 DEF ReadsAreWhole
<1> QED
  BY <1>3, <1>4, <1>5, <1>6, <1>7, <1>8

LEMMA WriteBlockStep ==
    ASSUME Inv, NoOverlap, NoOverlap', NEW w \in Writers, WriteBlock(w)
    PROVE  Inv'
<1> DEFINE d == writer[w].doc
           k == writer[w].off
<1> USE NoneAssumption DEF Inv, WriterStates, ReaderStates
<1>1. /\ temp \in Inodes
      /\ writer[w].ino = temp
      /\ d \in Docs
      /\ k \in Nat
      /\ k + 1 <= Size[d]
      /\ blocks[temp] = [n \in 1 .. k |-> d]
  BY DEF WriteBlock, WriterOwnsTemp, TypeOK
<1>2. /\ blocks' = [blocks EXCEPT ![temp] = [n \in 1 .. k + 1 |-> d]]
      /\ writer' = [writer EXCEPT ![w].off = k + 1]
      /\ UNCHANGED <<target, temp, reader>>
  <2>1. d \in Cells
    BY <1>1 DEF Cells
  <2> QED
    BY <1>1, <2>1, Extend DEF WriteBlock
<1>3. [n \in 1 .. k + 1 |-> d] \in Seq(Cells)
  BY <1>1, Cut DEF Cells
<1>4. TypeOK'
  <2>1. blocks' \in [Inodes -> Seq(Cells)]
    BY <1>2, <1>3 DEF TypeOK
  <2>2. writer' \in [Writers -> WriterStates]
    <3>1. writer[w] \in WriterStates /\ k + 1 \in Nat
      BY <1>1 DEF TypeOK
    <3>2. [writer[w] EXCEPT !.off = k + 1] \in WriterStates
      BY <3>1
    <3> QED
      BY <1>2, <3>2 DEF TypeOK
  <2> QED
    BY <1>2, <2>1, <2>2 DEF TypeOK
<1>5. TempIsApart'
  BY <1>2 DEF TempIsApart
<1>6. WriterOwnsTemp'
  <2> SUFFICES ASSUME NEW u \in Writers, writer'[u].pc = "writing"
               PROVE  /\ temp' # None
                      /\ writer'[u].ino = temp'
                      /\ writer'[u].doc \in Docs
                      /\ writer'[u].off <= Size[writer'[u].doc]
                      /\ blocks'[temp'] = [n \in 1 .. writer'[u].off |-> writer'[u].doc]
    BY DEF WriterOwnsTemp
  <2>1. u = w
    BY <1>2 DEF WriteBlock, NoOverlap, TypeOK
  <2>2. writer'[u] = [writer[w] EXCEPT !.off = k + 1]
    BY <1>2, <2>1 DEF TypeOK
  <2>3. writer'[u].ino = writer[w].ino /\ writer'[u].doc = d /\ writer'[u].off = k + 1
    BY <2>2 DEF TypeOK
  <2>4. blocks'[temp] = [n \in 1 .. k + 1 |-> d]
    BY <1>1, <1>2 DEF TypeOK
  <2> QED
    BY <1>1, <1>2, <2>3, <2>4
<1>7. ReadersHoldWhole'
  <2>1. \A r \in Readers : reader[r].pc = "reading" =>
            blocks'[reader[r].ino] = blocks[reader[r].ino]
    BY <1>1, <1>2 DEF TypeOK, TempIsApart
  <2> QED
    BY <1>2, <2>1 DEF ReadersHoldWhole, HoldsWhole
<1>8. PathIsWhole'
  BY <1>1, <1>2 DEF PathIsWhole, Current, TypeOK, TempIsApart
<1>9. ReadsAreWhole'
  BY <1>2 DEF ReadsAreWhole
<1> QED
  BY <1>4, <1>5, <1>6, <1>7, <1>8, <1>9

LEMMA ReplaceStep ==
    ASSUME Inv, NoOverlap, NoOverlap', NEW w \in Writers, Replace(w)
    PROVE  Inv' /\ Current' = Whole(writer[w].doc)
<1> DEFINE d == writer[w].doc
<1> USE NoneAssumption DEF Inv, WriterStates, ReaderStates
<1>1. /\ temp \in Inodes
      /\ d \in Docs
      /\ blocks[temp] = Whole(d)
  BY DEF Replace, WriterOwnsTemp, TypeOK, Whole
<1>2. /\ target' = temp
      /\ temp' = None
      /\ writer' = [writer EXCEPT ![w] = NotWriting]
      /\ blocks' = blocks
  BY DEF Replace
<1>3. ASSUME NEW r \in Readers
      PROVE  /\ reader'[r].pc = reader[r].pc
             /\ reader'[r].ino = reader[r].ino
             /\ reader'[r].got = reader[r].got
             /\ reader'[r].since \in SUBSET Seq(Cells)
             /\ reader[r].since \subseteq reader'[r].since
             /\ reader'[r].pc = "done" => reader'[r] = reader[r]
             /\ reader'[r] \in ReaderStates
  <2>1. reader'[r] = IF reader[r].pc = "reading"
                     THEN [reader[r] EXCEPT !.since = @ \union {blocks[temp]}]
                     ELSE reader[r]
    BY DEF Replace
  <2>2. reader[r] \in ReaderStates
    BY DEF TypeOK
  <2>3. blocks[temp] \in Seq(Cells)
    BY <1>1 DEF TypeOK
  <2> QED
    BY <2>1, <2>2, <2>3
<1>4. TypeOK'
  <2>1. reader' \in [Readers -> ReaderStates]
    BY <1>3 DEF Replace
  <2> QED
    BY <1>1, <1>2, <2>1 DEF TypeOK, NotWriting
<1>5. TempIsApart'
  BY <1>2 DEF TempIsApart
<1>6. \A u \in Writers : writer'[u].pc = "idle"
  BY <1>2 DEF Replace, NoOverlap, TypeOK, NotWriting
<1>7. WriterOwnsTemp'
  BY <1>6 DEF WriterOwnsTemp
<1>8. ReadersHoldWhole'
  <2> SUFFICES ASSUME NEW r \in Readers, reader'[r].pc = "reading"
               PROVE  HoldsWhole(r)'
    BY DEF ReadersHoldWhole
  <2>1. PICK e \in Docs :
          /\ blocks[reader[r].ino] = Whole(e)
          /\ Whole(e) \in reader[r].since
          /\ Len(reader[r].got) <= Size[e]
          /\ reader[r].got = [n \in 1 .. Len(reader[r].got) |-> e]
    BY <1>3 DEF ReadersHoldWhole, HoldsWhole
  <2>2. reader[r].ino # None
    BY <1>3 DEF ReadersHoldWhole, HoldsWhole
  <2>3. /\ reader'[r].ino = reader[r].ino
        /\ reader'[r].got = reader[r].got
        /\ Whole(e) \in reader'[r].since
    BY <1>3, <2>1
  <2> QED
    BY <1>2, <2>1, <2>2, <2>3 DEF HoldsWhole
<1>9. Current' = Whole(d)
  BY <1>1, <1>2 DEF Current
<1>10. PathIsWhole'
  BY <1>1, <1>9 DEF PathIsWhole
<1>11. ReadsAreWhole'
  BY <1>3 DEF ReadsAreWhole
<1> QED
  BY <1>4, <1>5, <1>7, <1>8, <1>9, <1>10, <1>11

LEMMA DieStep ==
    ASSUME Inv, NoOverlap, NoOverlap', NEW w \in Writers, Die(w)
    PROVE  Inv'
<1> USE NoneAssumption DEF Inv, WriterStates, ReaderStates
<1>1. /\ writer' = [writer EXCEPT ![w] = NotWriting]
      /\ UNCHANGED <<target, temp, blocks, reader>>
  BY DEF Die
<1>2. TypeOK'
  BY <1>1 DEF TypeOK, NotWriting
<1>3. WriterOwnsTemp'
  BY <1>1 DEF WriterOwnsTemp, TypeOK, NotWriting
<1> QED
  BY <1>1, <1>2, <1>3 DEF TempIsApart, ReadersHoldWhole, HoldsWhole, PathIsWhole,
     ReadsAreWhole, Current

LEMMA OpenToReadStep ==
    ASSUME Inv, NEW r \in Readers, OpenToRead(r)
    PROVE  Inv'
<1> USE NoneAssumption DEF Inv, WriterStates, ReaderStates
<1>1. /\ target \in Inodes
      /\ reader' = [reader EXCEPT ![r] = [pc |-> "reading", ino |-> target,
                                          got |-> <<>>, since |-> {blocks[target]}]]
      /\ UNCHANGED <<target, temp, blocks, writer>>
  BY DEF OpenToRead, TypeOK, Current
<1>2. PICK d \in Docs : blocks[target] = Whole(d)
  BY <1>1 DEF PathIsWhole, Current
<1>3. TypeOK'
  BY <1>1, <1>2 DEF TypeOK
<1>4. \A q \in Readers \ {r} : reader'[q] = reader[q]
  BY <1>1 DEF TypeOK
<1>5. reader'[r] = [pc |-> "reading", ino |-> target, got |-> <<>>,
                    since |-> {blocks[target]}]
  BY <1>1 DEF TypeOK
<1>6. TempIsApart'
  BY <1>1, <1>4, <1>5 DEF TempIsApart
<1>7. WriterOwnsTemp'
  BY <1>1 DEF WriterOwnsTemp
<1>8. ReadersHoldWhole'
  <2>1. /\ Len(<<>>) = 0
        /\ <<>> = [n \in 1 .. 0 |-> d]
    OBVIOUS
  <2>2. Size[d] \in Nat
    BY Documents
  <2>3. HoldsWhole(r)'
    BY <1>1, <1>2, <1>5, <2>1, <2>2 DEF HoldsWhole
  <2>4. \A q \in Readers \ {r} : HoldsWhole(q) <=> HoldsWhole(q)'
    BY <1>1, <1>4 DEF HoldsWhole
  <2> QED
    BY <1>4, <2>3, <2>4 DEF ReadersHoldWhole
<1>9. PathIsWhole' /\ ReadsAreWhole'
  BY <1>1, <1>4, <1>5 DEF PathIsWhole, ReadsAreWhole, Current
<1> QED
  BY <1>3, <1>6, <1>7, <1>8, <1>9

LEMMA ReadBlockStep ==
    ASSUME Inv, NEW r \in Readers, ReadBlock(r)
    PROVE  Inv'
<1> DEFINE k == Len(reader[r].got)
<1> USE NoneAssumption DEF Inv, WriterStates, ReaderStates
<1>1. PICK d \in Docs :
        /\ blocks[reader[r].ino] = Whole(d)
        /\ Whole(d) \in reader[r].since
        /\ k <= Size[d]
        /\ reader[r].got = [n \in 1 .. k |-> d]
  BY DEF ReadBlock, ReadersHoldWhole, HoldsWhole
<1>2. reader[r].pc = "reading" /\ reader[r].ino \in Inodes /\ k \in Nat
  <2>1. reader[r] \in ReaderStates
    BY DEF TypeOK
  <2>2. reader[r].pc = "reading" /\ reader[r].ino # None
    BY DEF ReadBlock, ReadersHoldWhole, HoldsWhole
  <2> QED
    BY <2>1, <2>2
<1>3. k + 1 <= Size[d] /\ blocks[reader[r].ino][k + 1] = d
  BY <1>1, <1>2, Documents DEF ReadBlock, Whole
<1>4. Append(reader[r].got, d) = [n \in 1 .. k + 1 |-> d]
  BY <1>1, <1>2, Grow DEF Cells
<1>5. /\ [n \in 1 .. k + 1 |-> d] \in Seq(Cells)
      /\ Len([n \in 1 .. k + 1 |-> d]) = k + 1
  BY <1>2, Cut DEF Cells
<1>6. /\ reader' = [reader EXCEPT ![r].got = [n \in 1 .. k + 1 |-> d]]
      /\ UNCHANGED <<target, temp, blocks, writer>>
  BY <1>3, <1>4 DEF ReadBlock
<1>7. \A q \in Readers \ {r} : reader'[q] = reader[q]
  BY <1>6 DEF TypeOK
<1>8. /\ reader'[r].pc = "reading"
      /\ reader'[r].ino = reader[r].ino
      /\ reader'[r].since = reader[r].since
      /\ reader'[r].got = [n \in 1 .. k + 1 |-> d]
  BY <1>2, <1>6 DEF TypeOK
<1>9. TypeOK'
  <2>1. reader \in [Readers -> ReaderStates] /\ reader[r] \in ReaderStates
    BY DEF TypeOK
  <2>2. [reader[r] EXCEPT !.got = [n \in 1 .. k + 1 |-> d]] \in ReaderStates
    BY <1>5, <2>1
  <2>3. reader' = [reader EXCEPT ![r] = [reader[r] EXCEPT !.got = [n \in 1 .. k + 1 |-> d]]]
    BY <1>6
  <2>4. reader' \in [Readers -> ReaderStates]
    BY <2>1, <2>2, <2>3
  <2> QED
    BY <1>6, <2>4 DEF TypeOK
<1>10. TempIsApart' /\ WriterOwnsTemp' /\ PathIsWhole'
  <2>1. \A q \in Readers :
           reader'[q].pc = reader[q].pc /\ reader'[q].ino = reader[q].ino
    BY <1>2, <1>7, <1>8
  <2>2. TempIsApart'
    BY <1>6, <2>1 DEF TempIsApart
  <2> QED
    BY <1>6, <2>2 DEF WriterOwnsTemp, PathIsWhole, Current
<1>11. ReadersHoldWhole'
  <2>1. HoldsWhole(r)'
    <3> HIDE DEF k
    <3>1. Len(reader'[r].got) = k + 1
      BY <1>5, <1>8
    <3> QED
      BY <1>1, <1>2, <1>3, <1>6, <1>8, <3>1 DEF HoldsWhole
  <2>2. \A q \in Readers \ {r} : HoldsWhole(q) <=> HoldsWhole(q)'
    BY <1>6, <1>7 DEF HoldsWhole
  <2> QED
    BY <1>7, <2>1, <2>2 DEF ReadersHoldWhole
<1>12. ReadsAreWhole'
  BY <1>7, <1>8 DEF ReadsAreWhole
<1> QED
  BY <1>9, <1>10, <1>11, <1>12

LEMMA EndOfFileStep ==
    ASSUME Inv, NEW r \in Readers, EndOfFile(r)
    PROVE  Inv'
<1> USE NoneAssumption DEF Inv, WriterStates, ReaderStates
<1>1. PICK d \in Docs :
        /\ blocks[reader[r].ino] = Whole(d)
        /\ Whole(d) \in reader[r].since
        /\ Len(reader[r].got) <= Size[d]
        /\ reader[r].got = [n \in 1 .. Len(reader[r].got) |-> d]
  BY DEF EndOfFile, ReadersHoldWhole, HoldsWhole
<1>2. reader[r].got = Whole(d)
  <2>1. Len(reader[r].got) \in Nat
    BY DEF TypeOK
  <2>2. Len(reader[r].got) = Size[d]
    BY <1>1, <2>1, Documents DEF EndOfFile
  <2> QED
    BY <1>1, <2>2 DEF Whole
<1>3. /\ reader' = [reader EXCEPT ![r].pc = "done", ![r].ino = None]
      /\ UNCHANGED <<target, temp, blocks, writer>>
  BY DEF EndOfFile
<1>4. /\ \A q \in Readers \ {r} : reader'[q] = reader[q]
      /\ reader'[r].pc = "done"
      /\ reader'[r].since = reader[r].since
      /\ reader'[r].got = reader[r].got
  BY <1>3 DEF TypeOK
<1>5. TypeOK'
  <2>1. reader \in [Readers -> ReaderStates] /\ reader[r] \in ReaderStates
    BY DEF TypeOK
  <2>2. [reader[r] EXCEPT !.pc = "done", !.ino = None] \in ReaderStates
    BY <2>1
  <2>3. reader' = [reader EXCEPT ![r] = [reader[r] EXCEPT !.pc = "done", !.ino = None]]
    BY <1>3
  <2>4. reader' \in [Readers -> ReaderStates]
    BY <2>1, <2>2, <2>3
  <2> QED
    BY <1>3, <2>4 DEF TypeOK
<1>6. TempIsApart' /\ WriterOwnsTemp' /\ PathIsWhole'
  <2>1. TempIsApart'
    BY <1>3, <1>4 DEF TempIsApart
  <2> QED
    BY <1>3, <2>1 DEF WriterOwnsTemp, PathIsWhole, Current
<1>7. ReadersHoldWhole'
  <2>1. ASSUME NEW q \in Readers \ {r} PROVE HoldsWhole(q) <=> HoldsWhole(q)'
    <3>1. reader'[q] = reader[q] /\ blocks' = blocks
      BY <1>3, <1>4
    <3> QED
      BY <3>1 DEF HoldsWhole
  <2> QED
    BY <1>4, <2>1 DEF ReadersHoldWhole
<1>8. ReadsAreWhole'
  BY <1>1, <1>2, <1>4 DEF ReadsAreWhole
<1> QED
  BY <1>5, <1>6, <1>7, <1>8

-----------------------------------------------------------------------------
LEMMA InvStep ==
    ASSUME NoOverlap, NoOverlap', Inv, [Next]_vars
    PROVE  Inv'
<1>1. ASSUME NEW w \in Writers, NEW d \in Docs, NEW i \in Inodes, Open(w, d, i)
      PROVE  Inv'
  BY <1>1, OpenStep
<1>2. ASSUME NEW w \in Writers, WriteStep(w) PROVE Inv'
  BY <1>2, WriteBlockStep, ReplaceStep DEF WriteStep
<1>3. ASSUME NEW w \in Writers, Die(w) PROVE Inv'
  BY <1>3, DieStep
<1>4. ASSUME NEW r \in Readers, OpenToRead(r) PROVE Inv'
  BY <1>4, OpenToReadStep
<1>5. ASSUME NEW r \in Readers, ReadStep(r) PROVE Inv'
  BY <1>5, ReadBlockStep, EndOfFileStep DEF ReadStep
<1>6. CASE UNCHANGED vars
  BY <1>6 DEF vars, Inv, TypeOK, TempIsApart, WriterOwnsTemp, ReadersHoldWhole,
     HoldsWhole, PathIsWhole, ReadsAreWhole, Current
<1> QED
  BY <1>1, <1>2, <1>3, <1>4, <1>5, <1>6 DEF Next

LEMMA ChangeStep ==
    ASSUME NoOverlap, NoOverlap', Inv, Next, Current' # Current
    PROVE  \E w \in Writers : writer[w].pc = "writing"
                              /\ Current' = Whole(writer[w].doc)
<1>1. ASSUME NEW w \in Writers, NEW d \in Docs, NEW i \in Inodes, Open(w, d, i)
      PROVE  FALSE
  <2>1. i # target /\ target' = target
    BY <1>1, NoneAssumption DEF Open, Free, Inv, TypeOK, TempIsApart
  <2> QED
    BY <1>1, <2>1 DEF Open, Current, Inv, TypeOK
<1>2. ASSUME NEW w \in Writers, WriteBlock(w) PROVE FALSE
  <2>1. writer[w].ino # target /\ target' = target
    BY <1>2 DEF WriteBlock, Inv, WriterOwnsTemp, TempIsApart
  <2>2. target # None => blocks'[target] = blocks[target]
    BY <1>2, <2>1 DEF WriteBlock, Inv, TypeOK
  <2> QED
    BY <2>1, <2>2 DEF Current
<1>3. ASSUME NEW w \in Writers, Replace(w)
      PROVE  writer[w].pc = "writing" /\ Current' = Whole(writer[w].doc)
  BY <1>3, ReplaceStep DEF Replace
<1>4. ASSUME NEW w \in Writers, Die(w) PROVE FALSE
  BY <1>4 DEF Die, Current
<1>5. ASSUME NEW r \in Readers, OpenToRead(r) \/ ReadStep(r) PROVE FALSE
  BY <1>5 DEF OpenToRead, ReadStep, ReadBlock, EndOfFile, Current
<1> QED
  BY <1>1, <1>2, <1>3, <1>4, <1>5 DEF Next, WriteStep

(* _atomic_write_json: when the writers of a document do not overlap, a    *)
(* writer may be cut off anywhere and path still holds one complete        *)
(* document, or none.                                                      *)
THEOREM AtomicPath ==
    Spec /\ []NoOverlap => []PathIsWhole
<1>1. NoOverlap /\ NoOverlap' /\ Inv /\ [Next]_vars => Inv'
  BY InvStep
<1>2. Inv => PathIsWhole
  BY DEF Inv
<1> QED
  BY InvInit, <1>1, <1>2, PTL DEF Spec

(* _read_json beside it: every document that a reader parses is complete,  *)
(* and is one that path held while it was being read.                      *)
THEOREM AtomicReads ==
    Spec /\ []NoOverlap => []ReadsAreWhole
<1>1. NoOverlap /\ NoOverlap' /\ Inv /\ [Next]_vars => Inv'
  BY InvStep
<1>2. Inv => ReadsAreWhole
  BY DEF Inv
<1> QED
  BY InvInit, <1>1, <1>2, PTL DEF Spec

(* The document changes in one step, to what was being written: SessionStore *)
(* may take a replacement as one step.                                     *)
THEOREM AtomicChange ==
    Spec /\ []NoOverlap => ChangesAtOnce
<1>1. NoOverlap /\ NoOverlap' /\ Inv /\ [Next]_vars => Inv'
  BY InvStep
<1>2. NoOverlap /\ NoOverlap' /\ Inv /\ [Next]_vars =>
        [Current' # Current =>
           \E w \in Writers : writer[w].pc = "writing"
                              /\ Current' = Whole(writer[w].doc)]_vars
  BY ChangeStep
<1> QED
  BY InvInit, <1>1, <1>2, PTL DEF Spec, ChangesAtOnce

-----------------------------------------------------------------------------
(* The file implements AtomicDocument.  A write takes effect when the name *)
(* is moved, a read when the file is opened: what the reader will have is  *)
(* settled then.  A document is told by its first block.                   *)
document == IF target = None THEN None ELSE blocks[target][1]

Viewed(r) ==
    IF reader[r].pc = "reading" THEN blocks[reader[r].ino][1]
    ELSE IF reader[r].pc = "done" THEN reader[r].got[1]
    ELSE None

view == [r \in Readers |-> Viewed(r)]

Document == INSTANCE AtomicDocument

(* Nothing but these documents, and all of them, is on the disk and in the *)
(* hands of a reader who is done.                                          *)
DocumentsAreShown ==
    /\ target = None => document = None
    /\ target # None => document \in Docs /\ Current = Whole(document)
    /\ \A r \in Readers :
         reader[r].pc = "done" => view[r] \in Docs /\ reader[r].got = Whole(view[r])

LEMMA FirstBlock == \A d \in Docs : Whole(d)[1] = d
  BY SizeAssumption DEF Whole

LEMMA Shown ==
    ASSUME Inv
    PROVE  /\ DocumentsAreShown
           /\ \A r \in Readers : reader[r].pc = "reading" =>
                \E d \in Docs : blocks[reader[r].ino] = Whole(d) /\ view[r] = d
<1>1. target = None => document = None
  BY DEF document
<1>2. target # None => document \in Docs /\ Current = Whole(document)
  BY FirstBlock DEF Inv, PathIsWhole, Current, document
<1>3. ASSUME NEW r \in Readers, reader[r].pc = "done"
      PROVE  view[r] \in Docs /\ reader[r].got = Whole(view[r])
  BY <1>3, FirstBlock DEF Inv, ReadsAreWhole, view, Viewed
<1>4. ASSUME NEW r \in Readers, reader[r].pc = "reading"
      PROVE  \E d \in Docs : blocks[reader[r].ino] = Whole(d) /\ view[r] = d
  <2>1. PICK d \in Docs : blocks[reader[r].ino] = Whole(d)
    BY <1>4 DEF Inv, ReadersHoldWhole, HoldsWhole
  <2>2. view[r] = d
    BY <1>4, <2>1, FirstBlock DEF view, Viewed
  <2> QED
    BY <2>1, <2>2
<1> QED
  BY <1>1, <1>2, <1>3, <1>4 DEF DocumentsAreShown

(* Blocks are written to an inode that neither the path names nor a reader *)
(* holds.                                                                  *)
LEMMA WritesAreUnseen ==
    ASSUME Inv, NEW i, i # target,
           \A r \in Readers : reader[r].pc = "reading" => reader[r].ino # i,
           NEW b, blocks' = [blocks EXCEPT ![i] = b],
           UNCHANGED <<target, reader>>
    PROVE  UNCHANGED <<document, view>>
<1>1. target # None => blocks'[target] = blocks[target]
  BY DEF Inv, TypeOK
<1>2. UNCHANGED document
  BY <1>1 DEF document
<1>3. ASSUME NEW r \in Readers, reader[r].pc = "reading"
      PROVE  blocks'[reader[r].ino] = blocks[reader[r].ino]
  BY <1>3 DEF Inv, TypeOK, ReadersHoldWhole, HoldsWhole, ReaderStates
<1>4. UNCHANGED view
  BY <1>3 DEF view, Viewed
<1> QED
  BY <1>2, <1>4

LEMMA DocumentStep ==
    ASSUME NoOverlap, NoOverlap', Inv, Next
    PROVE  [Document!Next]_<<document, view>>
<1>1. ASSUME NEW w \in Writers, NEW d \in Docs, NEW i \in Inodes, Open(w, d, i)
      PROVE  UNCHANGED <<document, view>>
  <2>1. /\ i # target
        /\ \A r \in Readers : reader[r].pc = "reading" => reader[r].ino # i
    BY <1>1, NoneAssumption DEF Open, Free, Inv, TypeOK, TempIsApart
  <2> QED
    BY <1>1, <2>1, WritesAreUnseen DEF Open
<1>2. ASSUME NEW w \in Writers, WriteBlock(w)
      PROVE  UNCHANGED <<document, view>>
  <2>1. /\ writer[w].ino # target
        /\ \A r \in Readers : reader[r].pc = "reading" => reader[r].ino # writer[w].ino
    BY <1>2 DEF WriteBlock, Inv, WriterOwnsTemp, TempIsApart
  <2> QED
    BY <1>2, <2>1, WritesAreUnseen DEF WriteBlock
<1>3. ASSUME NEW w \in Writers, Replace(w)
      PROVE  Document!Write(writer[w].doc) /\ writer[w].doc \in Docs
  <2>1. writer[w].doc \in Docs /\ blocks[temp] = Whole(writer[w].doc)
    BY <1>3 DEF Replace, Inv, WriterOwnsTemp, Whole
  <2>2. document' = writer[w].doc
    BY <1>3, <2>1, FirstBlock DEF Replace, document
  <2>3. \A r \in Readers : /\ reader'[r].pc = reader[r].pc
                           /\ reader'[r].ino = reader[r].ino
                           /\ reader'[r].got = reader[r].got
    BY <1>3 DEF Replace, Inv, TypeOK, ReaderStates
  <2>4. UNCHANGED view
    BY <1>3, <2>3 DEF Replace, view, Viewed
  <2> QED
    BY <2>1, <2>2, <2>4 DEF Document!Write
<1>4. ASSUME NEW w \in Writers, Die(w)
      PROVE  UNCHANGED <<document, view>>
  BY <1>4 DEF Die, document, view, Viewed
<1>5. ASSUME NEW r \in Readers, OpenToRead(r) PROVE Document!Read(r)
  <2>1. document # None
    BY <1>5, Shown, NoneAssumption DEF OpenToRead, DocumentsAreShown
  <2>2. reader' = [reader EXCEPT ![r] = [pc |-> "reading", ino |-> target,
                                         got |-> <<>>, since |-> {Current}]]
        /\ UNCHANGED <<target, blocks>>
    BY <1>5 DEF OpenToRead
  <2>3. Viewed(r)' = document
    BY <1>5, <2>2 DEF Viewed, document, OpenToRead, Inv, TypeOK
  <2>4. ASSUME NEW other \in Readers, other # r PROVE Viewed(other)' = Viewed(other)
    <3>1. reader'[other] = reader[other]
      BY <2>2, <2>4 DEF Inv, TypeOK
    <3> QED
      BY <2>2, <3>1 DEF Viewed
  <2>5. view' = [view EXCEPT ![r] = document]
    BY <2>3, <2>4 DEF view
  <2> QED
    BY <2>1, <2>2, <2>5 DEF Document!Read, document
<1>6. ASSUME NEW r \in Readers, ReadStep(r)
      PROVE  UNCHANGED <<document, view>>
  <2>1. UNCHANGED document
    BY <1>6 DEF ReadStep, ReadBlock, EndOfFile, document
  <2>2. CASE ReadBlock(r)
    <3>1. \A other \in Readers : reader'[other].pc = reader[other].pc
                                 /\ reader'[other].ino = reader[other].ino
                                 /\ (other # r => reader'[other] = reader[other])
      BY <2>2 DEF ReadBlock, Inv, TypeOK, ReaderStates
    <3>2. \A other \in Readers : Viewed(other)' = Viewed(other)
      BY <2>2, <3>1 DEF ReadBlock, Viewed
    <3> QED
      BY <2>1, <3>2 DEF view
  <2>3. CASE EndOfFile(r)
    <3> DEFINE got == reader[r].got
               b == blocks[reader[r].ino]
    <3>1. PICK d \in Docs : b = Whole(d) /\ Len(got) <= Size[d]
                            /\ got = [n \in 1 .. Len(got) |-> d]
      BY <2>3 DEF EndOfFile, Inv, ReadersHoldWhole, HoldsWhole
    <3>2. got \in Seq(Cells) /\ Len(got) >= Len(b)
      BY <2>3 DEF EndOfFile, Inv, TypeOK, ReaderStates
    <3>3. Len(got) = Size[d]
      BY <3>1, <3>2, Documents
    <3>4. got = b
      BY <3>1, <3>3 DEF Whole
    <3>5. /\ reader[r].pc = "reading" /\ reader'[r].pc = "done" /\ reader'[r].got = got
          /\ UNCHANGED blocks
          /\ \A other \in Readers : other # r => reader'[other] = reader[other]
      BY <2>3 DEF EndOfFile, Inv, TypeOK, ReaderStates
    <3>6. Viewed(r)' = Viewed(r)
      BY <3>4, <3>5 DEF Viewed
    <3>7. \A other \in Readers : other # r => Viewed(other)' = Viewed(other)
      BY <3>5 DEF Viewed
    <3> QED
      BY <2>1, <3>6, <3>7 DEF view
  <2> QED
    BY <1>6, <2>2, <2>3 DEF ReadStep
<1> QED
  BY <1>1, <1>2, <1>3, <1>4, <1>5, <1>6 DEF Next, WriteStep, Document!Next

(* _atomic_write_json and _read_json: as long as the writers of a document *)
(* do not overlap, writes and reads of many steps, cut off anywhere, are   *)
(* writes and reads of one step each.                                      *)
THEOREM FileImplementsDocument ==
    Spec /\ []NoOverlap => Document!Spec /\ []DocumentsAreShown
<1>1. NoOverlap /\ NoOverlap' /\ Inv /\ [Next]_vars => Inv'
  BY InvStep
<1>2. Init => Document!Init
  BY DEF Init, document, view, Viewed, Document!Init, NotReading
<1>3. NoOverlap /\ NoOverlap' /\ Inv /\ [Next]_vars => [Document!Next]_<<document, view>>
  <2>1. UNCHANGED vars => UNCHANGED <<document, view>>
    BY DEF vars, document, view, Viewed
  <2> QED
    BY <2>1, DocumentStep
<1>4. Inv => DocumentsAreShown
  BY Shown
<1> QED
  BY InvInit, <1>1, <1>2, <1>3, <1>4, PTL DEF Spec, Document!Spec
=============================================================================
