--------------------------- MODULE LogBufferProofs ---------------------------
(***************************************************************************)
(* Proofs about LogBuffer: the ranges of offsets and indices for any       *)
(* writers and, for a buffer with one writer, what Read returns, what a    *)
(* poll of a tailer delivers, and what a tailer that ends has delivered.   *)
(***************************************************************************)
EXTENDS LogBuffer, TLAPS

-------------------------------------------------------------------------------
(* Slots                                                                   *)

\* A position has a slot of the buffer.
LEMMA SlotInBuffer ==
    ASSUME NEW p \in Nat
    PROVE  Slot(p) \in 0 .. Capacity - 1
<1>1. Capacity \in Nat /\ Capacity > 0
  BY CapacityAssumption
<1>2. p % Capacity \in 0 .. Capacity - 1
  BY <1>1
<1> QED
  BY <1>2 DEF Slot

\* A number is its quotient and its remainder.
LEMMA QuotientAndRemainder ==
    ASSUME NEW c \in Nat \ {0}, NEW a \in Nat
    PROVE  /\ a = c * (a \div c) + (a % c)
           /\ a \div c \in Int
           /\ a % c \in Int
OBVIOUS

\* No multiple of a capacity lies strictly between 0 and the capacity.
LEMMA NoMultipleBetween ==
    ASSUME NEW c \in Nat \ {0}, NEW q \in Int, 0 < c * q, c * q < c
    PROVE  FALSE
<1>1. CASE q >= 1
  BY <1>1
<1>2. CASE q <= 0
  BY <1>2
<1> QED
  BY <1>1, <1>2

\* Positions less than a buffer apart have different slots.
LEMMA CloseSlotsDiffer ==
    ASSUME NEW p \in Nat, NEW q \in Nat, p < q, q < p + Capacity
    PROVE  Slot(p) # Slot(q)
<1> SUFFICES ASSUME p % Capacity = q % Capacity
             PROVE  FALSE
  BY DEF Slot
<1>1. PICK i \in Int : p = Capacity * i + (p % Capacity)
  BY QuotientAndRemainder, CapacityAssumption
<1>2. PICK j \in Int : q = Capacity * j + (q % Capacity)
  BY QuotientAndRemainder, CapacityAssumption
<1>3. p % Capacity \in Int
  BY QuotientAndRemainder, CapacityAssumption
<1>4. /\ q - p = Capacity * j - Capacity * i
      /\ Capacity * j \in Int
      /\ Capacity * i \in Int
  BY <1>1, <1>2, <1>3, CapacityAssumption
<1>5. Capacity * j - Capacity * i = Capacity * (j - i)
  BY <1>1, CapacityAssumption
<1>6. 0 < Capacity * (j - i) /\ Capacity * (j - i) < Capacity
  BY <1>4, <1>5, CapacityAssumption
<1> QED
  BY <1>6, NoMultipleBetween, CapacityAssumption

-------------------------------------------------------------------------------
(* The writer and its buffer                                               *)

RingTypes ==
    /\ offset \in Nat
    /\ buf \in [0 .. Capacity - 1 -> Int]
    /\ writer \in [Writers -> [pc : {"idle", "store", "stored", "load", "increment"},
                               line : Nat, loc : 0 .. Capacity - 1, tmp : Nat]]

\* The buffer holds the line of position p: it was written, and at most a
\* buffer of lines after it, of which the last one has not begun to be stored.
Kept(w, p) ==
    /\ p < offset
    /\ \/ offset < p + Capacity
       \/ writer[w].pc \in {"idle", "store"} /\ offset = p + Capacity

RingInv(w) ==
    /\ writer[w].line = offset
    /\ writer[w].pc \in {"store", "stored"} => writer[w].loc = Slot(offset)
    /\ writer[w].pc \in {"load", "increment"} => buf[Slot(offset)] = offset
    /\ writer[w].pc = "increment" => writer[w].tmp = offset
    /\ \A p \in Nat : Kept(w, p) => buf[Slot(p)] = p

LEMMA RingInit ==
    ASSUME NEW w, Writers = {w}, Init
    PROVE  RingTypes /\ RingInv(w)
<1>1. Capacity \in Nat /\ Capacity > 0
  BY CapacityAssumption
<1>2. RingTypes
  BY <1>1 DEF Init, RingTypes, Nothing
<1>3. RingInv(w)
  BY DEF Init, RingInv, Kept
<1> QED
  BY <1>2, <1>3

\* A step that is not of the writer leaves it and its buffer alone.
LEMMA RingFrame ==
    ASSUME NEW w, RingTypes, RingInv(w), UNCHANGED <<buf, offset, writer>>
    PROVE  (RingTypes /\ RingInv(w))'
  BY DEF RingTypes, RingInv, Kept

\* The writer stores its line where no line is that the buffer still keeps.
LEMMA WriteStep ==
    ASSUME NEW w, Writers = {w}, RingTypes, RingInv(w), Write(w)
    PROVE  (RingTypes /\ RingInv(w))'
<1>1. Capacity \in Nat /\ Capacity > 0
  BY CapacityAssumption
<1>2. Slot(offset) \in 0 .. Capacity - 1
  BY SlotInBuffer DEF RingTypes
<1>3. CASE WriteBegins(w)
  <2>1. RingTypes'
    BY <1>2, <1>3 DEF WriteBegins, RingTypes
  <2>2. RingInv(w)'
    BY <1>2, <1>3 DEF WriteBegins, RingTypes, RingInv, Kept
  <2> QED
    BY <2>1, <2>2
<1>4. CASE WriteStores(w)
  <2>1. PICK v \in Int : /\ buf' = [buf EXCEPT ![Slot(offset)] = v]
                         /\ writer[w].pc \in {"store", "stored"}
                         /\ writer[w].pc = "stored" => v = offset
    BY <1>4 DEF WriteStores, RingTypes, RingInv, Torn
  <2>2. /\ offset' = offset
        /\ writer' = [writer EXCEPT ![w].pc =
                        IF writer[w].pc = "store" THEN "stored" ELSE "load"]
    BY <1>4 DEF WriteStores
  <2>3. /\ writer'[w].pc = IF writer[w].pc = "store" THEN "stored" ELSE "load"
        /\ writer'[w].line = writer[w].line
        /\ writer'[w].loc = writer[w].loc
    BY <2>2 DEF RingTypes
  <2>4. RingTypes'
    BY <1>2, <2>1, <2>2 DEF RingTypes
  <2>5. ASSUME NEW p \in Nat, Kept(w, p)'
        PROVE  buf'[Slot(p)] = p
    <3>1. p < offset /\ offset < p + Capacity
      BY <2>1, <2>2, <2>3, <2>5 DEF Kept
    <3>2. Slot(p) # Slot(offset)
      BY <3>1, CloseSlotsDiffer DEF RingTypes
    <3>3. buf[Slot(p)] = p
      BY <3>1 DEF RingInv, Kept
    <3> QED
      BY <2>1, <3>2, <3>3, SlotInBuffer DEF RingTypes
  <2>6. buf'[Slot(offset)] = v
    BY <1>2, <2>1 DEF RingTypes
  <2>7. RingInv(w)'
    BY <2>1, <2>2, <2>3, <2>5, <2>6 DEF RingInv
  <2> QED
    BY <2>4, <2>7
<1>5. CASE WriteLoads(w)
  <2>1. RingTypes'
    BY <1>5 DEF WriteLoads, RingTypes
  <2>2. RingInv(w)'
    BY <1>5 DEF WriteLoads, RingTypes, RingInv, Kept
  <2> QED
    BY <2>1, <2>2
<1>6. CASE WriteIncrements(w)
  <2>1. /\ offset' = offset + 1
        /\ buf' = buf
        /\ writer' = [writer EXCEPT ![w].pc = "idle", ![w].line = @ + 1]
        /\ buf[Slot(offset)] = offset
        /\ writer[w].pc = "increment"
    BY <1>6 DEF WriteIncrements, RingInv
  <2>2. writer'[w].pc = "idle" /\ writer'[w].line = offset + 1
    BY <2>1 DEF RingTypes, RingInv
  <2>3. RingTypes'
    BY <2>1 DEF RingTypes
  <2>4. ASSUME NEW p \in Nat, Kept(w, p)'
        PROVE  buf[Slot(p)] = p
    <3>1. p <= offset /\ offset + 1 <= p + Capacity
      BY <1>1, <2>1, <2>4 DEF Kept, RingTypes
    <3>2. CASE p = offset
      BY <2>1, <3>2
    <3>3. CASE p < offset
      <4>1. offset < p + Capacity
        BY <1>1, <3>1 DEF RingTypes
      <4> QED
        BY <3>3, <4>1 DEF RingInv, Kept
    <3> QED
      BY <3>1, <3>2, <3>3 DEF RingTypes
  <2>5. RingInv(w)'
    BY <2>1, <2>2, <2>4 DEF RingInv
  <2> QED
    BY <2>3, <2>5
<1> QED
  BY <1>3, <1>4, <1>5, <1>6 DEF Write

LEMMA RingStep ==
    ASSUME NEW w, Writers = {w}, RingTypes, RingInv(w), [Next]_vars
    PROVE  (RingTypes /\ RingInv(w))'
<1>1. CASE Write(w)
  BY <1>1, WriteStep
<1>2. CASE UNCHANGED <<buf, offset, writer>>
  BY <1>2, RingFrame
<1> QED
  BY <1>1, <1>2 DEF Next, vars, UnitExits, TailBegins, TailCloses, Tailing,
                    TailAsks, TailProbes, TailReads, TailCopies

-------------------------------------------------------------------------------
(* Read                                                                    *)

\* At rest the buffer holds the last Capacity lines, so Read returns those.
LEMMA ReadIsRight ==
    ASSUME NEW w, Writers = {w}, RingTypes, RingInv(w)
    PROVE  ReadReturnsNewest
<1> SUFFICES ASSUME AtRest, NEW n \in 0 .. Capacity + 1
             PROVE  LET kept == Least(Capacity, offset)
                        count == IF n = 0 THEN kept ELSE Least(n, kept) IN
                    Read(n) = [j \in 1 .. count |-> offset - count + j - 1]
  BY DEF ReadReturnsNewest
<1> DEFINE kept == Least(Capacity, offset)
           count == IF n = 0 THEN kept ELSE Least(n, kept)
<1>1. Capacity \in Nat /\ Capacity > 0 /\ offset \in Nat
  BY CapacityAssumption DEF RingTypes
<1>2. n \in Nat
  BY <1>1
<1>3. ReadCount(n) = count
  BY <1>1, <1>2 DEF ReadCount, Least
<1>4. count \in Nat /\ count <= Capacity /\ count <= offset
  BY <1>1, <1>2 DEF Least
<1> HIDE DEF count
<1>5. ASSUME NEW j \in 1 .. count
      PROVE  buf[ReadSlot(count - j + 1)] = offset - count + j - 1
  <2> DEFINE p == offset - count + j - 1
  <2>1. p \in Nat /\ p < offset /\ offset <= p + Capacity
    BY <1>1, <1>4
  <2>2. offset - (count - j + 1) = p
    BY <1>1, <1>4
  <2>3. writer[w].pc = "idle"
    BY DEF AtRest
  <2> HIDE DEF p
  <2>4. Kept(w, p)
    BY <1>1, <2>1, <2>3 DEF Kept
  <2>5. buf[Slot(p)] = p
    BY <2>1, <2>4 DEF RingInv
  <2> QED
    BY <2>2, <2>5 DEF ReadSlot, p
<1>6. Read(n) = [j \in 1 .. count |-> buf[ReadSlot(count - j + 1)]]
  BY <1>3 DEF Read
<1>7. Read(n) = [j \in 1 .. count |-> offset - count + j - 1]
  BY <1>5, <1>6
<1> QED
  BY <1>7 DEF count

\* With one writer, and while it does not write, Read(n) returns the newest n
\* lines, oldest first, for every capacity of the buffer (logbuf.go:101-121).
THEOREM NewestLinesAreRead ==
    ASSUME NEW w, Writers = {w}
    PROVE  Spec => []ReadReturnsNewest
<1>1. Init => RingTypes /\ RingInv(w)
  BY RingInit
<1>2. (RingTypes /\ RingInv(w)) /\ [Next]_vars => (RingTypes /\ RingInv(w))'
  BY RingStep
<1>3. RingTypes /\ RingInv(w) => ReadReturnsNewest
  BY ReadIsRight
<1> QED
  BY <1>1, <1>2, <1>3, PTL DEF Spec

-------------------------------------------------------------------------------
(* Types                                                                   *)

\* A writer that has begun a line has one left to write.
LinesLeft == \A w \in Writers : writer[w].pc # "idle" => writer[w].line < MaxLines

\* The conjuncts of TypeOK about one tailer.
Tailer == [pc : {"new", "tick", "read", "probe", "copy", "copied", "end", "closed"},
           last : Nat, i : Nat, upto : Nat, half : Entries, got : Entries]

LEMMA TailerTypes ==
    ASSUME TypeOK, NEW t \in Tailers,
           TailBegins(t) \/ TailCloses(t) \/ Tailing(t)
    PROVE  tailer' \in [Tailers -> Tailer]
<1>1. tailer \in [Tailers -> Tailer] /\ tailer[t] \in Tailer
  BY DEF TypeOK, Tailer
<1>2. ASSUME NEW r \in Tailer, tailer' = [tailer EXCEPT ![t] = r]
      PROVE  tailer' \in [Tailers -> Tailer]
  BY <1>1, <1>2
<1>3. offset \in Nat /\ Capacity \in Nat
  BY CapacityAssumption DEF TypeOK
<1>4. buf[Slot(tailer[t].i)] \in Entries
  BY <1>1, SlotInBuffer DEF TypeOK, Tailer
<1>5. Torn \in Entries /\ Nothing \in Entries
  BY LinesAssumption DEF Torn, Nothing, Entries
<1>6. ASSUME NEW e \in {"tick", "read", "probe", "end", "closed"},
             tailer' = [tailer EXCEPT ![t].pc = e]
      PROVE  tailer' \in [Tailers -> Tailer]
  <2>1. [tailer[t] EXCEPT !.pc = e] \in Tailer
    BY <1>1 DEF Tailer
  <2>2. QED BY <1>1, <1>2, <1>6, <2>1
<1>7. CASE TailBegins(t)
  <2>1. [tailer[t] EXCEPT !.pc = "tick", !.last = offset, !.i = offset] \in Tailer
    BY <1>1, <1>3 DEF Tailer
  <2>2. QED BY <1>1, <1>2, <1>7, <2>1 DEF TailBegins, Tailer
<1>8. CASE TailCloses(t)
  BY <1>6, <1>8 DEF TailCloses
<1>9. CASE TailAsks(t)
  BY <1>6, <1>9 DEF TailAsks
<1>10. CASE TailProbes(t)
  BY <1>6, <1>10 DEF TailProbes
<1>11. CASE TailReads(t)
  <2>1. ReadStart(tailer[t].last) \in Nat
    BY <1>1, <1>3 DEF ReadStart, Tailer
  <2>2. /\ [tailer[t] EXCEPT !.pc = "tick", !.last = offset] \in Tailer
        /\ [tailer[t] EXCEPT !.pc = "copy", !.upto = offset,
                             !.i = ReadStart(tailer[t].last)] \in Tailer
    BY <1>1, <1>3, <2>1 DEF Tailer
  <2>3. \/ tailer' = [tailer EXCEPT ![t] =
                        [tailer[t] EXCEPT !.pc = "tick", !.last = offset]]
        \/ tailer' = [tailer EXCEPT ![t] =
                        [tailer[t] EXCEPT !.pc = "copy", !.upto = offset,
                                          !.i = ReadStart(tailer[t].last)]]
    BY <1>1, <1>11 DEF TailReads, Tailer
  <2>4. QED BY <1>2, <2>2, <2>3
<1>12. CASE TailCopies(t)
  <2> DEFINE line == buf[Slot(tailer[t].i)]
  <2>1. CASE tailer[t].pc = "copy"
    <3>1. [tailer[t] EXCEPT !.pc = "copied", !.half = line] \in Tailer
      BY <1>1, <1>4 DEF Tailer
    <3>2. tailer' = [tailer EXCEPT ![t] =
                       [tailer[t] EXCEPT !.pc = "copied", !.half = line]]
      BY <1>1, <1>12, <2>1 DEF TailCopies, Tailer
    <3>3. QED BY <1>2, <3>1, <3>2
  <2>2. CASE tailer[t].pc = "copied"
    <3> DEFINE more == tailer[t].i + 1 < tailer[t].upto
               g == IF tailer[t].half = line THEN line ELSE Torn
               l == IF more THEN tailer[t].last ELSE tailer[t].upto
               e == IF more THEN "copy" ELSE "tick"
               r == [tailer[t] EXCEPT !.i = tailer[t].i + 1, !.got = g,
                                      !.half = Nothing, !.last = l, !.pc = e]
    <3>1. g \in Entries /\ l \in Nat /\ e \in {"copy", "tick"}
            /\ tailer[t].i + 1 \in Nat
      BY <1>1, <1>4, <1>5 DEF Tailer
    <3>2. tailer' = [tailer EXCEPT ![t] = r]
      BY <1>1, <1>12, <2>2 DEF TailCopies, NextOffset, Tailer
    <3> HIDE DEF g, l, e
    <3>3. r \in Tailer
      BY <1>1, <1>5, <3>1 DEF Tailer
    <3>4. QED BY <1>2, <3>2, <3>3
  <2>3. QED BY <1>12, <2>1, <2>2 DEF TailCopies
<1>13. QED BY <1>7, <1>8, <1>9, <1>10, <1>11, <1>12 DEF Tailing

LEMMA WriterTypes ==
    ASSUME TypeOK, LinesLeft, NEW w \in Writers, Write(w)
    PROVE  TypeOK' /\ LinesLeft'
<1> DEFINE W == [pc : {"idle", "store", "stored", "load", "increment"},
                 line : 0 .. MaxLines, loc : 0 .. Capacity - 1, tmp : Nat]
<1>1. /\ writer \in [Writers -> W] /\ writer[w] \in W
      /\ buf \in [0 .. Capacity - 1 -> Entries] /\ offset \in Nat
      /\ UNCHANGED <<tailer, unitRunning>>
  BY DEF TypeOK, Write, WriteBegins, WriteStores, WriteLoads, WriteIncrements
<1>2. MaxLines \in Nat
  BY LinesAssumption
<1>3. ASSUME NEW r \in W, writer' = [writer EXCEPT ![w] = r],
             r.pc # "idle" => r.line < MaxLines,
             buf' \in [0 .. Capacity - 1 -> Entries], offset' \in Nat
      PROVE  TypeOK' /\ LinesLeft'
  <2>1. writer' \in [Writers -> W]
    BY <1>1, <1>3
  <2>2. TypeOK'
    BY <1>1, <1>3, <2>1 DEF TypeOK
  <2>3. \A v \in Writers : writer'[v] = IF v = w THEN r ELSE writer[v]
    BY <1>1, <1>3
  <2>4. QED BY <1>3, <2>2, <2>3 DEF LinesLeft
<1>4. CASE WriteBegins(w)
  <2>1. [writer[w] EXCEPT !.pc = "store", !.loc = Slot(offset)] \in W
    BY <1>1, SlotInBuffer
  <2>2. writer' = [writer EXCEPT ![w] =
                     [writer[w] EXCEPT !.pc = "store", !.loc = Slot(offset)]]
        /\ UNCHANGED <<buf, offset>> /\ writer[w].line < MaxLines
    BY <1>1, <1>4 DEF WriteBegins
  <2>3. [writer[w] EXCEPT !.pc = "store", !.loc = Slot(offset)].line
          = writer[w].line
    BY <1>1
  <2>4. QED BY <1>1, <1>3, <2>1, <2>2, <2>3
<1>5. CASE WriteStores(w)
  <2>1. writer[w].line < MaxLines
    BY <1>5 DEF WriteStores, LinesLeft
  <2>2. PICK e \in {"stored", "load"} : writer' = [writer EXCEPT ![w].pc = e]
    BY <1>5 DEF WriteStores
  <2>3. Torn \in Entries /\ writer[w].line \in Entries
    BY <1>1, <1>2, <2>1 DEF Torn, Entries
  <2>4. buf' \in [0 .. Capacity - 1 -> Entries] /\ offset' = offset
    <3>1. \E v \in Entries : buf' = [buf EXCEPT ![writer[w].loc] = v]
      BY <1>5, <2>3 DEF WriteStores
    <3>2. QED BY <1>1, <1>5, <3>1 DEF WriteStores
  <2>5. /\ [writer[w] EXCEPT !.pc = e] \in W
        /\ [writer[w] EXCEPT !.pc = e].line = writer[w].line
        /\ writer' = [writer EXCEPT ![w] = [writer[w] EXCEPT !.pc = e]]
    BY <1>1, <2>2
  <2>6. QED BY <1>1, <1>3, <2>1, <2>4, <2>5
<1>6. CASE WriteLoads(w)
  <2>1. writer[w].line < MaxLines /\ UNCHANGED <<buf, offset>>
    BY <1>6 DEF WriteLoads, LinesLeft
  <2>2. /\ [writer[w] EXCEPT !.pc = "increment", !.tmp = offset] \in W
        /\ [writer[w] EXCEPT !.pc = "increment", !.tmp = offset].line = writer[w].line
        /\ writer' = [writer EXCEPT ![w] =
                        [writer[w] EXCEPT !.pc = "increment", !.tmp = offset]]
    BY <1>1, <1>6 DEF WriteLoads
  <2>3. QED BY <1>1, <1>3, <2>1, <2>2
<1>7. CASE WriteIncrements(w)
  <2>1. writer[w].line < MaxLines /\ UNCHANGED buf
    BY <1>7 DEF WriteIncrements, LinesLeft
  <2>2. writer[w].line + 1 \in 0 .. MaxLines /\ writer[w].tmp + 1 \in Nat
    BY <1>1, <1>2, <2>1
  <2>3. [writer[w] EXCEPT !.pc = "idle", !.line = writer[w].line + 1] \in W
    BY <1>1, <2>2
  <2>4. writer' = [writer EXCEPT ![w] =
                     [writer[w] EXCEPT !.pc = "idle", !.line = writer[w].line + 1]]
        /\ offset' = writer[w].tmp + 1
    BY <1>1, <1>7 DEF WriteIncrements
  <2>5. [writer[w] EXCEPT !.pc = "idle", !.line = writer[w].line + 1].pc = "idle"
    BY <1>1
  <2>6. QED BY <1>1, <1>3, <2>1, <2>2, <2>3, <2>4, <2>5
<1>8. QED BY <1>4, <1>5, <1>6, <1>7 DEF Write

\* Whatever the writers overwrite of one another, no slot, offset or index
\* leaves its range: no access of logbuf.go is out of the bounds of the slice,
\* for every number of writers.
THEOREM LogTypeCorrect == Spec => []TypeOK
<1> DEFINE Inv == TypeOK /\ LinesLeft
<1>1. Init => Inv
  BY CapacityAssumption, LinesAssumption
     DEF Init, TypeOK, LinesLeft, Entries, Nothing
<1>2. Inv /\ [Next]_vars => Inv'
  <2> SUFFICES ASSUME TypeOK, LinesLeft, [Next]_vars PROVE TypeOK' /\ LinesLeft'
    OBVIOUS
  <2>1. ASSUME NEW w \in Writers, Write(w) PROVE TypeOK' /\ LinesLeft'
    BY <2>1, WriterTypes
  <2>2. CASE UnitExits
    BY <2>2 DEF UnitExits, TypeOK, LinesLeft
  <2>3. ASSUME NEW t \in Tailers, TailBegins(t) \/ TailCloses(t) \/ Tailing(t)
        PROVE  TypeOK' /\ LinesLeft'
    <3>1. UNCHANGED <<buf, offset, writer, unitRunning>>
      BY <2>3 DEF TailBegins, TailCloses, Tailing, TailAsks, TailProbes,
                  TailReads, TailCopies
    <3>2. tailer' \in [Tailers -> Tailer]
      BY <2>3, TailerTypes
    <3>3. QED BY <3>1, <3>2 DEF TypeOK, LinesLeft, Tailer
  <2>4. CASE UNCHANGED vars
    BY <2>4 DEF vars, TypeOK, LinesLeft
  <2>5. QED BY <2>1, <2>2, <2>3, <2>4 DEF Next
<1>3. Inv => TypeOK
  OBVIOUS
<1> HIDE DEF Inv
<1>4. QED BY <1>1, <1>2, <1>3, PTL DEF Spec

-------------------------------------------------------------------------------
(* Tailers                                                                 *)

\* Adding multiples of the capacity does not change the slot.
LEMMA SameRemainder ==
    ASSUME NEW c \in Nat \ {0}, NEW a \in Nat, NEW k \in Nat, a + c * k \in Nat
    PROVE  (a + c * k) % c = a % c
<1> DEFINE b == a + c * k
<1>1. PICK i \in Int : a = c * i + (a % c)
  BY QuotientAndRemainder
<1>2. PICK j \in Int : b = c * j + (b % c)
  BY QuotientAndRemainder
<1>3. a % c \in 0 .. c - 1 /\ b % c \in 0 .. c - 1
  OBVIOUS
<1>4. b = a + c * k /\ b \in Nat
  OBVIOUS
<1> DEFINE r == a % c
           q == b % c
<1> HIDE DEF b, r, q
<1>5. /\ c * j \in Int /\ c * i \in Int /\ c * k \in Int
      /\ c * (j - i - k) = c * j - c * i - c * k
      /\ c * (i + k - j) = c * i + c * k - c * j
      /\ j - i - k \in Int /\ i + k - j \in Int
  OBVIOUS
<1>6. c * (j - i - k) = r - q /\ c * (i + k - j) = q - r
      /\ r \in 0 .. c - 1 /\ q \in 0 .. c - 1
  <2>1. /\ a = c * i + r /\ b = c * j + q
        /\ r \in 0 .. c - 1 /\ q \in 0 .. c - 1
    BY <1>1, <1>2, <1>3 DEF r, q
  <2>2. c * j - c * i - c * k = r - q /\ c * i + c * k - c * j = q - r
    BY <1>4, <1>5, <2>1
  <2>3. QED BY <1>5, <2>1, <2>2
<1>7. CASE r > q
  BY <1>5, <1>6, <1>7, NoMultipleBetween
<1>8. CASE q > r
  BY <1>5, <1>6, <1>8, NoMultipleBetween
<1>9. QED BY <1>6, <1>7, <1>8 DEF r, q, b

\* The newest position below a bound that has the slot of an older one.
LEMMA NewestInSlot ==
    ASSUME NEW p \in Nat, NEW o \in Nat, p < o
    PROVE  \E q \in Nat : q < o /\ o <= q + Capacity /\ Slot(q) = Slot(p)
<1>1. Capacity \in Nat \ {0}
  BY CapacityAssumption
<1> DEFINE d == o - 1 - p
           k == d \div Capacity
           q == p + Capacity * k
<1>2. d \in Nat
  OBVIOUS
<1>3. d = Capacity * k + (d % Capacity) /\ d % Capacity \in 0 .. Capacity - 1
      /\ k \in Nat
  BY <1>1, <1>2, QuotientAndRemainder
<1>4. Capacity * k \in Nat
  BY <1>1, <1>3
<1> HIDE DEF k
<1>5. q \in Nat /\ q < o /\ o <= q + Capacity
  BY <1>1, <1>3, <1>4
<1>6. q % Capacity = p % Capacity
  BY <1>1, <1>3, <1>5, SameRemainder
<1>7. QED BY <1>5, <1>6 DEF Slot

\* Where a tailer is: between two reads at the offset it asks for next, and in a
\* read below the offset it loaded. What it has half copied is the line, unless
\* the writer was a buffer ahead then.
TailInv(t) ==
    /\ tailer[t].last <= offset
    /\ tailer[t].pc \in {"new", "tick", "read", "probe", "end", "closed"} =>
          tailer[t].i = tailer[t].last
    /\ tailer[t].pc \in {"copy", "copied"} =>
          tailer[t].i < tailer[t].upto /\ tailer[t].upto <= offset
    /\ tailer[t].pc = "copied" =>
          tailer[t].half = tailer[t].i \/ offset >= tailer[t].i + Capacity

\* The line of a position less than a buffer behind is there.
LEMMA LineIsThere ==
    ASSUME NEW w, RingTypes, RingInv(w), NEW p \in Nat, p < offset,
           offset < p + Capacity
    PROVE  buf[Slot(p)] = p
  BY DEF RingInv, Kept

LEMMA TailStep ==
    ASSUME NEW w, Writers = {w}, TypeOK, RingTypes, RingInv(w),
           \A t \in Tailers : TailInv(t), [Next]_vars
    PROVE  \A t \in Tailers : TailInv(t)'
<1>1. Capacity \in Nat /\ Capacity > 0 /\ offset \in Nat
  BY CapacityAssumption DEF TypeOK
<1>2. tailer \in [Tailers -> Tailer] /\ \A t \in Tailers : tailer[t] \in Tailer
  BY DEF TypeOK, Tailer
<1>3. ASSUME UNCHANGED tailer, offset' \in Nat, offset' >= offset
      PROVE  \A t \in Tailers : TailInv(t)'
  BY <1>1, <1>2, <1>3 DEF TailInv, Tailer
<1>4. CASE Write(w)
  <2>1. UNCHANGED tailer
    BY <1>4 DEF Write, WriteBegins, WriteStores, WriteLoads, WriteIncrements
  <2>2. offset' = offset \/ offset' = offset + 1
    BY <1>4 DEF Write, WriteBegins, WriteStores, WriteLoads, WriteIncrements, RingInv
  <2>3. QED BY <1>1, <1>3, <2>1, <2>2
<1>5. CASE UnitExits \/ UNCHANGED vars
  BY <1>1, <1>3, <1>5 DEF UnitExits, vars
<1>6. ASSUME NEW t \in Tailers, TailBegins(t) \/ TailCloses(t) \/ Tailing(t)
      PROVE  \A v \in Tailers : TailInv(v)'
  <2>1. UNCHANGED <<buf, offset, writer>>
    BY <1>6 DEF TailBegins, TailCloses, Tailing, TailAsks, TailProbes,
                TailReads, TailCopies
  <2>2. ASSUME NEW v \in Tailers, v # t PROVE tailer'[v] = tailer[v]
    BY <1>2, <1>6, <2>2 DEF TailBegins, TailCloses, Tailing, TailAsks,
                TailProbes, TailReads, TailCopies
  <2>3. tailer[t] \in Tailer /\ TailInv(t)
    BY <1>2
  <2>4. TailInv(t)'
    <3>1. CASE TailBegins(t)
      BY <1>1, <1>2, <2>1, <3>1 DEF TailBegins, TailInv, Tailer
    <3>2. CASE TailCloses(t)
      BY <1>1, <1>2, <2>1, <2>3, <3>2 DEF TailCloses, TailInv, Tailer
    <3>3. CASE TailAsks(t)
      BY <1>1, <1>2, <2>1, <2>3, <3>3 DEF TailAsks, TailInv, Tailer
    <3>4. CASE TailProbes(t)
      BY <1>1, <1>2, <2>1, <2>3, <3>4 DEF TailProbes, TailInv, Tailer
    <3>5. CASE TailReads(t)
      BY <1>1, <1>2, <2>1, <2>3, <3>5 DEF TailReads, TailInv, Tailer, ReadStart
    <3>6. CASE TailCopies(t)
      <4>1. CASE tailer[t].pc = "copy"
        <5>1. /\ tailer'[t].pc = "copied" /\ tailer'[t].last = tailer[t].last
              /\ tailer'[t].i = tailer[t].i /\ tailer'[t].upto = tailer[t].upto
              /\ tailer'[t].half = buf[Slot(tailer[t].i)]
          BY <1>2, <3>6, <4>1 DEF TailCopies, Tailer
        <5>2. tailer[t].i \in Nat /\ tailer[t].i < offset
          BY <1>1, <2>3, <4>1 DEF TailInv, Tailer
        <5>3. tailer'[t].half = tailer[t].i \/ offset >= tailer[t].i + Capacity
          BY <1>1, <5>1, <5>2, LineIsThere
        <5>4. QED BY <2>1, <2>3, <4>1, <5>1, <5>3 DEF TailInv
      <4>2. CASE tailer[t].pc = "copied"
        <5>1. /\ tailer'[t].i = tailer[t].i + 1
              /\ tailer'[t].upto = tailer[t].upto
              /\ IF tailer[t].i + 1 < tailer[t].upto
                 THEN tailer'[t].pc = "copy" /\ tailer'[t].last = tailer[t].last
                 ELSE tailer'[t].pc = "tick" /\ tailer'[t].last = tailer[t].upto
          BY <1>2, <3>6, <4>2 DEF TailCopies, Tailer, NextOffset
        <5>2. QED BY <1>1, <2>1, <2>3, <4>2, <5>1 DEF TailInv, Tailer
      <4>3. QED BY <3>6, <4>1, <4>2 DEF TailCopies
    <3>7. QED BY <1>6, <3>1, <3>2, <3>3, <3>4, <3>5, <3>6 DEF Tailing
  <2>5. QED BY <2>1, <2>2, <2>4 DEF TailInv
<1>7. QED BY <1>4, <1>5, <1>6 DEF Next

\* Only its own steps move a tailer.
LEMMA OwnSteps ==
    ASSUME TypeOK, [Next]_vars, NEW t \in Tailers, tailer'[t] # tailer[t]
    PROVE  TailBegins(t) \/ TailCloses(t) \/ Tailing(t)
<1>1. tailer \in [Tailers -> Tailer]
  BY DEF TypeOK, Tailer
<1>2. ASSUME NEW v \in Tailers, v # t, TailBegins(v) \/ TailCloses(v) \/ Tailing(v)
      PROVE  tailer'[t] = tailer[t]
  BY <1>1, <1>2 DEF TailBegins, TailCloses, Tailing, TailAsks, TailProbes,
                    TailReads, TailCopies
<1>3. \/ UNCHANGED tailer
      \/ \E v \in Tailers : TailBegins(v) \/ TailCloses(v) \/ Tailing(v)
  BY DEF Next, vars, UnitExits, Write, WriteBegins, WriteStores, WriteLoads,
         WriteIncrements
<1>4. QED BY <1>2, <1>3

\* The oldest line a read can still deliver is the one it starts at.
LEMMA ReadStartsRight ==
    ASSUME NEW w, Writers = {w}, TypeOK, RingTypes, RingInv(w), AtRest,
           NEW t \in Tailers, TailInv(t),
           tailer[t].pc = "read", TailReads(t), tailer'[t].pc = "copy"
    PROVE  LET kept(p) == p < offset /\ buf[p % Capacity] = p IN
           /\ kept(tailer'[t].i)
           /\ \A p \in tailer[t].i .. tailer'[t].i - 1 : ~kept(p)
<1>1. Capacity \in Nat /\ Capacity > 0 /\ offset \in Nat
  BY CapacityAssumption DEF TypeOK
<1>2. tailer \in [Tailers -> Tailer] /\ tailer[t] \in Tailer
  BY DEF TypeOK, Tailer
<1> DEFINE i == tailer[t].i
           start == ReadStart(i)
<1>3. tailer[t].last = i /\ i \in Nat /\ i < offset /\ tailer'[t].i = start
  BY <1>1, <1>2 DEF TailReads, TailInv, Tailer
<1>4. writer[w].pc = "idle"
  BY DEF AtRest
<1>5. /\ start \in Nat /\ start < offset /\ offset <= start + Capacity
      /\ start = i \/ start = offset - Capacity
  BY <1>1, <1>3 DEF ReadStart
<1>6. buf[start % Capacity] = start
  <2> HIDE DEF start
  <2>1. Kept(w, start)
    BY <1>1, <1>4, <1>5 DEF Kept
  <2>2. QED BY <1>5, <2>1 DEF RingInv, Slot
<1>7. ASSUME NEW p \in i .. start - 1
      PROVE  buf[p % Capacity] # p
  <2>1. p \in Nat /\ p < offset /\ p + Capacity < offset
    BY <1>1, <1>3, <1>5
  <2>2. PICK q \in Nat : q < offset /\ offset <= q + Capacity /\ Slot(q) = Slot(p)
    BY <1>1, <2>1, NewestInSlot
  <2>3. Kept(w, q)
    BY <1>1, <1>4, <2>2 DEF Kept
  <2>4. buf[Slot(q)] = q /\ q # p
    BY <1>1, <2>1, <2>2, <2>3 DEF RingInv
  <2>5. QED BY <2>2, <2>4 DEF Slot
<1> HIDE DEF start
<1>8. QED BY <1>3, <1>5, <1>6, <1>7 DEF i

\* The invariants of a buffer with one writer together.
LogInv(w) ==
    /\ TypeOK
    /\ RingTypes
    /\ RingInv(w)
    /\ \A t \in Tailers : TailInv(t)

LEMMA LogInvariance ==
    ASSUME NEW w, Writers = {w}
    PROVE  Spec => []LogInv(w)
<1>1. Init => RingTypes /\ RingInv(w)
  BY RingInit
<1>2. (RingTypes /\ RingInv(w)) /\ [Next]_vars => (RingTypes /\ RingInv(w))'
  BY RingStep
<1>3. Init => \A t \in Tailers : TailInv(t)
  BY DEF Init, TailInv
<1>4. TypeOK /\ (RingTypes /\ RingInv(w)) /\ (\A t \in Tailers : TailInv(t))
        /\ [Next]_vars => (\A t \in Tailers : TailInv(t))'
  BY TailStep
<1>5. TypeOK /\ (RingTypes /\ RingInv(w)) /\ (\A t \in Tailers : TailInv(t))
        => LogInv(w)
  BY DEF LogInv
<1>6. QED BY <1>1, <1>2, <1>3, <1>4, <1>5, LogTypeCorrect, PTL DEF Spec

\* With one writer that runs as it likes, a read that finds the writer at rest
\* starts at the oldest line it can still deliver, and a line reaches the
\* client whole unless the writer is a buffer ahead (logbuf.go:133-153): for
\* every capacity, any number of lines and any number of tailers.
THEOREM LinesAreDelivered ==
    ASSUME NEW w, Writers = {w}
    PROVE  Spec => DeliversTheLineOrIsLapped
<1> DEFINE
      Starts(t) ==
        AtRest /\ tailer[t].pc = "read" /\ tailer'[t].pc = "copy" =>
            LET kept(p) == p < offset /\ buf[p % Capacity] = p IN
            /\ kept(tailer'[t].i)
            /\ \A p \in tailer[t].i .. tailer'[t].i - 1 : ~kept(p)
      Delivers(t) ==
        tailer'[t].i = tailer[t].i + 1 /\ tailer[t].pc = "copied" =>
            \/ tailer'[t].got = tailer[t].i
            \/ offset >= tailer[t].i + Capacity
<1>1. ASSUME LogInv(w), [Next]_vars, NEW t \in Tailers
      PROVE  Starts(t) /\ Delivers(t)
  <2>1. /\ TypeOK /\ RingTypes /\ RingInv(w) /\ TailInv(t)
        /\ Capacity \in Nat /\ Capacity > 0 /\ offset \in Nat
    BY <1>1, CapacityAssumption DEF LogInv, TypeOK
  <2>2. tailer \in [Tailers -> Tailer] /\ tailer[t] \in Tailer
    BY <2>1 DEF TypeOK, Tailer
  <2>4. CASE tailer'[t] = tailer[t]
    BY <2>2, <2>4 DEF Tailer
  <2>5. CASE tailer'[t] # tailer[t]
    <3>1. TailBegins(t) \/ TailCloses(t) \/ Tailing(t)
      BY <1>1, <2>1, <2>5, OwnSteps
    <3>2. Starts(t)
      <4> SUFFICES ASSUME AtRest, tailer[t].pc = "read", tailer'[t].pc = "copy"
                   PROVE  Starts(t)
        OBVIOUS
      <4>1. TailReads(t)
        BY <3>1 DEF TailBegins, TailCloses, Tailing, TailAsks, TailProbes,
                    TailCopies
      <4>2. QED BY <2>1, <4>1, ReadStartsRight
    <3>3. Delivers(t)
      <4> SUFFICES ASSUME tailer[t].pc = "copied", offset < tailer[t].i + Capacity
                   PROVE  tailer'[t].got = tailer[t].i
        BY <2>1, <2>2 DEF Tailer
      <4>1. TailCopies(t)
        BY <3>1 DEF TailBegins, TailCloses, Tailing, TailAsks, TailProbes,
                    TailReads
      <4>2. /\ tailer[t].half = tailer[t].i
            /\ tailer[t].i \in Nat /\ tailer[t].i < offset
        BY <2>1, <2>2 DEF TailInv, Tailer
      <4>3. buf[Slot(tailer[t].i)] = tailer[t].i
        BY <2>1, <4>2, LineIsThere
      <4>4. QED BY <2>2, <4>1, <4>2, <4>3 DEF TailCopies, Tailer
    <3>4. QED BY <3>2, <3>3
  <2>6. QED BY <2>4, <2>5
<1>2. LogInv(w) /\ [Next]_vars =>
        [\A t \in Tailers :
           /\ AtRest /\ tailer[t].pc = "read" /\ tailer'[t].pc = "copy" =>
              LET kept(p) == p < offset /\ buf[p % Capacity] = p IN
              /\ kept(tailer'[t].i)
              /\ \A p \in tailer[t].i .. tailer'[t].i - 1 : ~kept(p)
           /\ tailer'[t].i = tailer[t].i + 1 /\ tailer[t].pc = "copied" =>
              \/ tailer'[t].got = tailer[t].i
              \/ offset >= tailer[t].i + Capacity]_vars
  BY <1>1
<1>3. QED BY <1>2, LogInvariance, PTL DEF Spec, DeliversTheLineOrIsLapped

\* With one writer a tailer that ends has delivered everything that is in the
\* log when it ends (server.go:304-310).
THEOREM TailersReachTheEnd ==
    ASSUME NEW w, Writers = {w}
    PROVE  Spec => EndsAfterTheLastLine
<1>1. ASSUME LogInv(w), [Next]_vars, NEW t \in Tailers,
             tailer[t].pc # "end", tailer'[t].pc = "end"
      PROVE  tailer[t].i = offset
  <2>1. /\ TailInv(t) /\ offset \in Nat
        /\ tailer \in [Tailers -> Tailer] /\ tailer[t] \in Tailer
    BY <1>1 DEF LogInv, TypeOK, Tailer
  <2>2. TailProbes(t)
    <3>1. TypeOK /\ tailer'[t] # tailer[t]
      BY <1>1 DEF LogInv
    <3>2. TailBegins(t) \/ TailCloses(t) \/ Tailing(t)
      BY <1>1, <3>1, OwnSteps
    <3>3. QED BY <1>1, <2>1, <3>2
              DEF TailBegins, TailCloses, Tailing, TailAsks, TailReads,
                  TailCopies, Tailer
  <2>3. tailer[t].last >= offset
    BY <1>1, <2>1, <2>2 DEF TailProbes, Tailer
  <2>4. QED BY <2>1, <2>2, <2>3 DEF TailInv, TailProbes, Tailer
<1>2. LogInv(w) /\ [Next]_vars =>
        [\A t \in Tailers :
           tailer[t].pc # "end" /\ tailer'[t].pc = "end" => tailer[t].i = offset]_vars
  BY <1>1
<1>3. QED BY <1>2, LogInvariance, PTL DEF Spec, EndsAfterTheLastLine

===============================================================================
