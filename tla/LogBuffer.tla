------------------------------ MODULE LogBuffer ------------------------------
(***************************************************************************)
(* The log of a unit: the ring buffer of pkg/logbuf/logbuf.go, which the   *)
(* goroutines that read the unit's pipes write without a lock, and the     *)
(* tailers of pkg/server/server.go that follow it.                         *)
(*                                                                         *)
(* Every load and store of the shared offset and every access to a slot is *)
(* a step of its own. The lines of a writer are numbered from 0.           *)
(***************************************************************************)
EXTENDS Integers, Sequences

CONSTANTS
    Writers,        \* the goroutines that read stdout and stderr
    Tailers,        \* the clients that follow the log
    Capacity,       \* logBuffSize
    MaxLines        \* bound: lines of a writer

ASSUME CapacityAssumption == Capacity \in Nat \ {0}
ASSUME LinesAssumption == MaxLines \in Nat

VARIABLES
    buf,            \* slots 0 .. Capacity - 1
    offset,         \* lb.offset
    writer,         \* per writer: [pc, line, loc, tmp]
    tailer,         \* per tailer: [pc, last, i, upto, half, got]
    unitRunning     \* UnitRunning: RunningUnits has the unit

vars == <<buf, offset, writer, tailer, unitRunning>>

\* What a slot holds before it is written, and a mix of two entries.
Nothing == -1
Torn == -2

Least(a, b) == IF a <= b THEN a ELSE b

-------------------------------------------------------------------------------
(* Write, called with one line after the other.                            *)

\* bufLoc := lb.offset % lb.capacity. (Mutants: no wrap, one slot less.)
Slot_NoWrap(i) == i
Slot_OneLess(i) == IF Capacity = 1 THEN 0 ELSE i % (Capacity - 1)
Slot(i) == i % Capacity

WriteBegins(w) ==
    /\ writer[w].pc = "idle"
    /\ writer[w].line < MaxLines
    /\ writer' = [writer EXCEPT ![w].pc = "store", ![w].loc = Slot(offset)]
    /\ UNCHANGED <<buf, offset, tailer, unitRunning>>

\* An entry is several words: between the two steps it is part old, part new.
WriteStores(w) ==
    /\ \/ /\ writer[w].pc = "store"
          /\ buf' = [buf EXCEPT ![writer[w].loc] = Torn]
          /\ writer' = [writer EXCEPT ![w].pc = "stored"]
       \/ /\ writer[w].pc = "stored"
          /\ buf' = [buf EXCEPT ![writer[w].loc] = writer[w].line]
          /\ writer' = [writer EXCEPT ![w].pc = "load"]
    /\ UNCHANGED <<offset, tailer, unitRunning>>

\* lb.offset++ is a load and a store.
WriteLoads(w) ==
    /\ writer[w].pc = "load"
    /\ writer' = [writer EXCEPT ![w].pc = "increment", ![w].tmp = offset]
    /\ UNCHANGED <<buf, offset, tailer, unitRunning>>

WriteIncrements(w) ==
    /\ writer[w].pc = "increment"
    /\ offset' = writer[w].tmp + 1
    /\ writer' = [writer EXCEPT ![w].pc = "idle", ![w].line = @ + 1]
    /\ UNCHANGED <<buf, tailer, unitRunning>>

Write(w) ==
    \/ WriteBegins(w)
    \/ WriteStores(w)
    \/ WriteLoads(w)
    \/ WriteIncrements(w)

\* The helper exits. The pipe may still hold lines that the writers read later.
UnitExits ==
    /\ unitRunning
    /\ unitRunning' = FALSE
    /\ UNCHANGED <<buf, offset, writer, tailer>>

-------------------------------------------------------------------------------
(* Read(n), while nobody writes.                                           *)

\* n is 0 for all lines, and too large an n means the same.
ReadCount(n) ==
    IF n = 0 \/ n > Capacity \/ n > offset THEN Least(Capacity, offset) ELSE n

\* The i-th entry of the result, from the newest backwards. (Mutant: the index
\* starts one too low.)
ReadSlot_OneBack(i) == Slot(offset - i + 1)
ReadSlot(i) == Slot(offset - i)

Read(n) ==
    LET count == ReadCount(n) IN
    [j \in 1 .. count |-> buf[ReadSlot(count - j + 1)]]

-------------------------------------------------------------------------------
(* ReadSince and the tailers that poll with it.                            *)

\* Where ReadSince(i) starts: it skips what is more than the capacity behind.
ReadStart(i) == IF i + Capacity < offset THEN offset - Capacity ELSE i

\* The offset ReadSince returns with its entries. (Mutant: where it began.)
NextOffset_Begin(t) == tailer[t].last
NextOffset(t) == tailer[t].upto

\* A tailer follows the log from now on.
TailBegins(t) ==
    /\ tailer[t].pc = "new"
    /\ tailer' = [tailer EXCEPT ![t].pc = "tick", ![t].last = offset, ![t].i = offset]
    /\ UNCHANGED <<buf, offset, writer, unitRunning>>

\* The client goes away, or the entries cannot be sent to it.
TailCloses(t) ==
    /\ tailer[t].pc = "tick"
    /\ tailer' = [tailer EXCEPT ![t].pc = "closed"]
    /\ UNCHANGED <<buf, offset, writer, unitRunning>>

\* A tick: UnitRunning is asked first.
TailAsks(t) ==
    /\ tailer[t].pc = "tick"
    /\ tailer' = [tailer EXCEPT ![t].pc = IF unitRunning THEN "read" ELSE "probe"]
    /\ UNCHANGED <<buf, offset, writer, unitRunning>>

\* The first ReadSince after the unit stopped only tells whether there is more.
\* Without anything new the tailer ends. (Mutant: its offset is kept, so that
\* the second one finds nothing.)
TailProbes_KeepsOffset(t) ==
    /\ tailer[t].pc = "probe"
    /\ tailer' = IF tailer[t].last >= offset
                 THEN [tailer EXCEPT ![t].pc = "end"]
                 ELSE [tailer EXCEPT ![t].pc = "read", ![t].last = offset]
    /\ UNCHANGED <<buf, offset, writer, unitRunning>>

TailProbes(t) ==
    /\ tailer[t].pc = "probe"
    /\ tailer' = [tailer EXCEPT ![t].pc =
                    IF tailer[t].last >= offset THEN "end" ELSE "read"]
    /\ UNCHANGED <<buf, offset, writer, unitRunning>>

\* ReadSince loads the offset.
TailReads(t) ==
    /\ tailer[t].pc = "read"
    /\ tailer' = IF tailer[t].last >= offset
                 THEN [tailer EXCEPT ![t].pc = "tick", ![t].last = offset]
                 ELSE [tailer EXCEPT ![t].pc = "copy", ![t].upto = offset,
                                     ![t].i = ReadStart(tailer[t].last)]
    /\ UNCHANGED <<buf, offset, writer, unitRunning>>

\* The words of an entry are copied one by one: an entry that is written in
\* between is torn. After the last entry the entries go to the client.
TailCopies(t) ==
    LET line == buf[Slot(tailer[t].i)]
        more == tailer[t].i + 1 < tailer[t].upto IN
    /\ \/ /\ tailer[t].pc = "copy"
          /\ tailer' = [tailer EXCEPT ![t].pc = "copied", ![t].half = line]
       \/ /\ tailer[t].pc = "copied"
          /\ tailer' = [tailer EXCEPT
                ![t].i = @ + 1,
                ![t].got = IF tailer[t].half = line THEN line ELSE Torn,
                ![t].half = Nothing,
                ![t].last = IF more THEN @ ELSE NextOffset(t),
                ![t].pc = IF more THEN "copy" ELSE "tick"]
    /\ UNCHANGED <<buf, offset, writer, unitRunning>>

Tailing(t) ==
    \/ TailAsks(t)
    \/ TailProbes(t)
    \/ TailReads(t)
    \/ TailCopies(t)

-------------------------------------------------------------------------------

Init ==
    /\ buf = [s \in 0 .. Capacity - 1 |-> Nothing]
    /\ offset = 0
    /\ writer = [w \in Writers |-> [pc |-> "idle", line |-> 0, loc |-> 0, tmp |-> 0]]
    /\ tailer = [t \in Tailers |-> [pc |-> "new", last |-> 0, i |-> 0, upto |-> 0,
                                    half |-> Nothing, got |-> Nothing]]
    /\ unitRunning = TRUE

Next ==
    \/ \E w \in Writers : Write(w)
    \/ UnitExits
    \/ \E t \in Tailers : TailBegins(t) \/ TailCloses(t) \/ Tailing(t)

Spec == Init /\ [][Next]_vars

\* A tailer that began polls at every tick. A unit may never log or exit.
Fairness == \A t \in Tailers : WF_vars(Tailing(t))

FairSpec == Spec /\ Fairness

-------------------------------------------------------------------------------
(* Properties. The ones about lines are for one writer, whose line n is    *)
(* the one at offset n.                                                    *)

Entries == -2 .. MaxLines - 1

TypeOK ==
    /\ buf \in [0 .. Capacity - 1 -> Entries]
    /\ offset \in Nat
    /\ writer \in [Writers -> [pc : {"idle", "store", "stored", "load", "increment"},
                               line : 0 .. MaxLines, loc : 0 .. Capacity - 1,
                               tmp : Nat]]
    /\ tailer \in [Tailers -> [pc : {"new", "tick", "read", "probe", "copy",
                                     "copied", "end", "closed"},
                               last : Nat, i : Nat, upto : Nat,
                               half : Entries, got : Entries]]
    /\ unitRunning \in BOOLEAN

AtRest == \A w \in Writers : writer[w].pc = "idle"

\* While nobody writes, Read(n) returns the newest n lines, oldest first: all
\* lines for 0, and as many as there are or as the buffer keeps when n is
\* larger, whatever wrapped around (logbuf.go:101-121).
ReadReturnsNewest ==
    AtRest =>
        \A n \in 0 .. Capacity + 1 :
            LET kept == Least(Capacity, offset)
                count == IF n = 0 THEN kept ELSE Least(n, kept) IN
            Read(n) = [j \in 1 .. count |-> offset - count + j - 1]

\* A read goes on at the oldest line that the tailer has not delivered and the
\* buffer still has (logbuf.go:137-139), and what a tailer delivers for an offset
\* is the line that was written there, whole, unless the writer is a full buffer
\* ahead of it by then: without a lock only slow tailers see wrong lines
\* (logbuf.go:57-58,145-153).
DeliversTheLineOrIsLapped ==
    [][\A t \in Tailers :
         /\ AtRest /\ tailer[t].pc = "read" /\ tailer'[t].pc = "copy" =>
            LET kept(p) == p < offset /\ buf[p % Capacity] = p IN
            /\ kept(tailer'[t].i)
            /\ \A p \in tailer[t].i .. tailer'[t].i - 1 : ~kept(p)
         /\ tailer'[t].i = tailer[t].i + 1 /\ tailer[t].pc = "copied" =>
            \/ tailer'[t].got = tailer[t].i
            \/ offset >= tailer[t].i + Capacity]_vars

\* A tailer ends only when it has delivered the log up to the end: "go through
\* one more time and grab the last of hte data" (server.go:304-310).
EndsAfterTheLastLine ==
    [][\A t \in Tailers :
         tailer[t].pc # "end" /\ tailer'[t].pc = "end" => tailer[t].i = offset]_vars

\* When the unit has stopped, a tailer ends, however far behind it is.
TailersEnd ==
    \A t \in Tailers :
        ~unitRunning /\ tailer[t].pc # "new" ~> tailer[t].pc \in {"end", "closed"}

===============================================================================
