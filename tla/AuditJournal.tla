---------------------------- MODULE AuditJournal ----------------------------
(***************************************************************************)
(* The audit journal (runtime/audit): hash-chained lines in an open file   *)
(* and, before it, closed segments.  Writers take a kernel lock, finish a  *)
(* close that was interrupted, close the open file when its day is over,   *)
(* and chain one line onto the last.  Readers take no lock.  A writer may  *)
(* die between any two writes and inside one; a line may also be changed   *)
(* or removed by a hand outside the program, which `audit verify` is there *)
(* to find and `audit epoch` to get past.                                  *)
(*                                                                         *)
(* The hash of a line is a number no other line has: no two inputs of      *)
(* SHA-256 collide.  A segment's length in bytes is its number of lines.   *)
(***************************************************************************)
EXTENDS Integers, SequencesExt

CONSTANTS
  Writers,    \* processes that append, rotate or start an epoch
  Readers,    \* processes that read or verify
  MaxLines,   \* bound on the lines written
  MaxDay,     \* bound on the UTC days that pass
  None

ASSUME JournalAssumption == MaxLines \in Nat /\ MaxDay \in Nat /\ None \notin Writers

VARIABLES
  segs,      \* the closed segments, oldest first
  open,      \* the lines of the open file; absent and empty are alike
  day,       \* the UTC day
  lock,      \* the writer the kernel gave the append lock to
  writer,    \* where each writer is
  reader,    \* where each reader is, and what it opened
  written,   \* hashes given out
  acked,     \* history: the hashes of the entries whose append returned
  tampered   \* history: whether somebody changed or removed a line

vars == <<segs, open, day, lock, writer, reader, written, acked, tampered>>

Ops == {"append", "rotate", "epoch"}
Idle == [at |-> "idle", op |-> None, line |-> None]

Init ==
  /\ segs = <<>> /\ open = <<>> /\ day = 0 /\ lock = None
  /\ writer = [w \in Writers |-> Idle]
  /\ reader = [r \in Readers |-> [at |-> "idle", listed |-> 0, file |-> 0, began |-> {}, saw |-> <<>>]]
  /\ written = 0 /\ acked = {} /\ tampered = FALSE

-----------------------------------------------------------------------------
(* Reading: the lines, their hashes and the report of `audit verify`.      *)

Files == Append(segs, open)
Whole(line) == ~line.torn
Lines == FlattenSeq(Files)
Hashes(lines) == [i \in DOMAIN lines |-> lines[i].hash]

\* A place is a file and a line of it; every walk comes to them in this order.
Places == UNION {{k} \X DOMAIN Files[k] : k \in DOMAIN Files}
LineAt(p) == Files[p[1]][p[2]]
Precedes(p, q) == p[1] < q[1] \/ (p[1] = q[1] /\ p[2] < q[2])
LastOf(places) == CHOOSE p \in places : \A q \in places : q = p \/ Precedes(q, p)

\* The hash of the last line, which a writer has found to be an entry, or the
\* empty hash.
LastHash(lines) == IF lines = <<>> THEN 0 ELSE Last(lines).hash

\* A file whose last line is not an entry cannot be appended to.
EndsTorn(lines) == lines # <<>> /\ ~Whole(Last(lines))

\* What the next line chains onto: the open file's last hash, else the last
\* closed segment's, else the empty hash.
TailHash ==
  IF open # <<>> THEN LastHash(open)
  ELSE IF segs # <<>> THEN LastHash(Last(segs)) ELSE 0

\* The last `limit` lines, read backwards file by file.
TailLines(limit) ==
  LET walk[k \in 0..Len(Files)] ==   \* after reading the last k files
        IF k = 0 THEN <<>>
        ELSE LET file == Files[Len(Files) - k + 1]
                 wanted == limit - Len(walk[k - 1])
                 taken == IF wanted < Len(file) THEN wanted ELSE Len(file)
             IN SubSeq(file, Len(file) - taken + 1, Len(file)) \o walk[k - 1]
  IN walk[Len(Files)]

\* The hash the walk holds when it comes to line i of file k: that of the last
\* entry before it, or the empty hash.
Before(k, i) ==
  LET entries == {p \in Places : Precedes(p, <<k, i>>) /\ Whole(LineAt(p))}
  IN IF entries = {} THEN 0 ELSE LineAt(LastOf(entries)).hash

\* The first line of a segment closes the one before it: its name, its
\* length and its last hash; no other line closes one.
SegmentLinked(k, i) ==
  LET line == Files[k][i]
  IN IF i = 1 /\ k > 1
     THEN line.op = "closed" /\ line.about = [seg |-> k - 1, bytes |-> Len(Files[k - 1]), last |-> Before(k, i)]
     ELSE line.op # "closed"

\* A line names its predecessor; an epoch's line restarts the chain with a
\* signed checkpoint of it.
Linked(k, i) ==
  LET line == Files[k][i]
  IN IF line.op = "epoch" THEN line.prev = 0 /\ line.about = Before(k, i)
     ELSE line.prev = Before(k, i)

\* Whether `audit verify` reports no fault.
Intact ==
  /\ \A k \in 1..Len(segs) : segs[k] # <<>>
  /\ \A k \in 1..Len(Files) : \A i \in 1..Len(Files[k]) :
       /\ Whole(Files[k][i])
       /\ SegmentLinked(k, i)
       /\ Linked(k, i)
       /\ ~Files[k][i].edited

-----------------------------------------------------------------------------
(* Writing, under the append lock.                                         *)

Line(op, prev, about) ==
  [hash |-> written + 1, prev |-> prev, op |-> op, about |-> about, day |-> day,
   torn |-> TRUE, edited |-> FALSE]

\* Ask for an operation.  An epoch asks `audit verify` first, without a lock.
Ask(w, op) ==
  /\ writer[w].at = "idle" /\ written < MaxLines
  /\ op = "epoch" => ~Intact
  /\ writer' = [writer EXCEPT ![w] = [at |-> "waits", op |-> op, line |-> None]]
  /\ UNCHANGED <<segs, open, day, lock, reader, written, acked, tampered>>

\* The kernel gives the lock to one waiting process at a time.
Locked(w) ==
  /\ writer[w].at = "waits" /\ lock = None
  /\ lock' = w
  /\ writer' = [writer EXCEPT ![w].at = "finish"]
  /\ UNCHANGED <<segs, open, day, reader, written, acked, tampered>>

Leave(w) == lock' = None /\ writer' = [writer EXCEPT ![w] = Idle]

\* A journal that ends with a torn line is refused by every writer.
Refuse(w) ==
  /\ writer[w].at = "finish" /\ EndsTorn(IF open = <<>> /\ segs # <<>> THEN Last(segs) ELSE open)
  /\ Leave(w)
  /\ UNCHANGED <<segs, open, day, reader, written, acked, tampered>>

Closing == Line("closed", LastHash(Last(segs)),
                [seg |-> Len(segs), bytes |-> Len(Last(segs)), last |-> LastHash(Last(segs))])

\* A line is under way: part of it is in the file.
Put(w, line, then) ==
  /\ open' = Append(open, line)
  /\ written' = written + 1
  /\ writer' = [writer EXCEPT ![w].at = "writing", ![w].line = then]

\* Mutant: an interrupted close is not finished.
FinishNothing(w) ==
  /\ writer[w].at = "finish" /\ writer' = [writer EXCEPT ![w].at = "close"]
  /\ UNCHANGED <<segs, open, day, lock, reader, written, acked, tampered>>

\* The open file holds no entry but a closed segment exists: the close before
\* stopped after its rename, and its line is written now.
FinishClose(w) ==
  /\ writer[w].at = "finish" /\ ~EndsTorn(IF open = <<>> /\ segs # <<>> THEN Last(segs) ELSE open)
  /\ \/ /\ open = <<>> /\ segs # <<>>
        /\ Put(w, Closing, "close")
     \/ /\ open # <<>> \/ segs = <<>>
        /\ writer' = [writer EXCEPT ![w].at = "close"]
        /\ UNCHANGED <<open, written>>
  /\ UNCHANGED <<segs, day, lock, reader, acked, tampered>>

\* The open file began on an earlier day, by its first line that says so.
Due == \E i \in 1..Len(open) : /\ Whole(open[i]) /\ open[i].day < day
                               /\ \A j \in 1..(i - 1) : ~Whole(open[j])

OnlyClosing == Len(open) = 1 /\ Whole(open[1]) /\ open[1].op = "closed"

\* What closes the open file: `audit rotate` unless nothing but the line that
\* closed the segment before is there, an append or an epoch on a new day.
Closes(op) == IF op = "rotate" THEN open # <<>> /\ ~OnlyClosing ELSE Due

\* The open file is renamed to the next number.
Rename(w) ==
  /\ writer[w].at = "close" /\ Closes(writer[w].op)
  /\ segs' = Append(segs, open)
  /\ open' = <<>>
  /\ writer' = [writer EXCEPT ![w].at = "name"]
  /\ UNCHANGED <<day, lock, reader, written, acked, tampered>>

\* Mutant: a close that fails takes the segment with it.
CloseFailsDropped(w) ==
  /\ writer[w].at = "name"
  /\ Leave(w)
  /\ segs' = Front(segs)
  /\ UNCHANGED <<open, day, reader, written, acked, tampered>>

\* Making the segment read-only or syncing the directories fails: the close
\* ends between its rename and its line.
CloseFails(w) ==
  /\ writer[w].at = "name"
  /\ Leave(w)
  /\ UNCHANGED <<segs, open, day, reader, written, acked, tampered>>

\* The line that names the segment just closed.
Name(w) ==
  /\ writer[w].at = "name"
  /\ Put(w, Closing, "chain")
  /\ UNCHANGED <<segs, day, lock, reader, acked, tampered>>

\* `audit rotate` with nothing to close.
NothingToClose(w) ==
  /\ writer[w].at = "close" /\ writer[w].op = "rotate" /\ ~Closes("rotate")
  /\ Leave(w)
  /\ UNCHANGED <<segs, open, day, reader, written, acked, tampered>>

\* The entry itself, chained onto the tail, or a new chain that names it.
Chain(w) ==
  /\ \/ writer[w].at = "chain"
     \/ writer[w].at = "close" /\ ~Closes(writer[w].op)
  /\ writer[w].op \in {"append", "epoch"}
  /\ IF writer[w].op = "append" THEN Put(w, Line("entry", TailHash, None), "done")
     ELSE Put(w, Line("epoch", 0, TailHash), "done")
  /\ UNCHANGED <<segs, day, lock, reader, acked, tampered>>

\* The rest of the line is written and synced; an operation with nothing left
\* to do returns.
Written(w) ==
  /\ writer[w].at = "writing"
  /\ open' = [open EXCEPT ![Len(open)].torn = FALSE]
  /\ IF writer[w].line = "done" \/ (writer[w].line = "chain" /\ writer[w].op = "rotate")
     THEN /\ Leave(w)
          /\ acked' = IF writer[w].line = "done" THEN acked \cup {Last(open).hash} ELSE acked
     ELSE /\ writer' = [writer EXCEPT ![w].at = writer[w].line, ![w].line = None]
          /\ UNCHANGED <<lock, acked>>
  /\ UNCHANGED <<segs, day, reader, written, tampered>>

\* A writer dies; the kernel releases its lock, and a line under way stays cut.
Die(w) ==
  /\ lock = w
  /\ Leave(w)
  /\ UNCHANGED <<segs, open, day, reader, written, acked, tampered>>

-----------------------------------------------------------------------------
(* Readers: list the closed segments, open every file, list again.         *)

File(k) == IF k = 0 THEN <<>> ELSE IF k <= Len(segs) THEN segs[k] ELSE open

List(r) ==
  /\ reader[r].at = "idle"
  /\ reader' = [reader EXCEPT ![r].at = "listed", ![r].listed = Len(segs), ![r].began = acked]
  /\ UNCHANGED <<segs, open, day, lock, writer, written, acked, tampered>>

\* The open file's handle stays with the file when it is renamed.
OpenFiles(r) ==
  /\ reader[r].at = "listed"
  /\ reader' = [reader EXCEPT ![r].at = "opened", ![r].file = IF open = <<>> THEN 0 ELSE Len(segs) + 1]
  /\ UNCHANGED <<segs, open, day, lock, writer, written, acked, tampered>>

\* Mutant: the segments are listed once.
ListedOnce(r) == TRUE

ListedAgain(r) == Len(segs) = reader[r].listed

\* The second listing agrees, or it starts again.
Agree(r) ==
  /\ reader[r].at = "opened"
  /\ IF ListedAgain(r) THEN reader' = [reader EXCEPT ![r].at = "agreed"]
     ELSE reader' = [reader EXCEPT ![r].at = "listed", ![r].listed = Len(segs), ![r].file = 0]
  /\ UNCHANGED <<segs, open, day, lock, writer, written, acked, tampered>>

\* The files it opened are read to their end, each as it is by then.
Read(r) ==
  /\ reader[r].at = "agreed"
  /\ reader' = [reader EXCEPT ![r].at = "done",
       ![r].saw = [k \in 1..reader[r].listed + 1 |->
                     Hashes(IF k <= reader[r].listed THEN segs[k] ELSE File(reader[r].file))]]
  /\ UNCHANGED <<segs, open, day, lock, writer, written, acked, tampered>>

-----------------------------------------------------------------------------
(* The world: days pass, and hands outside the program touch the files.    *)

NextDay ==
  /\ day < MaxDay /\ day' = day + 1
  /\ UNCHANGED <<segs, open, lock, writer, reader, written, acked, tampered>>

Touch(k, file) ==
  IF k <= Len(segs) THEN segs' = [segs EXCEPT ![k] = file] /\ UNCHANGED open
  ELSE open' = file /\ UNCHANGED segs

\* A line some other line follows is removed, or rewritten with a hash that
\* fits it; any line is edited and keeps its hash.
Tamper ==
  /\ ~tampered /\ lock = None
  /\ \E k \in 1..Len(Files) : \E i \in 1..Len(Files[k]) :
       LET file == Files[k]
           followed == i < Len(file) \/ \E m \in (k + 1)..Len(Files) : Files[m] # <<>>
       IN /\ Whole(file[i])
          /\ \/ followed /\ Touch(k, SubSeq(file, 1, i - 1) \o SubSeq(file, i + 1, Len(file)))
             \/ followed /\ Touch(k, [file EXCEPT ![i].hash = -file[i].hash])
             \/ Touch(k, [file EXCEPT ![i].edited = TRUE])
  /\ tampered' = TRUE
  /\ UNCHANGED <<day, lock, writer, reader, written, acked>>

Next ==
  \/ \E w \in Writers :
       \/ \E op \in Ops : Ask(w, op)
       \/ Locked(w) \/ Refuse(w) \/ FinishClose(w) \/ Rename(w) \/ CloseFails(w)
       \/ Name(w) \/ NothingToClose(w) \/ Chain(w) \/ Written(w) \/ Die(w)
  \/ \E r \in Readers : List(r) \/ OpenFiles(r) \/ Agree(r) \/ Read(r)
  \/ NextDay
  \/ Tamper

Spec == Init /\ [][Next]_vars

-----------------------------------------------------------------------------
(* Properties.                                                             *)

\* Well-formedness: one line at most is under way and it is the lock owner's,
\* no closed segment is empty, and hashes are given out once.
JournalTypeOK ==
  /\ day \in 0..MaxDay /\ written \in Nat /\ lock \in Writers \cup {None}
  /\ \A w \in Writers : writer[w].at \notin {"idle", "waits"} => lock = w
  /\ \A k \in 1..Len(segs) : segs[k] # <<>> \/ tampered
  /\ \A p, q \in Places : LineAt(p).hash = LineAt(q).hash => p = q
  /\ acked \subseteq 1..written

\* What the program writes, verify accepts: through interrupted closes, days
\* that pass and writers that race for the lock, in every state a reader can
\* meet except while a line is half written (audit verify, chain_report).
WrittenIsIntact ==
  ~tampered /\ (\A p \in Places : Whole(LineAt(p))) => Intact

\* What hands outside the program change, verify reports, then and after any
\* later append, rotation or epoch (audit verify, chain_report).
TamperIsFound == tampered => ~Intact

\* The chain is neither too strict nor too lax: what append, close_segment and a
\* finished close left is accepted, and what somebody else changed is not.
JournalSound == JournalTypeOK /\ WrittenIsIntact /\ TamperIsFound

\* A reader without a lock gets every entry acknowledged before it began, and
\* what it gets is the journal as it stands from its first line, each line
\* once, though segments close under it (segments::snapshot).
ReaderSeesAll ==
  \A r \in Readers : reader[r].at = "done" /\ ~tampered =>
    LET saw == reader[r].saw
    IN /\ \A h \in reader[r].began : \E k \in DOMAIN saw : Contains(saw[k], h)
       /\ Len(saw) <= Len(Files)
       /\ \A k \in DOMAIN saw :
            /\ IsPrefix(saw[k], Hashes(Files[k]))
            /\ k < Len(saw) => saw[k] = Hashes(Files[k])

\* Reading the end backwards through the files gives the end (tail_lines).
TailIsEnd ==
  \A limit \in 1..Len(Lines) :
    TailLines(limit) = SubSeq(Lines, Len(Lines) - limit + 1, Len(Lines))

\* Neither reader of the segments misses a line or meets one twice.
ReadersSeeAll == ReaderSeesAll /\ TailIsEnd

\* The entries in the order of their places, by hash.
EntryPlaces == {p \in Places : LineAt(p).op # "closed" /\ Whole(LineAt(p))}
Nth(places, n) == CHOOSE p \in places : Cardinality({q \in places : q = p \/ Precedes(q, p)}) = n
EntryHashes ==
  LET places == EntryPlaces IN [n \in 1..Cardinality(places) |-> LineAt(Nth(places, n)).hash]

\* The journal is an append-only log: closing, naming and reading segments are
\* invisible, and no entry is lost, moved or repeated (append, close_segment).
Log == INSTANCE AuditLog WITH Entries <- Nat, log <- EntryHashes, trusted <- ~tampered
LogSpec == Log!Spec
=============================================================================
