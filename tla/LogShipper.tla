----------------------------- MODULE LogShipper -----------------------------
(***************************************************************************)
(* The agent's log collector.  A task per container of a name follows      *)
(* Docker's log, buffers lines and posts batches to ClickHouse; a cursor   *)
(* per name, in memory and in a file, holds the greatest timestamp that    *)
(* was shipped, and a new task passes over the lines up to it.             *)
(*                                                                         *)
(* The lines and tasks of one name are modelled, whose containers follow   *)
(* each other.  Of the others what matters is that all cursors are in one  *)
(* file, which is written anew whenever one of them goes on.               *)
(***************************************************************************)
EXTENDS LogsConfig, Sequences, SequencesExt, FiniteSetsExt

CONSTANTS
    MaxIds,          \* bound: containers of the name
    MaxLines,        \* bound: lines written
    MaxItem,         \* bound: lines in one item of Docker's stream
    MaxBatch,        \* MAX_BATCH
    MaxBuf           \* the 10 * MAX_BATCH lines a buffer may keep

ASSUME LogShipperAssumption ==
    /\ MaxIds \in Nat \ {0} /\ MaxLines \in Nat /\ MaxItem \in Nat \ {0}
    /\ MaxBatch \in Nat \ {0} /\ MaxBuf \in Nat /\ MaxBatch <= MaxBuf

VARIABLES
    lines,       \* all lines the containers wrote, with container and time
    live,        \* the container that exists
    running,
    target,      \* password of the collector's target, 0 before it has one
    cursor,      \* ShipState.last_ts
    file,        \* what is persisted of it, 0 if the file cannot be parsed
    task,        \* follow_container of each container
    copies,      \* rows of each line in ClickHouse
    dropped,     \* history: lines drained from a full buffer
    doubts       \* history: faults by which the collector forgets what it stored

shipVars == <<lines, live, running, target, cursor, file, task, copies, dropped, doubts>>
dockerVars == <<lines, live, running>>

Ids == 1 .. MaxIds
Line == 1 .. MaxLines
Task == [phase : {"none", "follow", "ship", "last"}, stored : BOOLEAN,
         from : Nat, next : Nat \ {0}, buf : Seq(Line), to : Password]
NoTask == [phase |-> "none", stored |-> FALSE, from |-> 0, next |-> 1,
           buf |-> <<>>, to |-> 0]

ShipTypeOK ==
    /\ lines \in Seq([id : Ids, ts : Nat])
    /\ live \in Ids /\ running \in BOOLEAN
    /\ target \in Password
    /\ cursor \in Nat /\ file \in Nat
    /\ task \in [Ids -> Task]
    /\ copies \in [Line -> Nat]
    /\ dropped \subseteq Line
    /\ doubts \in 0 .. MaxFaults

ShipInit ==
    /\ lines = <<>> /\ live = 1 /\ running = TRUE
    /\ target = 0 /\ cursor = 0 /\ file = 0
    /\ task = [i \in Ids |-> NoTask]
    /\ copies = [l \in Line |-> 0]
    /\ dropped = {} /\ doubts = 0

-----------------------------------------------------------------------------
(* Docker *)

\* A line in the millisecond of the one before, or later.
WriteLine ==
    /\ running /\ Len(lines) < MaxLines
    /\ \E ts \in IF lines = <<>> THEN {1} ELSE {Last(lines).ts, Last(lines).ts + 1} :
         lines' = Append(lines, [id |-> live, ts |-> ts])
    /\ UNCHANGED <<live, running, target, cursor, file, task, copies, dropped, doubts, faults>>

StopOrStart ==
    /\ Fault
    /\ running' = ~running
    /\ UNCHANGED <<lines, live, target, cursor, file, task, copies, dropped, doubts>>

\* The container is replaced by another of its name; its log goes with it.
Replace ==
    /\ live < MaxIds
    /\ live' = live + 1 /\ running' = TRUE
    /\ UNCHANGED <<lines, target, cursor, file, task, copies, dropped, doubts, faults>>

-----------------------------------------------------------------------------
(* The collector *)

\* An answer of the master to the collector's poll.
TakeTarget(pw) ==
    /\ target' = pw
    /\ UNCHANGED <<dockerVars, cursor, file, task, copies, dropped, doubts>>

\* The scan finds a running container that is not tracked.
Track ==
    /\ target # 0 /\ running /\ task[live].phase = "none"
    /\ task' = [task EXCEPT ![live] = [NoTask EXCEPT !.phase = "follow",
                                                     !.from = cursor]]
    /\ UNCHANGED <<dockerVars, target, cursor, file, copies, dropped, doubts, faults>>

\* The lines of the log of a container that its task has not read.
Unread(i) ==
    IF i # live THEN {}
    ELSE {l \in task[i].next .. Len(lines) : lines[l].id = i}

\* mem::take of the buffer and the POST.
Ship(t) == [t EXCEPT !.phase = "ship", !.to = target]

\* Lines of one time that an item of the stream may hold together.
Item(i, last) ==
    LET first == Min(Unread(i)) IN [n \in 1 .. last - first + 1 |-> first + n - 1]
IsItem(i, last) ==
    LET first == Min(Unread(i))
    IN  lines[last].ts = lines[first].ts /\ last - first < MaxItem

Buffered(i, last) == [task[i] EXCEPT !.next = last + 1, !.buf = @ \o Item(i, last)]

\* Mutant: the millisecond of the cursor is read again.
ReadAgain(i) ==
    /\ task[i].phase = "follow"
    /\ \E last \in Unread(i) :
         /\ IsItem(i, last)
         /\ task' = [task EXCEPT ![i] =
                       IF lines[last].ts < task[i].from THEN [@ EXCEPT !.next = last + 1]
                       ELSE IF Len(Buffered(i, last).buf) >= MaxBatch THEN Ship(Buffered(i, last))
                       ELSE Buffered(i, last)]
    /\ UNCHANGED <<dockerVars, target, cursor, file, copies, dropped, doubts, faults>>

\* The lines of the next item are passed over, or buffered; a full batch is
\* shipped.
Read(i) ==
    /\ task[i].phase = "follow"
    /\ \E last \in Unread(i) :
         /\ IsItem(i, last)
         /\ task' = [task EXCEPT ![i] =
                       IF lines[last].ts <= task[i].from THEN [@ EXCEPT !.next = last + 1]
                       ELSE IF Len(Buffered(i, last).buf) >= MaxBatch THEN Ship(Buffered(i, last))
                       ELSE Buffered(i, last)]
    /\ UNCHANGED <<dockerVars, target, cursor, file, copies, dropped, doubts, faults>>

\* The tick every two seconds.
Flush(i) ==
    /\ task[i].phase = "follow" /\ task[i].buf # <<>>
    /\ task' = [task EXCEPT ![i] = Ship(@)]
    /\ UNCHANGED <<dockerVars, target, cursor, file, copies, dropped, doubts, faults>>

\* The stream ends with the container, or breaks; what is buffered is
\* shipped a last time.
End(i) ==
    /\ task[i].phase = "follow"
    /\ \/ i # live /\ UNCHANGED faults
       \/ ~running /\ Unread(i) = {} /\ UNCHANGED faults
       \/ Fault
    /\ task' = [task EXCEPT ![i] = IF @.buf = <<>> THEN NoTask
                                   ELSE [Ship(@) EXCEPT !.phase = "last"]]
    /\ UNCHANGED <<dockerVars, target, cursor, file, copies, dropped, doubts>>

Posting(i) == task[i].phase \in {"ship", "last"}
Accepts(pw) == table /\ served = pw

\* ClickHouse inserts the batch.
Insert(i) ==
    /\ Posting(i) /\ ~task[i].stored /\ Accepts(task[i].to)
    /\ copies' = [l \in Line |-> IF l \in ToSet(task[i].buf) THEN copies[l] + 1
                                 ELSE copies[l]]
    /\ task' = [task EXCEPT ![i].stored = TRUE]
    /\ UNCHANGED <<dockerVars, target, cursor, file, dropped, doubts, faults>>

Times(i) == {lines[l].ts : l \in ToSet(task[i].buf)}

\* The task after a POST: it follows on, or is over.
After(i, buf) ==
    IF task[i].phase = "last" THEN NoTask
    ELSE [task[i] EXCEPT !.phase = "follow", !.stored = FALSE, !.buf = buf, !.to = 0]

\* The write of the file fails, before it is emptied or after.
SaveFails == Fault /\ file' \in {file, 0}

\* ShipState::advance, in memory and in the file.
Advance(ts) ==
    \/ ts <= cursor /\ UNCHANGED <<cursor, file, faults, doubts>>
    \/ /\ ts > cursor /\ cursor' = ts
       /\ \/ file' = ts /\ UNCHANGED <<faults, doubts>>
          \/ SaveFails /\ doubts' = doubts + 1

\* The same for another name: the file is written with the cursors of all.
SaveOther ==
    /\ \/ file' = cursor /\ UNCHANGED <<faults, doubts>>
       \/ SaveFails /\ doubts' = IF file' = file THEN doubts ELSE doubts + 1
    /\ UNCHANGED <<dockerVars, target, cursor, task, copies, dropped>>

\* The answer arrives.
Acknowledged(i) ==
    /\ Posting(i) /\ task[i].stored
    /\ Advance(Max(Times(i)))
    /\ task' = [task EXCEPT ![i] = After(i, <<>>)]
    /\ UNCHANGED <<dockerVars, target, copies, dropped>>

\* ClickHouse refuses the batch, the request is lost, or the answer is.
Unanswered(i) ==
    /\ Posting(i)
    /\ \/ ~task[i].stored /\ ~Accepts(task[i].to) /\ UNCHANGED faults
       \/ Fault
    /\ doubts' = IF task[i].stored THEN doubts + 1 ELSE doubts

\* Mutant: the buffer is not cut.
FailedUncut(i) ==
    /\ Unanswered(i)
    /\ task' = [task EXCEPT ![i] = After(i, task[i].buf)]
    /\ UNCHANGED <<dockerVars, target, cursor, file, copies, dropped>>

\* Mutant: the lines of the failed batch are passed over.
FailedAdvances(i) ==
    /\ Unanswered(i)
    /\ cursor' = Max(Times(i) \cup {cursor})
    /\ file' = cursor'
    /\ task' = [task EXCEPT ![i] = After(i, <<>>)]
    /\ UNCHANGED <<dockerVars, target, copies, dropped>>

\* The lines go back into the buffer, the oldest beyond its limit are cut.
Failed(i) ==
    /\ Unanswered(i)
    /\ LET buf == task[i].buf
           cut == IF Len(buf) > MaxBuf THEN Len(buf) - MaxBuf ELSE 0
       IN  /\ task' = [task EXCEPT ![i] = After(i, SubSeq(buf, cut + 1, Len(buf)))]
           /\ dropped' = IF task[i].phase = "last" THEN dropped
                         ELSE dropped \cup {buf[n] : n \in 1 .. cut}
    /\ UNCHANGED <<dockerVars, target, cursor, file, copies>>

\* The agent is killed and started; the cursors are loaded.  A kill in the
\* middle of a save, of whatever name, leaves a file that cannot be parsed.
AgentRestart ==
    /\ Fault
    /\ file' \in {file, 0}
    /\ doubts' = IF file' # file \/ (\E i \in Ids : task[i].stored)
                 THEN doubts + 1 ELSE doubts
    /\ cursor' = file'
    /\ target' = 0
    /\ task' = [i \in Ids |-> NoTask]
    /\ UNCHANGED <<dockerVars, copies, dropped>>

Collect(i) == Read(i) \/ Flush(i) \/ Insert(i) \/ Acknowledged(i) \/ Failed(i)

ShipStep ==
    \/ WriteLine
    \/ StopOrStart
    \/ Replace
    \/ Track
    \/ \E i \in Ids : Collect(i)
    \/ \E i \in Ids : End(i)
    \/ SaveOther
    \/ AgentRestart

-----------------------------------------------------------------------------
\* A line of its millisecond was stored: the known loss.
SharesTime(l) == \E k \in 1 .. Len(lines) : copies[k] > 0 /\ lines[k].ts = lines[l].ts

\* Stored or one of the known losses.
Accounted(l) == copies[l] > 0 \/ l \in dropped \/ SharesTime(l)

(* ship, ShipState::advance, follow_container: a line of the container that *)
(* is not newer than the cursor is in ClickHouse, unless it was cut from a  *)
(* full buffer or another line of its millisecond is there: neither refused *)
(* nor lost POSTs nor restarts let the cursor pass a millisecond of which   *)
(* nothing was shipped.                                                     *)
CursorPassesStored ==
    \A l \in 1 .. Len(lines) :
        lines[l].id = live /\ lines[l].ts <= cursor => Accounted(l)

(* ship, ShipState, follow_container: a line is stored once, and once more  *)
(* at most for each fault that makes the collector forget: an answer for a  *)
(* stored batch was lost, the file of the cursors could not be written, of  *)
(* whatever name, or the agent was killed during such a write or before the *)
(* answer.  Refused batches, kills at other times, replaced containers and  *)
(* streams that break cost no copy.                                         *)
CopiesNeedDoubt == \A l \in Line : copies[l] <= 1 + doubts

(* ship: the buffer of a task stays within its limit, and an item beyond it *)
(* while it is posted, however long ClickHouse refuses.                     *)
BufferBounded ==
    \A i \in Ids : Len(task[i].buf) <= (IF Posting(i) THEN MaxBuf + MaxItem ELSE MaxBuf)

-----------------------------------------------------------------------------
(* The inductive invariant behind the three.                                *)

\* Docker's log: the containers of the name follow each other, time goes on.
LinesInv ==
    /\ Len(lines) <= MaxLines
    /\ \A l \in 1 .. Len(lines) : lines[l].ts >= 1 /\ lines[l].id <= live
    /\ \A k, l \in 1 .. Len(lines) :
         k <= l => lines[k].ts <= lines[l].ts /\ lines[k].id <= lines[l].id

\* A task holds lines of its container that it has read, and while it posts
\* them at least one; those of a stored batch are in ClickHouse.
TaskInv ==
    \A i \in Ids :
        LET t == task[i] IN
        /\ i > live \/ t.phase = "none" => t = NoTask
        /\ t.next <= Len(lines) + 1
        /\ ToSet(t.buf) \subseteq {l \in 1 .. Len(lines) : l < t.next /\ lines[l].id = i}
        /\ Posting(i) => t.buf # <<>>
        /\ t.stored => Posting(i) /\ \A l \in ToSet(t.buf) : copies[l] > 0

\* The buffer by phase: a full one is posted before it grows further.
BufferInv ==
    \A i \in Ids : Len(task[i].buf) <= (IF task[i].phase = "ship" THEN MaxBuf + MaxItem ELSE MaxBuf)

StoredTime(ts) ==
    ts = 0 \/ \E k \in 1 .. Len(lines) : copies[k] > 0 /\ lines[k].ts = ts

\* Cursors stand at times of stored lines.
CursorInv ==
    /\ StoredTime(cursor) /\ StoredTime(file)
    /\ \A i \in Ids : StoredTime(task[i].from)
    /\ file <= cursor

\* What of the container is behind a cursor, or behind the reading of its
\* task and not in the buffer, is stored or one of the known losses.
ReadInv ==
    \A l \in 1 .. Len(lines) :
        lines[l].id = live /\ ~Accounted(l) =>
            /\ lines[l].ts > cursor
            /\ lines[l].ts > task[live].from
            /\ l < task[live].next => l \in ToSet(task[live].buf)

\* The task of a line may store it without being started again.
ToStore(l) ==
    LET i == lines[l].id
        t == task[i]
    IN  \/ ~t.stored /\ l \in ToSet(t.buf)
        \/ t.phase # "none" /\ i = live /\ l >= t.next /\ lines[l].ts > t.from

Stored(l) == LET t == task[lines[l].id] IN t.stored /\ l \in ToSet(t.buf)

\* Passed by the cursor in memory and not by the one in the file.
Unsaved(l) == file < lines[l].ts /\ lines[l].ts <= cursor

\* Each row of a line beyond the first has its doubt; so has the first, unless
\* the file is past the line or the answer of its batch is still to come.  A
\* line that is unsaved has a doubt to spare, for the restart.
DoubtInv ==
    /\ doubts <= faults
    /\ file < cursor => doubts > 0
    /\ \A l \in Line : copies[l] <= (IF l <= Len(lines) THEN 1 + doubts ELSE 0)
    /\ \A l \in 1 .. Len(lines) :
         LET spare == IF Unsaved(l) THEN 1 ELSE 0 IN
         /\ ToStore(l) => copies[l] + spare <= doubts
         /\ Stored(l) => copies[l] + spare <= 1 + doubts
         /\ lines[l].ts > file /\ ~Stored(l) => copies[l] <= doubts

ShipInv == LinesInv /\ TaskInv /\ BufferInv /\ CursorInv /\ ReadInv /\ DoubtInv
=============================================================================
