---------------------------- MODULE TrajectoryLog ----------------------------
(***************************************************************************)
(* The append-only JSONL log, the process that writes it and may die in    *)
(* the middle of a line, and clients that follow it by polling             *)
(* (trajectory.py, GET /v1/trajectory/tail of server.py).                  *)
(*                                                                         *)
(* The file is a sequence of cells.  A record is two cells and a newline,  *)
(* so that a write can end inside it, also inside a character of several   *)
(* bytes; a line is readable if it is one whole record.  All appends and   *)
(* reads run on the event loop's thread.                                   *)
(* What append_raw flushed survives the process (not a loss of power).     *)
(***************************************************************************)
EXTENDS Naturals, Sequences, FiniteSets

CONSTANTS
    Followers,   \* polling clients
    TailN,       \* the n of their polls
    MaxLines,  \* bound on the records written
    MaxCrashes   \* bound on the crashes

ASSUME LogBounds == TailN \in Nat \ {0} /\ MaxLines \in Nat /\ MaxCrashes \in Nat

VARIABLES
    file,     \* the cells of the log
    written,  \* records whose write was begun; they are numbered from 1
    acked,    \* records whose append returned
    crashes,  \* crashes so far
    offset,   \* the since_offset of each follower's next poll
    from,     \* where a follower stopped asking for the tail only
    seen,     \* the records each follower was sent
    again     \* followers that were sent a record twice

logVars == <<file, written, acked, crashes, offset, from, seen, again>>

Newline == <<0, 0>>
Line(r) == <<<<r, 1>>, <<r, 2>>, Newline>>
Cut(r) == <<r, 0>>   \* the record's text ends inside a character
Pieces(r) == {SubSeq(Line(r), 1, k) : k \in 0..3} \cup {<<<<r, 1>>, Cut(r)>>}
size == Len(file)
Never == MaxLines * 3 + 1

LogInit ==
    /\ file = <<>>
    /\ written = 0 /\ acked = {} /\ crashes = 0
    /\ offset = [f \in Followers |-> 0]
    /\ from = [f \in Followers |-> Never]
    /\ seen = [f \in Followers |-> {}]
    /\ again = {}

-----------------------------------------------------------------------------
\* Readers.  Offsets count the cells before a position.

LineStarts(since) ==
    {o \in since..(size - 1) : o = since \/ file[o] = Newline}

LineAt(o) ==
    LET ends == {e \in (o + 1)..size : file[e] = Newline}
        last == IF ends = {} THEN size ELSE CHOOSE e \in ends : \A d \in ends : e <= d
    IN  SubSeq(file, o + 1, IF ends = {} THEN last ELSE last - 1)

Holds(o, r) == LineAt(o) = <<<<r, 1>>, <<r, 2>>>>

\* Where the bytes do not decode: json.loads raises a UnicodeDecodeError, which
\* is no JSONDecodeError, and the scan ends with it.
Broken(since) == {k \in (since + 1)..size : file[k] # Newline /\ file[k][2] = 0}

\* A reader that gives up at the first malformed line.
ScanUntilMalformed(since) ==
    {x \in LineStarts(since) \X (1..written) :
        /\ Holds(x[1], x[2])
        /\ \A o \in LineStarts(since) :
             o < x[1] /\ LineAt(o) # <<>> => \E r \in 1..written : Holds(o, r)}

\* iter_with_offsets: the offset and the record of every readable line, up to
\* one that does not decode.  Other malformed lines are passed over.
Scan(since) ==
    {x \in LineStarts(since) \X (1..written) :
        Holds(x[1], x[2]) /\ \A k \in Broken(since) : x[1] < k}

\* items[-n:]
LastOf(items, n) == {x \in items : Cardinality({y \in items : y[1] > x[1]}) < n}

Records(items) == {x[2] : x \in items}

-----------------------------------------------------------------------------
AppendRaw ==
    /\ written < MaxLines
    /\ written' = written + 1
    /\ file' = file \o Line(written')
    /\ acked' = acked \cup {written'}
    /\ UNCHANGED <<crashes, offset, from, seen, again>>

\* The process dies during the write; the next one opens the same file.
CrashInAppend ==
    /\ written < MaxLines /\ crashes < MaxCrashes
    /\ written' = written + 1
    /\ \E part \in Pieces(written') : file' = file \o part
    /\ crashes' = crashes + 1
    /\ UNCHANGED <<acked, offset, from, seen, again>>

PollLastOnly(f) ==   \* every poll capped to n
    LET items == LastOf(Scan(offset[f]), TailN) IN
    /\ Broken(offset[f]) = {}
    /\ offset' = [offset EXCEPT ![f] = size]
    /\ from' = IF from[f] = Never /\ size > 0 THEN [from EXCEPT ![f] = size] ELSE from
    /\ seen' = [seen EXCEPT ![f] = @ \cup Records(items)]
    /\ again' = IF Records(items) \cap seen[f] # {} THEN again \cup {f} ELSE again
    /\ UNCHANGED <<file, written, acked, crashes>>

\* tail_structured(n, since_offset); it raises with its scan.
Poll(f) ==
    LET all == Scan(offset[f])
        items == IF offset[f] = 0 THEN LastOf(all, TailN) ELSE all IN
    /\ Broken(offset[f]) = {}
    /\ offset' = [offset EXCEPT ![f] = size]
    /\ from' = IF from[f] = Never /\ size > 0 THEN [from EXCEPT ![f] = size] ELSE from
    /\ seen' = [seen EXCEPT ![f] = @ \cup Records(items)]
    /\ again' = IF Records(items) \cap seen[f] # {} THEN again \cup {f} ELSE again
    /\ UNCHANGED <<file, written, acked, crashes>>

LogNext == AppendRaw \/ CrashInAppend \/ \E f \in Followers : Poll(f)

LogSpec == LogInit /\ [][LogNext]_logVars

-----------------------------------------------------------------------------
(* Refinement: the cells of the file as a log of records. *)

\* A record in a line of its own that is read and ended: no later write can
\* touch it.
EndedRecords == {x[2] : x \in {y \in Scan(0) : y[1] + 2 < size}}

Torn == size > 0 /\ file[size] # Newline
LogEnd == IF Broken(0) # {} THEN "cut" ELSE IF Torn THEN "torn" ELSE "whole"

AsRecords == INSTANCE RecordLog WITH
    Record <- 1..MaxLines,
    kept <- EndedRecords,
    told <- acked,
    end <- LogEnd

RecordLogSpec == AsRecords!Spec

-----------------------------------------------------------------------------
LogType ==
    /\ written \in 0..MaxLines /\ crashes \in 0..MaxCrashes
    /\ file \in Seq({Newline} \cup ((1..MaxLines) \X {0, 1, 2}))
    /\ acked \subseteq 1..written
    /\ offset \in [Followers -> 0..size]
    /\ from \in [Followers -> 0..Never]
    /\ seen \in [Followers -> SUBSET (1..written)]
    /\ again \subseteq Followers

\* Once a poll gave it an offset other than 0, a follower gets every record
\* after it that a scan of the whole log can read, each of them once, however
\* many appends, crashes and restarts there are between two polls; only polls
\* that ask from offset 0 are cut to the last n, and a poll that meets a line
\* that does not decode raises and moves nothing (trajectory.py:157-196).
FollowerMissesNothing ==
    \A f \in Followers :
        /\ f \notin again
        /\ \A x \in Scan(0) : from[f] <= x[1] /\ x[1] < offset[f] => x[2] \in seen[f]

BeforeCut(r) == \A k \in Broken(0) : r < file[k][1]

\* Of the records before the first one that was cut inside a character, a
\* crash loses at most one whose append had returned or will return: a torn
\* line has no newline, so the next record is glued to it and neither can be
\* read; the one after that is read again.  Of a cut line and all that is
\* behind it, now or later, nothing is promised: no reader of the whole log
\* gets there (trajectory.py:46-50, 136-140, 163-168).
CrashLosesAtMostOne ==
    Cardinality({r \in acked \ Records(Scan(0)) : BeforeCut(r)}) <= crashes
=============================================================================
