------------------------------ MODULE AuditLog ------------------------------
(***************************************************************************)
(* audit.py: one JSON object per line in an append-only file.  An append   *)
(* runs under file_lock, so appends do not interleave; an interrupted one  *)
(* leaves its line without a line end, and the next append continues that  *)
(* line.  A line is the sequence of what was written to it: events that    *)
(* are complete and the marker Part for bytes that are not a whole object. *)
(***************************************************************************)
EXTENDS Naturals, Sequences

CONSTANTS
    Event,     \* audit events
    Part,      \* the first bytes of an event
    MaxTears   \* bound: appends that are interrupted

ASSUME AuditAssumption ==
    /\ Part \notin Event
    /\ MaxTears \in Nat

VARIABLES
    lines,   \* Seq(Seq(Event or Part)); the last one has no line end yet
    tears    \* appends that were interrupted so far

logVars == <<lines, tears>>

LogTypeOK ==
    /\ \A i \in DOMAIN lines : \A j \in DOMAIN lines[i] :
          lines[i][j] \in Event \cup {Part}
    /\ lines # <<>>
    /\ tears \in 0..MaxTears

LogInit ==
    /\ lines = << <<>> >>
    /\ tears = 0

AddToLastLine(text) == [lines EXCEPT ![Len(lines)] = Append(@, text)]

\* The event and its line end are written, flushed and fsynced.
Record(e) ==
    /\ lines' = Append(AddToLastLine(e), <<>>)
    /\ UNCHANGED tears

\* The append stops part way: in the event, or before its line end.
Tear(e) ==
    /\ tears < MaxTears
    /\ \E text \in {Part, e} : lines' = AddToLastLine(text)
    /\ tears' = tears + 1

\* A line json.loads accepts.
Valid(line) == Len(line) = 1 /\ line[1] \in Event

\* The events tail_report takes from the file when its limit is not reached:
\* blank and malformed lines are skipped.
Reported == {lines[i][1] : i \in {n \in DOMAIN lines : Valid(lines[n])}}

\* The events that are complete in the file, whatever else is on their line.
Written == (UNION {{lines[i][j] : j \in DOMAIN lines[i]} : i \in DOMAIN lines})
              \ {Part}
=============================================================================
