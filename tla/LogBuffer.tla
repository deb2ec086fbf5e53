----------------------------- MODULE LogBuffer -----------------------------
(***************************************************************************)
(* The ring of log entries of src/log_buffer.rs, the /admin/v1/logs        *)
(* endpoint that reads it, and the console page that tails it.             *)
(*                                                                         *)
(* An entry is its id.  Its text, level and target are left out: nothing   *)
(* but the page's display reads them.                                      *)
(***************************************************************************)
EXTENDS Integers, Sequences, FiniteSets, FiniteSetsExt

CONSTANTS
  Capacity,      \* entries the ring keeps: max(capacity, 100), 2000 in main.rs
  MaxPage,       \* 2000: what since and recent return at most
  Limits,        \* limits a tailer may ask for, zero among them
  MaxLogged,     \* bound: entries logged by one process
  MaxBoots       \* bound: processes one after the other

ASSUME LogAssumption ==
  /\ Capacity \in Nat \ {0} /\ MaxPage \in Nat \ {0} /\ Limits \subseteq Nat

VARIABLES
  entries,    \* VecDeque: the ids the ring holds
  next_id,
  boot,       \* history: number of the running process
  after,      \* logsAfterRef of the page; 0: nothing read yet
  seen,       \* history: ids of this process's entries the page has received
  blind       \* history: the page's cursor when this process was first read

lvars == <<entries, next_id, boot, after, seen, blind>>

LogInit ==
  /\ entries = <<>> /\ next_id = 1
  /\ boot = 1
  /\ after = 0 /\ seen = {} /\ blind = 0

LastOf(seq, n) == SubSeq(seq, IF n < Len(seq) THEN Len(seq) - n + 1 ELSE 1, Len(seq))

\* LogBuffer::push: the id counter never goes back while the process runs.
Push ==
  /\ next_id <= MaxLogged
  /\ next_id' = next_id + 1
  /\ entries' = LastOf(Append(entries, next_id), Capacity)
  /\ UNCHANGED <<boot, after, seen, blind>>

PageOf(limit) == IF limit < 1 THEN 1 ELSE IF limit > MaxPage THEN MaxPage ELSE limit

\* A page is the set of the positions of its entries.

Newer(id) == {i \in DOMAIN entries : entries[i] > id}

\* Takes the newest entries of those the tailer has not seen.
BadSince(id, limit) ==
  {i \in Newer(id) : Cardinality({j \in Newer(id) : j > i}) < PageOf(limit)}

\* The first of the entries that pass the filter.
Since(id, limit) ==
  {i \in Newer(id) : Cardinality({j \in Newer(id) : j < i}) < PageOf(limit)}

Recent(limit) == {i \in DOMAIN entries : Len(entries) - i < PageOf(limit)}

IdsIn(page) == {entries[i] : i \in page}

\* admin_logs: the last id returned, or else the cursor that was sent.
NextAfter(page, id) == IF page = {} THEN id ELSE entries[Max(page)]

\* pollLogs.  The page always sends a cursor, zero when it starts.
Poll(limit) ==
  /\ LET page == Since(after, limit)
     IN  /\ after' = NextAfter(page, after)
         /\ seen' = seen \cup IdsIn(page)
  /\ UNCHANGED <<entries, next_id, boot, blind>>

\* A client that sends no cursor gets the newest entries, and follows from the
\* last of them.
ReadRecent(limit) ==
  /\ LET page == Recent(limit)
     IN  /\ after' = NextAfter(page, 0)
         /\ seen' = IdsIn(page)
         /\ blind' = IF page = {} THEN 0 ELSE entries[Min(page)] - 1
  /\ UNCHANGED <<entries, next_id, boot>>

\* The page is loaded again.
Reload ==
  /\ after' = 0 /\ seen' = {} /\ blind' = 0
  /\ UNCHANGED <<entries, next_id, boot>>

\* The ring is in memory only and ids start at 1 again, while the page keeps
\* its cursor.
LogRestart ==
  /\ boot < MaxBoots
  /\ boot' = boot + 1
  /\ entries' = <<>> /\ next_id' = 1
  /\ seen' = {} /\ blind' = after
  /\ UNCHANGED after

LogNext ==
  \/ Push \/ Reload \/ LogRestart
  \/ \E limit \in Limits : Poll(limit) \/ ReadRecent(limit)

LogSpec == LogInit /\ [][LogNext]_lvars

\* An entry the cursor has passed was received, unless the cursor came from
\* an earlier process or a client's first read began behind it: a tailer that
\* fell behind pages through everything the ring still holds.
PassedWasReceived ==
  \A i \in DOMAIN entries : entries[i] \in blind + 1 .. after => entries[i] \in seen
=============================================================================
