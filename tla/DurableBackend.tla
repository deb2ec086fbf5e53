--------------------------- MODULE DurableBackend ---------------------------
(***************************************************************************)
(* MemoryBackend with persistence (with_persistence, persist_locked): every *)
(* operation that succeeds writes the whole state to state.json before it  *)
(* answers, and a process that starts again loads it.                      *)
(*                                                                         *)
(* Not every change is saved: an exactly-once ack that fails half way      *)
(* returns before the save, a pull that panics never gets to it, and the   *)
(* save itself may fail, after which the operation answers with an error   *)
(* but has taken effect in memory.                                         *)
(***************************************************************************)
EXTENDS BackendProperties

CONSTANT SavesMayFail   \* whether the disk may refuse a write

ASSUME DurableAssumption == SavesMayFail \in BOOLEAN

VARIABLES
  disk,          \* state.json
  acknowledged,  \* history: <<subscription, reset, position>> acked when an
                 \* acknowledge last answered Ok
  stored         \* history: the log of each topic when a publish to it last
                 \* answered Ok

dvars == <<vars, disk, acknowledged, stored>>

Image == [topic |-> topic, sub |-> sub, snap |-> snap, schema |-> schema,
          resets |-> resets, stale |-> stale]

DInit ==
  /\ Init
  /\ disk = Image
  /\ acknowledged = {}
  /\ stored = [t \in Topics |-> <<>>]

-----------------------------------------------------------------------------
(* What the clients of acknowledge and publish know.                       *)

\* Nobody expects the messages of a deleted topic to come back.
Expected == [t \in Topics |-> IF t \in DOMAIN topic' THEN stored[t] ELSE <<>>]

AnswerOk ==
  /\ acknowledged' = acknowledged \cup
       {<<lock.sub, resets[lock.sub], p>> :
          p \in IF lock.op = "ack" THEN sub'[lock.sub].acked ELSE {}}
  /\ stored' = IF lock.op = "publish"
               THEN [stored EXCEPT ![lock.topic] = topic'[lock.topic].log]
               ELSE Expected

AnswerError == acknowledged' = acknowledged /\ stored' = Expected

-----------------------------------------------------------------------------
(* How an operation ends.                                                  *)

\* The last iteration of an operation that succeeds, or an operation without
\* a loop.
Extending ==
  \E s \in DOMAIN sub : \E ids \in IdBatches(s), seconds \in Extensions :
    ExtendDeadline(s, ids, seconds)

LoopDone == (PublishStep \/ PullEnd \/ AckStep \/ NackStep) /\ lock' = Free

Succeeds == LoopDone \/ Extending \/ Seek \/ SubscriptionAdmin \/ TopicAdmin

\* Forgets the save of an acknowledge or a publish.
BadPersist == IF lock.op \in {"ack", "publish"} THEN UNCHANGED disk ELSE disk' = Image'

\* Saves the topics only.
BadPersistTopics == disk' = [disk EXCEPT !.topic = topic']

\* Written to state.json.tmp and renamed: all of the state or nothing.
Persist == disk' = Image'

Saved == Succeeds /\ Persist /\ AnswerOk

SaveFails == SavesMayFail /\ Succeeds /\ UNCHANGED disk /\ AnswerError

\* acknowledge returns its error, or pull unwinds, before the save.
Unsaved == (AckExpired \/ PullPanic) /\ UNCHANGED disk /\ AnswerError

Working ==
  /\ Publish \/ Consume \/ LockedStep
  /\ lock' # Free
  /\ UNCHANGED <<disk, acknowledged, stored>>

\* Deadlines are saved as points in time: they come nearer on disk as well.
DTick ==
  /\ Tick
  /\ disk' = [disk EXCEPT !.sub = [s \in DOMAIN disk.sub |-> Aged(disk.sub[s])]]
  /\ UNCHANGED <<acknowledged, stored>>

\* Leases do not survive a restart.
BadCrash ==
  /\ topic' = disk.topic /\ snap' = disk.snap /\ schema' = disk.schema
  /\ sub' = [s \in DOMAIN disk.sub |-> [disk.sub[s] EXCEPT !.leases = {}]]
  /\ resets' = disk.resets /\ stale' = disk.stale
  /\ lock' = Free
  /\ UNCHANGED <<disk, acknowledged, stored>>

\* The process dies at any point, inside an operation too, and starts again.
Crash ==
  /\ topic' = disk.topic /\ snap' = disk.snap /\ schema' = disk.schema
  /\ sub' = disk.sub
  /\ resets' = disk.resets /\ stale' = disk.stale
  /\ lock' = Free
  /\ UNCHANGED <<disk, acknowledged, stored>>

DNext == Working \/ Saved \/ SaveFails \/ Unsaved \/ DTick \/ Crash

DSpec == DInit /\ [][DNext]_dvars

-----------------------------------------------------------------------------
(* Properties.                                                             *)

\* A message whose acknowledge was answered Ok stays acked, whatever saves fail
\* and whenever the process dies, until the subscription is sought or created
\* anew: it is never delivered again.
AcknowledgedForGood ==
  \A a \in acknowledged :
    a[1] \in DOMAIN sub /\ resets[a[1]] = a[2] => a[3] \in sub[a[1]].acked

\* The messages of a publish that was answered Ok stay in the log of their topic,
\* at their position, until the topic is deleted.
StoredForGood ==
  \A t \in Topics :
    stored[t] # <<>> => t \in DOMAIN topic /\ IsPrefix(stored[t], topic[t].log)

\* "JSON snapshot after each mutation": between two operations the file holds
\* what the memory holds.
SnapshotAfterMutation == Idle => disk = Image
=============================================================================
