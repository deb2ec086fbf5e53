---------------------------- MODULE GatewayCalls ----------------------------
(***************************************************************************)
(* Calls of the broker by the gateway's own tasks: the push dispatcher and *)
(* the task behind a StreamingPull.  A task awaits the broker's lock, then *)
(* the operation, and only then goes on with what it returned; meanwhile   *)
(* other tasks take their steps.                                           *)
(***************************************************************************)
EXTENDS BackendProperties

CONSTANTS Tasks, Nobody

ASSUME TasksAssumption == Nobody \notin Tasks

VARIABLES
  owner,   \* the task whose call holds the lock, or Nobody
  call     \* per task: what its call has returned so far

Backend == <<topic, sub, snap, schema, lock, resets, stale>>
calls == <<owner, call>>

\* got: the ack ids of the messages delivered, in order.
Call == [status : {"none", "running", "ok", "error"}, got : Seq(Nat \X Nat)]

NoCall == [status |-> "none", got |-> <<>>]
Running == [status |-> "running", got |-> <<>>]
Answered(how) == [status |-> how, got |-> <<>>]

CallsInit == owner = Nobody /\ call = [w \in Tasks |-> NoCall]

Start(w) ==
  /\ call[w] = NoCall
  /\ owner' = w
  /\ call' = [call EXCEPT ![w] = Running]

Answer(w, how) ==
  /\ call[w] = NoCall
  /\ call' = [call EXCEPT ![w] = Answered(how)]
  /\ UNCHANGED owner

CallPull(w, s, n) ==
  \/ PullBegin(s, n) /\ Start(w)
  \/ /\ Idle
     /\ s \in DOMAIN sub => sub[s].spec.topic \notin DOMAIN topic
     /\ Answer(w, "error")
     /\ UNCHANGED Backend

CallAcknowledge(w, s, ids) ==
  \/ AckBegin(s, ids) /\ Start(w)
  \/ Idle /\ s \notin DOMAIN sub /\ Answer(w, "error") /\ UNCHANGED Backend

\* Zero seconds give the message back.
CallModifyAckDeadline(w, s, id, seconds) ==
  \/ seconds > MaxAckDeadline /\ Answer(w, "error") /\ UNCHANGED Backend
  \/ Idle /\ s \notin DOMAIN sub /\ seconds <= MaxAckDeadline
     /\ Answer(w, "error") /\ UNCHANGED Backend
  \/ seconds = 0 /\ NackBegin(s, <<id>>) /\ Start(w)
  \/ /\ seconds \in 1 .. MaxAckDeadline
     /\ ExtendDeadline(s, <<id>>, seconds)
     /\ Answer(w, "ok")

\* What the step of a pull hands out.
NewIds ==
  LET new == sub'[lock.sub].leases \ sub[lock.sub].leases
  IN  IF lock.op = "pull" /\ lock.sub \in DOMAIN sub'
      THEN SetToSeq({AckId(l) : l \in new}) ELSE <<>>

\* The lock's holder goes on; its task learns the outcome with the last step.
\* (A panic of pull ends the task; PullPanic is not enabled in a broker whose
\* topics are not deleted.)
Serve ==
  /\ LockedStep
  /\ IF owner = Nobody THEN UNCHANGED call
     ELSE call' = [call EXCEPT ![owner] =
            [status |-> IF lock' # Free THEN "running"
                        ELSE IF AckExpired THEN "error" ELSE "ok",
             got |-> @.got \o NewIds]]
  /\ owner' = IF lock' = Free THEN Nobody ELSE owner

\* The task goes on.
Return(w) ==
  /\ call[w].status \in {"ok", "error"}
  /\ call' = [call EXCEPT ![w] = NoCall]
  /\ UNCHANGED <<topic, sub, snap, schema, lock, resets, stale, owner>>
=============================================================================
