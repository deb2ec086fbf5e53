------------------------------ MODULE MCEgress ------------------------------
(***************************************************************************)
(* The two tasks of the gateway that deliver messages on their own, each   *)
(* the only consumer of its subscriptions: the push dispatcher, with one   *)
(* subscription whose endpoint may accept and one whose topic was deleted  *)
(* under it, and one StreamingPull with its client.  Initial states with   *)
(* one of them have the other one at rest.                                 *)
(***************************************************************************)
EXTENDS PushDispatcher, StreamingPull, MCBackend

CONSTANTS s2, gone, good, bad, push1, stream1, FrameSeconds

egressVars == <<Backend, calls, pushVars, streamVars>>

At0 == [min |-> 0, max |-> 0]

Prompt == [PlainSpec EXCEPT !.retry = At0]
PromptOrdered == [Prompt EXCEPT !.ordering = TRUE]
PromptOnce == [Prompt EXCEPT !.exactlyOnce = TRUE]
Orphaned == [Prompt EXCEPT !.topic = gone]

EgressSpecs == {Prompt, PromptOrdered, PromptOnce, Orphaned}

EgressBatches == {<<Keyed>>, <<Keyed, Keyed>>}

\* Published before, or not yet.
Logs == {<<>>, [i \in 1 .. MaxPublished |-> AsMessage(Plain, NoOrigin)]}

BrokerAtStart ==
  /\ \E log \in Logs :
       topic = [n \in {t} |-> [log |-> log, seen |-> {}, schema |-> NoSchema]]
  /\ snap = NoEntries /\ schema = NoEntries
  /\ lock = Free
  /\ resets = [n \in Subs |-> MaxResets]
  /\ CallsInit

PushAtStart ==
  /\ \E spec \in {PromptOrdered, PromptOnce} :
       sub = [n \in {s, s2} |-> NewSubscription(IF n = s THEN spec ELSE Orphaned, 0)]
  /\ stale = {s2}
  /\ endpoint \in [{s, s2} -> {good, bad}] /\ endpoint[s2] = bad
  /\ PushInit /\ push # Off
  /\ StreamInit

StreamAtStart ==
  /\ \E spec \in {Prompt, PromptOnce} :
       sub = [n \in {s} |-> NewSubscription(spec, 0)]
  /\ stale = {}
  /\ endpoint = [n \in {s, s2} |-> NoEndpoint]
  /\ topic[t].log # <<>>
  /\ PushInit /\ push = Off
  /\ StreamInit

EgressInit == BrokerAtStart /\ (PushAtStart \/ StreamAtStart)

-----------------------------------------------------------------------------

Environment ==
  \/ /\ Len(topic[t].log) < MaxPublished
     /\ \E batch \in Batches : PublishBegin(t, batch)
  \/ DeleteSubscription(s)
  \/ Tick

\* Only endpoint good ever accepts.
EndpointAccepts == PostAccepted /\ push.at.endpoint = good

PushNext ==
  \/ DispatcherStep \/ EndpointAccepts \/ PostFailed
  \/ endpoint[s] = bad /\ ModifyPushConfig(s, good)

\* The client acks what it holds, or changes the deadline of one of them.
ClientAcks == client.got # {} /\ SendFrame(SetToSeq(client.got), <<>>)

ClientModifies ==
  \E id \in client.got, seconds \in FrameSeconds :
    SendFrame(<<>>, <<[id |-> id, seconds |-> seconds]>>)

StreamNext ==
  \/ StreamStep
  \/ \E n \in MaxOutstanding : push.pc = "off" /\ Connect(s, n)
  \/ Read \/ ClientAcks \/ ClientModifies
  \/ FinishSending \/ HangUp \/ SeesEnd

\* A step beside an operation that holds the lock reads nothing the operation
\* changes, so it is taken before or after it.
EgressNext ==
  \/ Serve /\ UNCHANGED <<pushVars, streamVars>>
  \/ Environment /\ UNCHANGED <<calls, pushVars, streamVars>>
  \/ Idle /\ PushNext /\ UNCHANGED streamVars
  \/ Idle /\ StreamNext /\ UNCHANGED pushVars

\* Time passes, the lock's holder goes on, the tasks go on whenever they can,
\* again and again (tokio's lock is fair, and so is the choice of select!), a
\* POST ends in time, and endpoint good accepts now and then.  A client reads
\* and connects again.
EgressFairness ==
  /\ SF_egressVars(Tick /\ UNCHANGED <<calls, pushVars, streamVars>>)
  /\ WF_egressVars(Serve /\ UNCHANGED <<pushVars, streamVars>>)
  /\ SF_egressVars(DispatcherStep /\ UNCHANGED streamVars)
  /\ WF_egressVars((EndpointAccepts \/ PostFailed) /\ UNCHANGED streamVars)
  /\ SF_egressVars(EndpointAccepts /\ UNCHANGED streamVars)
  /\ SF_egressVars((ReceiveFrame \/ InputEnds) /\ UNCHANGED pushVars)
  /\ SF_egressVars(IntervalTick /\ UNCHANGED pushVars)
  /\ SF_egressVars((AcksOfFrame \/ AcksReturn \/ ModsOfFrame \/ ModsReturn
                    \/ PullReturns \/ Send \/ SendFails) /\ UNCHANGED pushVars)
  /\ WF_egressVars(Read /\ UNCHANGED pushVars)
  /\ WF_egressVars(SeesEnd /\ UNCHANGED pushVars)
  /\ WF_egressVars((\E n \in MaxOutstanding : push.pc = "off" /\ Connect(s, n))
                   /\ UNCHANGED pushVars)

EgressSpec == EgressInit /\ [][EgressNext]_egressVars /\ EgressFairness

-----------------------------------------------------------------------------

InLog(p) == s \in DOMAIN sub /\ p \in 1 .. Len(LogOf(sub[s]))

\* "One failing subscription must not starve the others": whatever the pulls of
\* one subscription run into, each message of the other is accepted in the end
\* once its endpoint accepts, also when the endpoint was set while messages were
\* being POSTed to the one before.
OthersNotStarved ==
  \A p \in Position :
    InLog(p) /\ endpoint[s] = good ~> [sub |-> s, pos |-> p] \in accepted \/ ~InLog(p)

\* Every message gets into the hands of a client that keeps reading, however
\* many deliveries were lost with earlier streams or had to wait in the channel
\* until their leases ended.
StreamDelivers ==
  \A p \in Position :
    InLog(p) /\ push.pc = "off" ~>
      \/ \E id \in client.got : id[1] = p
      \/ ~InLog(p) \/ p \in sub[s].acked \cup sub[s].lost
=============================================================================
