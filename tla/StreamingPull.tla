--------------------------- MODULE StreamingPull ---------------------------
(***************************************************************************)
(* One StreamingPull of src/grpc.rs and its client.  The server's task     *)
(* waits for whichever comes first, a frame of the client or the next      *)
(* round of its 250 ms interval; a frame carries acks and deadline         *)
(* changes, a round pulls a batch and puts it into a channel the client    *)
(* reads from.  A full channel blocks the task.                            *)
(***************************************************************************)
EXTENDS GatewayCalls

CONSTANTS
  Stream,           \* the server's task
  DefaultBatch,     \* 100 in the code
  MaxOutstanding,   \* values a client gives max_outstanding_messages
  ChannelSize,      \* 32 in the code
  MaxWhims,       \* bound: what the client does but read and ack
  MaxFrames         \* bound: frames on their way to the server

NoSub == "no subscription named"

ASSUME StreamAssumption ==
  /\ Stream \in Tasks /\ NoSub \notin Subs
  /\ DefaultBatch \in Nat /\ MaxOutstanding \subseteq Int

VARIABLES
  stream,   \* the server's task and its channel
  frames,   \* what the client sent and the server has not looked at
  client,   \* the client: which of its two halves are open, what it holds
  whims,    \* bound: deadlines changed and streams ended by the client
  orphans   \* history: ack ids leased before the stream opened

streamVars == <<stream, frames, client, whims, orphans>>

\* A frame that only names the subscription.
Frame == [sub |-> NoSub, outstanding |-> 0, acks |-> <<>>, mods |-> <<>>]

NoTask == [at |-> "none", sub |-> NoSub, batch |-> 0, channel |-> <<>>]
NoClient == [reads |-> FALSE, writes |-> FALSE, got |-> {}]

StreamInit ==
  /\ stream = NoTask /\ frames = <<>> /\ client = NoClient
  /\ whims = 0 /\ orphans = {}

Batch(ids) == [kind |-> "deliveries", ids |-> ids]
Failure == [kind |-> "status", ids |-> <<>>]

At(place) == [stream EXCEPT !.at = place]

Sending(item, next) ==
  [at |-> "sending", sub |-> stream.sub, batch |-> stream.batch,
   channel |-> stream.channel, item |-> item, next |-> next]

\* Back to waiting, without the locals of the work done.
Waits(next) == [at |-> next, sub |-> stream.sub, batch |-> stream.batch,
                channel |-> stream.channel]

Larger(n) == IF n > 0 THEN IF n < MaxPull THEN n ELSE MaxPull ELSE stream.batch

-----------------------------------------------------------------------------
(* The server's task.                                                      *)

\* The first frame that names a subscription starts deliveries from it.
ReceiveFrame ==
  /\ stream.at = "select" /\ frames # <<>>
  /\ LET f == Head(frames)
         name == IF f.sub = NoSub THEN stream.sub ELSE f.sub
         batch == Larger(f.outstanding)
     IN  stream' = IF name = NoSub THEN [stream EXCEPT !.batch = batch]
                   ELSE [at |-> "frame", sub |-> name, batch |-> batch,
                         channel |-> stream.channel, acks |-> f.acks, mods |-> f.mods]
  /\ frames' = Tail(frames)
  /\ UNCHANGED <<Backend, calls, client, whims, orphans>>

\* A broken connection is not taken for the end of the input.
BadInputEnds ==
  /\ stream.at = "select" /\ frames = <<>> /\ ~client.writes
  /\ client.reads
  /\ stream' = Waits("ended")
  /\ UNCHANGED <<Backend, calls, frames, client, whims, orphans>>

\* The client is done sending, or gone: the task ends.
InputEnds ==
  /\ stream.at = "select" /\ frames = <<>> /\ ~client.writes
  /\ stream' = IF client.reads THEN Waits("ended")
               ELSE Sending(Failure, "ended")
  /\ UNCHANGED <<Backend, calls, frames, client, whims, orphans>>

AcksOfFrame ==
  /\ stream.at = "frame"
  /\ IF stream.acks = <<>> THEN stream' = At("mods") /\ UNCHANGED <<Backend, calls>>
     ELSE CallAcknowledge(Stream, stream.sub, stream.acks) /\ stream' = At("acking")
  /\ UNCHANGED <<frames, client, whims, orphans>>

AcksReturn ==
  /\ stream.at = "acking"
  /\ Return(Stream)
  /\ stream' = IF call[Stream].status = "ok" THEN At("mods")
               ELSE Sending(Failure, "ended")
  /\ UNCHANGED <<frames, client, whims, orphans>>

\* One call per ack id.
ModsOfFrame ==
  /\ stream.at = "mods"
  /\ IF stream.mods = <<>> THEN stream' = Waits("select") /\ UNCHANGED <<Backend, calls>>
     ELSE /\ CallModifyAckDeadline(Stream, stream.sub, Head(stream.mods).id,
                                   Head(stream.mods).seconds)
          /\ stream' = At("modding")
  /\ UNCHANGED <<frames, client, whims, orphans>>

ModsReturn ==
  /\ stream.at = "modding"
  /\ Return(Stream)
  /\ stream' = IF call[Stream].status = "ok"
               THEN [At("mods") EXCEPT !.mods = Tail(@)]
               ELSE Sending(Failure, "ended")
  /\ UNCHANGED <<frames, client, whims, orphans>>

IntervalTick ==
  /\ stream.at = "select" /\ stream.sub # NoSub
  /\ CallPull(Stream, stream.sub, stream.batch)
  /\ stream' = At("pulling")
  /\ UNCHANGED <<frames, client, whims, orphans>>

PullReturns ==
  /\ stream.at = "pulling"
  /\ Return(Stream)
  /\ stream' = IF call[Stream].status = "error" THEN Sending(Failure, "ended")
               ELSE IF call[Stream].got = <<>> THEN At("select")
               ELSE Sending(Batch(call[Stream].got), "select")
  /\ UNCHANGED <<frames, client, whims, orphans>>

\* Gives a response up when the channel is full.
BadSend ==
  /\ stream.at = "sending" /\ client.reads
  /\ stream' = IF Len(stream.channel) < ChannelSize
               THEN [Waits(stream.next) EXCEPT !.channel = Append(@, stream.item)]
               ELSE Waits(stream.next)
  /\ UNCHANGED <<Backend, calls, frames, client, whims, orphans>>

\* Waits for room in the channel.
Send ==
  /\ stream.at = "sending" /\ client.reads
  /\ Len(stream.channel) < ChannelSize
  /\ stream' = [Waits(stream.next) EXCEPT !.channel = Append(@, stream.item)]
  /\ UNCHANGED <<Backend, calls, frames, client, whims, orphans>>

\* Nobody reads the channel any more: the task ends.
SendFails ==
  /\ stream.at = "sending" /\ ~client.reads
  /\ stream' = Waits("ended")
  /\ UNCHANGED <<Backend, calls, frames, client, whims, orphans>>

StreamStep ==
  \/ ReceiveFrame \/ InputEnds \/ AcksOfFrame \/ AcksReturn \/ ModsOfFrame
  \/ ModsReturn \/ IntervalTick \/ PullReturns \/ Send \/ SendFails

-----------------------------------------------------------------------------
(* The client (external).                                                  *)

\* Opens a stream once the one before has ended; what was left of that one,
\* and what the client held, is forgotten.
Connect(s, n) ==
  /\ stream.at \in {"none", "ended"} /\ ~client.writes /\ ~client.reads
  /\ stream' = [NoTask EXCEPT !.at = "select", !.batch = DefaultBatch]
  /\ client' = [reads |-> TRUE, writes |-> TRUE, got |-> {}]
  /\ frames' = <<[Frame EXCEPT !.sub = s, !.outstanding = n]>>
  /\ orphans' = UNION {{AckId(l) : l \in sub[x].leases} : x \in DOMAIN sub}
  /\ UNCHANGED <<Backend, calls, whims>>

Read ==
  /\ client.reads /\ stream.channel # <<>>
  /\ LET item == Head(stream.channel)
     IN  client' = [client EXCEPT !.got = @ \cup ToSet(item.ids)]
  /\ stream' = [stream EXCEPT !.channel = Tail(@)]
  /\ UNCHANGED <<Backend, calls, frames, whims, orphans>>

SendFrame(acks, mods) ==
  /\ client.writes /\ Len(frames) < MaxFrames
  /\ mods # <<>> => whims < MaxWhims
  /\ whims' = IF mods = <<>> THEN whims ELSE whims + 1
  /\ frames' = Append(frames, [Frame EXCEPT !.acks = acks, !.mods = mods])
  /\ client' = [client EXCEPT !.got = @ \ ToSet(acks)]
  /\ UNCHANGED <<Backend, calls, stream, orphans>>

FinishSending ==
  /\ client.writes
  /\ whims < MaxWhims
  /\ whims' = whims + 1
  /\ client' = [client EXCEPT !.writes = FALSE]
  /\ UNCHANGED <<Backend, calls, stream, frames, orphans>>

\* The connection breaks: the last frames may not have arrived.
HangUp ==
  /\ client.reads
  /\ whims < MaxWhims
  /\ whims' = whims + 1
  /\ client' = NoClient
  /\ frames' \in Prefixes(frames)
  /\ UNCHANGED <<Backend, calls, stream, orphans>>

SeesEnd ==
  /\ stream.at = "ended" /\ stream.channel = <<>> /\ client.reads
  /\ client' = NoClient
  /\ frames' = <<>>
  /\ UNCHANGED <<Backend, calls, stream, whims, orphans>>

-----------------------------------------------------------------------------
(* The stream among the other users of the broker: they may do anything    *)
(* but pull.                                                               *)

Modification == [id : Nat \X Nat, seconds : Nat]

ClientStep ==
  \/ \E s \in Subs, n \in MaxOutstanding : Connect(s, n)
  \/ \E acks \in Seq(Nat \X Nat), mods \in Seq(Modification) : SendFrame(acks, mods)
  \/ Read \/ FinishSending \/ HangUp \/ SeesEnd

Elsewhere ==
  \/ Publish \/ Tick \/ Seek \/ TopicAdmin \/ SubscriptionAdmin
  \/ \E s \in DOMAIN sub : \E ids \in IdBatches(s) :
       \/ AckBegin(s, ids) \/ NackBegin(s, ids)
       \/ \E seconds \in Extensions : ExtendDeadline(s, ids, seconds)

StreamingNext ==
  \/ Serve /\ UNCHANGED streamVars
  \/ Elsewhere /\ UNCHANGED <<calls, streamVars>>
  \/ StreamStep \/ ClientStep

StreamingSpec ==
  /\ Init /\ CallsInit /\ StreamInit
  /\ [][StreamingNext]_<<vars, calls, streamVars>>

-----------------------------------------------------------------------------

InChannel == UNION {ToSet(stream.channel[i].ids) : i \in DOMAIN stream.channel}

\* Ack ids the task has in its hands: delivered by a pull that has not
\* returned, waiting for room in the channel, or in a frame being worked on.
InHands ==
  ToSet(call[Stream].got)
  \cup IF stream.at = "sending" THEN ToSet(stream.item.ids) ELSE {}
  \cup IF stream.at \in {"frame", "acking"} THEN ToSet(stream.acks) ELSE {}

InFrames == UNION {ToSet(frames[i].acks) : i \in DOMAIN frames}

Failing == stream.at = "ended" \/ (stream.at = "sending" /\ stream.next = "ended")

\* While a stream is up no delivery of it strays: each lease it took is with
\* its client, on its way there, or on its way back in an ack.  So a message
\* can only wait for its deadline because its stream broke or its client kept
\* it.  (For a subscription nobody else pulls from.)
LeaseReachable ==
  stream.at # "none" /\ client.reads /\ ~Failing =>
    \A s \in DOMAIN sub : \A l \in sub[s].leases :
      AckId(l) \in orphans \cup client.got \cup InChannel \cup InHands \cup InFrames

\* The task behind a stream ends once its client is gone, also when it is
\* blocked on a full channel at that time.
StreamEnds == ~client.reads ~> stream.at \in {"none", "ended"}
=============================================================================
