----------------------------- MODULE MCDurable -----------------------------
(***************************************************************************)
(* Instances of DurableBackend for TLC: a provisioned broker whose clients *)
(* publish, pull, ack, nack and seek while saves fail and the process dies. *)
(***************************************************************************)
EXTENDS MCBackend, DurableBackend

\* An exactly-once subscription that dead-letters after one delivery.
DurableSpecs == {[ExactlyOnceSpec EXCEPT !.dead = [topic |-> dlq, tries |-> 0],
                                         !.retry = [min |-> 0, max |-> 0]]}

DProvisioned ==
  /\ Provisioned
  /\ disk = Image
  /\ acknowledged = {}
  /\ stored = [n \in Topics |-> <<>>]

DClientSpec == DProvisioned /\ [][DNext]_dvars

\* Bound: no administration, and clients publish to t only.
ClientsOnly ==
  /\ DOMAIN topic' = DOMAIN topic /\ DOMAIN sub' = DOMAIN sub
  /\ \A n \in DOMAIN sub : sub'[n].spec = sub[n].spec
  /\ lock'.op = "publish" =>
       lock'.topic = t /\ Len(topic[t].log) + Len(lock'.todo) <= MaxPublished
=============================================================================
