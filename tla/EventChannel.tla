---------------------------- MODULE EventChannel ----------------------------
(***************************************************************************)
(* What the outbox promises the rest of the pipeline: a channel that       *)
(* delivers every accepted event at least once, never an event that was    *)
(* not accepted, and first deliveries in causal order within one stream (a *)
(* topic and partition key).                                               *)
(***************************************************************************)

CONSTANT Events

VARIABLES
    undeliverable,  \* events no consumer can be given
    after,      \* after[e]: accepted events of e's stream when e was begun
    accepted,   \* events the channel is responsible for
    delivered,  \* events a consumer can have seen
    closed      \* events the channel will not try to deliver again

vars == <<undeliverable, after, accepted, delivered, closed>>

Init ==
    /\ undeliverable \subseteq Events
    /\ after = [e \in Events |-> {}]
    /\ accepted = {}
    /\ delivered = {}
    /\ closed = {}

\* A producer starts to send e, after everything it has seen accepted.
Begin(e) ==
    /\ e \notin accepted
    /\ \E earlier \in SUBSET accepted :
          after' = [after EXCEPT ![e] = earlier]
    /\ UNCHANGED <<undeliverable, accepted, delivered, closed>>

Accept(e) ==
    /\ accepted' = accepted \cup {e}
    /\ UNCHANGED <<undeliverable, after, delivered, closed>>

\* A delivery may be a repetition, of a closed event too.
Deliver(e) ==
    /\ e \in accepted
    /\ e \notin undeliverable
    /\ after[e] \subseteq delivered
    /\ delivered' = delivered \cup {e}
    /\ UNCHANGED <<undeliverable, after, accepted, closed>>

Close(e) ==
    /\ e \in delivered
    /\ closed' = closed \cup {e}
    /\ UNCHANGED <<undeliverable, after, accepted, delivered>>

Next == \E e \in Events : Begin(e) \/ Accept(e) \/ Deliver(e) \/ Close(e)

\* An accepted event is closed in the end, and therefore delivered, as long as
\* no undeliverable event has been accepted.
Progress ==
    \A e \in Events :
        (e \in accepted) ~> (e \in closed \/ undeliverable \cap accepted # {})

Spec == Init /\ [][Next]_vars /\ Progress
=============================================================================
