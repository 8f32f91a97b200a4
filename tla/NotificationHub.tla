---------------------------- MODULE NotificationHub ----------------------------
(***************************************************************************)
(* notification-service: the hub that hands notifications to the streams   *)
(* of the user they are for (internal/service/hub.go), with the stream     *)
(* handlers on one side (transport/grpc/server.go) and the requests that   *)
(* publish on the other.  Subscribing and unsubscribing happen under the   *)
(* write lock, each in one step since nobody sees the middle; a publisher  *)
(* holds the read lock from its first channel to its last.                 *)
(***************************************************************************)
EXTENDS Naturals, Sequences, FiniteSets

CONSTANTS Users, Streams, Publishers,
          Notes,      \* what is published, each once
          NoNote,     \* what a publisher at rest is handing out
          Capacity    \* of a stream's channel, 32 in the code

ASSUME CapacityOK == Capacity \in Nat \ {0}
ASSUME NoNoteOK == NoNote \notin Notes

VARIABLES subs,      \* the hub's channels by user; a channel is named by its stream
          buffer,    \* what each channel holds
          closed,    \* the channels that are closed
          phase,     \* where each stream's handler is
          pub,       \* what each publisher is handing out, and to whom still
          begun,     \* the notes some publisher has begun to hand out
          sent,      \* what each stream has sent to its client (ghost)
          missed,    \* what each stream found no room for (ghost)
          due,       \* what was begun while the stream was subscribed (ghost)
          before     \* <<m, n>>: m was handed out before n was begun (ghost)

hubVars == <<subs, buffer, closed, phase, pub, begun, sent, missed, due, before>>

-----------------------------------------------------------------------------

HubTypeOK == /\ subs \in [Users -> SUBSET Streams]
             /\ buffer \in [Streams -> Seq(Notes)]
             /\ \A s \in Streams : Len(buffer[s]) <= Capacity
             /\ closed \subseteq Streams
             /\ phase \in [Streams -> {"new", "open", "leaving", "gone"}]
             /\ pub \in [Publishers -> [note : Notes \cup {NoNote}, left : SUBSET Streams]]
             /\ begun \subseteq Notes
             /\ sent \in [Streams -> Seq(Notes)]
             /\ missed \in [Streams -> SUBSET Notes]
             /\ due \in [Streams -> SUBSET Notes]
             /\ before \subseteq Notes \X Notes

Resting == [note |-> NoNote, left |-> {}]
Publishing(p) == pub[p].note # NoNote

\* Nobody holds the read lock.
Quiet == \A p \in Publishers : ~Publishing(p)

Elements(s) == {s[i] : i \in 1 .. Len(s)}
Received(s) == sent[s] \o buffer[s]

-----------------------------------------------------------------------------
\* The streams.

Subscribe(s, u) ==
    /\ phase[s] = "new" /\ Quiet
    /\ subs' = [subs EXCEPT ![u] = @ \cup {s}]
    /\ phase' = [phase EXCEPT ![s] = "open"]
    /\ UNCHANGED <<buffer, closed, pub, begun, sent, missed, due, before>>

\* The handler takes a note from its channel and sends it to the client.
Send(s) ==
    /\ phase[s] = "open" /\ buffer[s] # <<>>
    /\ sent' = [sent EXCEPT ![s] = Append(@, Head(buffer[s]))]
    /\ buffer' = [buffer EXCEPT ![s] = Tail(@)]
    /\ UNCHANGED <<subs, closed, phase, pub, begun, missed, due, before>>

\* The client has gone, or a send to it fails: the handler returns.
Leave(s) ==
    /\ phase[s] = "open"
    /\ phase' = [phase EXCEPT ![s] = "leaving"]
    /\ UNCHANGED <<subs, buffer, closed, pub, begun, sent, missed, due, before>>

\* Mutation: the lock is not taken.
UnsubscribeUnlocked(s) ==
    /\ phase[s] = "leaving"
    /\ subs' = [u \in Users |-> subs[u] \ {s}]
    /\ closed' = closed \cup {s}
    /\ phase' = [phase EXCEPT ![s] = "gone"]
    /\ UNCHANGED <<buffer, pub, begun, sent, missed, due, before>>

\* The handler's deferred unsubscribe.
Unsubscribe(s) ==
    /\ phase[s] = "leaving" /\ Quiet
    /\ subs' = [u \in Users |-> subs[u] \ {s}]
    /\ closed' = closed \cup {s}
    /\ phase' = [phase EXCEPT ![s] = "gone"]
    /\ UNCHANGED <<buffer, pub, begun, sent, missed, due, before>>

-----------------------------------------------------------------------------
\* The publishers.

\* RLock; the map cannot change before RUnlock.
Publish(p, u, n) ==
    /\ ~Publishing(p) /\ n \notin begun
    /\ pub' = [pub EXCEPT ![p] = [note |-> n, left |-> subs[u]]]
    /\ begun' = begun \cup {n}
    /\ due' = [s \in Streams |-> IF s \in subs[u] THEN due[s] \cup {n} ELSE due[s]]
    /\ before' = before \cup {<<m, n>> : m \in begun \ {pub[q].note : q \in Publishers}}
    /\ UNCHANGED <<subs, buffer, closed, phase, sent, missed>>

HandedTo(p, s) == pub' = [pub EXCEPT ![p].left = @ \ {s}]

\* Mutation: a full channel makes room by dropping its oldest note.
OfferDroppingOldest(p, s) ==
    /\ s \in pub[p].left
    /\ buffer' = [buffer EXCEPT ![s] =
           IF Len(@) < Capacity THEN Append(@, pub[p].note) ELSE Append(Tail(@), pub[p].note)]
    /\ HandedTo(p, s)
    /\ UNCHANGED <<subs, closed, phase, begun, sent, missed, due, before>>

\* Mutation: the send waits for room.
OfferBlocking(p, s) ==
    /\ s \in pub[p].left
    /\ Len(buffer[s]) < Capacity
    /\ buffer' = [buffer EXCEPT ![s] = Append(@, pub[p].note)]
    /\ HandedTo(p, s)
    /\ UNCHANGED <<subs, closed, phase, begun, sent, missed, due, before>>

\* The select with a default: a full channel misses the note.
Offer(p, s) ==
    /\ s \in pub[p].left
    /\ IF Len(buffer[s]) < Capacity
       THEN buffer' = [buffer EXCEPT ![s] = Append(@, pub[p].note)] /\ UNCHANGED missed
       ELSE missed' = [missed EXCEPT ![s] = @ \cup {pub[p].note}] /\ UNCHANGED buffer
    /\ HandedTo(p, s)
    /\ UNCHANGED <<subs, closed, phase, begun, sent, due, before>>

\* RUnlock.
Release(p) ==
    /\ Publishing(p) /\ pub[p].left = {}
    /\ pub' = [pub EXCEPT ![p] = Resting]
    /\ UNCHANGED <<subs, buffer, closed, phase, begun, sent, missed, due, before>>

-----------------------------------------------------------------------------

HubInit == /\ subs = [u \in Users |-> {}]
           /\ buffer = [s \in Streams |-> <<>>]
           /\ closed = {}
           /\ phase = [s \in Streams |-> "new"]
           /\ pub = [p \in Publishers |-> Resting]
           /\ begun = {}
           /\ sent = [s \in Streams |-> <<>>]
           /\ missed = [s \in Streams |-> {}]
           /\ due = [s \in Streams |-> {}]
           /\ before = {}

HubNext == \/ \E s \in Streams : \/ \E u \in Users : Subscribe(s, u)
                                 \/ Send(s) \/ Leave(s) \/ Unsubscribe(s)
           \/ \E p \in Publishers : \/ \E u \in Users, n \in Notes : Publish(p, u, n)
                                    \/ \E s \in Streams : Offer(p, s)
                                    \/ Release(p)

\* A publisher and a returning stream handler are running goroutines.  Nothing
\* makes a client read: Send has no fairness.
Fairness == /\ \A p \in Publishers : WF_hubVars((\E s \in Streams : Offer(p, s)) \/ Release(p))
            /\ \A s \in Streams : WF_hubVars(Unsubscribe(s))

HubSpec == HubInit /\ [][HubNext]_hubVars /\ Fairness

-----------------------------------------------------------------------------

\* No publisher ever has a closed channel before it, where sending would panic:
\* closing waits for the publishers that may have seen the channel.
NeverSendsOnClosed ==
    \A p \in Publishers : pub[p].left \cap closed = {}

\* What was published while a stream was subscribed has reached it, is on its way,
\* or found its channel full; nothing else reaches it, and nothing twice.
Accounted ==
    \A s \in Streams :
        LET inFlight == {pub[p].note : p \in {q \in Publishers : s \in pub[q].left}}
        IN /\ due[s] = Elements(Received(s)) \cup missed[s] \cup inFlight
           /\ Len(Received(s)) + Cardinality(missed[s]) + Cardinality(inFlight) = Cardinality(due[s])

\* A client sees notifications in the order they were published, as far as one
\* publication was over before the other began.
InOrder ==
    \A s \in Streams : \A i, j \in 1 .. Len(Received(s)) :
        <<Received(s)[i], Received(s)[j]>> \in before => i < j

\* Publishing never waits for a client that does not read.
PublishersFinish == \A p \in Publishers : Publishing(p) ~> ~Publishing(p)

\* A handler whose client is gone gives its channel back.
StreamsEnd == \A s \in Streams : phase[s] = "leaving" ~> phase[s] = "gone"
=============================================================================
