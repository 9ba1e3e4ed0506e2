----------------------------- MODULE EventQueue -----------------------------
(***************************************************************************)
(* The event path of internal/supervisor: a channel of EventQueueCapacity  *)
(* slots and, when it is full, one forwarding goroutine per notification   *)
(* that does not fit.  SCM control callbacks and process watchers call     *)
(* enqueue; the supervisor goroutine receives; done is closed when it      *)
(* returns, which releases the forwarders that never found a slot.         *)
(***************************************************************************)
EXTENDS Multiplicity

CONSTANTS Event,               \* the notifications
          EventQueueCapacity   \* slots of the channel

ASSUME CapacityAssumption == EventQueueCapacity \in Nat \ {0}

VARIABLES events,      \* the channel's buffer, oldest first
          forwarders,  \* forwarders[e]: goroutines blocked on sending e
          done         \* TRUE once the done channel is closed

vars == <<events, forwarders, done>>

TypeOK == /\ events \in Seq(Event)
          /\ Len(events) <= EventQueueCapacity
          /\ forwarders \in [Event -> Nat]
          /\ done \in BOOLEAN

Init == /\ events = <<>>
        /\ forwarders = [e \in Event |-> 0]
        /\ done = FALSE

-----------------------------------------------------------------------------
(* Broken variants of the definitions below, for the sensitivity checks.   *)
\* A slot is free: the send of enqueue's select can proceed.
HasRoom == Len(events) < EventQueueCapacity

\* A full channel drops the notification instead of handing it over.
EnqueueDropsOnFull(e) ==
    /\ events' = IF HasRoom THEN Append(events, e) ELSE events
    /\ UNCHANGED <<forwarders, done>>

\* The forwarder loops back into its select after the send went through.
ForwardTwice(e) ==
    /\ forwarders[e] > 0
    /\ HasRoom
    /\ events' = Append(events, e)
    /\ UNCHANGED <<forwarders, done>>

\* The forwarder drains into the channel only while the service shuts down.
ForwardOnlyWhenDone(e) ==
    /\ done
    /\ forwarders[e] > 0
    /\ HasRoom
    /\ events' = Append(events, e)
    /\ forwarders' = [forwarders EXCEPT ![e] = @ - 1]
    /\ UNCHANGED done

\* The forwarder has no done branch and waits for a slot for ever.
ReleaseNever(e) ==
    /\ forwarders[e] > 0
    /\ done
    /\ UNCHANGED <<events, forwarders, done>>

-----------------------------------------------------------------------------
(* The select of enqueue: a free slot takes the notification at once,      *)
(* otherwise the default branch starts a forwarder.  The caller never      *)
(* waits in either case.                                                   *)
Enqueue(e) ==
    \/ /\ HasRoom
       /\ events' = Append(events, e)
       /\ UNCHANGED <<forwarders, done>>
    \/ /\ ~HasRoom
       /\ forwarders' = [forwarders EXCEPT ![e] = @ + 1]
       /\ UNCHANGED <<events, done>>

(* A forwarder's send finds a slot.  Forwarders are goroutines of their    *)
(* own, so a later notification may take the slot before an earlier one.   *)
Forward(e) ==
    /\ forwarders[e] > 0
    /\ HasRoom
    /\ events' = Append(events, e)
    /\ forwarders' = [forwarders EXCEPT ![e] = @ - 1]
    /\ UNCHANGED done

\* The other branch of a forwarder's select.
Release(e) ==
    /\ forwarders[e] > 0
    /\ done
    /\ forwarders' = [forwarders EXCEPT ![e] = @ - 1]
    /\ UNCHANGED <<events, done>>

\* The supervisor goroutine receives the oldest notification in the channel.
Dequeue(e) ==
    /\ ~done
    /\ events # <<>>
    /\ e = Head(events)
    /\ events' = Tail(events)
    /\ UNCHANGED <<forwarders, done>>

\* The deferred close(done) of Run.
Close ==
    /\ ~done
    /\ done' = TRUE
    /\ UNCHANGED <<events, forwarders>>

Next == \/ \E e \in Event : Enqueue(e) \/ Forward(e) \/ Release(e) \/ Dequeue(e)
        \/ Close

(* The Go scheduler runs every goroutine, and the runtime queues blocked   *)
(* senders first in first out, so a forwarder that finds the channel       *)
(* non-full again and again gets its slot: strong fairness.  The receive   *)
(* loop is the supervisor's, weakly fair.                                  *)
Fairness == /\ \A e \in Event : SF_vars(Forward(e)) /\ WF_vars(Release(e))
            /\ WF_vars(\E e \in Event : Dequeue(e))

Spec == Init /\ [][Next]_vars

FairSpec == Spec /\ Fairness

-----------------------------------------------------------------------------
\* Notifications equal to e which were handed in and not yet received.
InFlight(e) == Buffered(events, e) + forwarders[e]

(* A notification that had to be handed to a forwarder is neither starved   *)
(* nor left behind: it reaches the supervisor, or the supervisor returns.  *)
(* (For notifications sent once, as MCEventQueue sends them.)              *)
EveryEventLeaves == \A e \in Event : (InFlight(e) > 0) ~> (done \/ InFlight(e) = 0)

(* No goroutine outlives the service main: a forwarder still waiting when  *)
(* done is closed ends, although nobody receives any more.                 *)
ForwardersEnd == \A e \in Event : (done /\ forwarders[e] > 0) ~> (forwarders[e] = 0)
=============================================================================
