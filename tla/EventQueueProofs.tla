-------------------------- MODULE EventQueueProofs --------------------------
(***************************************************************************)
(* Proofs about the event path for every capacity and every set of         *)
(* notifications: its type invariant, that none is lost while the          *)
(* supervisor runs, and that it implements EventDelivery.                  *)
(***************************************************************************)
EXTENDS EventQueueHistory, MultiplicityLemmas

USE CapacityAssumption

-----------------------------------------------------------------------------
(* The type invariant and the accounting invariant.                        *)

HInv == HTypeOK /\ NoneLost

LEMMA HInitInv == HInit => HInv
<1>1. ASSUME NEW e PROVE Places(<<>>, e) = {}
  BY DEF Places
<1>2. ASSUME NEW e PROVE Buffered(<<>>, e) = 0
  BY <1>1, FS_EmptySet DEF Buffered
<1>3. HInit => HTypeOK
  <2>1. Len(<<>>) <= EventQueueCapacity /\ <<>> \in Seq(Event)
    OBVIOUS
  <2>2. [e \in Event |-> 0] \in [Event -> Nat]
    OBVIOUS
  <2>3. QED
    BY <2>1, <2>2, Zenon DEF HInit, Init, HTypeOK, TypeOK
<1>4. HInit => NoneLost
  BY <1>2 DEF HInit, Init, NoneLost, InFlight
<1>5. QED
  BY <1>3, <1>4 DEF HInv

\* Each action keeps the types; the channel never holds more than it has slots.
LEMMA HTypeStep == HTypeOK /\ [HNext]_hvars => HTypeOK'
<1> SUFFICES ASSUME HTypeOK, [HNext]_hvars PROVE HTypeOK'
  OBVIOUS
<1> USE DEF HTypeOK, TypeOK, HasRoom
<1>1. ASSUME NEW e \in Event, HEnqueue(e) PROVE HTypeOK'
  <2>1. sent' \in [Event -> Nat] /\ received' = received
    BY <1>1 DEF HEnqueue
  <2>2. CASE HasRoom /\ events' = Append(events, e) /\ UNCHANGED <<forwarders, done>>
    <3>1. Append(events, e) \in Seq(Event) /\ Len(Append(events, e)) = Len(events) + 1
      OBVIOUS
    <3>2. Len(events) \in Nat
      OBVIOUS
    <3>3. Len(events) + 1 <= EventQueueCapacity
      BY <2>2, <3>2
    <3>4. QED
      BY <2>1, <2>2, <3>1, <3>3
  <2>3. CASE forwarders' = [forwarders EXCEPT ![e] = @ + 1] /\ UNCHANGED <<events, done>>
    BY <2>1, <2>3
  <2>4. QED
    BY <1>1, <2>2, <2>3 DEF HEnqueue, Enqueue
<1>2. ASSUME NEW e \in Event, HDequeue(e) PROVE HTypeOK'
  BY <1>2 DEF HDequeue, Dequeue
<1>3. CASE HInternal
  <2>1. CASE \E e \in Event : Forward(e)
    BY <1>3, <2>1 DEF HInternal, Forward
  <2>2. CASE \E e \in Event : Release(e)
    BY <1>3, <2>2 DEF HInternal, Release
  <2>3. CASE Close
    BY <1>3, <2>3 DEF HInternal, Close
  <2>4. QED
    BY <1>3, <2>1, <2>2, <2>3 DEF HInternal
<1>4. CASE UNCHANGED hvars
  BY <1>4 DEF hvars
<1>5. QED
  BY <1>1, <1>2, <1>3, <1>4 DEF HNext

\* How one step changes what is in flight.
LEMMA InFlightStep ==
    ASSUME HTypeOK, NEW x \in Event, NEW e \in Event
    PROVE  /\ InFlight(e) \in Nat
           /\ Enqueue(x) => InFlight(e)' = InFlight(e) + (IF x = e THEN 1 ELSE 0)
           /\ Forward(x) => InFlight(e)' = InFlight(e)
           /\ Dequeue(x) => InFlight(e) = InFlight(e)' + (IF x = e THEN 1 ELSE 0)
<1> USE DEF HTypeOK, TypeOK, InFlight
<1>1. Buffered(events, e) \in Nat
  BY BufferedNat
<1>2. ASSUME Enqueue(x)
      PROVE  InFlight(e)' = InFlight(e) + (IF x = e THEN 1 ELSE 0)
  <2>1. CASE events' = Append(events, x) /\ forwarders' = forwarders
    BY <1>1, <2>1, BufferedAppend
  <2>2. CASE forwarders' = [forwarders EXCEPT ![x] = @ + 1] /\ events' = events
    BY <1>1, <2>2
  <2>3. QED
    BY <1>2, <2>1, <2>2 DEF Enqueue
<1>3. ASSUME Forward(x)
      PROVE  InFlight(e)' = InFlight(e)
  <2>1. events' = Append(events, x) /\ forwarders' = [forwarders EXCEPT ![x] = @ - 1]
    BY <1>3 DEF Forward
  <2>2. Buffered(events', e) = Buffered(events, e) + (IF x = e THEN 1 ELSE 0)
    BY <2>1, BufferedAppend
  <2>3. forwarders'[e] = forwarders[e] - (IF x = e THEN 1 ELSE 0)
    BY <2>1
  <2>4. QED
    BY <1>1, <2>2, <2>3
<1>4. ASSUME Dequeue(x)
      PROVE  InFlight(e) = InFlight(e)' + (IF x = e THEN 1 ELSE 0)
  <2>1. events # <<>> /\ events' = Tail(events) /\ x = Head(events) /\ forwarders' = forwarders
    BY <1>4 DEF Dequeue
  <2>2. Buffered(events, e) = Buffered(events', e) + (IF x = e THEN 1 ELSE 0)
    BY <2>1, BufferedTail
  <2>3. Tail(events) \in Seq(Event)
    BY <2>1
  <2>4. Buffered(events', e) \in Nat
    BY <2>1, <2>3, BufferedNat
  <2>5. QED
    BY <1>1, <2>1, <2>2, <2>4
<1>5. QED
  BY <1>1, <1>2, <1>3, <1>4

LEMMA NoneLostStep == HInv /\ [HNext]_hvars => NoneLost'
<1> SUFFICES ASSUME HInv, [HNext]_hvars, ~done', NEW e \in Event
             PROVE  sent'[e] = received'[e] + InFlight(e)'
  BY DEF NoneLost
<1> USE DEF HInv
<1>1. InFlight(e) \in Nat /\ sent[e] \in Nat /\ received[e] \in Nat
  BY InFlightStep DEF HTypeOK
<1>2. ~done => sent[e] = received[e] + InFlight(e)
  BY DEF NoneLost
<1>3. ASSUME NEW x \in Event, HEnqueue(x) PROVE sent'[e] = received'[e] + InFlight(e)'
  <2>1. ~done /\ received' = received /\ sent'[e] = sent[e] + (IF x = e THEN 1 ELSE 0)
    BY <1>3 DEF HEnqueue, Enqueue, HTypeOK
  <2>2. InFlight(e)' = InFlight(e) + (IF x = e THEN 1 ELSE 0)
    BY <1>3, InFlightStep DEF HEnqueue
  <2>3. QED
    BY <1>1, <1>2, <2>1, <2>2
<1>4. ASSUME NEW x \in Event, HDequeue(x) PROVE sent'[e] = received'[e] + InFlight(e)'
  <2>1. ~done /\ sent' = sent /\ received'[e] = received[e] + (IF x = e THEN 1 ELSE 0)
    BY <1>4 DEF HDequeue, Dequeue, HTypeOK
  <2>2. InFlight(e) = InFlight(e)' + (IF x = e THEN 1 ELSE 0)
    BY <1>4, InFlightStep DEF HDequeue
  <2>3. InFlight(e)' \in Nat
    BY HTypeStep, BufferedNat DEF HTypeOK, TypeOK, InFlight
  <2>4. QED
    BY <1>1, <1>2, <2>1, <2>2, <2>3
<1>5. ASSUME HInternal PROVE sent'[e] = received'[e] + InFlight(e)'
  <2>1. PICK x \in Event : Forward(x)
    BY <1>5 DEF HInternal, Release, Close
  <2>2. ~done /\ InFlight(e)' = InFlight(e)
    BY <2>1, InFlightStep DEF Forward
  <2>3. QED
    BY <1>2, <1>5, <2>2 DEF HInternal
<1>6. CASE UNCHANGED hvars
  BY <1>2, <1>6 DEF hvars, InFlight
<1>7. QED
  BY <1>3, <1>4, <1>5, <1>6 DEF HNext

(* For every capacity, every set of notifications and every interleaving   *)
(* of senders, forwarders and the supervisor, the types hold and no        *)
(* notification is lost while the supervisor runs.                         *)
THEOREM QueueInvariant == HSpec => [](HTypeOK /\ NoneLost)
<1>1. HInv /\ [HNext]_hvars => HInv'
  BY HTypeStep, NoneLostStep DEF HInv
<1>2. HInv => HTypeOK /\ NoneLost
  BY DEF HInv
<1>3. QED
  BY HInitInv, <1>1, <1>2, PTL DEF HSpec

-----------------------------------------------------------------------------
(* Every step of the queue is a step of the contract or invisible to it.   *)
LEMMA DeliveryStep == HInv /\ [HNext]_hvars => [Delivery!Next]_(Delivery!vars)
<1> SUFFICES ASSUME HInv, [HNext]_hvars PROVE [Delivery!Next]_(Delivery!vars)
  OBVIOUS
<1> USE DEF HInv
<1>1. ASSUME NEW e \in Event, HEnqueue(e) PROVE Delivery!Send(e)
  BY <1>1 DEF HEnqueue, Enqueue, Delivery!Send
<1>2. ASSUME NEW e \in Event, HDequeue(e) PROVE Delivery!Receive(e)
  <2>1. ~done /\ InFlight(e) = InFlight(e)' + 1
    BY <1>2, InFlightStep DEF HDequeue, Dequeue
  <2>2. InFlight(e)' \in Nat
    BY HTypeStep, BufferedNat DEF HTypeOK, TypeOK, InFlight
  <2>3. sent[e] = received[e] + InFlight(e)
    BY <2>1 DEF NoneLost
  <2>4. received[e] \in Nat
    BY DEF HTypeOK
  <2>5. received[e] < sent[e]
    BY <2>1, <2>2, <2>3, <2>4
  <2>6. QED
    BY <1>2, <2>5 DEF HDequeue, Dequeue, Delivery!Receive
<1>3. ASSUME HInternal PROVE Delivery!Close \/ UNCHANGED Delivery!vars
  BY <1>3 DEF HInternal, Forward, Release, Close, Delivery!Close, Delivery!vars
<1>4. CASE UNCHANGED hvars
  BY <1>4 DEF hvars, Delivery!vars
<1>5. QED
  BY <1>1, <1>2, <1>3, <1>4 DEF HNext, Delivery!Next

(* The channel and its forwarders implement the contract of EventDelivery: *)
(* each notification is received at most once, after it was sent and       *)
(* before the supervisor returns, whatever the capacity.                   *)
THEOREM QueueImplementsDelivery == HSpec => DeliversAtMostOnce
<1>1. HInit => Delivery!Init
  BY DEF HInit, Init, Delivery!Init
<1>2. HSpec => []HInv
  BY QueueInvariant, PTL DEF HInv
<1>3. QED
  BY <1>1, <1>2, DeliveryStep, PTL DEF HSpec, Delivery!Spec, DeliversAtMostOnce
=============================================================================
