-------------------------- MODULE EventQueueHistory --------------------------
(***************************************************************************)
(* EventQueue with the history that its contract speaks of: how often each *)
(* notification was handed to enqueue and how often the supervisor         *)
(* received it.  The history variables constrain nothing.                  *)
(***************************************************************************)
EXTENDS EventQueue

VARIABLES sent, received

hvars == <<events, forwarders, done, sent, received>>

HTypeOK == /\ TypeOK
           /\ sent \in [Event -> Nat]
           /\ received \in [Event -> Nat]

HInit == /\ Init
         /\ sent = [e \in Event |-> 0]
         /\ received = [e \in Event |-> 0]

HEnqueue(e) == /\ Enqueue(e)
               /\ sent' = [sent EXCEPT ![e] = @ + 1]
               /\ UNCHANGED received

HDequeue(e) == /\ Dequeue(e)
               /\ received' = [received EXCEPT ![e] = @ + 1]
               /\ UNCHANGED sent

HInternal == /\ \/ \E e \in Event : Forward(e) \/ Release(e)
                \/ Close
             /\ UNCHANGED <<sent, received>>

HNext == \/ \E e \in Event : HEnqueue(e) \/ HDequeue(e)
         \/ HInternal

HSpec == HInit /\ [][HNext]_hvars

-----------------------------------------------------------------------------
(* "no event is lost" (the comment on EventQueueCapacity): until the       *)
(* supervisor returns, what was handed in is received, in the channel or   *)
(* in a forwarder, however full the channel was when it arrived.           *)
NoneLost == ~done => \A e \in Event : sent[e] = received[e] + InFlight(e)

\* The contract this queue implements.
Delivery == INSTANCE EventDelivery WITH open <- ~done

(* Every step of the channel and its forwarders is a send, a receive or    *)
(* the close of the contract, or invisible to it: nothing is received      *)
(* twice, before it was sent or after the supervisor returned.             *)
DeliversAtMostOnce == Delivery!Spec
=============================================================================
