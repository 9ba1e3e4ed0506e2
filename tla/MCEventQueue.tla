---------------------------- MODULE MCEventQueue ----------------------------
(***************************************************************************)
(* EventQueueHistory for TLC: each notification of the finite set Event is *)
(* sent at most MaxSends times.                                            *)
(***************************************************************************)
EXTENDS EventQueueHistory

MaxSends == 1   \* with 1, a leads-to property follows a single notification

MCNext == \/ \E e \in Event : \/ sent[e] < MaxSends /\ HEnqueue(e)
                              \/ HDequeue(e)
          \/ HInternal

MCSpec == HInit /\ [][MCNext]_hvars /\ Fairness
=============================================================================
