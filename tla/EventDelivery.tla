--------------------------- MODULE EventDelivery ---------------------------
(***************************************************************************)
(* What the supervisor needs of its event path: a notification handed in   *)
(* by an SCM callback or a process watcher is received at most once and    *)
(* only after it was sent, in any order, while the supervisor runs.  The   *)
(* sender never waits.  EventQueue.tla is the Go channel behind it.        *)
(***************************************************************************)
EXTENDS Naturals

CONSTANT Event       \* the notifications; equal ones may be in flight together

VARIABLES sent,      \* sent[e]: how many times e was handed in
          received,  \* received[e]: how many times the supervisor received e
          open       \* TRUE while the supervisor goroutine runs

vars == <<sent, received, open>>

Init == /\ sent = [e \in Event |-> 0]
        /\ received = [e \in Event |-> 0]
        /\ open = TRUE

Send(e) == /\ sent' = [sent EXCEPT ![e] = @ + 1]
           /\ UNCHANGED <<received, open>>

Receive(e) == /\ open
              /\ received[e] < sent[e]
              /\ received' = [received EXCEPT ![e] = @ + 1]
              /\ UNCHANGED <<sent, open>>

Close == /\ open
         /\ open' = FALSE
         /\ UNCHANGED <<sent, received>>

Next == \/ \E e \in Event : Send(e) \/ Receive(e)
        \/ Close

Spec == Init /\ [][Next]_vars
=============================================================================
