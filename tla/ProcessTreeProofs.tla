-------------------------- MODULE ProcessTreeProofs --------------------------
(***************************************************************************)
(* Proofs about ProcessTree: identifiers in the walk keep their meaning,   *)
(* no process but the child and its descendants is touched, and a stop     *)
(* that reports no error leaves no child of a walked process behind.       *)
(***************************************************************************)
EXTENDS ProcessTree, SequenceTheorems, TLAPS

(* The process table: creation and exit times are past, and a process that *)
(* was started after the one its parent identifier denotes is a child of   *)
(* that one.                                                               *)
TableInv(t, n) ==
    /\ \A pid \in Pid : /\ t[pid] # Nobody => t[pid].created # 0
                        /\ t[pid].created <= n /\ t[pid].exited <= n
    /\ \A child, pid \in Pid :
          /\ t[child] # Nobody /\ t[pid] # Nobody
          /\ t[child].parentPid = pid
          /\ t[child].created >= t[pid].created
          /\ t[pid].ours
          => t[child].ours

\* The child's handle is kept.
RootInv == table[Root] # Nobody /\ table[Root].ours

(* A call is that of a descendant, and its identifier has been visited. An *)
(* entry that names the process of the call as parent is still right where *)
(* its identifier denotes a process that is not younger than the exit.     *)
CallInv(frame, t, v, n) ==
    /\ t[frame.pid] # Nobody /\ t[frame.pid].ours
    /\ frame.created # 0 => t[frame.pid].created = frame.created
    /\ frame.pid \in v
    /\ frame.exited <= n
    /\ frame.at # "children" => frame.entries = {}
    /\ \A e \in frame.entries :
          /\ e[2] = frame.pid
          /\ t[e[1]] # Nobody
          /\ t[e[1]].created <= frame.exited
          => t[e[1]].parentPid = frame.pid

(* The active calls have different identifiers, the child's the outermost. *)
WalkInv(s, t, v, n) ==
    /\ s \in Seq(Frame)
    /\ \A i \in 1..Len(s) : CallInv(s[i], t, v, n)
    /\ \A i, j \in 1..Len(s) : s[i].pid = s[j].pid => i = j
    /\ s # <<>> => s[1].pid = Root

DataInv == /\ table \in [Pid -> Process] /\ now \in Times
           /\ method \in Methods /\ killTree \in BOOLEAN
           /\ visited \subseteq Pid
           /\ \A b \in {failed, over, strangerHit} : b \in BOOLEAN
           /\ walked \subseteq Times

IInv == /\ DataInv /\ TableInv(table, now) /\ RootInv
        /\ WalkInv(stack, table, visited, now)
        /\ OnlyDescendants

-----------------------------------------------------------------------------
LEMMA NobodyType == Nobody \in Process /\ Nobody.created = 0 /\ Nobody.exited = 0
BY TreeAssumption DEF Nobody, Process, Times, Outside

LEMMA FrontOf ==
    ASSUME NEW S, NEW s \in Seq(S), s # <<>>
    PROVE  /\ Front(s) \in Seq(S) /\ Len(Front(s)) = Len(s) - 1
           /\ \A i \in 1..(Len(s) - 1) : Front(s)[i] = s[i]
           /\ Len(s) \in Nat \ {0}
           /\ Len(s) \in 1..Len(s) /\ Last(s) = s[Len(s)] /\ Last(s) \in S
<1> DEFINE n == Len(s) - 1
<1>1. n \in Nat /\ n \in Int /\ Len(s) = n + 1 /\ Len(s) \in 1..Len(s)
      /\ \A i \in 1..Len(s) : s[i] \in S
  OBVIOUS
<1> HIDE DEF n
<1>2. \A i \in 1..n : s[i] \in S
  BY <1>1
<1>3. /\ SubSeq(s, 1, n) \in Seq(S)
      /\ Len(SubSeq(s, 1, n)) = IF 1 <= n THEN n - 1 + 1 ELSE 0
      /\ \A i \in 1..(n - 1 + 1) : SubSeq(s, 1, n)[i] = s[1 + i - 1]
  BY <1>1, <1>2, 1 \in Int, SubSeqProperties
<1>4. Len(SubSeq(s, 1, n)) = n /\ \A i \in 1..n : SubSeq(s, 1, n)[i] = s[i]
  BY <1>1, <1>3
<1>5. Front(s) = SubSeq(s, 1, n)
  BY DEF Front, n
<1>6. QED
  BY <1>1, <1>3, <1>4, <1>5 DEF Last

LEMMA InitIInv == Init => IInv
<1> SUFFICES ASSUME Init PROVE IInv
  OBVIOUS
<1> USE TreeAssumption DEF Init
<1>1. table \in [Pid -> Process]
  BY DEF Process, Started, Times, Outside, Nobody
<1>2. DataInv
  BY <1>1, 2 \in 0..MaxBirths, Zenon DEF DataInv, Times
<1>3. TableInv(table, now)
  BY DEF TableInv, Started, Nobody, Outside
<1>4. RootInv
  BY DEF RootInv, Started, Nobody
<1>5. WalkInv(stack, table, visited, now)
  BY DEF WalkInv
<1>6. QED
  BY <1>2, <1>3, <1>4, <1>5 DEF IInv, OnlyDescendants

LEMMA TypesFollow == DataInv /\ WalkInv(stack, table, visited, now) => TypeOK
BY DEF DataInv, WalkInv, CallInv, TypeOK

-----------------------------------------------------------------------------
(* Steps of the table: an identifier denotes nothing, what it denoted      *)
(* before, or a process that is younger than everything that was there.    *)

Same(p, q) == p.created = q.created /\ p.parentPid = q.parentPid /\ p.ours = q.ours

Keeps(t, t2) ==
    \A pid \in Pid : \/ t2[pid] = Nobody
                     \/ t[pid] # Nobody /\ t2[pid] # Nobody /\ Same(t2[pid], t[pid])

KeepsOrBears(t, t2, n) ==
    \A pid \in Pid : \/ t2[pid] = Nobody
                     \/ t[pid] # Nobody /\ t2[pid] # Nobody /\ Same(t2[pid], t[pid])
                     \/ t2[pid].created = n + 1

\* A call is not disturbed as long as its identifier is not given up.
LEMMA CallStays ==
    ASSUME NEW t \in [Pid -> Process], NEW t2 \in [Pid -> Process], NEW v, NEW v2,
           NEW n \in Nat, NEW n2 \in Nat, n <= n2, v \subseteq v2,
           NEW f \in Frame, CallInv(f, t, v, n),
           KeepsOrBears(t, t2, n),
           t[f.pid] # Nobody => t2[f.pid] # Nobody /\ Same(t2[f.pid], t[f.pid])
    PROVE  CallInv(f, t2, v2, n2)
<1>1. f.exited \in Nat /\ f.pid \in Pid
      /\ \A e \in f.entries : e[1] \in Pid /\ e[2] \in Pid \cup {Outside}
  BY TreeAssumption DEF Frame, Times
<1>2. f.exited <= n2
  BY <1>1 DEF CallInv
<1>3. ASSUME NEW e \in f.entries, e[2] = f.pid, t2[e[1]] # Nobody,
             t2[e[1]].created <= f.exited
      PROVE  t2[e[1]].parentPid = f.pid
  <2>1. t2[e[1]].created # n + 1
    BY <1>1, <1>3 DEF CallInv
  <2>2. t[e[1]] # Nobody /\ Same(t2[e[1]], t[e[1]])
    BY <1>1, <1>3, <2>1 DEF KeepsOrBears
  <2>3. QED
    BY <1>3, <2>2 DEF CallInv, Same
<1>4. QED
  BY <1>2, <1>3 DEF CallInv, Same

LEMMA TableStays ==
    ASSUME NEW t \in [Pid -> Process], NEW t2 \in [Pid -> Process], NEW n \in Nat,
           TableInv(t, n), Keeps(t, t2), \A pid \in Pid : t2[pid].exited <= n
    PROVE  TableInv(t2, n)
<1>1. \A pid \in Pid : t2[pid] = Nobody => t2[pid].created <= n
  BY NobodyType
<1>2. QED
  BY <1>1 DEF TableInv, Keeps, Same

-----------------------------------------------------------------------------
(* Steps of the stack of calls.                                            *)

LEMMA CallOf ==
    ASSUME NEW t, NEW v, NEW n, NEW s, WalkInv(s, t, v, n), NEW i \in 1..Len(s)
    PROVE  /\ s[i] \in Frame /\ s[i].pid \in Pid
           /\ CallInv(s[i], t, v, n) /\ t[s[i].pid] # Nobody
<1>1. s[i] \in Frame /\ CallInv(s[i], t, v, n)
  BY DEF WalkInv
<1>2. QED
  BY <1>1 DEF Frame, CallInv

LEMMA WalkStays ==
    ASSUME NEW t \in [Pid -> Process], NEW t2 \in [Pid -> Process], NEW v, NEW v2,
           NEW n \in Nat, NEW n2 \in Nat, n <= n2, v \subseteq v2,
           NEW s, WalkInv(s, t, v, n),
           KeepsOrBears(t, t2, n),
           \A i \in 1..Len(s) : t2[s[i].pid] # Nobody /\ Same(t2[s[i].pid], t[s[i].pid])
    PROVE  WalkInv(s, t2, v2, n2)
<1>1. ASSUME NEW i \in 1..Len(s) PROVE CallInv(s[i], t2, v2, n2)
  <2>1. s[i] \in Frame /\ CallInv(s[i], t, v, n)
    BY DEF WalkInv
  <2>2. t2[s[i].pid] # Nobody /\ Same(t2[s[i].pid], t[s[i].pid])
    OBVIOUS
  <2>3. QED
    BY <2>1, <2>2, CallStays
<1>2. QED
  BY <1>1 DEF WalkInv

\* The call on top goes on.
LEMMA TopGoesOn ==
    ASSUME NEW t, NEW v, NEW n, NEW s, WalkInv(s, t, v, n), s # <<>>,
           NEW f \in Frame, f.pid = Last(s).pid, CallInv(f, t, v, n)
    PROVE  WalkInv(Append(Front(s), f), t, v, n)
<1> DEFINE r == Append(Front(s), f)
<1>1. /\ Front(s) \in Seq(Frame) /\ Len(Front(s)) = Len(s) - 1 /\ Len(s) \in Nat \ {0}
      /\ \A i \in 1..(Len(s) - 1) : Front(s)[i] = s[i]
      /\ Last(s) = s[Len(s)]
  <2>1. s \in Seq(Frame)
    BY DEF WalkInv
  <2>2. QED
    BY <2>1, FrontOf
<1>2. /\ r \in Seq(Frame) /\ Len(r) = Len(s) /\ r[Len(s)] = f
      /\ \A i \in 1..(Len(s) - 1) : r[i] = s[i]
  BY <1>1
<1> HIDE DEF r
<1>3. \A i \in 1..Len(r) : CallInv(r[i], t, v, n)
  <2>1. ASSUME NEW i \in 1..Len(r) PROVE CallInv(r[i], t, v, n)
    <3>1. CASE i = Len(s)
      BY <3>1, <1>2
    <3>2. CASE i # Len(s)
      <4>1. i \in 1..(Len(s) - 1) /\ i \in 1..Len(s)
        BY <3>2, <1>1, <1>2
      <4>2. QED
        BY <4>1, <1>2 DEF WalkInv
    <3>3. QED
      BY <3>1, <3>2
  <2>2. QED
    BY <2>1
<1>4. \A i \in 1..Len(s) : r[i].pid = s[i].pid
  BY <1>1, <1>2
<1>5. QED
  BY <1>1, <1>2, <1>3, <1>4 DEF WalkInv, r

\* The call on top returns.
LEMMA TopReturns ==
    ASSUME NEW t, NEW v, NEW n, NEW s, WalkInv(s, t, v, n), s # <<>>
    PROVE  /\ WalkInv(Front(s), t, v, n)
           /\ \A i \in 1..Len(Front(s)) : Front(s)[i].pid # Last(s).pid
           /\ Len(s) > 1 => Last(s).pid # Root
<1>1. /\ Front(s) \in Seq(Frame) /\ Len(Front(s)) = Len(s) - 1 /\ Len(s) \in Nat \ {0}
      /\ \A i \in 1..(Len(s) - 1) : Front(s)[i] = s[i]
      /\ Last(s) = s[Len(s)]
  <2>1. s \in Seq(Frame)
    BY DEF WalkInv
  <2>2. QED
    BY <2>1, FrontOf
<1>2. \A i \in 1..(Len(s) - 1) : i \in 1..Len(s) /\ i # Len(s)
  BY <1>1
<1>3. Front(s) # <<>> => Front(s)[1] = s[1]
  BY <1>1
<1>4. Len(s) > 1 => Last(s).pid # Root
  <2>1. 1 \in 1..Len(s) /\ Len(s) \in 1..Len(s)
    BY <1>1
  <2>2. QED
    BY <1>1, <2>1 DEF WalkInv
<1>5. \A i \in 1..Len(Front(s)) : CallInv(Front(s)[i], t, v, n)
  BY <1>1, <1>2 DEF WalkInv
<1>6. \A i, j \in 1..Len(Front(s)) : Front(s)[i].pid = Front(s)[j].pid => i = j
  BY <1>1, <1>2 DEF WalkInv
<1>7. \A i \in 1..Len(Front(s)) : Front(s)[i].pid # Last(s).pid
  BY <1>1, <1>2 DEF WalkInv
<1>8. QED
  BY <1>1, <1>3, <1>4, <1>5, <1>6, <1>7 DEF WalkInv

\* A process whose identifier has not been visited is walked.
LEMMA Calls ==
    ASSUME NEW t, NEW v, NEW n, NEW s, WalkInv(s, t, v, n),
           NEW f \in Frame, f.pid \notin v,
           \A i \in 1..Len(s) : CallInv(s[i], t, v \cup {f.pid}, n),
           CallInv(f, t, v \cup {f.pid}, n),
           s = <<>> => f.pid = Root
    PROVE  WalkInv(Append(s, f), t, v \cup {f.pid}, n)
<1> DEFINE r == Append(s, f)
<1>1. /\ r \in Seq(Frame) /\ Len(r) = Len(s) + 1 /\ Len(s) \in Nat /\ r[Len(s) + 1] = f
      /\ \A i \in 1..Len(s) : r[i] = s[i]
  BY DEF WalkInv
<1> HIDE DEF r
<1>2. \A i \in 1..Len(s) : s[i].pid # f.pid
  BY DEF WalkInv, CallInv
<1>3. \A i \in 1..Len(r) : i \in 1..Len(s) \/ i = Len(s) + 1
  BY <1>1
<1>4. \A i \in 1..Len(r) : CallInv(r[i], t, v \cup {f.pid}, n)
  BY <1>1, <1>3
<1>5. \A i, j \in 1..Len(r) : r[i].pid = r[j].pid => i = j
  BY <1>1, <1>2, <1>3 DEF WalkInv
<1>6. r[1].pid = Root
  <2>1. CASE s = <<>>
    BY <2>1, <1>1
  <2>2. CASE s # <<>>
    <3>1. 1 \in 1..Len(s)
      BY <2>2, <1>1 DEF WalkInv
    <3>2. QED
      BY <3>1, <2>2, <1>1 DEF WalkInv
  <2>3. QED
    BY <2>1, <2>2
<1>7. QED
  BY <1>1, <1>4, <1>5, <1>6 DEF WalkInv, r

-----------------------------------------------------------------------------
(* Steps of the system.                                                    *)

LEMMA TopFacts ==
    ASSUME DataInv, WalkInv(stack, table, visited, now), stack # <<>>
    PROVE  /\ Top \in Frame /\ Top.pid \in Pid
           /\ Top.created \in Times /\ Top.exited \in Times
           /\ CallInv(Top, table, visited, now)
           /\ table[Top.pid] \in Process
           /\ now \in Nat
<1>1. Top \in Frame /\ Len(stack) \in 1..Len(stack) /\ Top = stack[Len(stack)]
  <2>1. stack \in Seq(Frame)
    BY DEF WalkInv
  <2>2. QED
    BY <2>1, FrontOf DEF Top
<1>2. Top.pid \in Pid /\ Top.created \in Times /\ Top.exited \in Times
  BY <1>1 DEF Frame
<1>3. CallInv(Top, table, visited, now)
  BY <1>1 DEF WalkInv
<1>4. table[Top.pid] \in Process /\ now \in Nat
  BY <1>2, TreeAssumption DEF DataInv, Times
<1>5. QED
  BY <1>1, <1>2, <1>3, <1>4

\* A step in which only the call on top changes, to a frame of the same process.
LEMMA TopStep ==
    ASSUME IInv, stack # <<>>,
           NEW f \in Frame, f.pid = Top.pid, CallInv(f, table, visited, now)
    PROVE  WalkInv(Append(Front(stack), f), table, visited, now)
BY TopGoesOn DEF IInv, Top

\* A step that changes neither the entries of the call on top nor its process.
LEMMA PlaceStep ==
    ASSUME IInv, stack # <<>>, Top.at # "children",
           NEW f \in Frame, f.pid = Top.pid, f.entries = Top.entries,
           f.created \in {0, Top.created, table[Top.pid].created}, f.exited <= now
    PROVE  WalkInv(Append(Front(stack), f), table, visited, now)
<1>1. CallInv(Top, table, visited, now)
  BY TopFacts DEF IInv
<1>2. CallInv(f, table, visited, now)
  BY <1>1 DEF CallInv
<1>3. QED
  BY <1>2, TopStep

\* What an update of one field leaves alone.
LEMMA Updates ==
    ASSUME NEW f \in Frame
    PROVE  /\ \A at \in AllMethods \cup {"begin", "exit", "children", "times", "snapshot"} :
                 LET g == [f EXCEPT !.at = at]
                 IN  /\ g \in Frame /\ g.pid = f.pid /\ g.entries = f.entries /\ g.at = at
                     /\ g.created = f.created /\ g.exited = f.exited
           /\ \A waiting \in BOOLEAN :
                 LET g == [f EXCEPT !.waiting = waiting]
                 IN  /\ g \in Frame /\ g.pid = f.pid /\ g.entries = f.entries /\ g.at = f.at
                     /\ g.created = f.created /\ g.exited = f.exited
           /\ \A created \in Times :
                 LET g == [f EXCEPT !.created = created]
                 IN  /\ g \in Frame /\ g.pid = f.pid /\ g.entries = f.entries /\ g.at = f.at
                     /\ g.created = created /\ g.exited = f.exited
           /\ \A exited \in Times :
                 LET g == [f EXCEPT !.exited = exited]
                 IN  /\ g \in Frame /\ g.pid = f.pid /\ g.entries = f.entries /\ g.at = f.at
                     /\ g.created = f.created /\ g.exited = exited
           /\ \A entries \in SUBSET (Pid \X (Pid \cup {Outside})) :
                 LET g == [f EXCEPT !.entries = entries]
                 IN  /\ g \in Frame /\ g.pid = f.pid /\ g.entries = entries /\ g.at = f.at
                     /\ g.created = f.created /\ g.exited = f.exited
BY DEF Frame

\* A step that moves the call on top to another place.
LEMMA GotoStep ==
    ASSUME IInv, stack # <<>>, Top.at # "children",
           NEW place \in AllMethods \cup {"exit", "times"}
    PROVE  Goto(place) => WalkInv(stack', table, visited, now)
<1> DEFINE f == [Top EXCEPT !.at = place]
           g == [f EXCEPT !.waiting = FALSE]
<1>1. Top \in Frame /\ CallInv(Top, table, visited, now)
  BY TopFacts DEF IInv
<1>2. f \in Frame /\ f.pid = Top.pid /\ f.entries = Top.entries
      /\ f.created = Top.created /\ f.exited = Top.exited
  BY <1>1, Updates
<1> HIDE DEF f
<1>3. g \in Frame /\ g.pid = Top.pid /\ g.entries = Top.entries
      /\ g.created = Top.created /\ g.exited = Top.exited
  BY <1>2, Updates, Zenon
<1> HIDE DEF g
<1>4. WalkInv(Append(Front(stack), g), table, visited, now)
  BY <1>1, <1>3, PlaceStep DEF CallInv
<1>5. QED
  BY <1>4 DEF Goto, SetTop, f, g

\* What each action leaves of the invariant when table, now and visited stay.
LEMMA Unhurt ==
    ASSUME IInv, UNCHANGED <<table, now>>, strangerHit' = strangerHit, DataInv',
           WalkInv(stack', table, visited', now)
    PROVE  IInv'
BY DEF IInv, RootInv, OnlyDescendants

\* A stage may be applied to the process on top.
LEMMA NoStranger == ASSUME IInv, stack # <<>>, Hit PROVE strangerHit' = strangerHit
<1>1. table[Top.pid].ours
  BY TopFacts DEF IInv, CallInv
<1>2. strangerHit = FALSE
  BY DEF IInv, OnlyDescendants
<1>3. QED
  BY <1>1, <1>2 DEF Hit

LEMMA KeepsIsEnough == \A t, t2, n : Keeps(t, t2) => KeepsOrBears(t, t2, n)
BY DEF Keeps, KeepsOrBears

\* A change of what an identifier denotes that neither replaces nor removes it.
LEMMA SameProcess ==
    ASSUME IInv, NEW pid \in Pid, NEW process \in Process,
           table[pid] # Nobody, Same(process, table[pid]), process.exited <= now,
           table' = [table EXCEPT ![pid] = process], now' = now
    PROVE  /\ table' \in [Pid -> Process] /\ TableInv(table', now) /\ RootInv'
           /\ WalkInv(stack, table', visited, now)
<1>1. table \in [Pid -> Process] /\ now \in Nat
  BY TreeAssumption DEF IInv, DataInv, Times
<1>2. table' \in [Pid -> Process]
  BY <1>1
<1>3. process # Nobody
  BY NobodyType DEF IInv, TableInv, Same
<1>4. Keeps(table, table')
  BY <1>1, <1>3 DEF Keeps, Same
<1>5. TableInv(table', now)
  <2>1. \A p \in Pid : table'[p].exited <= now
    BY <1>1 DEF IInv, TableInv
  <2>2. QED
    BY <1>1, <1>2, <1>4, <2>1, TableStays DEF IInv
<1>6. RootInv'
  <2>1. table'[Root] # Nobody /\ Same(table'[Root], table[Root])
    BY <1>1, <1>3, TreeAssumption DEF IInv, RootInv, Same
  <2>2. QED
    BY <2>1 DEF IInv, RootInv, Same
<1>7. WalkInv(stack, table', visited, now)
  <2>1. ASSUME NEW i \in 1..Len(stack)
        PROVE  table'[stack[i].pid] # Nobody /\ Same(table'[stack[i].pid], table[stack[i].pid])
    <3>1. stack[i].pid \in Pid /\ table[stack[i].pid] # Nobody
      BY CallOf DEF IInv
    <3>2. QED
      BY <3>1, <1>1, <1>3 DEF Same
  <2>2. KeepsOrBears(table, table', now) /\ now <= now /\ visited \subseteq visited
    BY <1>1, <1>4, KeepsIsEnough
  <2>3. WalkInv(stack, table, visited, now)
    BY DEF IInv
  <2>4. QED
    BY <1>1, <1>2, <2>1, <2>2, <2>3, WalkStays
<1>8. QED
  BY <1>2, <1>5, <1>6, <1>7

\* A process that no call needs is given up.
LEMMA GivenUp ==
    ASSUME IInv, NEW pid \in Pid, pid # Root, NEW s, WalkInv(s, table, visited, now),
           \A i \in 1..Len(s) : s[i].pid # pid,
           table' = [table EXCEPT ![pid] = Nobody], now' = now
    PROVE  /\ table' \in [Pid -> Process] /\ TableInv(table', now) /\ RootInv'
           /\ WalkInv(s, table', visited, now)
<1>1. table \in [Pid -> Process] /\ now \in Nat
  BY TreeAssumption DEF IInv, DataInv, Times
<1>2. table' \in [Pid -> Process]
  BY <1>1, NobodyType
<1>3. Keeps(table, table')
  BY <1>1 DEF Keeps, Same
<1>4. TableInv(table', now)
  <2>1. \A p \in Pid : table'[p].exited <= now
    BY <1>1, NobodyType DEF IInv, TableInv
  <2>2. QED
    BY <1>1, <1>2, <1>3, <2>1, TableStays DEF IInv
<1>5. RootInv'
  <2>1. table'[Root] = table[Root]
    BY <1>1, TreeAssumption
  <2>2. QED
    BY <2>1 DEF IInv, RootInv
<1>6. WalkInv(s, table', visited, now)
  <2>1. ASSUME NEW i \in 1..Len(s)
        PROVE  table'[s[i].pid] # Nobody /\ Same(table'[s[i].pid], table[s[i].pid])
    <3>1. s[i].pid \in Pid /\ s[i].pid # pid /\ table[s[i].pid] # Nobody
      BY CallOf
    <3>2. QED
      BY <3>1, <1>1 DEF Same
  <2>2. KeepsOrBears(table, table', now) /\ now <= now /\ visited \subseteq visited
    BY <1>1, <1>3, KeepsIsEnough
  <2>3. QED
    BY <1>1, <1>2, <2>1, <2>2, WalkStays
<1>7. QED
  BY <1>2, <1>4, <1>5, <1>6

LEMMA ReturnStep ==
    ASSUME IInv, stack # <<>>, Return, now' = now
    PROVE  /\ table' \in [Pid -> Process] /\ TableInv(table', now) /\ RootInv'
           /\ WalkInv(stack', table', visited, now)
           /\ over' \in BOOLEAN
<1>1. /\ WalkInv(Front(stack), table, visited, now)
      /\ \A i \in 1..Len(Front(stack)) : Front(stack)[i].pid # Top.pid
      /\ Len(stack) > 1 => Top.pid # Root
  BY TopReturns DEF IInv, Top
<1>2. stack' = Front(stack) /\ over' \in BOOLEAN
  BY DEF Return
<1>3. CASE Len(stack) > 1 /\ ~IsAlive(Top.pid)
  <2>1. table' = [table EXCEPT ![Top.pid] = Nobody]
    BY <1>3 DEF Return
  <2>2. Top.pid \in Pid
    BY TopFacts DEF IInv
  <2>3. QED
    BY <1>1, <1>2, <1>3, <2>1, <2>2, GivenUp
<1>4. CASE ~(Len(stack) > 1 /\ ~IsAlive(Top.pid))
  <2>1. table' = table
    BY <1>4 DEF Return
  <2>2. QED
    BY <1>1, <1>2, <2>1 DEF IInv, DataInv, RootInv
<1>5. QED
  BY <1>3, <1>4

-----------------------------------------------------------------------------
(* The actions.                                                            *)

LEMMA CallFrame == ASSUME NEW pid \in Pid PROVE Call(pid) \in Frame
BY TreeAssumption DEF Call, Frame, Times, AllMethods, Gentle

LEMMA SpawnStep == IInv /\ Spawn => IInv'
<1> SUFFICES ASSUME IInv, Spawn PROVE IInv'
  OBVIOUS
<1>1. table \in [Pid -> Process] /\ now \in Nat /\ now + 1 \in Times /\ now' = now + 1
      /\ 0 \in Times
  BY TreeAssumption DEF IInv, DataInv, Times, Spawn
<1>2. PICK pid \in Pid, parent \in Times, parentPid \in Pid \cup {Outside}, ours \in BOOLEAN :
        /\ table[pid] = Nobody
        /\ table' = [table EXCEPT ![pid] = Started(now + 1, parent, parentPid, ours)]
        /\ parentPid \in Pid => table[parentPid] # Nobody /\ ours = table[parentPid].ours
  <2>1. PICK pid \in Pid : table[pid] = Nobody
          /\ \E process \in {Started(now + 1, 0, Outside, FALSE)}
                             \cup {Started(now + 1, table[p].created, p, table[p].ours) : p \in Alive} :
                table' = [table EXCEPT ![pid] = process]
    BY DEF Spawn
  <2>2. CASE table' = [table EXCEPT ![pid] = Started(now + 1, 0, Outside, FALSE)]
    <3>1. Outside \notin Pid
      BY TreeAssumption
    <3>2. QED
      BY <1>1, <2>1, <2>2, <3>1
  <2>3. CASE \E p \in Alive :
               table' = [table EXCEPT ![pid] = Started(now + 1, table[p].created, p, table[p].ours)]
    <3>1. PICK p \in Alive :
               table' = [table EXCEPT ![pid] = Started(now + 1, table[p].created, p, table[p].ours)]
      BY <2>3
    <3>2. p \in Pid /\ table[p] # Nobody /\ table[p] \in Process
      BY <1>1 DEF Alive, IsAlive
    <3>3. table[p].created \in Times /\ table[p].ours \in BOOLEAN
      BY <3>2 DEF Process
    <3>4. QED
      BY <2>1, <3>1, <3>2, <3>3
  <2>4. QED
    BY <2>1, <2>2, <2>3
<1> DEFINE new == Started(now + 1, parent, parentPid, ours)
<1>3. /\ new \in Process /\ new.created = now + 1 /\ new.exited = 0
      /\ new.parentPid = parentPid /\ new.ours = ours
  BY <1>1 DEF Started, Process
<1>4. new # Nobody
  BY <1>1, <1>3, NobodyType
<1> HIDE DEF new
<1>5. table' \in [Pid -> Process] /\ table'[pid] = new
      /\ \A p \in Pid : p # pid => table'[p] = table[p]
  BY <1>1, <1>2, <1>3 DEF new
<1>6. KeepsOrBears(table, table', now)
  BY <1>3, <1>5 DEF KeepsOrBears, Same
<1>7. TableInv(table', now')
  <2>1. \A p \in Pid : /\ table[p].created <= now /\ table[p].exited <= now
                      /\ table[p].created \in Nat /\ table[p].exited \in Nat
                      /\ (table[p] # Nobody => table[p].created # 0)
    BY <1>1, TreeAssumption DEF IInv, TableInv, Process, Times
  <2>2. \A p \in Pid : /\ table'[p] # Nobody => table'[p].created # 0
                      /\ table'[p].created <= now' /\ table'[p].exited <= now'
    BY <1>1, <1>3, <1>5, <2>1
  <2>3. ASSUME NEW child \in Pid, NEW p \in Pid,
               table'[child] # Nobody, table'[p] # Nobody,
               table'[child].parentPid = p,
               table'[child].created >= table'[p].created, table'[p].ours
        PROVE  table'[child].ours
    <3>1. CASE child = pid /\ p # pid
      BY <3>1, <2>3, <1>2, <1>3, <1>5
    <3>2. CASE child = pid /\ p = pid
      BY <3>2, <2>3
    <3>3. CASE child # pid /\ p = pid
      BY <3>3, <2>3, <2>1, <1>1, <1>3, <1>5
    <3>4. CASE child # pid /\ p # pid
      BY <3>4, <2>3, <1>5 DEF IInv, TableInv
    <3>5. QED
      BY <3>1, <3>2, <3>3, <3>4
  <2>4. QED
    BY <2>2, <2>3 DEF TableInv
<1>8. RootInv'
  <2>1. Root # pid /\ Root \in Pid
    BY <1>2, TreeAssumption DEF IInv, RootInv
  <2>2. table'[Root] = table[Root]
    BY <2>1, <1>5
  <2>3. QED
    BY <2>2 DEF IInv, RootInv
<1>9. WalkInv(stack, table', visited, now')
  <2>1. ASSUME NEW i \in 1..Len(stack)
        PROVE  table'[stack[i].pid] # Nobody /\ Same(table'[stack[i].pid], table[stack[i].pid])
    <3>1. stack[i].pid \in Pid /\ table[stack[i].pid] # Nobody
      BY CallOf DEF IInv
    <3>2. QED
      BY <3>1, <1>2, <1>5 DEF Same
  <2>2. now <= now' /\ visited \subseteq visited /\ now' \in Nat
    BY <1>1
  <2>3. WalkInv(stack, table, visited, now)
    BY DEF IInv
  <2>4. QED
    BY <1>1, <1>5, <1>6, <2>1, <2>2, <2>3, WalkStays
<1>10. DataInv'
  BY <1>1, <1>5 DEF IInv, DataInv, Spawn, spec
<1>11. QED
  BY <1>7, <1>8, <1>9, <1>10 DEF IInv, Spawn, OnlyDescendants

LEMMA ExitStep == ASSUME NEW pid \in Pid PROVE IInv /\ Exit(pid) => IInv'
<1> SUFFICES ASSUME IInv, Exit(pid) PROVE IInv'
  OBVIOUS
<1>1. table \in [Pid -> Process] /\ now \in Nat /\ now \in Times /\ now' = now
      /\ table[pid] # Nobody
  BY TreeAssumption DEF IInv, DataInv, Times, Exit, IsAlive
<1>2. WalkInv(stack, table, visited, now)
  BY DEF IInv
<1>3. CASE pid \in Pinned
  <2> DEFINE process == [table[pid] EXCEPT !.exited = now]
  <2>1. table' = [table EXCEPT ![pid] = process]
    BY <1>3 DEF Exit
  <2>2. process \in Process /\ Same(process, table[pid]) /\ process.exited <= now
    BY <1>1 DEF Process, Same
  <2> HIDE DEF process
  <2>3. table' \in [Pid -> Process] /\ TableInv(table', now) /\ RootInv'
        /\ WalkInv(stack, table', visited, now)
    BY <1>1, <2>1, <2>2, SameProcess
  <2>4. QED
    BY <2>3, <1>1 DEF IInv, DataInv, Exit, spec, OnlyDescendants
<1>4. CASE pid \notin Pinned
  <2>1. table' = [table EXCEPT ![pid] = Nobody]
    BY <1>4, <1>1 DEF Exit
  <2>2. pid # Root /\ \A i \in 1..Len(stack) : stack[i].pid # pid
    BY <1>2, <1>4 DEF Pinned, WalkInv
  <2>3. table' \in [Pid -> Process] /\ TableInv(table', now) /\ RootInv'
        /\ WalkInv(stack, table', visited, now)
    BY <1>1, <1>2, <2>1, <2>2, GivenUp
  <2>4. QED
    BY <2>3, <1>1 DEF IInv, DataInv, Exit, spec, OnlyDescendants
<1>5. QED
  BY <1>3, <1>4

LEMMA StartStep == IInv /\ StopProcessTree => IInv'
<1> SUFFICES ASSUME IInv, StopProcessTree PROVE IInv'
  OBVIOUS
<1>1. /\ stack = <<>> /\ stack' = Append(stack, Call(Root)) /\ visited' = {Root}
      /\ Call(Root) \in Frame /\ Call(Root).pid = Root /\ Root \in Pid /\ now \in Nat
  BY CallFrame, TreeAssumption DEF StopProcessTree, Call, IInv, DataInv, Times
<1>2. WalkInv(<<>>, table, {}, now)
  BY DEF WalkInv
<1>3. CallInv(Call(Root), table, {Root}, now)
  BY <1>1 DEF CallInv, Call, IInv, RootInv
<1>4. WalkInv(Append(<<>>, Call(Root)), table, {} \cup {Call(Root).pid}, now)
  <2>1. \A i \in 1..Len(<<>>) : CallInv(<<>>[i], table, {} \cup {Call(Root).pid}, now)
    OBVIOUS
  <2>2. CallInv(Call(Root), table, {} \cup {Call(Root).pid}, now)
    BY <1>1, <1>3
  <2>3. QED
    BY <1>1, <1>2, <2>1, <2>2, Calls
<1>5. WalkInv(stack', table, visited', now)
  BY <1>1, <1>4
<1>6. DataInv'
  BY <1>1 DEF IInv, DataInv, StopProcessTree, world, spec
<1>7. QED
  BY <1>5, <1>6, Unhurt DEF StopProcessTree, world

\* The stages and the waits.
LEMMA StageStep ==
    IInv /\ (\/ \E stage \in Gentle : Send(stage) \/ Await(stage)
             \/ Terminate \/ WaitUntilExit \/ WaitFails)
    => IInv'
<1> SUFFICES ASSUME IInv,
                    \/ \E stage \in Gentle : Send(stage) \/ Await(stage)
                    \/ Terminate \/ WaitUntilExit \/ WaitFails
             PROVE  IInv'
  OBVIOUS
<1> USE DEF world, spec
<1>1. \A stage \in Gentle : After(stage) \in AllMethods /\ stage \in AllMethods
                            /\ stage # "children"
  BY DEF Gentle, AllMethods, After
<1>2. ASSUME NEW stage \in Gentle, Send(stage) PROVE IInv'
  <2>1. stack # <<>> /\ Top.at # "children" /\ strangerHit' = strangerHit
    BY <1>1, <1>2, NoStranger DEF Send, At
  <2>2. WalkInv(stack', table, visited, now)
    <3>1. CASE Goto(After(stage))
      BY <3>1, <2>1, <1>1, GotoStep
    <3>2. CASE SetTop([Top EXCEPT !.waiting = TRUE])
      <4> DEFINE f == [Top EXCEPT !.waiting = TRUE]
      <4>1. Top \in Frame /\ CallInv(Top, table, visited, now)
        BY <2>1, TopFacts DEF IInv
      <4>2. f \in Frame /\ f.pid = Top.pid /\ f.entries = Top.entries
            /\ f.created = Top.created /\ f.exited = Top.exited
        BY <4>1, Updates
      <4> HIDE DEF f
      <4>3. WalkInv(Append(Front(stack), f), table, visited, now)
        BY <2>1, <4>1, <4>2, PlaceStep DEF CallInv
      <4>4. QED
        BY <3>2, <4>3 DEF SetTop, f
    <3>3. QED
      BY <3>1, <3>2, <1>2 DEF Send
  <2>3. DataInv'
    BY <2>1, <1>2 DEF Send, IInv, DataInv
  <2>4. visited' = visited /\ UNCHANGED <<table, now>>
    BY <1>2 DEF Send
  <2>5. QED
    BY <2>1, <2>2, <2>3, <2>4, Unhurt
<1>3. ASSUME NEW stage \in Gentle, Await(stage) PROVE IInv'
  <2>1. stack # <<>> /\ Top.at # "children"
    BY <1>1, <1>3 DEF Await, At
  <2>2. \E place \in AllMethods \cup {"exit", "times"} : Goto(place)
    BY <1>1, <1>3 DEF Await
  <2>3. WalkInv(stack', table, visited, now)
    BY <2>1, <2>2, GotoStep
  <2>4. failed' \in BOOLEAN
    BY <1>3 DEF Await, IInv, DataInv
  <2>5. DataInv'
    BY <2>4, <1>3 DEF Await, IInv, DataInv
  <2>6. visited' = visited /\ UNCHANGED <<table, now, strangerHit>>
    BY <1>3 DEF Await
  <2>7. QED
    BY <2>3, <2>5, <2>6, Unhurt
<1>4. ASSUME Terminate PROVE IInv'
  <2>1. stack # <<>> /\ Top.at # "children"
    BY <1>4 DEF Terminate, At
  <2>2. \E place \in AllMethods \cup {"exit", "times"} : Goto(place)
    BY <1>4 DEF Terminate
  <2>3. WalkInv(stack', table, visited, now)
    BY <2>1, <2>2, GotoStep
  <2>4. strangerHit' = strangerHit /\ failed' \in BOOLEAN
    BY <1>4, <2>1, NoStranger DEF Terminate, IInv, DataInv
  <2>5. CASE UNCHANGED table
    <3>1. DataInv'
      BY <2>4, <2>5, <1>4 DEF Terminate, IInv, DataInv
    <3>2. visited' = visited /\ UNCHANGED <<table, now>>
      BY <2>5, <1>4 DEF Terminate
    <3>3. QED
      BY <2>3, <2>4, <3>1, <3>2, Unhurt
  <2>6. CASE table' = [table EXCEPT ![Top.pid].dying = IsAlive(Top.pid)]
    <3>1. Top.pid \in Pid /\ table[Top.pid] \in Process /\ table[Top.pid] # Nobody
      BY <2>1, TopFacts DEF IInv, CallInv
    <3> DEFINE process == [table[Top.pid] EXCEPT !.dying = IsAlive(Top.pid)]
    <3>2. IsAlive(Top.pid) \in BOOLEAN
      BY DEF IsAlive
    <3>3. /\ process \in Process /\ Same(process, table[Top.pid])
          /\ process.exited = table[Top.pid].exited
      BY <3>1, <3>2 DEF Process, Same
    <3>4. process.exited <= now
      BY <3>1, <3>3 DEF IInv, TableInv
    <3>5. table' = [table EXCEPT ![Top.pid] = process]
      BY <2>6
    <3>6. now' = now /\ visited' = visited
      BY <1>4 DEF Terminate
    <3> HIDE DEF process
    <3>7. table' \in [Pid -> Process] /\ TableInv(table', now) /\ RootInv'
          /\ WalkInv(stack, table', visited, now)
      BY <3>1, <3>3, <3>4, <3>5, <3>6, SameProcess
    <3>8. WalkInv(stack', table', visited, now)
      <4>1. ASSUME NEW i \in 1..Len(stack')
            PROVE  /\ table'[stack'[i].pid] # Nobody
                   /\ Same(table'[stack'[i].pid], table[stack'[i].pid])
        <5>1. stack'[i].pid \in Pid /\ table[stack'[i].pid] # Nobody
          BY <2>3, CallOf
        <5>2. process # Nobody
          BY <3>1, <3>3, NobodyType DEF IInv, TableInv, Same
        <5>3. table \in [Pid -> Process]
          BY DEF IInv, DataInv
        <5>4. QED
          BY <5>1, <5>2, <5>3, <3>1, <3>3, <3>5 DEF Same
      <4>2. Keeps(table, table')
        <5>1. process # Nobody
          BY <3>1, <3>3, NobodyType DEF IInv, TableInv, Same
        <5>2. table \in [Pid -> Process]
          BY DEF IInv, DataInv
        <5>3. QED
          BY <5>1, <5>2, <3>1, <3>3, <3>5 DEF Same, Keeps
      <4>3. KeepsOrBears(table, table', now) /\ now <= now /\ visited \subseteq visited
            /\ now \in Nat /\ table \in [Pid -> Process]
        BY <4>2, KeepsIsEnough, TreeAssumption DEF IInv, DataInv, Times
      <4>4. QED
        BY <2>3, <3>7, <4>1, <4>3, WalkStays
    <3>9. DataInv'
      BY <2>4, <3>6, <3>7, <1>4 DEF Terminate, IInv, DataInv
    <3>10. QED
      BY <2>4, <3>6, <3>7, <3>8, <3>9 DEF IInv, OnlyDescendants
  <2>7. QED
    BY <2>5, <2>6, <1>4 DEF Terminate
<1>5. ASSUME WaitUntilExit \/ WaitFails PROVE IInv'
  <2>1. stack # <<>> /\ Top.at # "children"
    BY <1>5 DEF WaitUntilExit, WaitFails, At
  <2>2. WalkInv(stack', table, visited, now)
    BY <2>1, <1>5, GotoStep DEF WaitUntilExit, WaitFails
  <2>3. DataInv'
    BY <1>5 DEF WaitUntilExit, WaitFails, IInv, DataInv
  <2>4. visited' = visited /\ UNCHANGED <<table, now, strangerHit>>
    BY <1>5 DEF WaitUntilExit, WaitFails
  <2>5. QED
    BY <2>2, <2>3, <2>4, Unhurt
<1>6. QED
  BY <1>2, <1>3, <1>4, <1>5

LEMMA BeginStep == IInv /\ Begin => IInv'
<1> SUFFICES ASSUME IInv, Begin PROVE IInv'
  OBVIOUS
<1>1. stack # <<>> /\ Top.at # "children"
  BY DEF Begin, At
<1>2. /\ Top \in Frame /\ CallInv(Top, table, visited, now) /\ table[Top.pid] \in Process
      /\ 0 \in Times
  BY <1>1, TopFacts, TreeAssumption DEF IInv, Times
<1>3. PICK created \in {0, table[Top.pid].created}, at \in {"console", "times"} :
        SetTop([Top EXCEPT !.created = created, !.at = at])
  BY DEF Begin, TimeOrFailure
<1> DEFINE f == [Top EXCEPT !.created = created]
           g == [f EXCEPT !.at = at]
<1>4. created \in Times /\ at \in AllMethods \cup {"begin", "exit", "children", "times", "snapshot"}
  BY <1>2 DEF Process, AllMethods, Gentle
<1>5. f \in Frame /\ f.pid = Top.pid /\ f.entries = Top.entries
      /\ f.created = created /\ f.exited = Top.exited
  BY <1>2, <1>4, Updates, Zenon
<1> HIDE DEF f
<1>6. g \in Frame /\ g.pid = Top.pid /\ g.entries = Top.entries
      /\ g.created = created /\ g.exited = Top.exited
  BY <1>4, <1>5, Updates, Zenon
<1> HIDE DEF g
<1>7. WalkInv(Append(Front(stack), g), table, visited, now)
  BY <1>1, <1>2, <1>6, PlaceStep DEF CallInv
<1>8. WalkInv(stack', table, visited, now)
  BY <1>3, <1>7 DEF SetTop, f, g
<1>9. failed' \in BOOLEAN
  BY DEF Begin, IInv, DataInv
<1>10. DataInv'
  BY <1>9 DEF Begin, IInv, DataInv, world, spec
<1>11. QED
  BY <1>8, <1>10, Unhurt DEF Begin, world

LEMMA LookAtTimesStep == IInv /\ LookAtTimes => IInv'
<1> SUFFICES ASSUME IInv, LookAtTimes PROVE IInv'
  OBVIOUS
<1>1. stack # <<>> /\ Top.at # "children" /\ now' = now /\ visited' = visited
      /\ strangerHit' = strangerHit
  BY DEF LookAtTimes, At
<1>2. failed' \in BOOLEAN
  BY DEF LookAtTimes, IInv, DataInv
<1>3. CASE Return
  <2>1. table' \in [Pid -> Process] /\ TableInv(table', now) /\ RootInv'
        /\ WalkInv(stack', table', visited, now) /\ over' \in BOOLEAN
    BY <1>1, <1>3, ReturnStep
  <2>2. DataInv'
    BY <1>2, <2>1 DEF LookAtTimes, IInv, DataInv, spec
  <2>3. QED
    BY <1>1, <2>1, <2>2 DEF IInv, OnlyDescendants
<1>4. CASE \E exited \in TimeOrFailure(table[Top.pid].exited) :
              /\ SetTop([Top EXCEPT !.at = "snapshot",
                                    !.exited = IF exited = 0 THEN now ELSE exited])
              /\ UNCHANGED <<table, over>>
  <2>1. Top \in Frame /\ CallInv(Top, table, visited, now) /\ table[Top.pid] \in Process
        /\ Top.pid \in Pid /\ now \in Times /\ 0 \in Times
    BY <1>1, TopFacts, TreeAssumption DEF IInv, DataInv, Times
  <2>2. now <= now /\ table[Top.pid].exited <= now /\ table[Top.pid].exited \in Times
    BY <2>1, TreeAssumption DEF IInv, TableInv, Process, Times
  <2>3. PICK time \in Times : time <= now /\ SetTop([Top EXCEPT !.at = "snapshot", !.exited = time])
    <3>1. PICK exited \in {0, table[Top.pid].exited} :
            SetTop([Top EXCEPT !.at = "snapshot", !.exited = IF exited = 0 THEN now ELSE exited])
      BY <1>4 DEF TimeOrFailure
    <3>2. CASE exited = 0
      BY <3>1, <3>2, <2>1, <2>2
    <3>3. CASE exited # 0
      BY <3>1, <3>3, <2>2
    <3>4. QED
      BY <3>2, <3>3
  <2> DEFINE f == [Top EXCEPT !.at = "snapshot"]
             g == [f EXCEPT !.exited = time]
  <2>4. f \in Frame /\ f.pid = Top.pid /\ f.entries = Top.entries /\ f.created = Top.created
    BY <2>1, Updates
  <2> HIDE DEF f
  <2>5. g \in Frame /\ g.pid = Top.pid /\ g.entries = Top.entries
        /\ g.created = Top.created /\ g.exited = time
    BY <2>4, Updates, Zenon
  <2> HIDE DEF g
  <2>6. WalkInv(Append(Front(stack), g), table, visited, now)
    BY <1>1, <2>3, <2>5, PlaceStep
  <2>7. WalkInv(stack', table, visited, now)
    BY <2>3, <2>6 DEF SetTop, f, g
  <2>8. DataInv'
    BY <1>2, <1>4 DEF LookAtTimes, IInv, DataInv, spec
  <2>9. QED
    BY <1>1, <1>4, <2>7, <2>8, Unhurt
<1>5. QED
  BY <1>3, <1>4 DEF LookAtTimes

LEMMA NoMoreChildrenStep == IInv /\ NoMoreChildren => IInv'
<1> SUFFICES ASSUME IInv, NoMoreChildren PROVE IInv'
  OBVIOUS
<1>1. table' \in [Pid -> Process] /\ TableInv(table', now) /\ RootInv'
      /\ WalkInv(stack', table', visited, now) /\ over' \in BOOLEAN
  BY ReturnStep DEF NoMoreChildren, At
<1>2. DataInv'
  BY <1>1 DEF NoMoreChildren, IInv, DataInv, spec
<1>3. QED
  BY <1>1, <1>2 DEF IInv, OnlyDescendants, NoMoreChildren

LEMMA SnapshotStep == IInv /\ ProcessSnapshot => IInv'
<1> SUFFICES ASSUME IInv, ProcessSnapshot PROVE IInv'
  OBVIOUS
<1>1. stack # <<>> /\ Top.at = "snapshot" /\ now' = now /\ visited' = visited
      /\ strangerHit' = strangerHit
  BY DEF ProcessSnapshot, At
<1>2. CASE Return /\ failed' = TRUE /\ UNCHANGED walked
  <2>1. table' \in [Pid -> Process] /\ TableInv(table', now) /\ RootInv'
        /\ WalkInv(stack', table', visited, now) /\ over' \in BOOLEAN
    BY <1>1, <1>2, ReturnStep
  <2>2. DataInv'
    BY <1>2, <2>1 DEF ProcessSnapshot, IInv, DataInv, spec
  <2>3. QED
    BY <1>1, <2>1, <2>2 DEF IInv, OnlyDescendants
<1> DEFINE entries == {<<pid, table[pid].parentPid>> : pid \in Alive}
<1>3. CASE /\ SetTop([Top EXCEPT !.at = "children", !.entries = entries])
           /\ walked' = walked \cup {Top.created}
           /\ UNCHANGED <<table, failed, over>>
  <2>1. Top \in Frame /\ CallInv(Top, table, visited, now) /\ Top.created \in Times
    BY <1>1, TopFacts DEF IInv
  <2>2. entries \in SUBSET (Pid \X (Pid \cup {Outside}))
        /\ \A e \in entries : table[e[1]].parentPid = e[2]
    BY DEF Alive, IInv, DataInv, Process
  <2> DEFINE f == [Top EXCEPT !.at = "children"]
             g == [f EXCEPT !.entries = entries]
  <2> HIDE DEF entries
  <2>3. f \in Frame /\ f.pid = Top.pid /\ f.created = Top.created /\ f.exited = Top.exited
        /\ f.at = "children"
    BY <2>1, Updates
  <2> HIDE DEF f
  <2>4. g \in Frame /\ g.pid = Top.pid /\ g.entries = entries /\ g.at = "children"
        /\ g.created = Top.created /\ g.exited = Top.exited
    BY <2>2, <2>3, Updates, Zenon
  <2> HIDE DEF g
  <2>5. CallInv(g, table, visited, now)
    BY <2>1, <2>2, <2>4 DEF CallInv
  <2>6. WalkInv(Append(Front(stack), g), table, visited, now)
    BY <1>1, <2>4, <2>5, TopStep
  <2>7. WalkInv(stack', table, visited, now)
    BY <1>3, <2>6 DEF SetTop, f, g
  <2>8. DataInv'
    BY <1>3, <2>1 DEF ProcessSnapshot, IInv, DataInv, spec
  <2>9. QED
    BY <1>1, <1>3, <2>7, <2>8, Unhurt
<1>4. QED
  BY <1>2, <1>3 DEF ProcessSnapshot

\* The process that is walked next is a child of the process on top.
LEMMA NextChildStep == IInv /\ NextChild => IInv'
<1> SUFFICES ASSUME IInv, NextChild PROVE IInv'
  OBVIOUS
<1>1. stack # <<>> /\ UNCHANGED <<table, now, over, method, killTree, strangerHit>>
      /\ Top.at = "children"
  BY DEF NextChild, At, world, spec
<1>2. /\ Top \in Frame /\ CallInv(Top, table, visited, now) /\ Top.pid \in Pid
      /\ Top.created \in Times /\ Top.exited \in Times /\ now \in Nat
  BY <1>1, TopFacts DEF IInv
<1>3. PICK e \in Candidates :
        LET rest == [Top EXCEPT !.entries = @ \ {e}]
            child == table[e[1]]
        IN  /\ failed' \in BOOLEAN /\ walked' \subseteq walked
            /\ \/ SetTop(rest) /\ visited' = visited
               \/ /\ child # Nobody
                  /\ IsRealChild(Top.created, Top.exited, child.created)
                  /\ stack' = Append(Append(Front(stack), rest), Call(e[1]))
                  /\ visited' = visited \cup {e[1]}
  BY DEF NextChild, IInv, DataInv
<1> DEFINE rest == [Top EXCEPT !.entries = @ \ {e}]
           child == table[e[1]]
<1>4. e \in Top.entries /\ e[1] \in Pid /\ e[2] = Top.pid /\ e[1] \notin visited
  BY <1>2 DEF Candidates, Frame
<1>5. rest \in Frame /\ rest.pid = Top.pid /\ rest.entries = Top.entries \ {e}
      /\ rest.at = "children" /\ rest.created = Top.created /\ rest.exited = Top.exited
  BY <1>1, <1>2 DEF Frame
<1>6. CallInv(rest, table, visited, now)
  BY <1>2, <1>5 DEF CallInv
<1>7. WalkInv(Append(Front(stack), rest), table, visited, now)
  BY <1>1, <1>5, <1>6, TopStep
<1>8. visited' \subseteq Pid
  BY <1>3, <1>4 DEF IInv, DataInv
<1>9. DataInv'
  BY <1>1, <1>3, <1>8 DEF IInv, DataInv
<1>10. WalkInv(stack', table, visited', now)
  <2>1. CASE SetTop(rest) /\ visited' = visited
    BY <2>1, <1>7 DEF SetTop
  <2>2. CASE /\ child # Nobody
             /\ IsRealChild(Top.created, Top.exited, child.created)
             /\ stack' = Append(Append(Front(stack), rest), Call(e[1]))
             /\ visited' = visited \cup {e[1]}
    <3>1. child.parentPid = Top.pid
      BY <2>2, <1>2, <1>4 DEF CallInv, IsRealChild
    <3>2. table[Top.pid] # Nobody /\ table[Top.pid].ours
          /\ child.created >= table[Top.pid].created
      BY <2>2, <1>2 DEF CallInv, IsRealChild
    <3>3. child.ours
      BY <3>1, <3>2, <2>2, <1>2, <1>4 DEF IInv, TableInv
    <3> DEFINE s == Append(Front(stack), rest)
               f == Call(e[1])
    <3>4. f \in Frame /\ f.pid = e[1] /\ f.entries = {} /\ f.created = 0 /\ f.exited = 0
      BY <1>4, CallFrame DEF Call
    <3> HIDE DEF s, f, rest
    <3>5. WalkInv(s, table, visited, now) /\ s # <<>>
      <4>1. Front(stack) \in Seq(Frame)
        <5>1. stack \in Seq(Frame)
          BY DEF IInv, WalkInv
        <5>2. QED
          BY <5>1, <1>1, FrontOf
      <4>2. QED
        BY <4>1, <1>5, <1>7 DEF s
    <3>6. WalkInv(s, table, visited \cup {f.pid}, now)
      <4>1. \A i \in 1..Len(s) : s[i].pid \in Pid /\ table[s[i].pid] # Nobody
        BY <3>5, CallOf
      <4>2. KeepsOrBears(table, table, now)
        BY DEF KeepsOrBears, Same
      <4>3. table \in [Pid -> Process] /\ now <= now /\ visited \subseteq visited \cup {f.pid}
        BY <1>2 DEF IInv, DataInv
      <4>4. QED
        BY <4>1, <4>2, <4>3, <3>5, <1>2, WalkStays DEF Same
    <3>7. CallInv(f, table, visited \cup {f.pid}, now)
      BY <3>3, <3>4, <2>2, <1>2 DEF CallInv
    <3>8. WalkInv(Append(s, f), table, visited \cup {f.pid}, now)
      <4>1. \A i \in 1..Len(s) : CallInv(s[i], table, visited \cup {f.pid}, now)
        BY <3>6 DEF WalkInv
      <4>2. f.pid \notin visited
        BY <3>4, <1>4
      <4>3. QED
        BY <3>4, <3>5, <3>7, <4>1, <4>2, Calls
    <3>9. QED
      BY <3>4, <3>8, <2>2 DEF s, f
  <2>3. QED
    BY <2>1, <2>2, <1>3
<1>11. QED
  BY <1>1, <1>9, <1>10, Unhurt

LEMMA StutterStep == IInv /\ UNCHANGED vars => IInv'
BY DEF IInv, DataInv, RootInv, OnlyDescendants, vars, world, spec

LEMMA StepIInv == IInv /\ [Next]_vars => IInv'
BY SpawnStep, ExitStep, StartStep, StageStep, BeginStep, LookAtTimesStep, NoMoreChildrenStep,
   SnapshotStep, NextChildStep, StutterStep DEF Next, StopProcessWalk

(* At every step of a walk the identifiers on the stack denote the         *)
(* processes they were opened for, and no process is walked twice at once. *)
THEOREM IdentifiersKeepTheirMeaning == Spec => []TypeOK
<1>1. IInv => TypeOK
  BY TypesFollow DEF IInv
<1>2. QED
  BY <1>1, InitIInv, StepIInv, PTL DEF Spec

(* However identifiers are reused and whatever fails, a stop of the tree   *)
(* asks and terminates none but the child and its descendants.             *)
THEOREM StrangersAreSafe == Spec => []OnlyDescendants
<1>1. IInv => OnlyDescendants
  BY DEF IInv
<1>2. QED
  BY <1>1, InitIInv, StepIInv, PTL DEF Spec

-----------------------------------------------------------------------------
(* Survivors.  A process whose children were looked for has exited and     *)
(* starts no more, so every child of it that lives was listed by the       *)
(* snapshot; the list holds it until the walk has visited its identifier.  *)

\* Creation times name processes, and a process was started in the lifetime of its parent.
KinInv(t, n) ==
    /\ \A p, q \in Pid : t[p] # Nobody /\ t[q] # Nobody /\ t[p].created = t[q].created => p = q
    /\ \A p \in Pid : t[p].parent <= n
    /\ \A c, p \in Pid : t[c] # Nobody /\ t[p] # Nobody /\ t[c].parent = t[p].created =>
          /\ t[c].parentPid = p
          /\ t[p].created <= t[c].created
          /\ t[p].exited # 0 => t[c].created <= t[p].exited

\* Only the innermost call is not among the children of its process.
ShapeInv ==
    /\ \A i \in 1..(Len(stack) - 1) : stack[i].at = "children"
    /\ over => stack = <<>>
    /\ stack = <<>> /\ ~over => walked = {}
    /\ \A c \in walked : c <= now

Lives(t, p) == t[p] # Nobody /\ t[p].exited = 0

\* A call goes beyond the stages only when its process has exited.
DoneCall(f, t) ==
    /\ f.at \in {"times", "snapshot", "children"} => t[f.pid].exited # 0
    /\ f.at \in {"snapshot", "children"} => f.exited = t[f.pid].exited /\ f.created # 0

\* The call f will still come to its child p.
Lists(f, t, p) == f.created = t[p].parent /\ <<p, f.pid>> \in f.entries

StopInv(s, t, v, w) ==
    /\ \A i \in 1..Len(s) : DoneCall(s[i], t)
    /\ 0 \notin w
    /\ \A p \in Pid : t[p] # Nobody /\ t[p].created \in w => t[p].exited # 0
    /\ \A p \in Pid : Lives(t, p) /\ t[p].parent \in w =>
          p \in v \/ \E i \in 1..Len(s) : Lists(s[i], t, p)

GoneInv ==
    /\ KinInv(table, now) /\ ShapeInv
    /\ ~failed => /\ over => table[Root].exited # 0
                  /\ StopInv(stack, table, visited, walked)

\* What may become of the processes in a step that starts none.
Ages(t, t2, n) ==
    \A p \in Pid :
       \/ t2[p] = Nobody
       \/ /\ t[p] # Nobody /\ t2[p] # Nobody
          /\ t2[p].created = t[p].created
          /\ t2[p].parent = t[p].parent /\ t2[p].parentPid = t[p].parentPid
          /\ t2[p].exited = t[p].exited \/ (t[p].exited = 0 /\ t2[p].exited = n)

LEMMA KinAges ==
    ASSUME NEW t \in [Pid -> Process], NEW t2 \in [Pid -> Process], NEW n \in Nat,
           TableInv(t, n), KinInv(t, n), Ages(t, t2, n)
    PROVE  KinInv(t2, n)
<1>1. \A p \in Pid : t2[p].parent <= n
  <2>1. Nobody.parent = 0
    BY DEF Nobody
  <2>2. QED
    BY <2>1 DEF Ages, KinInv
<1>2. ASSUME NEW p \in Pid, NEW q \in Pid, t2[p] # Nobody, t2[q] # Nobody,
             t2[p].created = t2[q].created
      PROVE  p = q
  BY <1>2 DEF Ages, KinInv
<1>3. ASSUME NEW c \in Pid, NEW p \in Pid, t2[c] # Nobody, t2[p] # Nobody,
             t2[c].parent = t2[p].created
      PROVE  /\ t2[c].parentPid = p
             /\ t2[p].created <= t2[c].created
             /\ t2[p].exited # 0 => t2[c].created <= t2[p].exited
  <2>1. /\ t[c] # Nobody /\ t[p] # Nobody /\ t[c].parent = t[p].created
        /\ t2[c].created = t[c].created /\ t2[p].created = t[p].created
        /\ t2[c].parentPid = t[c].parentPid
        /\ t2[p].exited = t[p].exited \/ (t[p].exited = 0 /\ t2[p].exited = n)
    BY <1>3 DEF Ages
  <2>2. t[c].created <= n
    BY DEF TableInv
  <2>3. /\ t[c].parentPid = p /\ t[p].created <= t[c].created
        /\ t[p].exited # 0 => t[c].created <= t[p].exited
    BY <2>1 DEF KinInv
  <2>4. QED
    BY <2>1, <2>2, <2>3
<1>4. QED
  BY <1>1, <1>2, <1>3 DEF KinInv

LEMMA StopAges ==
    ASSUME NEW t, NEW t2, NEW n, NEW s, NEW v, NEW w, n # 0,
           StopInv(s, t, v, w), Ages(t, t2, n),
           \A i \in 1..Len(s) : s[i].pid \in Pid /\ t2[s[i].pid] # Nobody
    PROVE  StopInv(s, t2, v, w)
<1>1. ASSUME NEW i \in 1..Len(s) PROVE DoneCall(s[i], t2)
  <2>1. DoneCall(s[i], t)
    BY DEF StopInv
  <2>2. t2[s[i].pid].exited = t[s[i].pid].exited \/ t[s[i].pid].exited = 0
    BY DEF Ages
  <2>3. QED
    BY <2>1, <2>2 DEF DoneCall
<1>2. \A p \in Pid : t2[p] # Nobody /\ t2[p].created \in w => t2[p].exited # 0
  BY DEF StopInv, Ages
<1>3. ASSUME NEW p \in Pid, Lives(t2, p), t2[p].parent \in w
      PROVE  p \in v \/ \E i \in 1..Len(s) : Lists(s[i], t2, p)
  <2>1. Lives(t, p) /\ t2[p].parent = t[p].parent
    BY <1>3 DEF Lives, Ages
  <2>2. p \in v \/ \E i \in 1..Len(s) : Lists(s[i], t, p)
    BY <1>3, <2>1 DEF StopInv
  <2>3. \A i \in 1..Len(s) : Lists(s[i], t, p) => Lists(s[i], t2, p)
    BY <2>1 DEF Lists
  <2>4. QED
    BY <2>2, <2>3
<1>4. QED
  BY <1>1, <1>2, <1>3 DEF StopInv

\* The call on top goes on: what it listed the new frame lists, or it has been visited.
LEMMA StopGoesOn ==
    ASSUME NEW t, NEW v, NEW v2, NEW w, NEW w2, NEW s \in Seq(Frame), s # <<>>,
           NEW f \in Frame, StopInv(s, t, v, w), DoneCall(f, t), v \subseteq v2, 0 \notin w2,
           \A p \in Pid : t[p] # Nobody /\ t[p].created \in w2 => t[p].exited # 0,
           \A p \in Pid : Lives(t, p) /\ t[p].parent \in w2 =>
              \/ p \in v2
              \/ Lists(f, t, p)
              \/ t[p].parent \in w /\ ~Lists(Last(s), t, p)
    PROVE  StopInv(Append(Front(s), f), t, v2, w2)
<1> DEFINE r == Append(Front(s), f)
<1>1. /\ Front(s) \in Seq(Frame) /\ Len(Front(s)) = Len(s) - 1 /\ Len(s) \in Nat \ {0}
      /\ \A i \in 1..(Len(s) - 1) : Front(s)[i] = s[i]
      /\ Last(s) = s[Len(s)]
  BY FrontOf
<1>2. /\ Len(r) = Len(s) /\ r[Len(s)] = f
      /\ \A i \in 1..(Len(s) - 1) : r[i] = s[i]
  BY <1>1
<1> HIDE DEF r
<1>3. \A i \in 1..Len(s) : i = Len(s) \/ i \in 1..(Len(s) - 1)
  BY <1>1
<1>4. \A i \in 1..Len(r) : DoneCall(r[i], t)
  BY <1>2, <1>3 DEF StopInv
<1>5. ASSUME NEW p \in Pid, Lives(t, p), t[p].parent \in w2
      PROVE  p \in v2 \/ \E i \in 1..Len(r) : Lists(r[i], t, p)
  <2>1. CASE Lists(f, t, p)
    <3>1. Len(s) \in 1..Len(r)
      BY <1>1, <1>2
    <3>2. QED
      BY <1>2, <2>1, <3>1
  <2>2. CASE t[p].parent \in w /\ ~Lists(Last(s), t, p)
    <3>1. p \in v \/ \E i \in 1..Len(s) : Lists(s[i], t, p)
      BY <1>5, <2>2 DEF StopInv
    <3>2. \A i \in 1..Len(s) : Lists(s[i], t, p) => i \in 1..(Len(s) - 1)
      BY <1>1, <1>3, <2>2
    <3>3. QED
      BY <1>2, <3>1, <3>2
  <2>3. QED
    BY <1>5, <2>1, <2>2
<1>6. StopInv(r, t, v2, w2)
  BY <1>4, <1>5 DEF StopInv
<1>7. QED
  BY <1>6 DEF r

\* The call on top returns when what it listed has been visited.
LEMMA StopReturns ==
    ASSUME NEW t, NEW v, NEW w, NEW s \in Seq(Frame), s # <<>>, StopInv(s, t, v, w),
           \A p \in Pid : Lives(t, p) /\ Lists(Last(s), t, p) => p \in v
    PROVE  StopInv(Front(s), t, v, w)
<1>1. /\ Len(Front(s)) = Len(s) - 1 /\ Len(s) \in Nat \ {0}
      /\ \A i \in 1..(Len(s) - 1) : Front(s)[i] = s[i]
      /\ Last(s) = s[Len(s)]
  BY FrontOf
<1>2. \A i \in 1..Len(s) : i = Len(s) \/ i \in 1..(Len(s) - 1)
  BY <1>1
<1>3. \A i \in 1..(Len(s) - 1) : i \in 1..Len(s)
  BY <1>1
<1>4. \A i \in 1..Len(Front(s)) : DoneCall(Front(s)[i], t)
  BY <1>1, <1>3 DEF StopInv
<1>5. ASSUME NEW p \in Pid, Lives(t, p), t[p].parent \in w
      PROVE  p \in v \/ \E i \in 1..Len(Front(s)) : Lists(Front(s)[i], t, p)
  <2>1. p \in v \/ \E i \in 1..Len(s) : Lists(s[i], t, p)
    BY <1>5 DEF StopInv
  <2>2. QED
    BY <1>1, <1>2, <1>5, <2>1
<1>6. QED
  BY <1>4, <1>5 DEF StopInv

\* The frame on top and its process.
LEMMA TopIs ==
    ASSUME IInv, stack # <<>>
    PROVE  /\ stack \in Seq(Frame) /\ Top = Last(stack) /\ Top = stack[Len(stack)]
           /\ Len(stack) \in 1..Len(stack) /\ Len(stack) \in Nat
           /\ Top \in Frame /\ Top.pid \in Pid /\ table[Top.pid] # Nobody
           /\ Top.created # 0 => table[Top.pid].created = Top.created
           /\ Top.at # "children" => Top.entries = {}
           /\ table \in [Pid -> Process] /\ now \in Nat /\ now # 0
<1>1. stack \in Seq(Frame) /\ table \in [Pid -> Process] /\ now \in Nat
  BY TreeAssumption DEF IInv, WalkInv, DataInv, Times
<1>2. Top = stack[Len(stack)] /\ Top = Last(stack)
      /\ Len(stack) \in 1..Len(stack) /\ Len(stack) \in Nat
  BY <1>1, FrontOf DEF Top
<1>3. CallInv(Top, table, visited, now) /\ Top \in Frame /\ Top.pid \in Pid
  BY TopFacts DEF IInv
<1>4. now # 0
  <2>1. table[Root].created # 0 /\ table[Root].created <= now /\ table[Root].created \in Nat
    BY <1>1, TreeAssumption DEF IInv, TableInv, RootInv, Process, Times
  <2>2. QED
    BY <2>1
<1>5. QED
  BY <1>1, <1>2, <1>3, <1>4 DEF CallInv

LEMMA ReturnAges == ASSUME IInv, stack # <<>>, Return PROVE Ages(table, table', now)
BY TopIs DEF Return, Ages

LEMMA TerminateAges == ASSUME IInv, Terminate PROVE Ages(table, table', now)
<1>1. Top.pid \in Pid /\ table[Top.pid] # Nobody /\ table \in [Pid -> Process]
  BY TopIs DEF Terminate, At
<1>2. CASE table' = table
  BY <1>2 DEF Ages
<1>3. CASE table' = [table EXCEPT ![Top.pid].dying = IsAlive(Top.pid)]
  <2> DEFINE process == [table[Top.pid] EXCEPT !.dying = IsAlive(Top.pid)]
  <2>1. table' = [table EXCEPT ![Top.pid] = process]
    BY <1>3
  <2>2. /\ table[Top.pid] \in Process
        /\ process.created = table[Top.pid].created /\ process.exited = table[Top.pid].exited
        /\ process.parent = table[Top.pid].parent
        /\ process.parentPid = table[Top.pid].parentPid
    BY <1>1 DEF Process
  <2>3. process # Nobody
    BY <1>1, <2>2, NobodyType DEF IInv, TableInv
  <2> HIDE DEF process
  <2>4. QED
    BY <1>1, <2>1, <2>2, <2>3 DEF Ages
<1>4. QED
  BY <1>2, <1>3 DEF Terminate

LEMMA ExitAges == ASSUME IInv, NEW pid \in Pid, Exit(pid) PROVE Ages(table, table', now)
<1>1. table \in [Pid -> Process] /\ table[pid] # Nobody /\ table[pid].exited = 0
      /\ table[pid] \in Process
  BY DEF IInv, DataInv, Exit, IsAlive
<1> DEFINE process == [table[pid] EXCEPT !.exited = now]
<1>2. /\ process.created = table[pid].created /\ process.exited = now
      /\ process.parent = table[pid].parent /\ process.parentPid = table[pid].parentPid
  BY <1>1 DEF Process
<1>3. process # Nobody
  BY <1>1, <1>2, NobodyType DEF IInv, TableInv
<1>4. table' = [table EXCEPT ![pid] = IF pid \in Pinned THEN process ELSE Nobody]
  BY DEF Exit
<1> HIDE DEF process
<1>5. QED
  BY <1>1, <1>2, <1>3, <1>4 DEF Ages

\* What a new process is.
LEMMA Newborn ==
    ASSUME IInv, Spawn
    PROVE  \E pid \in Pid : \E new \in Process :
              /\ table[pid] = Nobody
              /\ table' = [table EXCEPT ![pid] = new]
              /\ new # Nobody /\ new.created = now + 1 /\ new.exited = 0
              /\ \/ new.parent = 0
                 \/ \E p \in Pid : /\ Lives(table, p)
                                   /\ new.parent = table[p].created /\ new.parentPid = p
<1>1. table \in [Pid -> Process] /\ now \in Nat /\ now + 1 \in Times /\ 0 \in Times
  BY TreeAssumption DEF IInv, DataInv, Times, Spawn
<1>2. PICK pid \in Pid : table[pid] = Nobody
          /\ \E process \in {Started(now + 1, 0, Outside, FALSE)}
                             \cup {Started(now + 1, table[p].created, p, table[p].ours) : p \in Alive} :
                table' = [table EXCEPT ![pid] = process]
  BY DEF Spawn
<1>3. ASSUME NEW time \in Times, NEW ppid \in Pid \cup {Outside}, NEW ours \in BOOLEAN
      PROVE  LET new == Started(now + 1, time, ppid, ours)
             IN  /\ new \in Process /\ new # Nobody
                 /\ new.created = now + 1 /\ new.exited = 0
                 /\ new.parent = time /\ new.parentPid = ppid
  <2> DEFINE new == Started(now + 1, time, ppid, ours)
  <2>1. /\ new \in Process /\ new.created = now + 1 /\ new.exited = 0
        /\ new.parent = time /\ new.parentPid = ppid
    BY <1>1 DEF Started, Process
  <2>2. new # Nobody
    BY <1>1, <2>1, NobodyType
  <2>3. QED
    BY <2>1, <2>2
<1>4. CASE table' = [table EXCEPT ![pid] = Started(now + 1, 0, Outside, FALSE)]
  BY <1>1, <1>2, <1>3, <1>4, ZenonT(40)
<1>5. ASSUME NEW p \in Alive,
             table' = [table EXCEPT ![pid] = Started(now + 1, table[p].created, p, table[p].ours)]
      PROVE  \E new \in Process :
              /\ table' = [table EXCEPT ![pid] = new]
              /\ new # Nobody /\ new.created = now + 1 /\ new.exited = 0
              /\ \E q \in Pid : /\ Lives(table, q)
                                /\ new.parent = table[q].created /\ new.parentPid = q
  <2>1. p \in Pid /\ Lives(table, p) /\ table[p] \in Process
    BY <1>1 DEF Alive, IsAlive, Lives
  <2>2. table[p].created \in Times /\ table[p].ours \in BOOLEAN
    BY <2>1 DEF Process
  <2> DEFINE new == Started(now + 1, table[p].created, p, table[p].ours)
  <2>3. /\ new \in Process /\ new # Nobody
        /\ new.created = now + 1 /\ new.exited = 0
        /\ new.parent = table[p].created /\ new.parentPid = p
    BY <1>3, <2>1, <2>2
  <2> HIDE DEF new
  <2>4. table' = [table EXCEPT ![pid] = new]
    BY <1>5 DEF new
  <2>5. QED
    BY <2>1, <2>3, <2>4
<1>6. QED
  BY <1>2, <1>4, <1>5

LEMMA KinBorn == ASSUME IInv, KinInv(table, now), Spawn PROVE KinInv(table', now')
<1>1. PICK pid \in Pid, new \in Process :
              /\ table[pid] = Nobody
              /\ table' = [table EXCEPT ![pid] = new]
              /\ new # Nobody /\ new.created = now + 1 /\ new.exited = 0
              /\ \/ new.parent = 0
                 \/ \E p \in Pid : /\ Lives(table, p)
                                   /\ new.parent = table[p].created /\ new.parentPid = p
  BY Newborn
<1>2. /\ table \in [Pid -> Process] /\ now \in Nat /\ now' = now + 1
      /\ table'[pid] = new /\ \A p \in Pid : p # pid => table'[p] = table[p]
  BY <1>1, TreeAssumption DEF IInv, DataInv, Times, Spawn
<1>0. /\ new # Nobody /\ new.created = now + 1 /\ new.exited = 0
      /\ \/ new.parent = 0
         \/ \E p \in Pid : /\ Lives(table, p)
                           /\ new.parent = table[p].created /\ new.parentPid = p
  BY <1>1
<1>3. \A p \in Pid : /\ table[p].created <= now /\ table[p].created \in Nat
                     /\ table[p].parent <= now /\ table[p].parent \in Nat
                     /\ table[p] # Nobody => table[p].created # 0
  <2> SUFFICES ASSUME NEW p \in Pid
               PROVE  /\ table[p].created <= now /\ table[p].created \in Nat
                      /\ table[p].parent <= now /\ table[p].parent \in Nat
                      /\ table[p] # Nobody => table[p].created # 0
    OBVIOUS
  <2>1. table[p] \in Process
    BY <1>2
  <2>2. table[p].created \in Nat /\ table[p].parent \in Nat
    BY <2>1, TreeAssumption DEF Process, Times
  <2>3. table[p].created <= now /\ (table[p] # Nobody => table[p].created # 0)
    BY DEF IInv, TableInv
  <2>4. table[p].parent <= now
    BY DEF KinInv
  <2>5. QED
    BY <2>2, <2>3, <2>4
<1>4. new.parent \in Nat /\ new.parent <= now
  <2>1. CASE new.parent = 0
    BY <1>2, <2>1
  <2>2. CASE \E p \in Pid : new.parent = table[p].created
    BY <1>3, <2>2
  <2>3. QED
    BY <1>0, <2>1, <2>2, Zenon
<1>5. \A p \in Pid : table'[p].parent <= now'
  BY <1>2, <1>3, <1>4
<1>6. ASSUME NEW p \in Pid, NEW q \in Pid, table'[p] # Nobody, table'[q] # Nobody,
             table'[p].created = table'[q].created
      PROVE  p = q
  <2>1. CASE p # pid /\ q # pid
    BY <1>2, <1>6, <2>1 DEF KinInv
  <2>2. \A x \in Pid : table[x].created # now + 1
    BY <1>2, <1>3
  <2>3. QED
    BY <1>0, <1>2, <1>6, <2>1, <2>2
<1>7. ASSUME NEW c \in Pid, NEW p \in Pid, table'[c] # Nobody, table'[p] # Nobody,
             table'[c].parent = table'[p].created
      PROVE  /\ table'[c].parentPid = p
             /\ table'[p].created <= table'[c].created
             /\ table'[p].exited # 0 => table'[c].created <= table'[p].exited
  <2>1. CASE p = pid
    <3>1. table'[c].parent <= now /\ table'[c].parent \in Nat
      BY <1>2, <1>3, <1>4
    <3>2. table'[p].created = now + 1
      BY <1>0, <1>2, <2>1
    <3>3. QED
      BY <1>2, <1>7, <3>1, <3>2
  <2>2. CASE p # pid /\ c # pid
    BY <1>2, <1>7, <2>2 DEF KinInv
  <2>3. CASE p # pid /\ c = pid
    <3>1. new.parent = table[p].created /\ table[p] # Nobody
      BY <1>2, <1>7, <2>3
    <3>2. PICK q \in Pid : /\ Lives(table, q)
                           /\ new.parent = table[q].created /\ new.parentPid = q
      <4>1. new.parent # 0
        BY <1>3, <3>1
      <4>2. QED
        BY <1>0, <4>1
    <3>3. q = p
      BY <3>1, <3>2 DEF KinInv, Lives
    <3>4. table[p].exited = 0
      BY <3>2, <3>3 DEF Lives
    <3>5. QED
      <4>1. table'[c] = new /\ table'[p] = table[p]
        BY <1>2, <2>3
      <4>2. new.parentPid = p /\ new.created = now + 1 /\ table[p].created <= now
            /\ table[p].created \in Nat
        BY <1>0, <1>3, <3>2, <3>3
      <4>3. QED
        BY <1>2, <3>4, <4>1, <4>2
  <2>4. QED
    BY <2>1, <2>2, <2>3
<1>8. QED
  BY <1>5, <1>6, <1>7 DEF KinInv

LEMMA StopBorn ==
    ASSUME IInv, ShapeInv, StopInv(stack, table, visited, walked), Spawn
    PROVE  StopInv(stack, table', visited, walked)
<1>1. PICK pid \in Pid, new \in Process :
              /\ table[pid] = Nobody
              /\ table' = [table EXCEPT ![pid] = new]
              /\ new # Nobody /\ new.created = now + 1 /\ new.exited = 0
              /\ \/ new.parent = 0
                 \/ \E p \in Pid : /\ Lives(table, p)
                                   /\ new.parent = table[p].created /\ new.parentPid = p
  BY Newborn
<1>2. /\ table \in [Pid -> Process] /\ now \in Nat
      /\ table'[pid] = new /\ \A p \in Pid : p # pid => table'[p] = table[p]
  BY <1>1, TreeAssumption DEF IInv, DataInv, Times
<1>3. \A i \in 1..Len(stack) : stack[i].pid \in Pid /\ stack[i].pid # pid
  BY <1>1, CallOf DEF IInv
<1>4. \A i \in 1..Len(stack) : DoneCall(stack[i], table')
  BY <1>2, <1>3 DEF StopInv, DoneCall
<1>5. now + 1 \notin walked
  BY <1>2 DEF ShapeInv
<1>6. \A p \in Pid : table'[p] # Nobody /\ table'[p].created \in walked => table'[p].exited # 0
  BY <1>1, <1>2, <1>5 DEF StopInv
<1>7. new.parent \notin walked
  BY <1>1 DEF StopInv, Lives
<1>8. ASSUME NEW p \in Pid, Lives(table', p), table'[p].parent \in walked
      PROVE  p \in visited \/ \E i \in 1..Len(stack) : Lists(stack[i], table', p)
  <2>1. p # pid /\ table'[p] = table[p]
    BY <1>2, <1>7, <1>8
  <2>2. p \in visited \/ \E i \in 1..Len(stack) : Lists(stack[i], table, p)
    BY <1>8, <2>1 DEF StopInv, Lives
  <2>3. QED
    BY <2>1, <2>2 DEF Lists
<1>9. QED
  BY <1>4, <1>6, <1>8 DEF StopInv

-----------------------------------------------------------------------------
LEMMA InitGone == Init => GoneInv
<1> SUFFICES ASSUME Init PROVE GoneInv
  OBVIOUS
<1> USE TreeAssumption DEF Init
<1>1. KinInv(table, now)
  BY DEF KinInv, Started, Nobody, Outside
<1>2. ShapeInv
  BY DEF ShapeInv
<1>3. StopInv(stack, table, visited, walked)
  BY DEF StopInv
<1>4. QED
  BY <1>1, <1>2, <1>3 DEF GoneInv

LEMMA AgesStep ==
    ASSUME IInv, [Next]_vars
    PROVE  Spawn \/ (Ages(table, table', now) /\ now' = now)
<1> USE DEF world, spec
<1>1. CASE UNCHANGED <<table, now>>
  BY <1>1 DEF Ages
<1>2. CASE Terminate
  BY <1>2, TerminateAges DEF Terminate
<1>3. ASSUME NEW pid \in Pid, Exit(pid) PROVE Ages(table, table', now) /\ now' = now
  BY <1>3, ExitAges DEF Exit
<1>4. CASE At("times") /\ Return /\ now' = now
  BY <1>4, ReturnAges DEF At
<1>5. CASE At("snapshot") /\ Return /\ now' = now
  BY <1>5, ReturnAges DEF At
<1>6. CASE At("children") /\ Return /\ now' = now
  BY <1>6, ReturnAges DEF At
<1>7. CASE StopProcessTree \/ WaitFails \/ UNCHANGED vars \/ Begin \/ WaitUntilExit \/ NextChild
  BY <1>1, <1>7 DEF StopProcessTree, WaitFails, vars, Begin, WaitUntilExit, NextChild
<1>8. CASE \E stage \in Gentle : Send(stage) \/ Await(stage)
  BY <1>1, <1>8 DEF Send, Await
<1>9. CASE LookAtTimes
  BY <1>1, <1>4, <1>9 DEF LookAtTimes
<1>10. CASE ProcessSnapshot
  BY <1>1, <1>5, <1>10 DEF ProcessSnapshot
<1>11. CASE NoMoreChildren
  BY <1>6, <1>11 DEF NoMoreChildren
<1>12. QED
  BY <1>2, <1>3, <1>7, <1>8, <1>9, <1>10, <1>11 DEF Next, StopProcessWalk

LEMMA KinStep == ASSUME IInv, KinInv(table, now), [Next]_vars PROVE KinInv(table', now')
<1>1. CASE Spawn
  BY <1>1, KinBorn
<1>2. CASE Ages(table, table', now) /\ now' = now
  <2>1. table \in [Pid -> Process] /\ table' \in [Pid -> Process] /\ now \in Nat
        /\ TableInv(table, now)
    BY StepIInv, TreeAssumption DEF IInv, DataInv, Times
  <2>2. KinInv(table', now)
    BY <1>2, <2>1, KinAges
  <2>3. QED
    BY <1>2, <2>2
<1>3. QED
  BY <1>1, <1>2, AgesStep

\* The shape of the stack in a step of the call on top.
LEMMA ShapeGoesOn ==
    ASSUME NEW s \in Seq(Frame), s # <<>>, NEW f \in Frame,
           \A i \in 1..(Len(s) - 1) : s[i].at = "children"
    PROVE  LET r == Append(Front(s), f)
           IN  /\ \A i \in 1..(Len(r) - 1) : r[i].at = "children"
               /\ r \in Seq(Frame) /\ Len(r) \in Nat \ {0} /\ r[Len(r)] = f
<1>1. /\ Front(s) \in Seq(Frame) /\ Len(Front(s)) = Len(s) - 1 /\ Len(s) \in Nat \ {0}
      /\ \A i \in 1..(Len(s) - 1) : Front(s)[i] = s[i]
  BY FrontOf
<1>2. QED
  BY <1>1

LEMMA ShapeReturns ==
    ASSUME NEW s \in Seq(Frame), s # <<>>,
           \A i \in 1..(Len(s) - 1) : s[i].at = "children"
    PROVE  /\ \A i \in 1..(Len(Front(s)) - 1) : Front(s)[i].at = "children"
           /\ Len(s) = 1 <=> Front(s) = <<>>
<1>1. /\ Front(s) \in Seq(Frame) /\ Len(Front(s)) = Len(s) - 1 /\ Len(s) \in Nat \ {0}
      /\ \A i \in 1..(Len(s) - 1) : Front(s)[i] = s[i]
  BY FrontOf
<1>2. QED
  BY <1>1

\* A step of the call on top, which becomes f.
LEMMA OnTop ==
    ASSUME IInv, GoneInv, [Next]_vars, now' = now, over' = over, stack # <<>>,
           NEW f \in Frame, SetTop(f), \A c \in walked' : c <= now,
           ~failed' =>
              /\ ~failed /\ DoneCall(f, table) /\ visited \subseteq visited' /\ 0 \notin walked'
              /\ \A p \in Pid : table[p] # Nobody /\ table[p].created \in walked'
                                => table[p].exited # 0
              /\ \A p \in Pid : Lives(table, p) /\ table[p].parent \in walked' =>
                    \/ p \in visited'
                    \/ Lists(f, table, p)
                    \/ table[p].parent \in walked /\ ~Lists(Top, table, p)
    PROVE  GoneInv'
<1>1. KinInv(table', now') /\ IInv'
  BY KinStep, StepIInv DEF GoneInv
<1>2. stack \in Seq(Frame) /\ Top = Last(stack) /\ stack' = Append(Front(stack), f)
      /\ now \in Nat /\ now # 0
  BY TopIs DEF SetTop
<1>3. ShapeInv'
  BY <1>2, ShapeGoesOn DEF GoneInv, ShapeInv
<1>4. ASSUME ~failed' PROVE StopInv(stack', table', visited', walked')
  <2>1. StopInv(stack, table, visited, walked)
    BY <1>4 DEF GoneInv
  <2>2. StopInv(stack', table, visited', walked')
    BY <1>2, <1>4, <2>1, StopGoesOn
  <2>3. Ages(table, table', now)
    <3>1. Spawn => now' = now + 1
      BY DEF Spawn
    <3>2. QED
      BY <1>2, <3>1, AgesStep
  <2>4. \A i \in 1..Len(stack') : stack'[i].pid \in Pid /\ table'[stack'[i].pid] # Nobody
    <3>1. WalkInv(stack', table', visited', now')
      BY <1>1 DEF IInv
    <3>2. QED
      BY <3>1, CallOf
  <2>5. QED
    BY <1>2, <2>2, <2>3, <2>4, StopAges
<1>5. ~over'
  BY DEF GoneInv, ShapeInv
<1>6. QED
  BY <1>1, <1>3, <1>4, <1>5 DEF GoneInv

\* Before the snapshot only the place of a call matters.
LEMMA Moves ==
    ASSUME IInv, GoneInv, [Next]_vars, now' = now, over' = over, stack # <<>>,
           visited' = visited, walked' = walked, Top.at # "children",
           NEW f \in Frame, SetTop(f),
           ~failed' => ~failed /\ DoneCall(f, table)
    PROVE  GoneInv'
<1>1. \A c \in walked' : c <= now
  BY DEF GoneInv, ShapeInv
<1>2. ~failed' => StopInv(stack, table, visited, walked)
  BY DEF GoneInv
<1>3. \A p \in Pid : ~Lists(Top, table, p)
  BY TopIs DEF Lists
<1>4. QED
  BY <1>1, <1>2, <1>3, OnTop DEF StopInv

LEMMA GoesTo ==
    ASSUME IInv, stack # <<>>,
           NEW place \in AllMethods \cup {"begin", "exit", "children", "times", "snapshot"}
    PROVE  \E f \in Frame : /\ Goto(place) => SetTop(f)
                            /\ f.pid = Top.pid /\ f.at = place
<1> DEFINE f == [Top EXCEPT !.at = place, !.waiting = FALSE]
<1>1. f \in Frame /\ f.pid = Top.pid /\ f.at = place
  BY TopIs DEF Frame
<1>2. QED
  BY <1>1 DEF Goto

\* A call that has not come to its times, or whose process has exited.
LEMMA Early == ASSUME NEW f, NEW t, f.at \in AllMethods \cup {"begin", "exit"}
               PROVE  DoneCall(f, t)
BY DEF AllMethods, Gentle, DoneCall

\* The call on top returns.
LEMMA Returns ==
    ASSUME IInv, GoneInv, [Next]_vars, now' = now, stack # <<>>, Return,
           visited' = visited, walked' = walked,
           ~failed' => /\ ~failed /\ table[Top.pid].exited # 0
                       /\ \A p \in Pid : Lives(table, p) /\ Lists(Top, table, p) => p \in visited
    PROVE  GoneInv'
<1>1. KinInv(table', now') /\ IInv'
  BY KinStep, StepIInv DEF GoneInv
<1>2. stack \in Seq(Frame) /\ Top = Last(stack) /\ stack' = Front(stack)
      /\ now \in Nat /\ now # 0 /\ Top = stack[Len(stack)]
  BY TopIs DEF Return
<1>3. ShapeInv'
  BY <1>2, ShapeReturns DEF GoneInv, ShapeInv, Return
<1>4. ASSUME ~failed' PROVE StopInv(stack', table', visited', walked')
  <2>1. StopInv(stack, table, visited, walked)
    BY <1>4 DEF GoneInv
  <2>2. StopInv(stack', table, visited', walked')
    BY <1>2, <1>4, <2>1, StopReturns
  <2>3. Ages(table, table', now)
    BY ReturnAges
  <2>4. \A i \in 1..Len(stack') : stack'[i].pid \in Pid /\ table'[stack'[i].pid] # Nobody
    <3>1. WalkInv(stack', table', visited', now')
      BY <1>1 DEF IInv
    <3>2. QED
      BY <3>1, CallOf
  <2>5. QED
    BY <1>2, <2>2, <2>3, <2>4, StopAges
<1>5. ASSUME ~failed', over' PROVE table'[Root].exited # 0
  <2>1. Len(stack) = 1
    BY <1>5, Zenon DEF Return
  <2>3. ~(Len(stack) > 1)
    BY <2>1
  <2>4. table' = table
    BY <2>3, Zenon DEF Return
  <2>2. Top.pid = Root
    BY <1>2, <2>1 DEF IInv, WalkInv
  <2>5. QED
    BY <1>5, <2>2, <2>4
<1>6. QED
  BY <1>1, <1>3, <1>4, <1>5 DEF GoneInv

-----------------------------------------------------------------------------
(* The actions leave no survivor behind.                                   *)

LEMMA HasExited == ASSUME IInv, stack # <<>>, ~IsAlive(Top.pid) PROVE table[Top.pid].exited # 0
BY TopIs DEF IsAlive

LEMMA StagesGone ==
    ASSUME IInv, GoneInv, [Next]_vars,
           \/ \E stage \in Gentle : Send(stage) \/ Await(stage)
           \/ Terminate \/ WaitUntilExit \/ WaitFails
    PROVE  GoneInv'
<1> USE DEF world, spec
<1>1. \A stage \in Gentle : After(stage) \in AllMethods /\ stage \in AllMethods
                            /\ stage # "children"
  BY DEF Gentle, AllMethods, After
<1> DEFINE Places == AllMethods \cup {"begin", "exit", "children", "times", "snapshot"}
<1>2. ASSUME NEW place \in Places, Goto(place),
             now' = now, over' = over, stack # <<>>, visited' = visited, walked' = walked,
             Top.at # "children",
             ~failed' => /\ ~failed
                         /\ \/ place \in AllMethods \cup {"begin", "exit"}
                            \/ place = "times" /\ ~IsAlive(Top.pid)
      PROVE  GoneInv'
  <2>1. PICK f \in Frame : SetTop(f) /\ f.pid = Top.pid /\ f.at = place
    BY <1>2, GoesTo
  <2>2. ~failed' => DoneCall(f, table)
    <3>1. CASE place \in AllMethods \cup {"begin", "exit"}
      BY <2>1, <3>1, Early
    <3>2. CASE place = "times" /\ ~IsAlive(Top.pid)
      BY <1>2, <2>1, <3>2, HasExited DEF DoneCall
    <3>3. QED
      BY <1>2, <3>1, <3>2
  <2>3. QED
    BY <1>2, <2>1, <2>2, Moves
<1>3. ASSUME NEW stage \in Gentle, Send(stage) PROVE GoneInv'
  <2>1. stack # <<>> /\ Top.at = stage /\ failed' = failed /\ now' = now /\ over' = over
        /\ visited' = visited /\ walked' = walked
    BY <1>3 DEF Send, At
  <2>2. CASE Goto(After(stage))
    BY <1>1, <1>2, <2>1, <2>2
  <2>3. CASE SetTop([Top EXCEPT !.waiting = TRUE])
    <3> DEFINE f == [Top EXCEPT !.waiting = TRUE]
    <3>1. f \in Frame /\ f.at = stage
      BY <2>1, TopIs DEF Frame
    <3>2. DoneCall(f, table)
      BY <1>1, <3>1, Early
    <3> HIDE DEF f
    <3>3. SetTop(f)
      BY <2>3 DEF f
    <3>4. QED
      BY <1>1, <2>1, <3>1, <3>2, <3>3, Moves
  <2>4. QED
    BY <1>3, <2>2, <2>3 DEF Send
<1>4. ASSUME NEW stage \in Gentle, Await(stage) PROVE GoneInv'
  <2>1. stack # <<>> /\ Top.at = stage /\ now' = now /\ over' = over
        /\ visited' = visited /\ walked' = walked
    BY <1>4 DEF Await, At
  <2>2. PICK place \in Places : /\ Goto(place)
                                /\ ~failed' => /\ ~failed
                                               /\ \/ place \in AllMethods \cup {"begin", "exit"}
                                                  \/ place = "times" /\ ~IsAlive(Top.pid)
    <3>1. "times" \in Places /\ After(stage) \in Places
      BY <1>1
    <3>2. CASE ~IsAlive(Top.pid) /\ Goto("times") /\ UNCHANGED failed
      BY <3>1, <3>2
    <3>3. CASE Goto(After(stage)) /\ (~failed' => ~failed)
      BY <1>1, <3>1, <3>3
    <3>4. CASE /\ Goto(IF stage = "console" THEN After(stage) ELSE "times")
               /\ failed' = (failed \/ stage # "console")
      BY <1>1, <3>1, <3>4
    <3>5. QED
      BY <1>4, <3>2, <3>3, <3>4 DEF Await
  <2>3. QED
    BY <1>1, <1>2, <2>1, <2>2
<1>5. ASSUME Terminate PROVE GoneInv'
  <2>1. stack # <<>> /\ Top.at # "children" /\ now' = now /\ over' = over
        /\ visited' = visited /\ walked' = walked
    BY <1>5 DEF Terminate, At
  <2>2. CASE Goto("exit") /\ (~failed' => ~failed)
    BY <1>2, <2>1, <2>2
  <2>3. CASE Goto("times") /\ failed'
    BY <1>2, <2>1, <2>3
  <2>4. CASE /\ Goto(IF IsAlive(Top.pid) THEN "times" ELSE "exit")
             /\ failed' = (failed \/ IsAlive(Top.pid))
    BY <2>2, <2>3, <2>4
  <2>5. QED
    BY <1>5, <2>2, <2>4 DEF Terminate
<1>6. ASSUME WaitUntilExit \/ WaitFails PROVE GoneInv'
  <2>1. stack # <<>> /\ Top.at # "children" /\ now' = now /\ over' = over
        /\ visited' = visited /\ walked' = walked /\ Goto("times")
        /\ (~failed' => ~failed /\ ~IsAlive(Top.pid))
    BY <1>6 DEF WaitUntilExit, WaitFails, At
  <2>2. QED
    BY <1>2, <2>1
<1>7. QED
  BY <1>3, <1>4, <1>5, <1>6

LEMMA BeginGone == ASSUME IInv, GoneInv, [Next]_vars, Begin PROVE GoneInv'
<1>1. stack # <<>> /\ Top.at # "children" /\ now' = now /\ over' = over
      /\ visited' = visited /\ walked' = walked
  BY DEF Begin, At, world
<1>2. PICK created \in {0, table[Top.pid].created}, at \in {"console", "times"} :
        /\ SetTop([Top EXCEPT !.created = created, !.at = at])
        /\ ~failed' => ~failed /\ (at = "times" => ~IsAlive(Top.pid))
  BY DEF Begin, TimeOrFailure
<1>3. Top \in Frame /\ table[Top.pid] \in Process /\ 0 \in Times
  BY <1>1, TopFacts, TreeAssumption DEF IInv, Times
<1> DEFINE f == [Top EXCEPT !.created = created, !.at = at]
<1>4. created \in Times /\ at \in AllMethods \cup {"begin", "exit", "children", "times", "snapshot"}
  BY <1>3 DEF Process, AllMethods, Gentle
<1>5. f \in Frame /\ f.pid = Top.pid /\ f.at = at
  BY <1>3, <1>4 DEF Frame
<1> HIDE DEF f
<1>6. ~failed' => DoneCall(f, table)
  BY <1>1, <1>2, <1>5, HasExited DEF DoneCall
<1>7. SetTop(f)
  BY <1>2 DEF f
<1>8. QED
  BY <1>1, <1>2, <1>5, <1>6, <1>7, Moves

LEMMA LookAtTimesGone == ASSUME IInv, GoneInv, [Next]_vars, LookAtTimes PROVE GoneInv'
<1>1. stack # <<>> /\ Top.at = "times" /\ now' = now /\ visited' = visited /\ walked' = walked
  BY DEF LookAtTimes, At
<1>2. ~failed => DoneCall(Top, table) /\ table[Top.pid].exited # 0
  BY <1>1, TopIs DEF GoneInv, StopInv, DoneCall
<1>3. CASE Return /\ (failed' = failed \/ failed' = TRUE)
  <2>1. \A p \in Pid : ~Lists(Top, table, p)
    BY <1>1, TopIs DEF Lists
  <2>2. QED
    BY <1>1, <1>2, <1>3, <2>1, Returns
<1>4. CASE /\ killTree /\ Top.created # 0
           /\ \E exited \in TimeOrFailure(table[Top.pid].exited) :
                 /\ SetTop([Top EXCEPT !.at = "snapshot",
                                       !.exited = IF exited = 0 THEN now ELSE exited])
                 /\ failed' = (failed \/ exited # table[Top.pid].exited)
           /\ UNCHANGED <<table, over>>
  <2>1. PICK exited \in {0, table[Top.pid].exited} :
          /\ SetTop([Top EXCEPT !.at = "snapshot",
                                !.exited = IF exited = 0 THEN now ELSE exited])
          /\ failed' = (failed \/ exited # table[Top.pid].exited)
    <3>1. TimeOrFailure(table[Top.pid].exited) \subseteq {0, table[Top.pid].exited}
      BY DEF TimeOrFailure
    <3>2. QED
      BY <1>4, <3>1, Zenon
  <2> DEFINE time == IF exited = 0 THEN now ELSE exited
             f == [Top EXCEPT !.at = "snapshot", !.exited = time]
  <2>2. Top \in Frame /\ table[Top.pid] \in Process /\ now \in Times
    BY <1>1, TopFacts, TreeAssumption DEF IInv, DataInv, Times
  <2>3. time \in Times
    BY <2>2 DEF Process
  <2>4. ~failed' => ~failed /\ time = table[Top.pid].exited
    BY <1>2, <2>1
  <2>5. SetTop(f)
    BY <2>1
  <2> HIDE DEF time
  <2>6. f \in Frame /\ f.pid = Top.pid /\ f.at = "snapshot" /\ f.exited = time
        /\ f.created = Top.created
    BY <2>2, <2>3 DEF Frame
  <2> HIDE DEF f
  <2>7. ~failed' => ~failed /\ DoneCall(f, table)
    BY <1>2, <1>4, <2>4, <2>6 DEF DoneCall
  <2>8. QED
    BY <1>1, <1>4, <2>5, <2>6, <2>7, Moves
<1>5. QED
  BY <1>3, <1>4, Zenon DEF LookAtTimes

LEMMA SnapshotGone == ASSUME IInv, GoneInv, [Next]_vars, ProcessSnapshot PROVE GoneInv'
<1>1. stack # <<>> /\ Top.at = "snapshot" /\ now' = now /\ visited' = visited
  BY DEF ProcessSnapshot, At
<1>2. CASE Return /\ failed' = TRUE /\ UNCHANGED walked
  BY <1>1, <1>2, Returns
<1> DEFINE entries == {<<pid, table[pid].parentPid>> : pid \in Alive}
<1>3. CASE /\ SetTop([Top EXCEPT !.at = "children", !.entries = entries])
           /\ walked' = walked \cup {Top.created}
           /\ UNCHANGED <<table, failed, over>>
  <2>1. Top \in Frame /\ Top.pid \in Pid /\ table[Top.pid] # Nobody /\ Top.entries = {}
    BY <1>1, TopIs
  <2>2. entries \in SUBSET (Pid \X (Pid \cup {Outside}))
        /\ \A p \in Pid : Lives(table, p) => <<p, table[p].parentPid>> \in entries
    BY DEF Alive, IsAlive, Lives, IInv, DataInv, Process
  <2> HIDE DEF entries
  <2> DEFINE f == [Top EXCEPT !.at = "children", !.entries = entries]
  <2>3. f \in Frame /\ f.pid = Top.pid /\ f.created = Top.created /\ f.exited = Top.exited
        /\ f.entries = entries
    BY <2>1, <2>2 DEF Frame
  <2>4. SetTop(f)
    BY <1>3
  <2> HIDE DEF f
  <2>5. ASSUME ~failed
        PROVE  /\ Top.created # 0 /\ table[Top.pid].created = Top.created
               /\ table[Top.pid].exited # 0 /\ DoneCall(f, table)
               /\ 0 \notin walked'
    <3>1. DoneCall(Top, table) /\ 0 \notin walked
      BY <2>5, <1>1, TopIs DEF GoneInv, StopInv
    <3>2. Top.created # 0 /\ table[Top.pid].exited # 0 /\ Top.exited = table[Top.pid].exited
      BY <3>1, <1>1 DEF DoneCall
    <3>3. QED
      BY <1>1, <1>3, <2>3, <3>1, <3>2, TopIs DEF DoneCall
  <2>6. \A c \in walked' : c <= now
    <3>1. Top.created <= now
      <4>1. table[Top.pid].created <= now
        BY <2>1 DEF IInv, TableInv
      <4>2. CASE Top.created = 0
        BY <1>1, <4>2, TopIs
      <4>3. QED
        BY <1>1, <4>1, <4>2, TopIs
    <3>2. QED
      BY <1>3, <3>1 DEF GoneInv, ShapeInv
  <2>7. ASSUME ~failed, NEW p \in Pid, table[p] # Nobody, table[p].created \in walked'
        PROVE  table[p].exited # 0
    <3>1. CASE table[p].created \in walked
      BY <2>7, <3>1 DEF GoneInv, StopInv
    <3>2. CASE table[p].created = Top.created
      BY <2>1, <2>5, <2>7, <3>2 DEF GoneInv, KinInv
    <3>3. QED
      BY <1>3, <2>7, <3>1, <3>2
  <2>8. ASSUME ~failed, NEW p \in Pid, Lives(table, p), table[p].parent \in walked'
        PROVE  Lists(f, table, p) \/ (table[p].parent \in walked /\ ~Lists(Top, table, p))
    <3>1. CASE table[p].parent = Top.created
      <4>1. table[p].parentPid = Top.pid
        BY <2>1, <2>5, <2>8, <3>1 DEF GoneInv, KinInv, Lives
      <4>2. <<p, Top.pid>> \in entries
        BY <2>2, <2>8, <4>1
      <4>3. f.created = table[p].parent
        BY <2>3, <3>1
      <4>4. <<p, f.pid>> \in f.entries
        BY <2>3, <4>2, Zenon
      <4>5. QED
        BY <4>3, <4>4 DEF Lists
    <3>2. CASE table[p].parent \in walked
      BY <2>1, <3>2 DEF Lists
    <3>3. QED
      BY <1>3, <2>8, <3>1, <3>2
  <2>9. ~failed' => ~failed /\ visited \subseteq visited'
    BY <1>1, <1>3
  <2>10. now' = now /\ over' = over
    BY <1>1, <1>3
  <2>11. QED
    BY <1>1, <2>3, <2>4, <2>5, <2>6, <2>7, <2>8, <2>9, <2>10, OnTop
<1>4. QED
  BY <1>2, <1>3 DEF ProcessSnapshot

LEMMA NoMoreChildrenGone == ASSUME IInv, GoneInv, [Next]_vars, NoMoreChildren PROVE GoneInv'
<1>1. stack # <<>> /\ Top.at = "children" /\ now' = now /\ visited' = visited
      /\ walked' = walked /\ failed' = failed /\ Return /\ Candidates = {}
  BY DEF NoMoreChildren, At
<1>2. ~failed => table[Top.pid].exited # 0
  BY <1>1, TopIs DEF GoneInv, StopInv, DoneCall
<1>3. \A p \in Pid : Lists(Top, table, p) => p \in visited
  BY <1>1 DEF Candidates, Lists
<1>4. QED
  BY <1>1, <1>2, <1>3, Returns

\* A call that has only begun lists nothing yet.
LEMMA StopCalls ==
    ASSUME NEW t, NEW v, NEW w, NEW s \in Seq(Frame), NEW f \in Frame,
           StopInv(s, t, v, w), DoneCall(f, t)
    PROVE  StopInv(Append(s, f), t, v, w)
<1> DEFINE r == Append(s, f)
<1>1. /\ Len(r) = Len(s) + 1 /\ Len(s) \in Nat /\ r[Len(s) + 1] = f
      /\ \A i \in 1..Len(s) : r[i] = s[i]
  OBVIOUS
<1> HIDE DEF r
<1>2. \A i \in 1..Len(r) : i \in 1..Len(s) \/ i = Len(s) + 1
  BY <1>1
<1>3. \A i \in 1..Len(s) : i \in 1..Len(r)
  BY <1>1
<1>4. \A i \in 1..Len(r) : DoneCall(r[i], t)
  BY <1>1, <1>2 DEF StopInv
<1>5. ASSUME NEW p \in Pid, Lives(t, p), t[p].parent \in w
      PROVE  p \in v \/ \E i \in 1..Len(r) : Lists(r[i], t, p)
  BY <1>1, <1>3, <1>5 DEF StopInv
<1>6. StopInv(r, t, v, w)
  BY <1>4, <1>5 DEF StopInv
<1>7. QED
  BY <1>6 DEF r

(* A living child of the process on top that is in the snapshot is not     *)
(* passed over: its creation time is that of a real child.                 *)
LEMMA ChildrenAreReal ==
    ASSUME IInv, GoneInv, stack # <<>>, ~failed, Top.at = "children",
           NEW p \in Pid, Lives(table, p), Lists(Top, table, p)
    PROVE  IsRealChild(Top.created, Top.exited, table[p].created)
<1>1. /\ Top.created # 0 /\ Top.exited = table[Top.pid].exited /\ table[Top.pid].exited # 0
      /\ table[Top.pid].created = Top.created /\ Top.pid \in Pid /\ table[Top.pid] # Nobody
  BY TopIs DEF GoneInv, StopInv, DoneCall
<1>2. /\ table[Top.pid].created <= table[p].created
      /\ table[p].created <= table[Top.pid].exited
  BY <1>1 DEF GoneInv, KinInv, Lives, Lists
<1>3. table[p].created # 0
  BY DEF IInv, TableInv, Lives
<1>4. table[p].created \in Nat /\ Top.created \in Nat
  <2>1. table[p] \in Process /\ table[Top.pid] \in Process
    BY <1>1 DEF IInv, DataInv
  <2>2. QED
    BY <1>1, <2>1, TreeAssumption DEF Process, Times
<1>5. QED
  BY <1>1, <1>2, <1>3, <1>4 DEF IsRealChild

LEMMA NextChildGone == ASSUME IInv, GoneInv, [Next]_vars, NextChild PROVE GoneInv'
<1>1. stack # <<>> /\ UNCHANGED <<table, now, over>> /\ Top.at = "children"
  BY DEF NextChild, At, world
<1>2. PICK e \in Candidates :
        LET rest == [Top EXCEPT !.entries = @ \ {e}]
            child == table[e[1]]
            real == IsRealChild(Top.created, Top.exited, child.created)
        IN  \/ SetTop(rest) /\ failed' = TRUE /\ UNCHANGED <<visited, walked>>
            \/ /\ child # Nobody /\ real
               /\ stack' = Append(Append(Front(stack), rest), Call(e[1]))
               /\ visited' = visited \cup {e[1]} /\ UNCHANGED <<failed, walked>>
            \/ ~real /\ SetTop(rest) /\ UNCHANGED <<visited, failed, walked>>
            \/ SetTop(rest) /\ walked' = walked \ {Top.created} /\ UNCHANGED <<visited, failed>>
  BY DEF NextChild
<1> DEFINE rest == [Top EXCEPT !.entries = @ \ {e}]
           real == IsRealChild(Top.created, Top.exited, table[e[1]].created)
<1>3. Top \in Frame /\ e \in Top.entries /\ e[1] \in Pid
  BY <1>1, TopIs DEF Candidates, Frame
<1>4. rest \in Frame /\ rest.pid = Top.pid /\ rest.entries = Top.entries \ {e}
      /\ rest.at = "children" /\ rest.created = Top.created /\ rest.exited = Top.exited
  BY <1>1, <1>3 DEF Frame
<1>5. ~failed => DoneCall(rest, table) /\ 0 \notin walked
  <2>1. ~failed => DoneCall(Top, table) /\ 0 \notin walked
    BY <1>1, TopIs DEF GoneInv, StopInv
  <2>2. QED
    BY <1>1, <1>4, <2>1 DEF DoneCall
<1>6. \A p \in Pid : Lists(Top, table, p) => Lists(rest, table, p) \/ p = e[1]
  BY <1>4 DEF Lists
<1>7. ~failed => \A p \in Pid : table[p] # Nobody /\ table[p].created \in walked
                                => table[p].exited # 0
  BY DEF GoneInv, StopInv
<1>8. \A c \in walked : c <= now
  BY DEF GoneInv, ShapeInv
<1> HIDE DEF rest, real
<1>9. CASE SetTop(rest) /\ failed' = TRUE /\ UNCHANGED walked
  BY <1>1, <1>4, <1>8, <1>9, OnTop
<1>10. CASE ~real /\ SetTop(rest) /\ UNCHANGED <<visited, failed, walked>>
  <2>1. ASSUME ~failed, NEW p \in Pid, Lives(table, p), Lists(Top, table, p)
        PROVE  Lists(rest, table, p)
    BY <1>1, <1>6, <1>10, <2>1, ChildrenAreReal DEF real
  <2>2. QED
    BY <1>1, <1>4, <1>5, <1>7, <1>8, <1>10, <2>1, OnTop
<1>11. CASE SetTop(rest) /\ walked' = walked \ {Top.created} /\ UNCHANGED <<visited, failed>>
  <2>1. \A p \in Pid : table[p].parent \in walked'
                       => table[p].parent \in walked /\ ~Lists(Top, table, p)
    BY <1>11 DEF Lists
  <2>2. QED
    BY <1>1, <1>4, <1>5, <1>7, <1>8, <1>11, <2>1, OnTop
<1>12. CASE /\ stack' = Append(Append(Front(stack), rest), Call(e[1]))
            /\ visited' = visited \cup {e[1]} /\ UNCHANGED <<failed, walked>>
  <2> DEFINE r == Append(Front(stack), rest)
  <2>1. stack \in Seq(Frame) /\ Top = Last(stack) /\ Call(e[1]) \in Frame
        /\ Call(e[1]).at = "begin"
    BY <1>1, <1>3, TopIs, CallFrame DEF Call
  <2>2. /\ \A i \in 1..(Len(r) - 1) : r[i].at = "children"
        /\ r \in Seq(Frame) /\ Len(r) \in Nat \ {0} /\ r[Len(r)] = rest
    BY <1>1, <1>4, <2>1, ShapeGoesOn DEF GoneInv, ShapeInv
  <2>3. ~failed => StopInv(r, table, visited', walked)
    <3>1. ~failed => StopInv(stack, table, visited, walked)
      BY DEF GoneInv
    <3>2. \A p \in Pid : Lists(Top, table, p) => Lists(rest, table, p) \/ p \in visited'
      BY <1>6, <1>12
    <3>3. visited \subseteq visited'
      BY <1>12
    <3>4. QED
      BY <1>1, <1>4, <1>5, <1>7, <2>1, <3>1, <3>2, <3>3, StopGoesOn
  <2> HIDE DEF r
  <2>4. stack' = Append(r, Call(e[1]))
    BY <1>12 DEF r
  <2>5. \A i \in 1..(Len(stack') - 1) : stack'[i].at = "children"
    <3>1. /\ Len(stack') - 1 = Len(r) /\ \A i \in 1..Len(r) : stack'[i] = r[i]
          /\ \A i \in 1..Len(r) : i = Len(r) \/ i \in 1..(Len(r) - 1)
      BY <2>1, <2>2, <2>4
    <3>2. QED
      BY <1>4, <2>2, <3>1
  <2>6. ~over'
    BY <1>1 DEF GoneInv, ShapeInv
  <2>7. ShapeInv'
    BY <1>1, <1>8, <1>12, <2>5, <2>6 DEF ShapeInv
  <2>8. ~failed => StopInv(stack', table', visited', walked')
    <3>1. DoneCall(Call(e[1]), table)
      BY <2>1, Early
    <3>2. QED
      BY <1>1, <1>12, <2>1, <2>2, <2>3, <2>4, <3>1, StopCalls
  <2>9. KinInv(table', now')
    BY KinStep DEF GoneInv
  <2>10. QED
    BY <1>12, <2>6, <2>7, <2>8, <2>9 DEF GoneInv
<1>13. QED
  BY <1>2, <1>9, <1>10, <1>11, <1>12 DEF rest, real

LEMMA WorldGone ==
    ASSUME IInv, GoneInv, [Next]_vars, Spawn \/ \E pid \in Pid : Exit(pid)
    PROVE  GoneInv'
<1>1. UNCHANGED <<stack, visited, failed, over, walked>> /\ ~over /\ now <= now'
  <2>1. now \in Nat
    BY TreeAssumption DEF IInv, DataInv, Times
  <2>2. CASE Spawn
    BY <2>1, <2>2 DEF Spawn
  <2>3. ASSUME NEW pid \in Pid, Exit(pid)
        PROVE  UNCHANGED <<stack, visited, failed, over, walked>> /\ ~over /\ now <= now'
    BY <2>1, <2>3 DEF Exit
  <2>4. QED
    BY <2>2, <2>3
<1>2. KinInv(table', now')
  BY KinStep DEF GoneInv
<1>3. ShapeInv'
  <2>1. \A c \in walked : c \in Nat /\ c <= now
    BY TreeAssumption DEF IInv, DataInv, Times, GoneInv, ShapeInv
  <2>2. now \in Nat /\ now' \in Nat
    BY TreeAssumption, StepIInv DEF IInv, DataInv, Times
  <2>3. \A c \in walked : c <= now'
    BY <1>1, <2>1, <2>2
  <2>4. QED
    BY <1>1, <2>3 DEF GoneInv, ShapeInv
<1>4. ASSUME ~failed, NEW pid \in Pid, Exit(pid) PROVE StopInv(stack, table', visited, walked)
  <2>1. \A i \in 1..Len(stack) : stack[i].pid \in Pid /\ table'[stack[i].pid] # Nobody
    <3>1. WalkInv(stack', table', visited', now')
      BY StepIInv DEF IInv
    <3>2. QED
      BY <1>1, <3>1, CallOf
  <2>2. now # 0
    <3>1. table[Root].created # 0 /\ table[Root].created <= now /\ table[Root] \in Process
      BY TreeAssumption DEF IInv, DataInv, TableInv, RootInv
    <3>2. now \in Nat /\ table[Root].created \in Nat
      BY <3>1, TreeAssumption DEF IInv, DataInv, Process, Times
    <3>3. QED
      BY <3>1, <3>2
  <2>3. QED
    BY <1>4, <2>1, <2>2, ExitAges, StopAges DEF GoneInv
<1>5. ASSUME ~failed, Spawn PROVE StopInv(stack, table', visited, walked)
  BY <1>5, StopBorn DEF GoneInv
<1>6. QED
  BY <1>1, <1>2, <1>3, <1>4, <1>5 DEF GoneInv

LEMMA StartGone == ASSUME IInv, GoneInv, [Next]_vars, StopProcessTree PROVE GoneInv'
<1>1. /\ stack = <<>> /\ stack' = <<Call(Root)>> /\ visited' = {Root} /\ ~over
      /\ UNCHANGED <<table, now, failed, over, walked>>
  BY DEF StopProcessTree, world
<1>2. KinInv(table', now')
  BY KinStep DEF GoneInv
<1>3. ShapeInv'
  BY <1>1 DEF GoneInv, ShapeInv
<1>4. ASSUME ~failed PROVE StopInv(stack', table', visited', walked')
  <2>1. stack' = Append(<<>>, Call(Root)) /\ <<>> \in Seq(Frame)
        /\ Call(Root) \in Frame /\ Call(Root).at = "begin"
    BY <1>1, CallFrame, TreeAssumption DEF Call
  <2>2. DoneCall(Call(Root), table)
    BY <2>1, Early
  <2>3. StopInv(<<>>, table, {Root}, walked)
    <3>1. walked = {}
      BY <1>1 DEF GoneInv, ShapeInv
    <3>2. QED
      BY <3>1 DEF StopInv
  <2>4. QED
    BY <1>1, <2>1, <2>2, <2>3, StopCalls
<1>5. QED
  BY <1>1, <1>2, <1>3, <1>4 DEF GoneInv

LEMMA GoneStep == IInv /\ GoneInv /\ [Next]_vars => GoneInv'
<1> SUFFICES ASSUME IInv, GoneInv, [Next]_vars PROVE GoneInv'
  OBVIOUS
<1>1. CASE UNCHANGED vars
  BY <1>1 DEF GoneInv, ShapeInv, vars, world
<1>2. CASE Next
  BY <1>2, WorldGone, StartGone, StagesGone, BeginGone, LookAtTimesGone, SnapshotGone,
     NextChildGone, NoMoreChildrenGone DEF Next, StopProcessWalk
<1>3. QED
  BY <1>1, <1>2

(* A stop of the tree that reports no error leaves neither the child alive *)
(* nor a child of a process whose children it could look for, whatever     *)
(* starts, exits and reuses identifiers meanwhile and whatever calls fail. *)
THEOREM NobodySurvives == Spec => []NoSurvivors
<1>1. IInv /\ GoneInv => NoSurvivors
  <2> SUFFICES ASSUME IInv, GoneInv, over, ~failed PROVE
          /\ ~IsAlive(Root)
          /\ \A pid \in Alive : table[pid].parent \in walked => pid \in visited
    BY DEF NoSurvivors
  <2>1. stack = <<>> /\ StopInv(stack, table, visited, walked) /\ table[Root].exited # 0
    BY DEF GoneInv, ShapeInv
  <2>2. \A pid \in Alive : pid \in Pid /\ Lives(table, pid)
    BY DEF Alive, IsAlive, Lives
  <2>3. QED
    BY <2>1, <2>2 DEF IsAlive, StopInv
<1>2. Init => IInv /\ GoneInv
  BY InitIInv, InitGone
<1>3. IInv /\ GoneInv /\ [Next]_vars => (IInv /\ GoneInv)'
  BY StepIInv, GoneStep
<1>4. QED
  BY <1>1, <1>2, <1>3, PTL DEF Spec
=============================================================================
