----------------------------- MODULE ProcessTree -----------------------------
(***************************************************************************)
(* StopProcessTree of platform/process_windows: the child is asked and     *)
(* then forced to exit, and its descendants are found by walking snapshots *)
(* of the process table, while processes start, exit and reuse process     *)
(* identifiers.                                                            *)
(*                                                                         *)
(* An identifier denotes a process until it has exited and the supervisor  *)
(* has no handle of it.  Time is the number of processes started so far,   *)
(* so a creation time also names a process.                                *)
(***************************************************************************)
EXTENDS Naturals, Sequences, FiniteSets, SequencesExt

CONSTANTS Pid,         \* process identifiers
          Root, Stray, \* those of the child and of a process that is older than it
          MaxBirths,   \* bound: processes ever started
          Methods,     \* the values StopSpec.Method may have: sets of stages
          Faults       \* which calls may fail

Outside == 0     \* the parent of processes that the table does not list
Gentle == {"console", "window", "threads"}
AllMethods == Gentle \cup {"terminate"}

ASSUME TreeAssumption ==
    /\ Pid \subseteq Nat \ {Outside}
    /\ Root \in Pid /\ Stray \in Pid \ {Root}
    /\ MaxBirths \in Nat /\ MaxBirths >= 2
    /\ Methods \subseteq SUBSET AllMethods
    /\ Faults \subseteq {"wait", "terminate", "open", "snapshot", "times", "childTimes"}

VARIABLES
    table,       \* table[pid]: the process that pid denotes, or Nobody
    now,         \* the system time
    method,      \* StopSpec.Method
    killTree,    \* StopSpec.KillTree
    stack,       \* the active calls of stopProcessWalk, the innermost last
    visited,     \* the identifiers the walk has visited
    failed,      \* the error that the walk returns is not nil
    over,        \* StopProcessTree has returned
    walked,      \* history: the processes whose children were looked for and could be read
    strangerHit  \* history: a stage was applied to no descendant of the child

world == <<table, now>>
spec  == <<method, killTree>>
vars  == <<world, spec, stack, visited, failed, over, walked, strangerHit>>

Nobody == [created |-> 0, exited |-> 0, parent |-> 0, parentPid |-> 0,
           dying |-> FALSE, ours |-> FALSE]

Times == 0..MaxBirths

\* Processes: parent is the creation time of the parent, ours says that the process is
\* the child or a descendant of it, dying that TerminateProcess was called for it.
Process == [created : Times, exited : Times, parent : Times, parentPid : Pid \cup {Outside},
            dying : BOOLEAN, ours : BOOLEAN]

\* A call of stopProcessWalk: at a gentle stage it sends the request or waits for its effect.
Frame == [pid : Pid,
          at : AllMethods \cup {"begin", "exit", "children", "times", "snapshot"},
          waiting : BOOLEAN,
          created : Times, exited : Times,
          entries : SUBSET (Pid \X (Pid \cup {Outside}))]

IsAlive(pid) == table[pid] # Nobody /\ table[pid].exited = 0
Alive == {pid \in Pid : IsAlive(pid)}

Top == Last(stack)
At(place) == stack # <<>> /\ Top.at = place

\* The identifiers of the processes that the supervisor has a handle of.
Pinned == {Root} \cup {stack[i].pid : i \in DOMAIN stack}

(* Types, and two facts that make identifiers in the walk mean something:  *)
(* a call's identifier denotes the process it was opened for as long as    *)
(* the call is active, and no identifier is walked by two active calls.    *)
TypeOK ==
    /\ table \in [Pid -> Process] /\ now \in Times
    /\ method \in Methods /\ killTree \in BOOLEAN
    /\ stack \in Seq(Frame)
    /\ visited \subseteq Pid
    /\ \A b \in {failed, over, strangerHit} : b \in BOOLEAN
    /\ walked \subseteq Times
    /\ \A i \in DOMAIN stack :
          /\ table[stack[i].pid] # Nobody
          /\ stack[i].created # 0 => table[stack[i].pid].created = stack[i].created
          /\ \A j \in DOMAIN stack : stack[i].pid = stack[j].pid => i = j

Started(time, parent, parentPid, ours) ==
    [created |-> time, exited |-> 0, parent |-> parent, parentPid |-> parentPid,
     dying |-> FALSE, ours |-> ours]

\* The child has been started; the parent of the older process may have exited, and
\* its identifier may denote the child now.
Init ==
    /\ \E parentPid \in {Outside, Root} :
          table = [pid \in Pid |->
                     IF pid = Stray THEN Started(1, 0, parentPid, FALSE)
                     ELSE IF pid = Root THEN Started(2, 0, Outside, TRUE)
                     ELSE Nobody]
    /\ now = 2
    /\ method \in Methods /\ killTree \in BOOLEAN
    /\ stack = <<>> /\ visited = {}
    /\ failed = FALSE /\ over = FALSE
    /\ walked = {} /\ strangerHit = FALSE

-----------------------------------------------------------------------------
(* The world, until the stop of the tree has returned.                     *)

\* An identifier that denotes nothing is given to a new process.
Spawn ==
    /\ ~over /\ now < MaxBirths
    /\ \E pid \in {free \in Pid : table[free] = Nobody} :
          \E process \in {Started(now + 1, 0, Outside, FALSE)}
                         \cup {Started(now + 1, table[p].created, p, table[p].ours) : p \in Alive} :
             table' = [table EXCEPT ![pid] = process]
    /\ now' = now + 1
    /\ UNCHANGED <<spec, stack, visited, failed, over, walked, strangerHit>>

Exit(pid) ==
    /\ ~over /\ IsAlive(pid)
    /\ table' = [table EXCEPT ![pid] = IF pid \in Pinned THEN [@ EXCEPT !.exited = now]
                                                         ELSE Nobody]
    /\ UNCHANGED <<now, spec, stack, visited, failed, over, walked, strangerHit>>

-----------------------------------------------------------------------------
(* The walk.                                                               *)

Call(pid) == [pid |-> pid, at |-> "begin", waiting |-> FALSE,
              created |-> 0, exited |-> 0, entries |-> {}]

SetTop(frame) == stack' = Append(Front(stack), frame)
Goto(place) == SetTop([Top EXCEPT !.at = place, !.waiting = FALSE])

\* The call on top returns and its handle is closed; the child's is kept.
Return ==
    /\ stack' = Front(stack)
    /\ over' = (Len(stack) = 1)
    /\ table' = IF Len(stack) > 1 /\ ~IsAlive(Top.pid)
                THEN [table EXCEPT ![Top.pid] = Nobody]
                ELSE table

StopProcessTree ==
    /\ stack = <<>> /\ ~over
    /\ stack' = <<Call(Root)>>
    /\ visited' = {Root}
    /\ UNCHANGED <<world, spec, failed, over, walked, strangerHit>>

\* What GetProcessTimes reports, 0 where it fails.
TimeOrFailure(time) == {time} \cup (IF "times" \in Faults THEN {0} ELSE {})

\* The creation time; an exited process is asked nothing.
Begin ==
    /\ At("begin")
    /\ \E created \in TimeOrFailure(table[Top.pid].created) :
          \/ /\ SetTop([Top EXCEPT !.created = created,
                                   !.at = IF IsAlive(Top.pid) THEN "console" ELSE "times"])
             /\ failed' = (failed \/ created = 0)
          \/ /\ "wait" \in Faults
             /\ SetTop([Top EXCEPT !.created = created, !.at = "times"])
             /\ failed' = TRUE
    /\ UNCHANGED <<world, spec, visited, over, walked, strangerHit>>

After(stage) == CASE stage = "console" -> "window"
                  [] stage = "window"  -> "threads"
                  [] stage = "threads" -> "terminate"

Hit == strangerHit' = (strangerHit \/ ~table[Top.pid].ours)

\* A gentle stage is not configured, reaches nobody, fails, or is sent and waited for.
Send(stage) ==
    /\ At(stage) /\ ~Top.waiting
    /\ \/ Goto(After(stage)) /\ UNCHANGED strangerHit
       \/ /\ stage \in method
          /\ SetTop([Top EXCEPT !.waiting = TRUE])
          /\ Hit
    /\ UNCHANGED <<world, spec, visited, failed, over, walked>>

\* The delay passes unless the process exits; an error of the wait ends the stages,
\* except the console's.
Await(stage) ==
    /\ At(stage) /\ Top.waiting
    /\ \/ ~IsAlive(Top.pid) /\ Goto("times") /\ UNCHANGED failed
       \/ IsAlive(Top.pid) /\ Goto(After(stage)) /\ UNCHANGED failed
       \/ /\ "wait" \in Faults
          /\ Goto(IF stage = "console" THEN After(stage) ELSE "times")
          /\ failed' = (failed \/ stage # "console")
    /\ UNCHANGED <<world, spec, visited, over, walked, strangerHit>>

\* A broken variant: the last stage is never applied.
TerminateNobody ==
    /\ At("terminate") /\ Goto("exit")
    /\ UNCHANGED <<world, spec, visited, failed, over, walked, strangerHit>>

\* TerminateProcess, where it is configured; its failure counts unless the process has exited.
Terminate ==
    /\ At("terminate")
    /\ \/ /\ "terminate" \notin method
          /\ Goto("exit")
          /\ UNCHANGED <<table, failed, strangerHit>>
       \/ /\ "terminate" \in method
          /\ Goto("exit")
          /\ table' = [table EXCEPT ![Top.pid].dying = IsAlive(Top.pid)]
          /\ Hit
          /\ UNCHANGED failed
       \/ /\ "terminate" \in method /\ "terminate" \in Faults
          /\ Goto(IF IsAlive(Top.pid) THEN "times" ELSE "exit")
          /\ failed' = (failed \/ IsAlive(Top.pid))
          /\ UNCHANGED <<table, strangerHit>>
    /\ UNCHANGED <<now, spec, visited, over, walked>>

\* A broken variant: the walk goes on while the process may still start others.
WaitForNobody ==
    /\ At("exit")
    /\ Goto("times")
    /\ UNCHANGED <<world, spec, visited, failed, over, walked, strangerHit>>

\* There is no deadline.
WaitUntilExit ==
    /\ At("exit") /\ ~IsAlive(Top.pid)
    /\ Goto("times")
    /\ UNCHANGED <<world, spec, visited, failed, over, walked, strangerHit>>

WaitFails ==
    /\ At("exit") /\ "wait" \in Faults
    /\ Goto("times") /\ failed' = TRUE
    /\ UNCHANGED <<world, spec, visited, over, walked, strangerHit>>

\* The exit time, or the time now; no children are looked for unless the tree is to be
\* stopped and the creation time is known.
LookAtTimes ==
    /\ At("times")
    /\ \/ /\ killTree /\ Top.created # 0
          /\ \E exited \in TimeOrFailure(table[Top.pid].exited) :
                /\ SetTop([Top EXCEPT !.at = "snapshot",
                                      !.exited = IF exited = 0 THEN now ELSE exited])
                /\ failed' = (failed \/ exited # table[Top.pid].exited)
          /\ UNCHANGED <<table, over>>
       \/ ~(killTree /\ Top.created # 0) /\ Return /\ UNCHANGED failed
       \/ /\ ~(killTree /\ Top.created # 0) /\ "times" \in Faults
          /\ Return /\ failed' = TRUE
    /\ UNCHANGED <<now, spec, visited, walked, strangerHit>>

ProcessSnapshot ==
    /\ At("snapshot")
    /\ \/ /\ SetTop([Top EXCEPT !.at = "children",
                                !.entries = {<<pid, table[pid].parentPid>> : pid \in Alive}])
          /\ walked' = walked \cup {Top.created}
          /\ UNCHANGED <<table, failed, over>>
       \/ "snapshot" \in Faults /\ Return /\ failed' = TRUE /\ UNCHANGED walked
    /\ UNCHANGED <<now, spec, visited, strangerHit>>

\* A broken variant: the exit of the parent does not matter.
IsYoungerThanParent(parentCreated, parentExited, childCreated) ==
    parentCreated # 0 /\ childCreated >= parentCreated

\* The process was started in the lifetime of the candidate parent.
IsRealChild(parentCreated, parentExited, childCreated) ==
    /\ parentCreated # 0 /\ parentExited # 0 /\ childCreated # 0
    /\ childCreated >= parentCreated
    /\ childCreated <= parentExited

\* The entries of the snapshot that may be children of the process on top.
Candidates == {e \in Top.entries : e[2] = Top.pid /\ e[1] \notin visited}

\* What the identifier of a candidate denotes now is opened, and walked if its creation
\* time says that it is a child.  Where that time cannot be read, it is left alone.
NextChild ==
    /\ At("children")
    /\ \E e \in Candidates :
          LET rest  == [Top EXCEPT !.entries = @ \ {e}]
              child == table[e[1]]
          IN  \/ /\ child = Nobody \/ "open" \in Faults
                 /\ SetTop(rest) /\ failed' = TRUE /\ UNCHANGED <<visited, walked>>
              \/ /\ child # Nobody
                 /\ IsRealChild(Top.created, Top.exited, child.created)
                 /\ stack' = Append(Append(Front(stack), rest), Call(e[1]))
                 /\ visited' = visited \cup {e[1]} /\ UNCHANGED <<failed, walked>>
              \/ /\ child # Nobody
                 /\ ~IsRealChild(Top.created, Top.exited, child.created)
                 /\ SetTop(rest) /\ UNCHANGED <<visited, failed, walked>>
              \/ /\ child # Nobody /\ "childTimes" \in Faults
                 /\ SetTop(rest) /\ walked' = walked \ {Top.created}
                 /\ UNCHANGED <<visited, failed>>
    /\ UNCHANGED <<world, spec, over, strangerHit>>

NoMoreChildren ==
    /\ At("children") /\ Candidates = {}
    /\ Return
    /\ UNCHANGED <<now, spec, visited, failed, walked, strangerHit>>

StopProcessWalk == \/ Begin \/ Terminate \/ WaitUntilExit \/ LookAtTimes
                   \/ ProcessSnapshot \/ NextChild \/ NoMoreChildren
                   \/ \E stage \in Gentle : Send(stage) \/ Await(stage)

Next == \/ Spawn \/ StopProcessTree \/ StopProcessWalk \/ WaitFails
        \/ \E pid \in Pid : Exit(pid)

Spec == Init /\ [][Next]_vars

(* The walk runs, and a terminated process exits.  Nothing is assumed of   *)
(* processes that are only asked, and no wait has to fail.                 *)
FairSpec == Spec /\ WF_vars(StopProcessWalk)
                 /\ \A pid \in Pid : WF_vars(table[pid].dying /\ Exit(pid))

-----------------------------------------------------------------------------
(* Only the child and its descendants are asked or forced to exit, though  *)
(* identifiers are reused between the snapshot, OpenProcess and the stages *)
(* and an old process may name the child's identifier as its parent.       *)
OnlyDescendants == ~strangerHit

(* A stop that reports no error leaves neither the child alive nor a child *)
(* of a process whose children it could look for.  The exception is an     *)
(* identifier that the walk has visited and that a new process got since.  *)
NoSurvivors ==
    over /\ ~failed =>
        /\ ~IsAlive(Root)
        /\ \A pid \in Alive : table[pid].parent \in walked => pid \in visited

(* After the stop of the tree "the child and its descendants are gone"     *)
(* (supervisor.go:403): one that reports no error leaves no descendant     *)
(* alive.  Expected to fail: nothing leads from the child to a descendant  *)
(* whose parent has exited by itself, nor to one that got an identifier    *)
(* that the walk has visited.                                              *)
DescendantsHandled ==
    over /\ ~failed /\ killTree => \A pid \in Alive : ~table[pid].ours

(* With the forcing stage configured the stop of the tree comes to an end, *)
(* however many processes the tree starts meanwhile.                       *)
StopEnds == (stack # <<>> /\ "terminate" \in method) ~> over
=============================================================================
