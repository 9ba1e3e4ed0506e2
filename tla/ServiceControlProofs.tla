------------------------ MODULE ServiceControlProofs ------------------------
(***************************************************************************)
(* Proofs about the administration commands, for every set of callers and  *)
(* of commands, every deadline and every number of commands: the type      *)
(* invariant, that the success of a stop or a restart means that the       *)
(* instance it was sent to is over, that the success of a start or a       *)
(* restart means a new instance, and that an installation is all or        *)
(* nothing.                                                                *)
(*                                                                         *)
(* Each invariant speaks of one caller at a time.  A step of one caller    *)
(* leaves what another one holds alone (OthersUntouched), so an invariant  *)
(* is shown for the caller that moves and, through what happens to the     *)
(* registration and the instance, for those that do not.                   *)
(***************************************************************************)
EXTENDS ServiceControl, TLAPS

\* What belongs to caller d is as it was.
Untouched(d) ==
  /\ pc'[d] = pc[d] /\ command'[d] = command[d] /\ code'[d] = code[d]
  /\ step'[d] = step[d] /\ since'[d] = since[d] /\ target'[d] = target[d]
  /\ own'[d] = own[d] /\ stuck'[d] = stuck[d] /\ result'[d] = result[d]
  /\ d \in handles' <=> d \in handles

\* One step of caller c.
Move(c) == Act(c) \/ Refuse(c) \/ \E k \in Commands : Begin(c, k)

-----------------------------------------------------------------------------
(* The type invariant.                                                     *)

LEMMA InitType == Init => TypeOK
<1> SUFFICES ASSUME Init PROVE TypeOK
  OBVIOUS
<1> USE DEF Init
<1>1. registration \in {0, registrations} /\ registrations \in Nat
  OBVIOUS
<1>2. marked \in BOOLEAN /\ (marked => registration # 0) /\ stored \subseteq Parameters
  OBVIOUS
<1>3. handles \subseteq Callers /\ asked \in BOOLEAN /\ instance \in Nat
  OBVIOUS
<1>4. scm \in DOMAIN Life!Legal
  BY DEF Life!Legal
<1>5. /\ pc \in [Callers -> PCs]
      /\ command \in [Callers -> AllCommands]
      /\ code \in [Callers -> Codes]
      /\ polls \in [Callers -> 0..MaxPolls]
      /\ result \in [Callers -> Results]
  BY BoundsAssumption DEF PCs, AllCommands, Codes, Results
<1>6. step \in [Callers -> 0..(Len(InstallWrites) - 1)]
  BY DEF InstallWrites
<1>7. /\ since \in [Callers -> Nat]
      /\ target \in [Callers -> Nat]
      /\ own \in [Callers -> Nat]
      /\ stuck \in [Callers -> BOOLEAN]
      /\ issued \in 0..MaxCommands
  BY BoundsAssumption
<1>8. QED
  BY <1>1, <1>2, <1>3, <1>4, <1>5, <1>6, <1>7 DEF TypeOK

LEMMA BeginType ==
    ASSUME TypeOK, NEW c \in Callers, NEW k \in Commands, Begin(c, k)
    PROVE  TypeOK'
<1> USE DEF Begin, TypeOK
<1>1. pc' \in [Callers -> PCs] /\ command' \in [Callers -> AllCommands]
  BY CommandsAssumption DEF Entry, PCs, AllCommands
<1>2. code' \in [Callers -> Codes]
  BY DEF Codes, ControlOf
<1>3. step' \in [Callers -> 0..(Len(InstallWrites) - 1)]
  BY DEF InstallWrites
<1>4. /\ since' \in [Callers -> Nat] /\ target' \in [Callers -> Nat]
      /\ own' \in [Callers -> Nat] /\ stuck' \in [Callers -> BOOLEAN]
      /\ result' \in [Callers -> Results] /\ issued' \in 0..MaxCommands
  BY BoundsAssumption DEF Results
<1>5. QED
  BY <1>1, <1>2, <1>3, <1>4 DEF database, service

LEMMA StartType ==
    ASSUME TypeOK, NEW c \in Callers, Start(c)
    PROVE  TypeOK'
<1> USE DEF Start, TypeOK, database, service, caller
<1>1. pc' \in [Callers -> PCs] /\ result' \in [Callers -> Results]
  BY DEF Goto, Finish, PCs, Results
<1>2. code' \in [Callers -> Codes]
  BY DEF Codes
<1> HIDE DEF TypeOK
<1>3. polls' \in [Callers -> 0..MaxPolls]
  <2>1. polls' = polls \/ polls' = [polls EXCEPT ![c] = 0]
    OBVIOUS
  <2>2. polls \in [Callers -> 0..MaxPolls] /\ 0 \in 0..MaxPolls
    BY BoundsAssumption DEF TypeOK
  <2>3. QED
    BY <2>1, <2>2
<1>6. scm' \in DOMAIN Life!Legal /\ instance' \in Nat /\ asked' \in BOOLEAN
  <2>1. "Registered" \in DOMAIN Life!Legal
    BY DEF Life!Legal
  <2>2. scm \in DOMAIN Life!Legal /\ instance \in Nat /\ asked \in BOOLEAN
    BY DEF TypeOK
  <2>3. /\ scm' = "Registered" \/ scm' = scm
        /\ instance' = instance + 1 \/ instance' = instance
    OBVIOUS
  <2>4. asked' \in BOOLEAN
    BY <2>2
  <2>5. QED
    BY <2>1, <2>2, <2>3, <2>4
<1>4. handles' \subseteq Callers
  BY DEF TypeOK
<1>5. QED
  BY <1>1, <1>2, <1>3, <1>4, <1>6 DEF TypeOK

LEMMA SendControlType ==
    ASSUME TypeOK, NEW c \in Callers, SendControl(c)
    PROVE  TypeOK'
<1> USE DEF SendControl, TypeOK, database, service, caller
<1>1. pc' \in [Callers -> PCs] /\ result' \in [Callers -> Results]
  BY DEF Goto, Finish, ControlFails, PCs, Results
<1>2. target' \in [Callers -> Nat]
  OBVIOUS
<1>3. handles' \subseteq Callers /\ asked' \in BOOLEAN
  OBVIOUS
<1> HIDE DEF TypeOK
<1>4. polls' \in [Callers -> 0..MaxPolls]
  <2>1. polls' = polls \/ polls' = [polls EXCEPT ![c] = 0]
    OBVIOUS
  <2>2. polls \in [Callers -> 0..MaxPolls] /\ 0 \in 0..MaxPolls
    BY BoundsAssumption DEF TypeOK
  <2>3. QED
    BY <2>1, <2>2
<1>5. QED
  BY <1>1, <1>2, <1>3, <1>4 DEF TypeOK

LEMMA WaitStateType ==
    ASSUME TypeOK, NEW c \in Callers, WaitState(c)
    PROVE  TypeOK'
<1> USE DEF WaitState, TypeOK, database, service, caller
<1>1. Classify(code[c], Shown(scm)) \in {"Desired", "Expected", "Unexpected"}
  BY DEF Classify
<1>2. pc' \in [Callers -> PCs] /\ result' \in [Callers -> Results]
  BY <1>1 DEF Judge, Goto, Finish, Again, PCs, Results
<1>4. handles' \subseteq Callers
  BY <1>1 DEF Judge, CloseHandle, Again
<1> HIDE DEF TypeOK
<1>3. polls' \in [Callers -> 0..MaxPolls]
  <2>1. polls' = polls \/ (~Late(c) /\ polls' = [polls EXCEPT ![c] = polls[c] + 1])
    BY <1>1 DEF Judge, Again
  <2>2. polls \in [Callers -> 0..MaxPolls] /\ polls[c] \in 0..MaxPolls
    BY DEF TypeOK
  <2>3. ~Late(c) => polls[c] + 1 \in 0..MaxPolls
    BY <2>2, BoundsAssumption DEF Late
  <2>4. QED
    BY <2>1, <2>2, <2>3
<1>5. QED
  BY <1>2, <1>3, <1>4 DEF TypeOK

LEMMA CreateType ==
    ASSUME TypeOK, NEW c \in Callers, Create(c)
    PROVE  TypeOK'
<1> USE DEF Create, TypeOK
<1>1. pc' \in [Callers -> PCs] /\ result' \in [Callers -> Results]
  BY DEF Goto, Finish, PCs, Results
<1>2. own' \in [Callers -> Nat]
  <2>1. own' = own \/ own' = [own EXCEPT ![c] = registrations + 1]
    OBVIOUS
  <2>2. own \in [Callers -> Nat] /\ registrations + 1 \in Nat
    OBVIOUS
  <2>3. QED
    BY <2>1, <2>2
<1>6. handles' \subseteq Callers
  OBVIOUS
<1>5. scm' \in DOMAIN Life!Legal
  <2>1. "Stopped" \in DOMAIN Life!Legal
    BY DEF Life!Legal
  <2>2. QED
    BY <2>1
<1>3. registrations' \in Nat /\ registration' \in {0, registrations'}
      /\ (marked' => registration' # 0)
  OBVIOUS
<1>4. QED
  BY <1>1, <1>2, <1>3, <1>5, <1>6

LEMMA WriteType ==
    ASSUME TypeOK, NEW c \in Callers, Write(c)
    PROVE  TypeOK'
<1> USE DEF Write, database, service, caller
<1>1. pc' \in [Callers -> PCs] /\ result' \in [Callers -> Results]
  BY DEF Goto, Finish, PCs, Results, TypeOK
<1>2. step \in [Callers -> 0..2] /\ step[c] \in 0..2 /\ Len(InstallWrites) = 3
  BY DEF InstallWrites, TypeOK
<1>3. step' \in [Callers -> 0..2]
  BY <1>2
<1>4. InstallWrites[step[c] + 1] \in Installed
  BY <1>2 DEF InstallWrites, Installed
<1>5. handles' \subseteq Callers /\ stored' \subseteq Parameters
  BY <1>4 DEF CloseHandle, Parameters, TypeOK
<1>6. QED
  BY <1>1, <1>2, <1>3, <1>5 DEF TypeOK

LEMMA PersistType ==
    ASSUME TypeOK, NEW c \in Callers, Persist(c), step[c] \in 0..1
    PROVE  TypeOK'
<1> USE DEF Persist, database, service, caller
<1>1. pc' \in [Callers -> PCs] /\ result' \in [Callers -> Results]
  BY DEF Goto, Finish, PCs, Results, TypeOK
<1>2. step \in [Callers -> 0..2] /\ Len(InstallWrites) = 3 /\ Len(FormWrites) = 2
  BY DEF InstallWrites, FormWrites, TypeOK
<1>3. step' \in [Callers -> 0..2]
  BY <1>2
<1>4. FormWrites[step[c] + 1] \in {"ObjectName", "AppEvents"}
  BY DEF FormWrites
<1>5. stored' \subseteq Parameters
  BY <1>4 DEF Parameters, TypeOK
<1>6. QED
  BY <1>1, <1>2, <1>3, <1>5 DEF TypeOK

LEMMA UndoRemoveType ==
    ASSUME TypeOK, NEW c \in Callers, Undo(c) \/ Remove(c)
    PROVE  TypeOK'
<1>1. pc' \in [Callers -> PCs] /\ result' \in [Callers -> Results]
  BY DEF Undo, Remove, Finish, PCs, Results, TypeOK
<1>2. marked' \in BOOLEAN /\ (marked' => registration # 0)
  <2>1. CASE Undo(c)
    BY <2>1, Zenon DEF Undo
  <2>2. CASE Remove(c)
    <3>1. marked \in BOOLEAN /\ (marked => registration # 0)
      BY DEF TypeOK
    <3>2. CASE registration # 0 /\ ~marked /\ marked' = TRUE
      BY <3>2
    <3>3. CASE UNCHANGED marked
      BY <3>1, <3>3
    <3>4. QED
      BY <2>2, <3>2, <3>3 DEF Remove
  <2>3. QED
    BY <2>1, <2>2
<1>3. QED
  BY <1>1, <1>2 DEF Undo, Remove, TypeOK, service, caller

LEMMA RefuseType ==
    ASSUME TypeOK, NEW c \in Callers, Refuse(c),
           pc[c] = "write" => registration # 0
    PROVE  TypeOK'
<1>1. pc' \in [Callers -> PCs] /\ result' \in [Callers -> Results]
  BY DEF Refuse, Finish, Goto, PCs, Results, TypeOK
<1>2. marked' \in BOOLEAN /\ (marked' => registration # 0)
  BY DEF Refuse, Rollback, TypeOK
<1>3. stuck' \in [Callers -> BOOLEAN] /\ handles' \subseteq Callers
  BY DEF Refuse, CloseHandle, TypeOK
<1>4. QED
  BY <1>1, <1>2, <1>3 DEF Refuse, TypeOK, service

LEMMA EnvironmentType ==
    ASSUME TypeOK, (\E s \in DOMAIN Life!Legal : Serve(s)) \/ Vanish
    PROVE  TypeOK'
<1>1. CASE \E s \in DOMAIN Life!Legal : Serve(s)
  BY <1>1 DEF Serve, TypeOK, database, caller
<1>2. CASE Vanish
  BY <1>2 DEF Vanish, TypeOK, service, caller
<1>3. QED
  BY <1>1, <1>2

-----------------------------------------------------------------------------
(* Steps of one caller, as another one sees them.                          *)

LEMMA OthersUntouched ==
    ASSUME TypeOK, NEW c \in Callers, NEW d \in Callers, c # d, Move(c)
    PROVE  Untouched(d)
<1> USE DEF TypeOK, Untouched, Goto, Finish, CloseHandle, caller, database, service
<1>1. ASSUME NEW k \in Commands, Begin(c, k) PROVE Untouched(d)
  BY <1>1 DEF Begin
<1>2. CASE Start(c)
  BY <1>2 DEF Start
<1>3. CASE SendControl(c)
  BY <1>3 DEF SendControl, ControlFails
<1>4. CASE WaitState(c)
  BY <1>4 DEF WaitState, Judge, Again
<1>5. CASE Create(c)
  BY <1>5 DEF Create
<1>6. CASE Write(c)
  BY <1>6 DEF Write
<1>7. CASE Persist(c)
  BY <1>7 DEF Persist
<1>8. CASE Undo(c) \/ Remove(c)
  BY <1>8 DEF Undo, Remove
<1>9. CASE Refuse(c)
  BY <1>9 DEF Refuse
<1>10. QED
  BY <1>1, <1>2, <1>3, <1>4, <1>5, <1>6, <1>7, <1>8, <1>9 DEF Move, Act

\* What a step of a caller may do to the registration and the instance.
OverStays == \A n \in Nat : n <= instance /\ Over(n) => Over(n)'

WorldMoves ==
  /\ stored \subseteq stored'
  /\ instance <= instance'
  /\ \/ registration' = registration /\ registrations' = registrations
     \/ registration = 0 /\ registration' = registrations + 1 /\ registrations' = registrations + 1
  /\ marked /\ registration # 0 => marked'
  /\ OverStays

LEMMA SameInstanceStaysOver ==
    ASSUME UNCHANGED service
    PROVE  OverStays
BY DEF OverStays, Over, service

LEMMA MoveWorld ==
    ASSUME TypeOK, NEW c \in Callers, Move(c)
    PROVE  WorldMoves
<1> USE DEF WorldMoves
<1>0. instance \in Nat /\ registrations \in Nat
  BY DEF TypeOK
<1>1. ASSUME NEW k \in Commands, Begin(c, k) PROVE WorldMoves
  BY <1>0, <1>1, SameInstanceStaysOver DEF Begin, database, service
<1>2. CASE Start(c)
  <2>1. CASE UNCHANGED service
    BY <1>0, <1>2, <2>1, SameInstanceStaysOver DEF Start, database, service
  <2>2. CASE instance' = instance + 1
    <3>1. OverStays
      BY <1>0, <2>2 DEF OverStays, Over
    <3>2. QED
      BY <1>0, <1>2, <2>2, <3>1 DEF Start, database
  <2>3. QED
    BY <1>2, <2>1, <2>2 DEF Start
<1>3. CASE SendControl(c)
  <2>1. OverStays
    BY <1>3 DEF SendControl, OverStays, Over
  <2>2. QED
    BY <1>0, <1>3, <2>1 DEF SendControl, database
<1>4. CASE WaitState(c)
  BY <1>0, <1>4, SameInstanceStaysOver DEF WaitState, database, service
<1>5. CASE Create(c)
  <2>1. OverStays
    <3>1. scm' = scm \/ scm' = "Stopped"
      BY <1>5 DEF Create
    <3>2. instance' = instance
      BY <1>5 DEF Create
    <3>3. QED
      BY <3>1, <3>2 DEF OverStays, Over, Life!Ended
  <2>2. QED
    BY <1>0, <1>5, <2>1 DEF Create
<1>6. CASE Write(c)
  BY <1>0, <1>6, SameInstanceStaysOver DEF Write, service
<1>7. CASE Persist(c)
  BY <1>0, <1>7, SameInstanceStaysOver DEF Persist, service
<1>8. CASE Undo(c)
  <2>1. marked /\ registration # 0 => marked'
    BY <1>8, Zenon DEF Undo
  <2>2. QED
    BY <1>0, <1>8, <2>1, SameInstanceStaysOver DEF Undo, service
<1>9. CASE Remove(c)
  BY <1>0, <1>9, SameInstanceStaysOver DEF Remove, service
<1>10. CASE Refuse(c)
  BY <1>0, <1>10, SameInstanceStaysOver DEF Refuse, Rollback, service
<1>11. QED
  BY <1>1, <1>2, <1>3, <1>4, <1>5, <1>6, <1>7, <1>8, <1>9, <1>10 DEF Move, Act

-----------------------------------------------------------------------------
(* The inductive invariant.                                                *)

\* Where a command can be, and what waitState waits for there.
PhaseInv(c) ==
  /\ pc[c] \in {"create", "write", "persist", "undo"} => command[c] \in {"install", "form"}
  /\ pc[c] \in {"persist", "undo"} => command[c] = "form"
  /\ pc[c] = "persist" => step[c] \in 0..1
  /\ pc[c] = "delete" => command[c] = "remove"
  /\ pc[c] = "start" => command[c] \in {"start", "restart"}
  /\ pc[c] = "control" => command[c] \in DOMAIN ControlOf /\ code[c] = ControlOf[command[c]]
  /\ pc[c] = "poll" =>
       \/ command[c] \in {"start", "restart"} /\ code[c] = "Start" /\ instance > since[c]
       \/ command[c] \in DOMAIN ControlOf /\ code[c] = ControlOf[command[c]]
  /\ since[c] <= instance

\* The instance a Stop went to is over when the command has moved on.
StopInv(c) ==
  command[c] \in {"stop", "restart"} /\ target[c] # 0 =>
    /\ target[c] <= instance
    /\ \/ Over(target[c])
       \/ pc[c] = "poll" /\ code[c] = "Stop"
       \/ pc[c] = "idle" /\ result[c] # "ok"

\* All or nothing, once the command has ended.
AllOrNothing(c) == \/ registration # own[c] \/ marked
                   \/ result[c] = "ok" /\ Promised(command[c]) \subseteq stored
                   \/ stuck[c]

\* How far an installation has come.
InstallInv(c) ==
  /\ own[c] <= registrations
  /\ pc[c] = "create" => own[c] = 0 /\ step[c] = 0
  /\ pc[c] = "write" => /\ own[c] # 0 /\ registration = own[c] /\ c \in handles
                        /\ step[c] >= 1 => "Application" \in stored
                        /\ step[c] >= 2 => "AppExit" \in stored
  /\ pc[c] = "persist" /\ registration = own[c] =>
       Installed \subseteq stored /\ (step[c] = 1 => "ObjectName" \in stored)
  /\ pc[c] = "persist" => own[c] # 0
  /\ command[c] \in {"install", "form"} /\ pc[c] = "idle" /\ own[c] # 0 => AllOrNothing(c)

\* A command has a result only when it has ended.
ResultInv(c) == pc[c] # "idle" => result[c] = "none"

IInv == TypeOK /\ \A c \in Callers :
                    PhaseInv(c) /\ StopInv(c) /\ InstallInv(c) /\ ResultInv(c)

LEMMA InitIInv == Init => IInv
<1> SUFFICES ASSUME Init PROVE IInv
  OBVIOUS
<1>1. TypeOK
  BY InitType
<1>2. ASSUME NEW c \in Callers
      PROVE  PhaseInv(c) /\ StopInv(c) /\ InstallInv(c) /\ ResultInv(c)
  <2>1. pc[c] = "idle" /\ since[c] = 0 /\ target[c] = 0 /\ own[c] = 0
    BY DEF Init
  <2>2. instance \in Nat /\ registrations \in Nat
    BY <1>1 DEF TypeOK
  <2>3. QED
    BY <2>1, <2>2 DEF PhaseInv, StopInv, InstallInv, ResultInv
<1>3. QED
  BY <1>1, <1>2 DEF IInv

LEMMA StepType ==
    ASSUME IInv, NEW c \in Callers, Move(c)
    PROVE  TypeOK'
<1>1. TypeOK /\ (pc[c] = "persist" => step[c] \in 0..1)
      /\ (pc[c] = "write" => registration # 0)
  BY DEF IInv, PhaseInv, InstallInv
<1>2. CASE Persist(c)
  BY <1>1, <1>2, PersistType DEF Persist
<1>3. QED
  BY <1>1, <1>2, BeginType, StartType, SendControlType, WaitStateType, CreateType,
     WriteType, UndoRemoveType, RefuseType DEF Move, Act

\* A caller that does not move keeps its invariants.
LEMMA OthersKeep ==
    ASSUME IInv, NEW c \in Callers, NEW d \in Callers, c # d, Move(c)
    PROVE  PhaseInv(d)' /\ StopInv(d)' /\ InstallInv(d)' /\ ResultInv(d)'
<1>1. TypeOK /\ PhaseInv(d) /\ StopInv(d) /\ InstallInv(d) /\ ResultInv(d)
  BY DEF IInv
<1>2. Untouched(d) /\ WorldMoves
  BY <1>1, OthersUntouched, MoveWorld
<1>3. /\ instance \in Nat /\ instance' \in Nat /\ registrations \in Nat
      /\ registrations' \in Nat /\ since[d] \in Nat /\ target[d] \in Nat
      /\ own[d] \in Nat /\ registration \in {0, registrations}
  BY <1>1, StepType DEF TypeOK
<1>4. PhaseInv(d)'
  BY <1>1, <1>2, <1>3 DEF PhaseInv, Untouched, WorldMoves
<1>5. StopInv(d)'
  <2>1. Over(target[d]) /\ target[d] <= instance => Over(target[d])'
    BY <1>2, <1>3 DEF WorldMoves, OverStays, Untouched, Over
  <2>2. QED
    BY <1>1, <1>2, <1>3, <2>1 DEF StopInv, Untouched, WorldMoves
<1>6. InstallInv(d)'
  <2>1. AllOrNothing(d) /\ own[d] # 0 /\ own[d] <= registrations => AllOrNothing(d)'
    BY <1>2, <1>3 DEF AllOrNothing, Untouched, WorldMoves
  <2>2. QED
    BY <1>1, <1>2, <1>3, <2>1 DEF InstallInv, Untouched, WorldMoves
<1>7. ResultInv(d)'
  BY <1>1, <1>2 DEF ResultInv, Untouched
<1>8. QED
  BY <1>4, <1>5, <1>6, <1>7

\* The caller that moves, command by command.
LEMMA MoverPhase ==
    ASSUME IInv, NEW c \in Callers, Move(c)
    PROVE  PhaseInv(c)'
<1>1. TypeOK /\ PhaseInv(c) /\ InstallInv(c) /\ TypeOK'
  BY StepType DEF IInv
<1>2. /\ instance \in Nat /\ instance' \in Nat /\ since[c] \in Nat
      /\ step[c] \in 0..2 /\ pc[c] \in PCs /\ command[c] \in AllCommands
  BY <1>1 DEF TypeOK, InstallWrites
<1> USE <1>1, <1>2 DEF PhaseInv, Goto, Finish, caller, service, database
<1>3. ASSUME NEW k \in Commands, Begin(c, k) PROVE PhaseInv(c)'
  <2>1. k \in AllCommands
    BY CommandsAssumption
  <2>2. /\ pc'[c] = Entry(k) /\ command'[c] = k /\ since'[c] = instance
        /\ code'[c] = IF k \in DOMAIN ControlOf THEN ControlOf[k] ELSE "Start"
        /\ instance' = instance
    BY <1>3 DEF Begin, TypeOK
  <2>3. QED
    BY <2>1, <2>2 DEF Entry, AllCommands, ControlOf
<1>4. CASE Start(c)
  <2>1. /\ command'[c] = command[c] /\ since'[c] = since[c]
        /\ command[c] \in {"start", "restart"}
    BY <1>4 DEF Start, TypeOK
  <2>2. \/ pc'[c] = "poll" /\ code'[c] = "Start" /\ instance' = instance + 1
        \/ pc'[c] = "idle" /\ instance' = instance
    BY <1>4 DEF Start, TypeOK
  <2>3. QED
    BY <2>1, <2>2
<1>5. CASE SendControl(c)
  <2>1. /\ command'[c] = command[c] /\ since'[c] = since[c] /\ code'[c] = code[c]
        /\ instance' = instance
    BY <1>5 DEF SendControl, TypeOK
  <2>2. \/ pc'[c] = "poll" \/ pc'[c] = "idle"
        \/ pc'[c] = "start" /\ command[c] = "restart"
    BY <1>5 DEF SendControl, ControlFails, TypeOK
  <2>3. QED
    BY <1>5, <2>1, <2>2 DEF SendControl
<1>6. CASE WaitState(c)
  <2>1. /\ command'[c] = command[c] /\ since'[c] = since[c] /\ code'[c] = code[c]
        /\ instance' = instance
    BY <1>6 DEF WaitState, TypeOK
  <2>2. \/ pc'[c] = "poll" \/ pc'[c] = "idle"
        \/ pc'[c] = "start" /\ command[c] = "restart"
    BY <1>6 DEF WaitState, Judge, Again, TypeOK
  <2>3. QED
    BY <1>6, <2>1, <2>2 DEF WaitState
<1>7. CASE Create(c)
  BY <1>7 DEF Create, TypeOK
<1>8. CASE Write(c)
  <2>1. command'[c] = command[c] /\ since'[c] = since[c] /\ instance' = instance
    BY <1>8 DEF Write
  <2>2. \/ pc'[c] = "write" \/ pc'[c] = "idle"
        \/ pc'[c] = "persist" /\ command[c] = "form" /\ step'[c] = 0
    BY <1>8 DEF Write, TypeOK
  <2>3. QED
    BY <1>8, <2>1, <2>2 DEF Write
<1>9. CASE Persist(c)
  <2>1. command'[c] = command[c] /\ since'[c] = since[c] /\ instance' = instance
    BY <1>9 DEF Persist
  <2>2. \/ pc'[c] = "idle" \/ pc'[c] = "undo"
        \/ pc'[c] = "persist" /\ step'[c] \in 0..1
    BY <1>9 DEF Persist, FormWrites, TypeOK
  <2>3. QED
    BY <1>9, <2>1, <2>2 DEF Persist
<1>10. CASE Undo(c) \/ Remove(c)
  BY <1>10 DEF Undo, Remove, TypeOK
<1>11. CASE Refuse(c)
  <2>1. command'[c] = command[c] /\ since'[c] = since[c] /\ instance' = instance
    BY <1>11 DEF Refuse
  <2>2. pc'[c] = "idle" \/ (pc[c] = "persist" /\ pc'[c] = "undo")
    BY <1>11 DEF Refuse, TypeOK
  <2>3. QED
    BY <2>1, <2>2
<1>12. QED
  BY <1>3, <1>4, <1>5, <1>6, <1>7, <1>8, <1>9, <1>10, <1>11 DEF Move, Act

LEMMA WantedStop ==
    ASSUME Classify("Stop", Shown(scm)) = "Desired"
    PROVE  scm \in Life!Ended
BY DEF Classify, Wanted, OnTheWay, Shown, Life!Ended

\* A step that finds the instance over keeps it so.
LEMMA StaysOver ==
    ASSUME NEW c \in Callers, TypeOK, TypeOK', StopInv(c), WorldMoves,
           command'[c] = command[c], target'[c] = target[c], Over(target[c])
    PROVE  StopInv(c)'
<1>1. target[c] \in Nat /\ instance \in Nat /\ instance' \in Nat
  BY DEF TypeOK
<1>2. Over(target[c]) /\ target[c] <= instance => Over(target[c])'
  BY <1>1 DEF WorldMoves, OverStays, Over
<1>3. instance <= instance'
  BY DEF WorldMoves
<1>4. CASE command[c] \in {"stop", "restart"} /\ target[c] # 0
  <2>1. target[c] <= instance
    BY <1>4 DEF StopInv
  <2>2. Over(target[c])' /\ target'[c] <= instance'
    BY <1>1, <1>2, <1>3, <2>1
  <2>3. QED
    BY <2>2 DEF StopInv
<1>5. QED
  BY <1>4 DEF StopInv

LEMMA MoverStop ==
    ASSUME IInv, NEW c \in Callers, Move(c)
    PROVE  StopInv(c)'
<1>1. TypeOK /\ PhaseInv(c) /\ StopInv(c) /\ WorldMoves /\ TypeOK'
  BY StepType, MoveWorld DEF IInv
<1>2. /\ instance \in Nat /\ instance' \in Nat /\ target[c] \in Nat
      /\ instance <= instance'
  BY <1>1 DEF TypeOK, WorldMoves
<1> USE <1>1, <1>2 DEF Goto, Finish, caller, service, database
<1>3. ASSUME NEW k \in Commands, Begin(c, k) PROVE StopInv(c)'
  <2>1. target'[c] = 0
    BY <1>3 DEF Begin, TypeOK
  <2>2. QED
    BY <2>1 DEF StopInv
\* Nothing is claimed of the commands that send no Stop.
<1>4. ASSUME command'[c] \notin {"stop", "restart"} PROVE StopInv(c)'
  BY <1>4 DEF StopInv
<1>5. CASE Start(c)
  <2>1. command'[c] = command[c] /\ target'[c] = target[c]
    BY <1>5 DEF Start
  <2>2. CASE command[c] \in {"stop", "restart"} /\ target[c] # 0
    <3>1. Over(target[c])
      BY <1>5, <2>2 DEF Start, StopInv
    <3>2. QED
      BY <2>1, <3>1, StaysOver
  <2>3. QED
    BY <2>1, <2>2 DEF StopInv
<1>6. CASE SendControl(c)
  <2>1. command'[c] = command[c] /\ instance' = instance /\ code'[c] = code[c]
    BY <1>6 DEF SendControl
  <2>2. CASE code[c] = "Stop" /\ target' = [target EXCEPT ![c] = instance]
             /\ pc' = [pc EXCEPT ![c] = "poll"]
    <3>1. target'[c] = instance /\ pc'[c] = "poll"
      BY <2>2 DEF TypeOK
    <3>2. QED
      BY <2>1, <2>2, <3>1 DEF StopInv
  <2>3. CASE target' = target
    <3>1. CASE command[c] \in {"stop", "restart"} /\ target[c] # 0
      <4>1. Over(target[c])
        BY <1>6, <3>1 DEF SendControl, StopInv
      <4>2. QED
        BY <2>1, <2>3, <4>1, StaysOver
    <3>2. QED
      BY <2>1, <2>3, <3>1 DEF StopInv
  <2>4. QED
    BY <1>6, <2>2, <2>3 DEF SendControl
<1>7. CASE WaitState(c)
  <2>1. /\ command'[c] = command[c] /\ target'[c] = target[c] /\ code'[c] = code[c]
        /\ pc[c] = "poll" /\ instance' = instance
    BY <1>7 DEF WaitState
  <2>2. CASE command[c] \in {"stop", "restart"} /\ target[c] # 0
    <3>1. CASE Over(target[c])
      BY <2>1, <3>1, StaysOver
    <3>2. CASE code[c] = "Stop" /\ Classify("Stop", Shown(scm)) = "Desired"
      <4>1. Over(target[c])
        BY <2>1, <2>2, <3>2, WantedStop DEF Over, StopInv
      <4>2. QED
        BY <2>1, <4>1, StaysOver
    <3>3. CASE code[c] = "Stop" /\ Classify("Stop", Shown(scm)) # "Desired"
      <4>1. \/ pc'[c] = "idle" /\ result'[c] # "ok"
            \/ pc'[c] = "poll"
        BY <1>7, <2>1, <3>3 DEF WaitState, Judge, Again, TypeOK
      <4>2. QED
        BY <2>1, <3>3, <4>1 DEF StopInv
    <3>4. QED
      BY <2>1, <2>2, <3>1, <3>2, <3>3 DEF StopInv
  <2>3. QED
    BY <2>1, <2>2 DEF StopInv
<1>8. CASE Create(c) \/ Write(c) \/ Persist(c) \/ Undo(c) \/ Remove(c)
  <2>1. command[c] \notin {"stop", "restart"}
    BY <1>8 DEF Create, Write, Persist, Undo, Remove, PhaseInv
  <2>2. command'[c] = command[c]
    BY <1>8 DEF Create, Write, Persist, Undo, Remove
  <2>3. QED
    BY <1>4, <2>1, <2>2
<1>9. CASE Refuse(c)
  <2>1. /\ command'[c] = command[c] /\ target'[c] = target[c]
        /\ pc[c] # "idle" /\ instance' = instance /\ scm' = scm
    BY <1>9 DEF Refuse
  <2>2. CASE pc[c] = "persist"
    BY <1>4, <2>1, <2>2 DEF PhaseInv
  <2>3. CASE pc[c] # "persist"
    <3>1. pc'[c] = "idle" /\ result'[c] = "refused"
      BY <1>9, <2>3 DEF Refuse, TypeOK
    <3>2. QED
      BY <2>1, <3>1 DEF StopInv
  <2>4. QED
    BY <2>2, <2>3
<1>10. QED
  BY <1>3, <1>5, <1>6, <1>7, <1>8, <1>9 DEF Move, Act

LEMMA MoverResult ==
    ASSUME IInv, NEW c \in Callers, Move(c)
    PROVE  ResultInv(c)'
<1>1. TypeOK /\ ResultInv(c)
  BY DEF IInv
<1> USE <1>1 DEF ResultInv, Goto, Finish, TypeOK
<1>2. ASSUME NEW k \in Commands, Begin(c, k) PROVE ResultInv(c)'
  BY <1>2 DEF Begin
<1>3. CASE Start(c) \/ SendControl(c) \/ WaitState(c)
  BY <1>3 DEF Start, SendControl, ControlFails, WaitState, Judge, Again
<1>4. CASE Create(c) \/ Write(c) \/ Persist(c) \/ Undo(c) \/ Remove(c)
  BY <1>4 DEF Create, Write, Persist, Undo, Remove
<1>5. CASE Refuse(c)
  BY <1>5 DEF Refuse
<1>6. QED
  BY <1>2, <1>3, <1>4, <1>5 DEF Move, Act

LEMMA MoverInstall ==
    ASSUME IInv, NEW c \in Callers, Move(c)
    PROVE  InstallInv(c)'
<1>1. TypeOK /\ PhaseInv(c) /\ InstallInv(c) /\ TypeOK'
  BY StepType DEF IInv
<1>2. /\ own[c] \in Nat /\ registrations \in Nat /\ registration \in {0, registrations}
      /\ step[c] \in 0..2 /\ Len(InstallWrites) = 3 /\ Len(FormWrites) = 2
      /\ (marked => registration # 0)
  BY <1>1 DEF TypeOK, InstallWrites, FormWrites
<1> USE <1>1, <1>2 DEF Goto, Finish, CloseHandle, service, database
\* A command that makes no installation, and the end of one that made nothing.
<1>3. ASSUME pc'[c] \notin {"create", "write", "persist"}, own'[c] <= registrations',
             command'[c] \notin {"install", "form"} \/ own'[c] = 0 \/ pc'[c] # "idle"
      PROVE  InstallInv(c)'
  BY <1>3 DEF InstallInv
<1>4. ASSUME NEW k \in Commands, Begin(c, k) PROVE InstallInv(c)'
  <2>1. /\ pc'[c] = Entry(k) /\ own'[c] = 0 /\ step'[c] = 0 /\ registrations' = registrations
    BY <1>4 DEF Begin, TypeOK
  <2>2. Entry(k) \notin {"write", "persist"}
    BY DEF Entry
  <2>3. QED
    BY <2>1, <2>2 DEF InstallInv
<1>5. CASE Start(c) \/ SendControl(c) \/ WaitState(c)
  <2>1. /\ own'[c] = own[c] /\ command'[c] = command[c] /\ registrations' = registrations
        /\ command[c] \notin {"install", "form"}
    BY <1>5 DEF Start, SendControl, WaitState, caller, PhaseInv, ControlOf
  <2>2. pc'[c] \notin {"create", "write", "persist"}
    BY <1>5 DEF Start, SendControl, ControlFails, WaitState, Judge, Again, TypeOK
  <2>3. QED
    BY <1>3, <2>1, <2>2 DEF InstallInv
<1>6. CASE Create(c)
  <2>1. CASE registration = 0 /\ own' = [own EXCEPT ![c] = registrations + 1]
             /\ pc' = [pc EXCEPT ![c] = "write"]
    <3>1. /\ own'[c] = registrations + 1 /\ pc'[c] = "write" /\ step'[c] = 0
          /\ registration' = registrations + 1 /\ registrations' = registrations + 1
          /\ c \in handles'
      BY <1>6, <2>1 DEF Create, TypeOK, InstallInv
    <3>2. QED
      BY <3>1 DEF InstallInv
  <2>2. CASE own' = own /\ registrations' = registrations /\ pc' = [pc EXCEPT ![c] = "idle"]
    <3>1. own'[c] = 0 /\ pc'[c] = "idle"
      BY <1>6, <2>2 DEF Create, TypeOK, InstallInv
    <3>2. QED
      BY <1>3, <2>2, <3>1 DEF InstallInv
  <2>3. QED
    BY <1>6, <2>1, <2>2 DEF Create
<1>7. CASE Write(c)
  <2>1. /\ own'[c] = own[c] /\ command'[c] = command[c] /\ registrations' = registrations
        /\ registration' = registration /\ own[c] # 0 /\ registration = own[c]
        /\ marked' = marked /\ pc[c] = "write"
    BY <1>7 DEF Write, InstallInv, caller
  <2>2. stored' = stored \cup {InstallWrites[step[c] + 1]}
    BY <1>7 DEF Write
  <2>3. CASE step[c] + 1 < 3
    <3>1. pc'[c] = "write" /\ step'[c] = step[c] + 1 /\ handles' = handles
      BY <1>7, <2>3 DEF Write, TypeOK
    <3>2. /\ step'[c] >= 1 => "Application" \in stored'
          /\ step'[c] >= 2 => "AppExit" \in stored'
      BY <2>1, <2>2, <2>3, <3>1 DEF InstallInv, InstallWrites
    <3>3. QED
      BY <2>1, <3>1, <3>2 DEF InstallInv
  <2>4. CASE step[c] = 2
    <3>1. Installed \subseteq stored'
      BY <2>1, <2>2, <2>4 DEF InstallInv, InstallWrites, Installed
    <3>2. /\ step'[c] = 0
          /\ \/ pc'[c] = "persist"
             \/ pc'[c] = "idle" /\ result'[c] = "ok" /\ command[c] # "form"
      BY <1>7, <2>4 DEF Write, TypeOK
    <3>3. Promised(command'[c]) \subseteq stored' \/ command[c] = "form"
      BY <2>1, <3>1 DEF Promised
    <3>4. QED
      BY <2>1, <3>1, <3>2, <3>3 DEF InstallInv, AllOrNothing
  <2>5. QED
    BY <2>3, <2>4
<1>8. CASE Persist(c)
  <2>1. /\ own'[c] = own[c] /\ command'[c] = command[c] /\ registrations' = registrations
        /\ registration' = registration /\ marked' = marked /\ pc[c] = "persist"
        /\ command[c] = "form" /\ own[c] # 0 /\ step[c] \in 0..1
    BY <1>8 DEF Persist, caller, PhaseInv, InstallInv
  <2>2. CASE step[c] = 0
    <3>1. FormWrites[step[c] + 1] = "ObjectName"
      BY <2>2 DEF FormWrites
    <3>2. \/ pc'[c] = "persist" /\ step'[c] = 1 /\ stored' = stored \cup {"ObjectName"}
          \/ pc'[c] = "undo"
      BY <1>8, <2>1, <2>2, <3>1 DEF Persist, TypeOK
    <3>3. QED
      BY <1>3, <2>1, <3>2 DEF InstallInv
  <2>3. CASE step[c] = 1
    <3>1. FormWrites[step[c] + 1] = "AppEvents"
      BY <2>3 DEF FormWrites
    <3>2. pc'[c] = "idle" /\ result'[c] = "ok" /\ stored' = stored \cup {"AppEvents"}
      BY <1>8, <2>1, <2>3, <3>1 DEF Persist, TypeOK
    <3>3. registration = own[c] => Parameters \subseteq stored'
      BY <2>1, <2>3, <3>2 DEF InstallInv, Parameters
    <3>4. AllOrNothing(c)'
      BY <2>1, <3>2, <3>3 DEF AllOrNothing, Promised
    <3>5. QED
      BY <2>1, <3>2, <3>4 DEF InstallInv
  <2>4. QED
    BY <2>1, <2>2, <2>3
<1>9. CASE Undo(c)
  <2>1. /\ own'[c] = own[c] /\ command'[c] = command[c] /\ registrations' = registrations
        /\ registration' = registration /\ own[c] <= registrations
    BY <1>9 DEF Undo, caller, InstallInv
  <2>2. pc'[c] = "idle"
    BY <1>9 DEF Undo, TypeOK
  <2>3. registration # 0 => marked'
    BY <1>9, Zenon DEF Undo
  <2>4. own[c] # 0 => AllOrNothing(c)'
    BY <2>1, <2>3 DEF AllOrNothing
  <2>5. QED
    BY <2>1, <2>2, <2>4 DEF InstallInv
<1>10. CASE Remove(c)
  <2>1. /\ own'[c] = own[c] /\ command'[c] = command[c] /\ registrations' = registrations
        /\ command[c] = "remove" /\ own[c] <= registrations
    BY <1>10 DEF Remove, caller, PhaseInv, InstallInv
  <2>2. pc'[c] = "idle"
    BY <1>10 DEF Remove, TypeOK
  <2>3. QED
    BY <1>3, <2>1, <2>2
<1>11. CASE Refuse(c)
  <2>1. /\ own'[c] = own[c] /\ command'[c] = command[c] /\ registrations' = registrations
        /\ registration' = registration /\ own[c] <= registrations /\ pc[c] # "idle"
    BY <1>11 DEF Refuse, InstallInv
  <2>2. CASE pc[c] = "persist"
    <3>1. pc'[c] = "undo"
      BY <1>11, <2>2 DEF Refuse, TypeOK
    <3>2. QED
      BY <1>3, <2>1, <3>1
  <2>3. CASE pc[c] = "write"
    <3>1. pc'[c] = "idle" /\ marked'
      BY <1>11, <2>3 DEF Refuse, Rollback, TypeOK
    <3>2. QED
      BY <2>1, <3>1 DEF InstallInv, AllOrNothing
  <2>4. CASE pc[c] = "undo"
    <3>1. pc'[c] = "idle" /\ stuck'[c]
      BY <1>11, <2>4 DEF Refuse, TypeOK
    <3>2. QED
      BY <2>1, <3>1 DEF InstallInv, AllOrNothing
  <2>5. CASE pc[c] = "create"
    <3>1. pc'[c] = "idle" /\ own'[c] = 0
      BY <1>11, <2>1, <2>5 DEF Refuse, TypeOK, InstallInv
    <3>2. QED
      BY <1>3, <2>1, <3>1
  <2>6. CASE pc[c] \in {"start", "control", "poll", "delete"}
    <3>1. pc'[c] = "idle"
      BY <1>11, <2>6 DEF Refuse, TypeOK
    <3>2. command[c] \notin {"install", "form"}
      BY <2>6 DEF PhaseInv, ControlOf
    <3>3. QED
      BY <1>3, <2>1, <3>1, <3>2
  <2>7. pc[c] \in PCs
    BY DEF TypeOK
  <2>8. QED
    BY <2>1, <2>2, <2>3, <2>4, <2>5, <2>6, <2>7 DEF PCs
<1>12. QED
  BY <1>4, <1>5, <1>6, <1>7, <1>8, <1>9, <1>10, <1>11 DEF Move, Act

\* The service and the manager.
LEMMA EnvironmentKeeps ==
    ASSUME IInv, (\E s \in DOMAIN Life!Legal : Serve(s)) \/ Vanish
    PROVE  IInv'
<1>1. TypeOK /\ TypeOK'
  BY EnvironmentType DEF IInv
<1>2. UNCHANGED <<pc, command, code, step, since, target, own, stuck, result, handles,
                  instance, registrations>>
  BY DEF Serve, Vanish, database, service, caller
<1>3. instance \in Nat /\ registrations \in Nat
  BY <1>1 DEF TypeOK
<1>4. ASSUME NEW c \in Callers
      PROVE  PhaseInv(c)' /\ StopInv(c)' /\ InstallInv(c)' /\ ResultInv(c)'
  <2>1. /\ PhaseInv(c) /\ StopInv(c) /\ InstallInv(c) /\ ResultInv(c)
        /\ target[c] \in Nat /\ own[c] \in Nat
    BY <1>1 DEF IInv, TypeOK
  <2>2. PhaseInv(c)'
    BY <1>2, <2>1 DEF PhaseInv
  <2>3. StopInv(c)'
    <3>1. Over(target[c]) => Over(target[c])'
      BY <1>2, <1>3, <2>1 DEF Serve, Vanish, Over, service
    <3>2. QED
      BY <1>2, <2>1, <3>1 DEF StopInv, Over
  <2>4. InstallInv(c)'
    <3>1. CASE \E s \in DOMAIN Life!Legal : Serve(s)
      BY <1>2, <2>1, <3>1 DEF Serve, database, InstallInv, AllOrNothing
    <3>2. CASE Vanish
      BY <1>2, <2>1, <3>2 DEF Vanish, InstallInv, AllOrNothing
    <3>3. QED
      BY <3>1, <3>2
  <2>5. ResultInv(c)'
    BY <1>2, <2>1 DEF ResultInv
  <2>6. QED
    BY <2>2, <2>3, <2>4, <2>5
<1>5. QED
  BY <1>1, <1>4 DEF IInv

LEMMA StutterKeeps ==
    ASSUME IInv, UNCHANGED vars
    PROVE  IInv'
BY DEF IInv, vars, database, service, caller, TypeOK, PhaseInv, StopInv, InstallInv,
       AllOrNothing, Over, ResultInv

LEMMA StepKeeps == IInv /\ [Next]_vars => IInv'
<1> SUFFICES ASSUME IInv, [Next]_vars PROVE IInv'
  OBVIOUS
<1>1. ASSUME NEW c \in Callers, Move(c) PROVE IInv'
  <2>1. TypeOK'
    BY <1>1, StepType
  <2>2. ASSUME NEW d \in Callers
        PROVE  PhaseInv(d)' /\ StopInv(d)' /\ InstallInv(d)' /\ ResultInv(d)'
    <3>1. CASE d = c
      BY <1>1, <3>1, MoverPhase, MoverStop, MoverInstall, MoverResult
    <3>2. CASE d # c
      BY <1>1, <3>2, OthersKeep
    <3>3. QED
      BY <3>1, <3>2
  <2>3. QED
    BY <2>1, <2>2 DEF IInv
<1>2. QED
  BY <1>1, EnvironmentKeeps, StutterKeeps DEF Next, Move

-----------------------------------------------------------------------------
(* The theorems.                                                           *)

LEMMA Invariance == Spec => []IInv
<1>1. QED
  BY InitIInv, StepKeeps, PTL DEF Spec

\* Every variable has its type, and waitState never polls beyond its deadline,
\* for any callers, commands, deadline and number of commands.
THEOREM CommandsKeepTypes == Spec => []TypeOK
<1>1. IInv => TypeOK
  BY DEF IInv
<1>2. QED
  BY <1>1, Invariance, PTL

\* The success of a stop or a restart means that the instance the Stop went to is
\* over, however many other commands were given meanwhile (SendControl, waitState).
THEOREM StopsAreOver == Spec => []StoppedIsOver
<1>1. IInv => StoppedIsOver
  BY DEF IInv, StopInv, ResultInv, StoppedIsOver
<1>2. QED
  BY <1>1, Invariance, PTL

\* An installation that has ended is whole, or is gone, or its removal was refused
\* by the manager: InstallService and Form.Save, whatever runs beside them.
THEOREM InstallsAreWhole == Spec => []InstallIsAllOrNothing
<1>1. IInv => InstallIsAllOrNothing
  BY DEF IInv, InstallInv, AllOrNothing, InstallIsAllOrNothing
<1>2. QED
  BY <1>1, Invariance, PTL

\* What the caller that moves reports.
LEMMA MoverSuccess ==
    ASSUME IInv, NEW c \in Callers, Move(c),
           command[c] \in {"start", "restart"}, result[c] # "ok", result'[c] = "ok"
    PROVE  scm = "Running" /\ instance > since[c]
<1>1. TypeOK /\ PhaseInv(c)
  BY DEF IInv
<1> USE <1>1 DEF TypeOK, Goto, Finish
<1>2. \A k \in Commands : ~Begin(c, k)
  BY DEF Begin
<1>3. ~Start(c) /\ ~SendControl(c)
  BY DEF Start, SendControl, ControlFails
<1>4. ~Create(c) /\ ~Write(c) /\ ~Persist(c) /\ ~Undo(c) /\ ~Remove(c)
  BY DEF Create, Write, Persist, Undo, Remove, PhaseInv
<1>5. ~Refuse(c)
  BY DEF Refuse
<1>6. WaitState(c)
  BY <1>2, <1>3, <1>4, <1>5 DEF Move, Act
<1>7. Classify(code[c], Shown(scm)) = "Desired" /\ pc[c] = "poll"
      /\ ~(command[c] = "restart" /\ code[c] = "Stop")
  BY <1>6 DEF WaitState, Judge, Again
<1>8. code[c] = "Start" /\ instance > since[c]
  BY <1>7 DEF PhaseInv, ControlOf
<1>9. Shown(scm) = "Running"
  BY <1>7, <1>8 DEF Classify, Wanted, OnTheWay
<1>10. QED
  BY <1>8, <1>9 DEF Shown

\* The success of a start or a restart means that the service was seen running in
\* an instance that did not exist when the command was given (StartService).
THEOREM StartsAreNew == Spec => NewInstance
<1> DEFINE Fresh ==
      \A c \in Callers :
        /\ command[c] \in {"start", "restart"}
        /\ result[c] # "ok" /\ result'[c] = "ok"
        => scm = "Running" /\ instance > since[c]
<1>1. IInv /\ [Next]_vars => [Fresh]_vars
  <2> SUFFICES ASSUME IInv, Next, NEW d \in Callers, command[d] \in {"start", "restart"},
                      result[d] # "ok", result'[d] = "ok"
               PROVE  scm = "Running" /\ instance > since[d]
    OBVIOUS
  <2>1. ~(\E s \in DOMAIN Life!Legal : Serve(s)) /\ ~Vanish
    BY DEF Serve, Vanish
  <2>2. PICK c \in Callers : Move(c)
    BY <2>1 DEF Next, Move
  <2>3. c = d
    BY <2>2, OthersUntouched DEF Untouched, IInv
  <2>4. QED
    BY <2>2, <2>3, MoverSuccess
<1>2. QED
  BY <1>1, Invariance, PTL DEF Spec, NewInstance
=============================================================================
