-------------------------- MODULE RedirectionProofs --------------------------
(***************************************************************************)
(* Proofs about the redirected streams for every configuration, every set  *)
(* of failing calls and all bounds: Close leaves no handle open, a booked  *)
(* rotation of an unshared file is made, where archiving it does not fail, *)
(* and made at a line end;                                                 *)
(* stamps start lines; and where no archive is overwritten and no file     *)
(* truncated, the files hold what the child wrote, in order and, once the  *)
(* relay of the stream has ended, completely.                              *)
(***************************************************************************)
EXTENDS Redirection, SequenceTheorems, WellFoundedInduction, TLAPS

-----------------------------------------------------------------------------
(* Handles.  Close closes what it knows; what it does not know is at most  *)
(* the pipe (or the file) of the stream that is being opened.              *)

Kinds == {"stdin", "sink", "read", "child", "master"}

Unregistered == IF phase \in {"inherit", "duplicate"} THEN PipeEnds(opening) ELSE {}

HandleInv ==
  /\ \A h \in handles : h[1] \in Kinds
  /\ handles \subseteq registered \cup Unregistered
  /\ phase \in {"draining", "closing"} => \A h \in handles : ~ParentEnds(h)
  /\ phase = "closing" => \A h \in handles : h[1] # "read"
  /\ phase = "closed" => handles = {}

LEMMA InitHandles == Init => HandleInv
BY DEF Init, HandleInv

\* A failed opening keeps handles that Close knows, and none of the parent's ends.
LEMMA AbandonHandles ==
  ASSUME HandleInv, NEW kept, kept \subseteq handles, kept \cap Unregistered = {},
         Abandon(kept)
  PROVE  HandleInv'
<1>1. /\ phase' = "draining"
      /\ registered' = {h \in registered \cap kept : ~ParentEnds(h)}
      /\ handles' = kept \ (registered \ registered')
  BY DEF Abandon
<1>2. kept \subseteq registered
  BY DEF HandleInv
<1>3. \A h \in handles' : h \in kept /\ h \in registered'
  BY <1>1, <1>2
<1>4. \A h \in handles' : h[1] \in Kinds
  BY <1>3 DEF HandleInv
<1>5. \A h \in handles' : ~ParentEnds(h)
  BY <1>1, <1>3
<1>6. QED
  BY <1>1, <1>3, <1>4, <1>5 DEF HandleInv, Unregistered

\* Relays close sinks and open nothing.
LEMMA RelayHandles ==
  ASSUME NEW s \in Stream, Relay(s) PROVE handles' \subseteq handles
BY DEF Relay, BeginRead, ReadReturns, Deliver, WriteOut, RotateSink, RotationDone

\* A step that opens nothing and stays in its phase.
LEMMA FewerHandles ==
  ASSUME HandleInv, handles' \subseteq handles, registered' = registered \cap handles',
         phase' = phase, opening' = opening
  PROVE  HandleInv'
<1>1. Unregistered' = Unregistered
  BY DEF Unregistered, PipeEnds, ReadHandle
<1>2. handles' \subseteq registered' \cup Unregistered'
  BY <1>1 DEF HandleInv
<1>3. QED
  BY <1>2 DEF HandleInv, ParentEnds

LEMMA SameHandles ==
  ASSUME HandleInv, UNCHANGED <<handles, registered, phase, opening>>
  PROVE  HandleInv'
BY DEF HandleInv, Unregistered, PipeEnds, ReadHandle, ParentEnds

LEMMA StepHandles ==
  ASSUME HandleInv, [Next]_vars PROVE HandleInv'
<1> USE DEF life
<1>1. CASE OpenStdin
  <2>1. Unregistered = {}
    BY <1>1 DEF OpenStdin, Unregistered
  <2>2. CASE "open" \in Faults /\ Abandon(handles)
    BY <2>1, <2>2, AbandonHandles
  <2>3. CASE /\ handles' = handles \cup {<<"stdin", "stdin">>}
             /\ registered' = registered \cup {<<"stdin", "stdin">>}
             /\ phase' \in {"file", "pipe", "open"}
    BY <2>1, <2>3 DEF HandleInv, Kinds
  <2>4. QED
    BY <1>1, <2>2, <2>3 DEF OpenStdin, StderrPhase
<1>2. CASE OpenFile
  <2>1. Unregistered = {}
    BY <1>2 DEF OpenFile, Unregistered
  <2>2. CASE "open" \in Faults /\ Abandon(handles)
    BY <2>1, <2>2, AbandonHandles
  <2>3. CASE /\ handles' = handles \cup {SinkHandle(opening)}
             /\ registered' = registered \cup {SinkHandle(opening)}
             /\ phase' = "pipe"
    BY <2>1, <2>3 DEF HandleInv, Kinds, SinkHandle
  <2>4. CASE /\ handles' = handles \cup {<<"master", opening>>}
             /\ registered' = registered
             /\ phase' = "duplicate" /\ opening' = opening
    BY <2>1, <2>4 DEF HandleInv, Kinds, Unregistered, PipeEnds
  <2>5. QED
    BY <1>2, <2>2, <2>3, <2>4 DEF OpenFile
<1>3. CASE CreatePipe
  <2>1. Unregistered = {}
    BY <1>3 DEF CreatePipe, Unregistered
  <2>2. CASE Abandon(handles \ OwnSink(opening))
    BY <2>1, <2>2, AbandonHandles
  <2>3. CASE /\ handles' = handles \cup PipeEnds(opening)
             /\ phase' = "inherit" /\ opening' = opening /\ registered' = registered
    BY <2>1, <2>3 DEF HandleInv, Kinds, Unregistered, PipeEnds, ReadHandle
  <2>4. QED
    BY <1>3, <2>2, <2>3 DEF CreatePipe
<1>4. CASE SetInherit
  <2>1. Unregistered \subseteq Own(opening)
    BY DEF Unregistered, Own
  <2>2. CASE Abandon(handles \ Own(opening))
    BY <2>1, <2>2, AbandonHandles
  <2>3. CASE /\ phase = "inherit" /\ phase' = "duplicate"
             /\ UNCHANGED <<handles, opening, registered>>
    BY <2>3 DEF HandleInv, Unregistered, PipeEnds, ReadHandle
  <2>4. QED
    BY <1>4, <2>2, <2>3 DEF SetInherit
<1>5. CASE Duplicate
  <2>1. Unregistered = PipeEnds(opening) /\ PipeEnds(opening) \subseteq Own(opening)
    BY <1>5 DEF Duplicate, Unregistered, Own
  <2>2. CASE Abandon(handles \ Own(opening))
    BY <2>1, <2>2, AbandonHandles
  <2>3. CASE /\ handles' = handles \cup {<<"child", opening>>}
             /\ registered' = registered \cup WriteEnds(opening)
                              \cup (handles \cap {ReadHandle(opening)})
             /\ phase' \in {"file", "pipe", "open"}
    BY <2>1, <2>3 DEF HandleInv, Kinds, WriteEnds, PipeEnds
  <2>4. QED
    BY <1>5, <2>2, <2>3 DEF Duplicate, NextStream, StderrPhase
<1>6. CASE Begin
  <2>1. /\ Unregistered = {} /\ phase' = "begun"
        /\ handles' \subseteq handles /\ registered' = registered \cap handles'
    BY <1>6 DEF Begin, Unregistered
  <2>2. QED
    BY <2>1 DEF HandleInv
<1>7. CASE HookStarts
  BY <1>7, SameHandles DEF HookStarts
<1>8. CASE Request
  BY <1>8, SameHandles DEF Request
<1>9. CASE CloseStarts
  <2>1. Unregistered = {}
    BY <1>9 DEF CloseStarts, Unregistered
  <2>2. QED
    BY <1>9, <2>1, AbandonHandles DEF CloseStarts
<1>10. CASE CloseSources
  <2>1. /\ phase = "draining" /\ phase' = "closing"
        /\ handles' = {h \in handles : h[1] # "read" \/ h \notin registered}
        /\ registered' = registered \cap handles'
    BY <1>10 DEF CloseSources
  <2>2. handles \subseteq registered
    BY <2>1 DEF HandleInv, Unregistered
  <2>3. QED
    BY <2>1, <2>2 DEF HandleInv, ParentEnds
<1>11. CASE CloseSinks
  <2>1. /\ phase = "closing" /\ phase' = "closed"
        /\ handles' = {h \in handles : h[1] # "sink" \/ h \notin registered}
    BY <1>11 DEF CloseSinks
  <2>2. handles \subseteq registered
    BY <2>1 DEF HandleInv, Unregistered
  <2>3. \A h \in handles : h[1] = "sink"
    BY <2>1 DEF HandleInv, ParentEnds, Kinds
  <2>4. handles' = {}
    BY <2>1, <2>2, <2>3
  <2>5. QED
    BY <2>1, <2>4 DEF HandleInv
<1>12. CASE \E s \in Stream : Write(s)
  BY <1>12, SameHandles DEF Write
<1>13. CASE \E s \in Stream : RunRelay(s)
  BY <1>13, RelayHandles, FewerHandles DEF RunRelay
<1>14. CASE \E who \in {"child", "hook"} : ProcessEnds(who)
  BY <1>14, SameHandles DEF ProcessEnds
<1>15. CASE UNCHANGED vars
  BY <1>15, SameHandles DEF vars
<1>16. QED
  BY <1>1, <1>2, <1>3, <1>4, <1>5, <1>6, <1>7, <1>8, <1>9, <1>10, <1>11, <1>12, <1>13,
     <1>14, <1>15 DEF Next, Supervise

\* Whichever call of OpenRedirect fails, and whatever relays and rotations do,
\* no handle is left open when Close returns.
THEOREM EveryHandleReleased == Spec => []HandlesReleased
<1>1. HandleInv => HandlesReleased
  BY DEF HandleInv, HandlesReleased
<1>2. QED
  BY <1>1, InitHandles, StepHandles, PTL DEF Spec

-----------------------------------------------------------------------------
(* Rotations of a file that no other stream shares.  From the cut of the   *)
(* chunk to the end of the rotation its relay leaves the request booked,   *)
(* so that no other can be taken for it.                                   *)

Cutting == {"head", "rotate", "done"}

Places == Relaying \cup {"none", "ended", "failed"}

FlagTypes == /\ at \in [Stream -> Places]
             /\ flag \in [Stream -> {"off", "on", "asap"}]
             /\ taken \in [Stream -> BOOLEAN]

BookedInv ==
  /\ FlagTypes
  /\ ~config.shared => \A s \in Stream : at[s] \in Cutting => flag[s] = "asap"

LEMMA InitBooked == Init => BookedInv
<1> SUFFICES ASSUME Init PROVE BookedInv
  OBVIOUS
<1>1. at = [s \in Stream |-> "none"] /\ taken = [s \in Stream |-> FALSE]
  BY DEF Init
<1>2. flag \in [Stream -> {"off", "on", "asap"}]
  BY DEF Init
<1>3. at \in [Stream -> Places]
  BY <1>1 DEF Places
<1>4. taken \in [Stream -> BOOLEAN]
  BY <1>1
<1>5. \A s \in Stream : at[s] = "none"
  BY <1>1
<1>6. QED
  BY <1>2, <1>3, <1>4, <1>5 DEF BookedInv, FlagTypes, Cutting

\* What a step of the relay of s does to the flags; everybody else's place is
\* as it was.
LEMMA RelayBooked ==
  ASSUME BookedInv, NEW s \in Stream, Relay(s) PROVE BookedInv'
<1> USE DEF BookedInv, FlagTypes, Places, Relaying, Cutting, Set, Goto
<1>1. CASE BeginRead(s)
  BY <1>1 DEF BeginRead
<1>2. CASE ReadReturns(s)
  BY <1>2 DEF ReadReturns, Retry
<1>3. CASE Deliver(s)
  <2>1. ~config.shared => Sink(s) = s
    BY DEF Sink
  <2>2. Cut(s) > 0 => flag[Sink(s)] = "asap"
    BY DEF Cut
  <2>3. /\ at' = [at EXCEPT ![s] = IF Cut(s) > 0 THEN "head" ELSE "rest"]
        /\ UNCHANGED <<config, flag, taken>>
    BY <1>3 DEF Deliver
  <2>4. QED
    BY <2>1, <2>2, <2>3
<1>4. CASE WriteOut(s)
  <2>1. /\ at[s] \in {"head", "rest"}
        /\ \/ at' = [at EXCEPT ![s] = "failed"]
           \/ at' = [at EXCEPT ![s] = IF at[s] = "head" THEN "rotate" ELSE "read"]
           \/ at' = at
        /\ UNCHANGED <<config, flag, taken>>
    BY <1>4 DEF WriteOut, Retry
  <2>2. QED
    BY <2>1
<1>5. CASE RotateSink(s)
  <2>1. /\ at[s] = "rotate"
        /\ at' = [at EXCEPT ![s] = "done"]
        /\ taken' = [taken EXCEPT ![Sink(s)] = TRUE] \/ taken' = taken
        /\ UNCHANGED <<config, flag>>
    BY <1>5 DEF RotateSink
  <2>2. ~config.shared => Sink(s) = s
    BY DEF Sink
  <2>3. Sink(s) \in Stream
    BY RelayAssumption DEF Sink
  <2>4. FlagTypes'
    BY <2>1, <2>3
  <2>5. ASSUME ~config.shared, NEW r \in Stream
        PROVE  at'[r] \in Cutting => flag'[r] = "asap"
    BY <2>1, <2>2, <2>5
  <2>6. QED
    BY <2>1, <2>4, <2>5
<1>6. CASE RotationDone(s)
  <2>1. /\ at[s] = "done"
        /\ flag' = [flag EXCEPT ![Sink(s)] = IF @ = "asap" THEN "on" ELSE @]
        /\ at' = [at EXCEPT ![s] = IF chunk[s] = <<>> THEN "read" ELSE "rest"]
        /\ UNCHANGED <<config, taken>>
    BY <1>6 DEF RotationDone
  <2>2. ~config.shared => Sink(s) = s
    BY DEF Sink
  <2>3. FlagTypes'
    BY <2>1
  <2>4. ASSUME ~config.shared, NEW r \in Stream
        PROVE  at'[r] \in Cutting => flag'[r] = "asap"
    BY <2>1, <2>2, <2>4
  <2>5. QED
    BY <2>1, <2>3, <2>4
<1>7. QED
  BY <1>1, <1>2, <1>3, <1>4, <1>5, <1>6 DEF Relay

LEMMA SameBooked ==
  ASSUME BookedInv, UNCHANGED <<config, at, flag, taken>> PROVE BookedInv'
BY DEF BookedInv, FlagTypes

LEMMA BeginBooked ==
  ASSUME BookedInv, Begin PROVE BookedInv'
<1>1. /\ at' = [s \in Stream |-> IF s \in Piped THEN "read" ELSE "none"]
      /\ UNCHANGED <<config, flag, taken>>
  BY DEF Begin
<1>2. \A s \in Stream : at'[s] \notin Cutting
  BY <1>1 DEF Cutting
<1>3. at' \in [Stream -> Places]
  BY <1>1 DEF Places, Relaying
<1>4. QED
  BY <1>1, <1>2, <1>3 DEF BookedInv, FlagTypes, Cutting

\* A request is booked on a flag that is on, and so not while a rotation is made.
LEMMA RequestBooked ==
  ASSUME BookedInv, Request PROVE BookedInv'
<1> DEFINE booked == {k \in Stream : SinkHandle(k) \in registered /\ Bookable(k)}
<1>1. /\ flag' = [k \in Stream |-> IF k \in booked THEN "asap" ELSE flag[k]]
      /\ taken' = [k \in Stream |-> taken[k] /\ k \notin booked]
      /\ UNCHANGED <<config, at>>
  BY DEF Request, goroutine
<1>2. \A k \in booked : flag[k] = "on"
  BY DEF Bookable
<1> HIDE DEF booked
<1>3. flag' \in [Stream -> {"off", "on", "asap"}]
  BY <1>1 DEF BookedInv, FlagTypes
<1>4. taken' \in [Stream -> BOOLEAN]
  BY <1>1
<1>5. ASSUME ~config.shared, NEW r \in Stream
      PROVE  at[r] \in Cutting => flag'[r] = "asap"
  <2>1. at[r] \in Cutting => flag[r] = "asap"
    BY <1>5 DEF BookedInv
  <2>2. QED
    BY <1>1, <2>1
<1>6. QED
  BY <1>1, <1>3, <1>4, <1>5 DEF BookedInv, FlagTypes

LEMMA StepBooked ==
  ASSUME BookedInv, [Next]_vars PROVE BookedInv'
<1> USE DEF goroutine
<1>1. CASE OpenStdin \/ OpenFile \/ CreatePipe \/ SetInherit \/ Duplicate
  BY <1>1, SameBooked DEF OpenStdin, OpenFile, CreatePipe, SetInherit, Duplicate, Untouched
<1>2. CASE Begin
  BY <1>2, BeginBooked
<1>3. CASE HookStarts
  BY <1>3, SameBooked DEF HookStarts
<1>4. CASE Request
  BY <1>4, RequestBooked
<1>5. CASE CloseStarts \/ CloseSources \/ CloseSinks
  BY <1>5, SameBooked DEF CloseStarts, CloseSources, CloseSinks, Untouched
<1>6. CASE \E s \in Stream : Write(s)
  BY <1>6, SameBooked DEF Write
<1>7. CASE \E s \in Stream : RunRelay(s)
  BY <1>7, RelayBooked DEF RunRelay
<1>8. CASE \E who \in {"child", "hook"} : ProcessEnds(who)
  BY <1>8, SameBooked DEF ProcessEnds
<1>9. CASE UNCHANGED vars
  BY <1>9, SameBooked DEF vars
<1>10. QED
  BY <1>1, <1>2, <1>3, <1>4, <1>5, <1>6, <1>7, <1>8, <1>9 DEF Next, Supervise

(* Where nothing keeps a file from being archived, the relay that is about *)
(* to clear the request has made an archive: it had the sink open when it  *)
(* wrote the end of the line, and only Close could have taken it away.     *)

Opening == {"stdin", "file", "pipe", "inherit", "duplicate", "open"}

MadeInv ==
  /\ phase \in Opening => \A s \in Stream : at[s] = "none"
  /\ ~config.shared /\ config.archivable => \A s \in Stream :
       /\ at[s] = "rotate" => SinkHandle(s) \in handles \/ phase = "closed"
       /\ at[s] = "done" => taken[s] = TRUE \/ phase = "closed"

LEMMA InitMade == Init => MadeInv
BY DEF Init, MadeInv

LEMMA ArchiveMade ==
  ASSUME config.archivable, NEW k, NEW a \in Applied(k)
  PROVE  a.made = TRUE
<1> DEFINE moved == {[old |-> b, now |-> <<>>, exists |-> config.copyAndTruncate, made |-> TRUE]
                       : b \in Archived(k)}
           halfDone == {[old |-> b, now |-> file[k], exists |-> TRUE, made |-> TRUE]
                          : b \in Archived(k)}
<1>1. a \in moved \/ a \in halfDone
  BY Zenon DEF Applied
<1>2. QED
  BY <1>1

\* The relay of s, in a file of its own, and the places of its rotation.
LEMMA RelayMade ==
  ASSUME BookedInv, MadeInv, NEW s \in Stream, RunRelay(s)
  PROVE  MadeInv'
<1>1. Relay(s) /\ phase' = phase /\ config' = config /\ at[s] # "none"
  BY DEF RunRelay, Relay, BeginRead, ReadReturns, Deliver, WriteOut, RotateSink, RotationDone
<1>2. phase \notin Opening
  BY <1>1 DEF MadeInv
<1>3. at \in [Stream -> Places] /\ taken \in [Stream -> BOOLEAN]
  BY DEF BookedInv, FlagTypes
<1>4. ASSUME ~config.shared, config.archivable, NEW r \in Stream
      PROVE  /\ at'[r] = "rotate" => SinkHandle(r) \in handles' \/ phase' = "closed"
             /\ at'[r] = "done" => taken'[r] = TRUE \/ phase' = "closed"
  <2>1. /\ at[r] = "rotate" => SinkHandle(r) \in handles \/ phase = "closed"
        /\ at[r] = "done" => taken[r] = TRUE \/ phase = "closed"
    BY <1>4 DEF MadeInv
  <2>2. Sink(s) = s
    BY <1>4 DEF Sink
  <2>3. CASE BeginRead(s)
    BY <1>1, <1>3, <2>1, <2>3 DEF BeginRead, Goto, Set
  <2>4. CASE ReadReturns(s)
    BY <1>1, <1>3, <2>1, <2>4 DEF ReadReturns, Retry, Goto, Set
  <2>5. CASE Deliver(s)
    BY <1>1, <1>3, <2>1, <2>5 DEF Deliver, Goto, Set
  <2>6. CASE WriteOut(s)
    <3>1. /\ at[s] \in {"head", "rest"}
          /\ \/ at' = [at EXCEPT ![s] = "failed"]
             \/ /\ SinkHandle(s) \in handles
                /\ at' = [at EXCEPT ![s] = IF at[s] = "head" THEN "rotate" ELSE "read"]
             \/ at' = at
          /\ UNCHANGED <<handles, taken>>
      BY <1>3, <2>2, <2>6 DEF WriteOut, Retry, Goto, Set
    <3>2. QED
      BY <1>1, <1>3, <2>1, <3>1
  <2>7. CASE RotateSink(s)
    <3>1. at[s] = "rotate" /\ at' = [at EXCEPT ![s] = "done"]
      BY <2>7 DEF RotateSink, Goto, Set
    <3>2. CASE SinkHandle(s) \notin handles
      <4>1. phase = "closed"
        BY <1>4, <3>1, <3>2 DEF MadeInv
      <4>2. QED
        BY <1>1, <4>1
    <3>3. CASE SinkHandle(s) \in handles
      <4>1. PICK a \in Applied(s) :
               /\ taken' = IF a.made THEN [taken EXCEPT ![s] = TRUE] ELSE taken
               /\ handles' = handles \/ handles' = handles \ {SinkHandle(s)}
        BY <2>2, <2>7, <3>3 DEF RotateSink, Set
      <4>2. taken' = [taken EXCEPT ![s] = TRUE]
        BY <1>4, <4>1, ArchiveMade
      <4>3. r # s => SinkHandle(r) # SinkHandle(s)
        BY DEF SinkHandle
      <4>4. CASE r = s
        BY <1>3, <3>1, <4>2, <4>4
      <4>5. CASE r # s
        BY <1>1, <1>3, <2>1, <3>1, <4>1, <4>2, <4>3, <4>5
      <4>6. QED
        BY <4>4, <4>5
    <3>4. QED
      BY <3>2, <3>3
  <2>8. CASE RotationDone(s)
    BY <1>1, <1>3, <2>1, <2>8 DEF RotationDone, Goto, Set
  <2>9. QED
    BY <1>1, <2>3, <2>4, <2>5, <2>6, <2>7, <2>8 DEF Relay
<1>5. QED
  BY <1>1, <1>2, <1>4 DEF MadeInv

\* A step that leaves the rotations and the sinks alone.
LEMMA SameMade ==
  ASSUME MadeInv, UNCHANGED <<config, at, taken>>,
         phase' = phase \/ phase' \in {"draining", "closing", "closed"},
         phase = "closed" => phase' = "closed",
         phase' = "closed" \/ \A s \in Stream : SinkHandle(s) \in handles => SinkHandle(s) \in handles'
  PROVE  MadeInv'
BY DEF MadeInv, Opening

LEMMA StepMade ==
  ASSUME BookedInv, MadeInv, [Next]_vars
  PROVE  MadeInv'
<1> USE DEF goroutine, life
<1>1. CASE OpenStdin \/ OpenFile \/ CreatePipe \/ SetInherit \/ Duplicate
  <2>1. phase \in Opening /\ at' = at /\ config' = config
    BY <1>1 DEF OpenStdin, OpenFile, CreatePipe, SetInherit, Duplicate, Untouched, Opening
  <2>2. \A s \in Stream : at'[s] = "none"
    BY <2>1 DEF MadeInv
  <2>3. QED
    BY <2>2 DEF MadeInv
<1>2. CASE Begin
  <2>1. phase' = "begun" /\ \A s \in Stream : at'[s] \in {"read", "none"}
    BY <1>2 DEF Begin
  <2>2. QED
    BY <2>1 DEF MadeInv, Opening
<1>3. CASE HookStarts
  BY <1>3, SameMade DEF HookStarts
<1>4. CASE Request
  <2> DEFINE booked == {k \in Stream : SinkHandle(k) \in registered /\ Bookable(k)}
  <2>1. /\ taken' = [k \in Stream |-> taken[k] /\ k \notin booked]
        /\ UNCHANGED <<config, at, handles, phase>>
    BY <1>4 DEF Request
  <2>2. ASSUME ~config.shared, NEW s \in Stream, at[s] = "done" PROVE s \notin booked
    BY <2>2 DEF BookedInv, Cutting, Bookable
  <2> HIDE DEF booked
  <2>3. ASSUME ~config.shared, config.archivable, NEW s \in Stream, at[s] = "done"
        PROVE  taken'[s] = TRUE \/ phase = "closed"
    <3>1. taken[s] = TRUE \/ phase = "closed"
      BY <2>3 DEF MadeInv
    <3>2. QED
      BY <2>1, <2>2, <2>3, <3>1
  <2>4. QED
    BY <2>1, <2>3 DEF MadeInv
<1>5. CASE CloseStarts
  <2>1. /\ phase # "closed" /\ phase' = "draining"
        /\ registered' = {h \in registered : h \in handles /\ ~ParentEnds(h)}
        /\ handles' = handles \ (registered \ registered')
        /\ UNCHANGED <<config, at, taken>>
    BY <1>5 DEF CloseStarts, Untouched, Abandon
  <2>2. \A s \in Stream : ~ParentEnds(SinkHandle(s))
    BY DEF ParentEnds, SinkHandle
  <2>3. QED
    BY <2>1, <2>2, SameMade
<1>6. CASE CloseSources
  <2>1. /\ phase # "closed" /\ phase' = "closing"
        /\ handles' = {h \in handles : h[1] # "read" \/ h \notin registered}
        /\ UNCHANGED <<config, at, taken>>
    BY <1>6 DEF CloseSources, Untouched
  <2>2. \A s \in Stream : SinkHandle(s)[1] # "read"
    BY DEF SinkHandle
  <2>3. QED
    BY <2>1, <2>2, SameMade
<1>7. CASE CloseSinks
  BY <1>7, SameMade DEF CloseSinks, Untouched
<1>8. CASE \E s \in Stream : Write(s)
  BY <1>8, SameMade DEF Write
<1>9. CASE \E s \in Stream : RunRelay(s)
  BY <1>9, RelayMade
<1>10. CASE \E who \in {"child", "hook"} : ProcessEnds(who)
  BY <1>10, SameMade DEF ProcessEnds
<1>11. CASE UNCHANGED vars
  BY <1>11, SameMade DEF vars
<1>12. QED
  BY <1>1, <1>2, <1>3, <1>4, <1>5, <1>6, <1>7, <1>8, <1>9, <1>10, <1>11 DEF Next, Supervise

\* Where nothing keeps it from being renamed or copied, the request to rotate a file
\* of its own is cleared only once the file was archived for it, or Close has taken
\* the sink away.
THEOREM RequestsAreHonoured == Spec => RequestHonoured
<1> DEFINE A == \A k \in Stream :
                  (~config.shared /\ config.archivable /\ flag[k] = "asap" /\ flag'[k] = "on")
                  => taken[k] \/ phase = "closed"
<1>1. BookedInv /\ MadeInv /\ [Next]_vars => A \/ UNCHANGED vars
  <2> SUFFICES ASSUME BookedInv, MadeInv, Next, NEW k \in Stream,
                      ~config.shared, config.archivable, flag[k] = "asap", flag'[k] = "on"
               PROVE  taken[k] \/ phase = "closed"
    OBVIOUS
  <2>1. flag # flag'
    OBVIOUS
  <2>2. ~Request
    BY DEF Request
  <2>3. PICK s \in Stream : RunRelay(s)
    BY <2>1, <2>2 DEF Next, Supervise, OpenStdin, OpenFile, CreatePipe, SetInherit,
       Duplicate, Untouched, Begin, HookStarts, CloseStarts, CloseSources, CloseSinks,
       Write, ProcessEnds
  <2>4. RotationDone(s)
    BY <2>1, <2>3 DEF RunRelay, Relay, BeginRead, ReadReturns, Deliver, WriteOut, RotateSink
  <2>5. /\ at[s] = "done" /\ Sink(s) = s
        /\ flag' = [flag EXCEPT ![s] = IF @ = "asap" THEN "on" ELSE @]
    BY <2>4 DEF RotationDone, Sink, Set
  <2>6. k = s
    BY <2>5 DEF BookedInv, FlagTypes
  <2>7. QED
    BY <2>5, <2>6 DEF MadeInv
<1>2. BookedInv /\ MadeInv /\ [Next]_vars => BookedInv' /\ MadeInv'
  BY StepBooked, StepMade
<1>3. QED
  BY <1>1, <1>2, InitBooked, InitMade, PTL DEF Spec, RequestHonoured

-----------------------------------------------------------------------------
(* Line ends.  The chunk is cut behind a line end, all of the cut is       *)
(* written before the file is rotated, and nobody else writes the file.    *)

Pieces == [of : Stream, n : Nat]

Output == [of : Stream, n : Nat, stamped : BOOLEAN]

\* What ends with a line, and is not empty.
Lines == {q \in Seq(Output) : Len(q) > 0 /\ q[Len(q)].n \in LineEnds}

\* What may be archived.
Whole == Lines \cup {<<>>}

\* The smallest element that a CHOOSE stands for.
LEMMA Least ==
  ASSUME NEW S \in SUBSET Nat, S # {}
  PROVE  \E i \in S : \A j \in S : i <= j
<1>1. PICK i \in S : \A j \in S : ~(<<j, i>> \in OpToRel(<, Nat))
  BY NatLessThanWellFounded, WFMin
<1>2. \A j \in S : ~(j < i)
  BY <1>1 DEF OpToRel
<1>3. QED
  BY <1>2

LEMMA BoundaryEndsLine ==
  ASSUME NEW c \in Seq(Pieces)
  PROVE  /\ RotateBoundary(c) \in 0..Len(c)
         /\ RotateBoundary(c) > 0 => c[RotateBoundary(c)].n \in LineEnds
<1> DEFINE ends == {i \in DOMAIN c : EndsLine(c[i])}
<1>1. CASE ends = {}
  BY <1>1 DEF RotateBoundary
<1>2. CASE ends # {}
  <2>1. ends \in SUBSET Nat
    OBVIOUS
  <2>2. \E i \in ends : \A j \in ends : i <= j
    BY <1>2, <2>1, Least
  <2>3. RotateBoundary(c) = CHOOSE i \in ends : \A j \in ends : i <= j
    BY <1>2 DEF RotateBoundary
  <2> HIDE DEF ends
  <2>4. RotateBoundary(c) \in ends
    BY <2>2, <2>3
  <2>5. QED
    BY <2>4 DEF ends, EndsLine
<1>3. QED
  BY <1>1, <1>2

LEMMA StampLines ==
  ASSUME NEW c \in Seq(Pieces), NEW mid
  PROVE  /\ Stamp(c, mid) \in Seq(Output) /\ Len(Stamp(c, mid)) = Len(c)
         /\ \A i \in 1..Len(c) : Stamp(c, mid)[i].n = c[i].n
<1> DEFINE stamped(i) == /\ config.timestamp
                         /\ IF i = 1 THEN ~mid ELSE EndsLine(c[i - 1])
<1>1. \A i \in 1..Len(c) : stamped(i) \in BOOLEAN
  OBVIOUS
<1>2. Stamp(c, mid) = [i \in 1..Len(c) |-> [of |-> c[i].of, n |-> c[i].n, stamped |-> stamped(i)]]
  BY DEF Stamp
<1> HIDE DEF stamped
<1>3. \A i \in 1..Len(c) : [of |-> c[i].of, n |-> c[i].n, stamped |-> stamped(i)] \in Output
  <2> SUFFICES ASSUME NEW i \in 1..Len(c)
               PROVE  [of |-> c[i].of, n |-> c[i].n, stamped |-> stamped(i)] \in Output
    OBVIOUS
  <2>1. c[i].of \in Stream /\ c[i].n \in Nat
    <3>1. c[i] \in Pieces
      OBVIOUS
    <3>2. QED
      BY <3>1 DEF Pieces
  <2>2. stamped(i) \in BOOLEAN
    BY <1>1
  <2>3. QED
    BY <2>1, <2>2 DEF Output
<1>4. Len(c) \in Nat
  OBVIOUS
<1>5. QED
  BY <1>2, <1>3, <1>4

\* A write of all that ends with a line leaves a file that does; one that takes less
\* leaves a rest that does.
LEMMA WrittenLines ==
  ASSUME NEW f \in Seq(Output), NEW q \in Seq(Output), NEW n \in 0..Len(q)
  PROVE  /\ f \o SubSeq(q, 1, n) \in Seq(Output)
         /\ SubSeq(q, n + 1, Len(q)) \in Seq(Output)
         /\ q \in Lines /\ n = Len(q) => f \o SubSeq(q, 1, n) \in Lines
         /\ q \in Lines /\ n < Len(q) => SubSeq(q, n + 1, Len(q)) \in Lines
<1>0. Len(q) \in Nat /\ Len(f) \in Nat /\ n \in Nat /\ n <= Len(q)
  OBVIOUS
<1>1. /\ SubSeq(q, 1, n) \in Seq(Output) /\ Len(SubSeq(q, 1, n)) = n
      /\ \A i \in 1..n : SubSeq(q, 1, n)[i] = q[i]
  OBVIOUS
<1>2. /\ SubSeq(q, n + 1, Len(q)) \in Seq(Output)
      /\ Len(SubSeq(q, n + 1, Len(q))) = Len(q) - n
      /\ \A i \in 1..(Len(q) - n) : SubSeq(q, n + 1, Len(q))[i] = q[n + i]
  OBVIOUS
<1>3. f \o SubSeq(q, 1, n) \in Seq(Output)
  BY <1>1
<1>4. ASSUME q \in Lines, n = Len(q) PROVE f \o SubSeq(q, 1, n) \in Lines
  <2> DEFINE head == SubSeq(q, 1, n)
  <2>1. n \in Nat /\ n > 0 /\ q[n].n \in LineEnds
    BY <1>0, <1>4 DEF Lines
  <2>2. head \in Seq(Output) /\ Len(head) = n /\ head[n] = q[n]
    BY <1>1, <2>1
  <2> HIDE DEF head
  <2>3. Len(f \o head) = Len(f) + n /\ (f \o head)[Len(f) + n] = head[n]
    BY <1>0, <2>1, <2>2
  <2>4. (f \o head)[Len(f \o head)].n \in LineEnds /\ Len(f \o head) > 0
    BY <1>0, <2>1, <2>2, <2>3
  <2>5. f \o head \in Lines
    BY <1>3, <2>4 DEF Lines, head
  <2>6. QED
    BY <2>5 DEF head
<1>5. ASSUME q \in Lines, n < Len(q) PROVE SubSeq(q, n + 1, Len(q)) \in Lines
  <2> DEFINE rest == SubSeq(q, n + 1, Len(q))
             m == Len(q) - n
  <2>1. m \in 1..m /\ n + m = Len(q) /\ m > 0
    BY <1>0, <1>5
  <2>2. rest \in Seq(Output) /\ Len(rest) = m /\ \A i \in 1..m : rest[i] = q[n + i]
    BY <1>2
  <2> HIDE DEF rest, m
  <2>3. Len(rest) > 0 /\ rest[Len(rest)] = q[Len(q)]
    BY <2>1, <2>2
  <2>4. q[Len(q)].n \in LineEnds
    BY <1>5 DEF Lines
  <2>5. rest \in Lines
    BY <2>2, <2>3, <2>4 DEF Lines
  <2>6. QED
    BY <2>5 DEF rest
<1>6. QED
  BY <1>2, <1>3, <1>4, <1>5

LineTypes ==
  /\ at \in [Stream -> Places]
  /\ pipe \in [Stream -> Seq(Pieces)] /\ chunk \in [Stream -> Seq(Pieces)]
  /\ out \in [Stream -> Seq(Output)] /\ file \in [Stream -> Seq(Output)]
  /\ produced \in [Stream -> Nat]

LineInv ==
  /\ LineTypes
  /\ ~config.shared => \A s \in Stream :
       /\ at[s] = "head" => out[s] \in Lines
       /\ at[s] = "rotate" => file[s] \in Whole
       /\ archives[s] \in Seq(Whole)
  /\ DOMAIN archives = Stream

LEMMA InitLines == Init => LineInv
<1> SUFFICES ASSUME Init PROVE LineInv
  OBVIOUS
<1>1. /\ at \in [Stream -> Places] /\ \A s \in Stream : at[s] = "none"
      /\ DOMAIN archives = Stream /\ \A s \in Stream : archives[s] = <<>>
  BY DEF Init, Places
<1>2. /\ pipe \in [Stream -> Seq(Pieces)] /\ chunk \in [Stream -> Seq(Pieces)]
      /\ out \in [Stream -> Seq(Output)] /\ file \in [Stream -> Seq(Output)]
      /\ produced \in [Stream -> Nat]
  BY DEF Init
<1>3. <<>> \in Seq(Whole)
  OBVIOUS
<1>4. \A s \in Stream : at[s] # "head" /\ at[s] # "rotate" /\ archives[s] \in Seq(Whole)
  BY <1>1, <1>3
<1>5. QED
  BY <1>1, <1>2, <1>4 DEF LineInv, LineTypes

LEMMA SinkIsStream == \A s \in Stream : Sink(s) \in Stream /\ (~config.shared => Sink(s) = s)
BY RelayAssumption DEF Sink

\* A chunk is delivered up to a line end when a rotation is due.
LEMMA DeliverLines ==
  ASSUME LineInv, NEW s \in Stream, Deliver(s), produced' = produced
  PROVE  LineInv'
<1> DEFINE c == chunk[s]
           cut == Cut(s)
           now == IF cut > 0 THEN SubSeq(c, 1, cut) ELSE c
<1>1. /\ out' = [out EXCEPT ![s] = Stamp(now, midLine[s])]
      /\ chunk' = [chunk EXCEPT ![s] = Remainder(c, cut)]
      /\ at' = [at EXCEPT ![s] = IF cut > 0 THEN "head" ELSE "rest"]
      /\ UNCHANGED <<config, pipe, file, archives>>
  BY DEF Deliver, Set, Goto, files
<1>2. c \in Seq(Pieces) /\ Len(c) \in Nat
  BY DEF LineInv, LineTypes
<1>3. cut \in 0..Len(c) /\ (cut > 0 => c[cut].n \in LineEnds)
  BY <1>2, BoundaryEndsLine DEF Cut
<1>4. /\ SubSeq(c, 1, cut) \in Seq(Pieces) /\ Len(SubSeq(c, 1, cut)) = cut
      /\ cut > 0 => SubSeq(c, 1, cut)[cut] = c[cut]
  BY <1>2, <1>3
<1>5. Remainder(c, cut) \in Seq(Pieces)
  BY <1>2, <1>3 DEF Remainder
<1>6. now \in Seq(Pieces)
  BY <1>2, <1>4
<1>7. Stamp(now, midLine[s]) \in Seq(Output)
  BY <1>6, StampLines
<1>8. cut > 0 => Stamp(now, midLine[s]) \in Lines
  <2> SUFFICES ASSUME cut > 0 PROVE Stamp(now, midLine[s]) \in Lines
    OBVIOUS
  <2>1. now \in Seq(Pieces) /\ Len(now) = cut /\ now[cut] = c[cut] /\ cut \in 1..Len(now)
    BY <1>3, <1>4
  <2>2. /\ Len(Stamp(now, midLine[s])) = cut
        /\ Stamp(now, midLine[s])[cut].n = c[cut].n
    BY <2>1, StampLines
  <2>3. QED
    BY <1>3, <1>7, <2>1, <2>2 DEF Lines
<1> HIDE DEF c, cut, now
<1>9. LineTypes'
  BY <1>1, <1>5, <1>7 DEF LineInv, LineTypes, Places, Relaying, Deliver
<1>10. QED
  BY <1>1, <1>8, <1>9 DEF LineInv, LineTypes

\* Only a complete write goes on to the rotation.
LEMMA WriteLines ==
  ASSUME LineInv, NEW s \in Stream, WriteOut(s), produced' = produced
  PROVE  LineInv'
<1> DEFINE q == out[s]
           f == file[Sink(s)]
<1>1. /\ at[s] \in {"head", "rest"}
      /\ UNCHANGED <<config, pipe, chunk, archives>>
  BY DEF WriteOut
<1>2. /\ Sink(s) \in Stream /\ q \in Seq(Output) /\ f \in Seq(Output) /\ Len(q) \in Nat
      /\ ~config.shared => Sink(s) = s
  BY SinkIsStream DEF LineInv, LineTypes
<1>3. ~config.shared /\ at[s] = "head" => q \in Lines
  BY DEF LineInv
<1>4. CASE at' = [at EXCEPT ![s] = "failed"] /\ UNCHANGED <<file, out>>
  BY <1>1, <1>4 DEF LineInv, LineTypes, Places, Relaying, WriteOut
<1>5. CASE /\ Wrote(s, Len(q))
           /\ at' = [at EXCEPT ![s] = IF at[s] = "head" THEN "rotate" ELSE "read"]
  <2>1. /\ file' = [file EXCEPT ![Sink(s)] = f \o SubSeq(q, 1, Len(q))]
        /\ out' = [out EXCEPT ![s] = SubSeq(q, Len(q) + 1, Len(q))]
    BY <1>5 DEF Wrote, Set
  <2>2. /\ f \o SubSeq(q, 1, Len(q)) \in Seq(Output)
        /\ SubSeq(q, Len(q) + 1, Len(q)) \in Seq(Output)
        /\ q \in Lines => f \o SubSeq(q, 1, Len(q)) \in Lines
    BY <1>2, WrittenLines
  <2> HIDE DEF q, f
  <2>3. LineTypes'
    BY <1>1, <1>2, <1>5, <2>1, <2>2 DEF LineInv, LineTypes, Places, Relaying, WriteOut
  <2>4. QED
    BY <1>1, <1>2, <1>3, <1>5, <2>1, <2>2, <2>3 DEF LineInv, LineTypes, Whole
<1>6. CASE /\ \E n \in 0..(Len(q) - 1) : Wrote(s, n)
           /\ at' = [at EXCEPT ![s] = "failed"] \/ at' = at
  <2>1. PICK n \in 0..(Len(q) - 1) :
             /\ file' = [file EXCEPT ![Sink(s)] = f \o SubSeq(q, 1, n)]
             /\ out' = [out EXCEPT ![s] = SubSeq(q, n + 1, Len(q))]
    BY <1>6 DEF Wrote, Set
  <2>2. n \in 0..Len(q) /\ n < Len(q)
    BY <1>2
  <2>3. /\ f \o SubSeq(q, 1, n) \in Seq(Output)
        /\ SubSeq(q, n + 1, Len(q)) \in Seq(Output)
        /\ q \in Lines => SubSeq(q, n + 1, Len(q)) \in Lines
    BY <1>2, <2>2, WrittenLines
  <2> HIDE DEF q, f
  <2>4. LineTypes'
    BY <1>1, <1>2, <1>6, <2>1, <2>3 DEF LineInv, LineTypes, Places, Relaying, WriteOut
  <2>5. QED
    BY <1>1, <1>2, <1>3, <1>6, <2>1, <2>3, <2>4 DEF LineInv, LineTypes
<1>7. QED
  BY <1>4, <1>5, <1>6 DEF WriteOut, Retry, Goto, Set, LineInv, LineTypes

\* What a rotation of file k may leave of the archives.
LEMMA ArchivedWhole ==
  ASSUME NEW k \in Stream, archives[k] \in Seq(Whole), file[k] \in Whole,
         NEW a \in Applied(k)
  PROVE  a.old \in Seq(Whole) /\ a.now \in {<<>>, file[k]}
<1>1. Append(archives[k], file[k]) \in Seq(Whole)
  OBVIOUS
<1>2. ASSUME archives[k] # <<>> PROVE Append(Front(archives[k]), file[k]) \in Seq(Whole)
  <2>1. Len(archives[k]) - 1 \in Int /\ \A i \in 1..(Len(archives[k]) - 1) : archives[k][i] \in Whole
    OBVIOUS
  <2>2. Front(archives[k]) \in Seq(Whole)
    BY <2>1, SubSeqProperties, 1 \in Int DEF Front
  <2>3. QED
    BY <2>2
<1>3. \A b \in Archived(k) : b \in Seq(Whole)
  BY <1>1, <1>2 DEF Archived
<1>4. QED
  BY <1>3 DEF Applied

LEMMA RotateLines ==
  ASSUME LineInv, NEW s \in Stream, RotateSink(s), produced' = produced
  PROVE  LineInv'
<1> DEFINE k == Sink(s)
<1>1. /\ at[s] = "rotate" /\ at' = [at EXCEPT ![s] = "done"]
      /\ UNCHANGED <<config, pipe, chunk, out>>
      /\ k \in Stream /\ (~config.shared => k = s)
  BY SinkIsStream DEF RotateSink, Set, Goto
<1>2. CASE UNCHANGED files
  BY <1>1, <1>2 DEF files, LineInv, LineTypes, Places, Relaying, RotateSink
<1>3. CASE \E a \in Applied(k) :
              /\ archives' = [archives EXCEPT ![k] = a.old]
              /\ \/ file' = [file EXCEPT ![k] = <<>>]
                 \/ file' = [file EXCEPT ![k] = a.now]
  <2>1. PICK a \in Applied(k) :
              /\ archives' = [archives EXCEPT ![k] = a.old]
              /\ \/ file' = [file EXCEPT ![k] = <<>>]
                 \/ file' = [file EXCEPT ![k] = a.now]
    BY <1>3
  <2>2. a.now \in {<<>>, file[k]}
    BY <2>1 DEF Applied
  <2>3. ~config.shared => a.old \in Seq(Whole)
    BY <1>1, <2>1, ArchivedWhole DEF LineInv
  <2>4. a.now \in Seq(Output) /\ <<>> \in Seq(Output)
    <3>1. file[k] \in Seq(Output)
      BY <1>1 DEF LineInv, LineTypes
    <3>2. <<>> \in Seq(Output)
      OBVIOUS
    <3>3. QED
      BY <2>2, <3>1, <3>2
  <2> HIDE DEF k
  <2>5. LineTypes'
    BY <1>1, <2>1, <2>4, ZenonT(40) DEF LineInv, LineTypes, Places, Relaying, RotateSink
  <2>6. DOMAIN archives' = Stream
    BY <2>1 DEF LineInv
  <2>7. ASSUME ~config.shared, NEW r \in Stream
        PROVE  /\ at'[r] = "head" => out'[r] \in Lines
               /\ at'[r] = "rotate" => file'[r] \in Whole
               /\ archives'[r] \in Seq(Whole)
    BY <1>1, <2>1, <2>3, <2>7 DEF LineInv, LineTypes
  <2>8. QED
    BY <1>1, <2>5, <2>6, <2>7 DEF LineInv
<1>4. QED
  BY <1>2, <1>3 DEF RotateSink, Set

LEMMA RelayLines ==
  ASSUME LineInv, NEW s \in Stream, Relay(s), produced' = produced PROVE LineInv'
<1>1. CASE BeginRead(s)
  BY <1>1 DEF BeginRead, Goto, Set, files, LineInv, LineTypes, Places, Relaying
<1>2. CASE ReadReturns(s)
  <2> DEFINE p == pipe[s]
  <2>1. p \in Seq(Pieces) /\ Len(p) \in Nat
    BY DEF LineInv, LineTypes
  <2>2. /\ UNCHANGED <<config, out, file, archives>>
        /\ \/ /\ \E k \in 1..Len(p) :
                   /\ chunk' = [chunk EXCEPT ![s] = SubSeq(p, 1, k)]
                   /\ pipe' = [pipe EXCEPT ![s] = SubSeq(p, k + 1, Len(p))]
              /\ at' = [at EXCEPT ![s] = "deliver"]
           \/ /\ \E place \in {"ended", "failed", "read"} : at' = [at EXCEPT ![s] = place]
              /\ UNCHANGED <<pipe, chunk>>
    BY <1>2 DEF ReadReturns, Retry, Goto, Set, files
  <2>3. \A k \in 1..Len(p) : SubSeq(p, 1, k) \in Seq(Pieces) /\ SubSeq(p, k + 1, Len(p)) \in Seq(Pieces)
    BY <2>1
  <2> HIDE DEF p
  <2>4. LineTypes'
    BY <2>2, <2>3, ZenonT(40) DEF LineInv, LineTypes, Places, Relaying
  <2>5. QED
    BY <2>2, <2>4 DEF LineInv, LineTypes
<1>3. CASE Deliver(s)
  BY <1>3, DeliverLines
<1>4. CASE WriteOut(s)
  BY <1>4, WriteLines
<1>5. CASE RotateSink(s)
  BY <1>5, RotateLines
<1>6. CASE RotationDone(s)
  <2>1. /\ out' = [out EXCEPT ![s] = Stamp(chunk[s], midLine[s])]
        /\ chunk' = [chunk EXCEPT ![s] = <<>>]
        /\ at' = [at EXCEPT ![s] = IF chunk[s] = <<>> THEN "read" ELSE "rest"]
        /\ UNCHANGED <<config, pipe, file, archives>>
    BY <1>6 DEF RotationDone, Set, Goto, files
  <2>2. Stamp(chunk[s], midLine[s]) \in Seq(Output)
    BY StampLines DEF LineInv, LineTypes
  <2>3. LineTypes'
    BY <2>1, <2>2 DEF LineInv, LineTypes, Places, Relaying
  <2>4. QED
    BY <2>1, <2>3 DEF LineInv, LineTypes
<1>7. QED
  BY <1>1, <1>2, <1>3, <1>4, <1>5, <1>6 DEF Relay

LEMMA SameLines ==
  ASSUME LineInv, UNCHANGED <<config, at, pipe, chunk, out, file, archives, produced>>
  PROVE  LineInv'
BY DEF LineInv, LineTypes

LEMMA StepLines ==
  ASSUME LineInv, [Next]_vars PROVE LineInv'
<1> USE DEF goroutine, files
<1>1. CASE OpenStdin \/ OpenFile \/ CreatePipe \/ SetInherit \/ Duplicate
  BY <1>1, SameLines DEF OpenStdin, OpenFile, CreatePipe, SetInherit, Duplicate, Untouched
<1>2. CASE Begin
  <2>1. /\ at' = [s \in Stream |-> IF s \in Piped THEN "read" ELSE "none"]
        /\ UNCHANGED <<config, pipe, chunk, out, file, archives, produced>>
    BY <1>2 DEF Begin
  <2>2. at' \in [Stream -> Places] /\ \A s \in Stream : at'[s] \in {"read", "none"}
    BY <2>1 DEF Places, Relaying
  <2>3. QED
    BY <2>1, <2>2 DEF LineInv, LineTypes
<1>3. CASE HookStarts \/ Request
  BY <1>3, SameLines DEF HookStarts, Request
<1>4. CASE CloseStarts \/ CloseSources \/ CloseSinks
  BY <1>4, SameLines DEF CloseStarts, CloseSources, CloseSinks, Untouched
<1>5. ASSUME NEW s \in Stream, Write(s) PROVE LineInv'
  <2>1. /\ produced' = [produced EXCEPT ![s] = @ + 1]
        /\ pipe' = [pipe EXCEPT ![s] = Append(@, Piece(s, produced'[s]))]
        /\ UNCHANGED <<config, at, chunk, out, file, archives>>
    BY <1>5 DEF Write, Set
  <2>2. produced' \in [Stream -> Nat]
    BY <2>1 DEF LineInv, LineTypes
  <2>3. Piece(s, produced'[s]) \in Pieces
    BY <2>2 DEF Piece, Pieces
  <2>4. pipe' \in [Stream -> Seq(Pieces)]
    BY <2>1, <2>3 DEF LineInv, LineTypes
  <2>5. QED
    BY <2>1, <2>2, <2>4 DEF LineInv, LineTypes
<1>6. CASE \E s \in Stream : RunRelay(s)
  BY <1>6, RelayLines DEF RunRelay
<1>7. CASE \E who \in {"child", "hook"} : ProcessEnds(who)
  BY <1>7, SameLines DEF ProcessEnds
<1>8. CASE UNCHANGED vars
  BY <1>8, SameLines DEF vars
<1>9. QED
  BY <1>1, <1>2, <1>3, <1>4, <1>5, <1>6, <1>7, <1>8 DEF Next, Supervise

\* Wherever pieces end lines, however the output is cut into chunks and whichever
\* writes fall short: a rotated file that no other stream shares ends with a whole line.
THEOREM RotationsAtLineEnds == Spec => []RotatesAtLineEnds
<1>1. LineInv => RotatesAtLineEnds
  <2> SUFFICES ASSUME LineInv, NEW k \in Stream, ~config.shared,
                      NEW i \in DOMAIN archives[k], archives[k][i] # <<>>
               PROVE  Last(archives[k][i]).n \in LineEnds
    BY DEF RotatesAtLineEnds
  <2>1. archives[k][i] \in Whole
    BY DEF LineInv
  <2>2. QED
    BY <2>1 DEF Whole, Lines, Last
<1>2. QED
  BY <1>1, InitLines, StepLines, PTL DEF Spec

-----------------------------------------------------------------------------
(* The stream on its way.  Pipe, chunk and what is left to write hold      *)
(* consecutive pieces, the stamps of the latter are right, and the line    *)
(* state says where the next chunk begins.                                 *)

StampedRight(q) ==
  \A i \in DOMAIN q : q[i].stamped <=> config.timestamp /\ (q[i].n = 1 \/ q[i].n - 1 \in LineEnds)

FlowOf(s) ==
  /\ Len(pipe[s]) + Len(chunk[s]) + Len(out[s]) <= produced[s]
  /\ Follow(pipe[s], s, Unread(s))
  /\ Follow(chunk[s], s, Delivered(s))
  /\ Follow(out[s], s, Written(s))
  /\ at[s] \notin {"head", "rest", "failed"} => out[s] = <<>>
  /\ at[s] \notin {"deliver", "head", "rotate", "done", "failed"} => chunk[s] = <<>>
  /\ midLine[s] <=> (Delivered(s) > 0 /\ Delivered(s) \notin LineEnds)
  /\ StampedRight(out[s])

FlowInv == /\ midLine \in [Stream -> BOOLEAN]
           /\ \A s \in Stream : FlowOf(s)

LEMMA InitFlow == Init => FlowInv
<1> SUFFICES ASSUME Init PROVE FlowInv
  OBVIOUS
<1>1. /\ midLine = [s \in Stream |-> FALSE] /\ produced = [s \in Stream |-> 0]
      /\ pipe = [s \in Stream |-> <<>>] /\ chunk = [s \in Stream |-> <<>>]
      /\ out = [s \in Stream |-> <<>>] /\ at = [s \in Stream |-> "none"]
  BY DEF Init
<1>2. ASSUME NEW s \in Stream PROVE FlowOf(s)
  <2>1. /\ midLine[s] = FALSE /\ produced[s] = 0
        /\ pipe[s] = <<>> /\ chunk[s] = <<>> /\ out[s] = <<>>
    BY <1>1
  <2>2. /\ Len(pipe[s]) = 0 /\ Len(chunk[s]) = 0 /\ Len(out[s]) = 0 /\ DOMAIN <<>> = {}
        /\ 0 - 0 = 0
    BY <2>1
  <2>3. Unread(s) = 0 /\ Delivered(s) = 0 /\ Written(s) = 0
    BY <2>1, <2>2, Zenon DEF Unread, Delivered, Written
  <2>4. QED
    BY <2>1, <2>2, <2>3 DEF FlowOf, Follow, StampedRight
<1>3. QED
  BY <1>1, <1>2 DEF FlowInv

\* The relay moves on and its data stays.
LEMMA MovedFlow ==
  ASSUME NEW s \in Stream, FlowOf(s), config' = config,
         pipe'[s] = pipe[s], chunk'[s] = chunk[s], out'[s] = out[s],
         midLine'[s] = midLine[s], produced'[s] = produced[s],
         at'[s] \notin {"head", "rest", "failed"} => out[s] = <<>>,
         at'[s] \notin {"deliver", "head", "rotate", "done", "failed"} => chunk[s] = <<>>
  PROVE  FlowOf(s)' /\ Written(s)' = Written(s)
<1>1. Unread(s)' = Unread(s) /\ Delivered(s)' = Delivered(s) /\ Written(s)' = Written(s)
  BY DEF Unread, Delivered, Written
<1>2. /\ Follow(pipe[s], s, Unread(s))' /\ Follow(chunk[s], s, Delivered(s))'
      /\ Follow(out[s], s, Written(s))'
  BY <1>1 DEF FlowOf, Follow
<1>3. StampedRight(out[s])'
  BY DEF FlowOf, StampedRight
<1>4. QED
  BY <1>1, <1>2, <1>3 DEF FlowOf

LEMMA SameFlow ==
  ASSUME NEW s \in Stream, FlowOf(s), config' = config, at'[s] = at[s],
         pipe'[s] = pipe[s], chunk'[s] = chunk[s], out'[s] = out[s],
         midLine'[s] = midLine[s], produced'[s] = produced[s]
  PROVE  FlowOf(s)' /\ Written(s)' = Written(s)
<1>1. /\ at[s] \notin {"head", "rest", "failed"} => out[s] = <<>>
      /\ at[s] \notin {"deliver", "head", "rotate", "done", "failed"} => chunk[s] = <<>>
  BY DEF FlowOf
<1>2. QED
  BY <1>1, MovedFlow

\* A prefix of what follows n follows n, the rest follows the prefix.
LEMMA FollowParts ==
  ASSUME NEW T, NEW q \in Seq(T), NEW s, NEW n \in Nat, NEW k \in 0..Len(q), Follow(q, s, n)
  PROVE  /\ SubSeq(q, 1, k) \in Seq(T) /\ Len(SubSeq(q, 1, k)) = k
         /\ Follow(SubSeq(q, 1, k), s, n)
         /\ SubSeq(q, k + 1, Len(q)) \in Seq(T) /\ Len(SubSeq(q, k + 1, Len(q))) = Len(q) - k
         /\ Follow(SubSeq(q, k + 1, Len(q)), s, n + k)
<1>0. Len(q) \in Nat /\ k \in Nat /\ k <= Len(q)
  OBVIOUS
<1>1. /\ SubSeq(q, 1, k) \in Seq(T) /\ Len(SubSeq(q, 1, k)) = k
      /\ \A i \in 1..k : SubSeq(q, 1, k)[i] = q[i] /\ i \in 1..Len(q)
  BY <1>0
<1>2. /\ SubSeq(q, k + 1, Len(q)) \in Seq(T)
      /\ Len(SubSeq(q, k + 1, Len(q))) = Len(q) - k
      /\ \A i \in 1..(Len(q) - k) :
            SubSeq(q, k + 1, Len(q))[i] = q[k + i] /\ k + i \in 1..Len(q)
  BY <1>0
<1>3. \A i \in 1..Len(q) : q[i].of = s /\ q[i].n = n + i
  BY DEF Follow
<1>4. Follow(SubSeq(q, 1, k), s, n)
  BY <1>1, <1>3 DEF Follow
<1>5. \A i \in 1..(Len(q) - k) : n + (k + i) = (n + k) + i
  BY <1>0
<1>6. Follow(SubSeq(q, k + 1, Len(q)), s, n + k)
  BY <1>2, <1>3, <1>5 DEF Follow
<1>7. QED
  BY <1>1, <1>2, <1>4, <1>6

\* Stamping numbers nothing anew, and the line state carries the stamps across chunks.
LEMMA StampFlow ==
  ASSUME NEW c \in Seq(Pieces), NEW s, NEW n \in Nat, Follow(c, s, n), NEW mid \in BOOLEAN,
         mid <=> (n > 0 /\ n \notin LineEnds)
  PROVE  /\ Stamp(c, mid) \in Seq(Output) /\ Len(Stamp(c, mid)) = Len(c)
         /\ Follow(Stamp(c, mid), s, n)
         /\ StampedRight(Stamp(c, mid))
         /\ StillMidLine(c, mid) \in BOOLEAN
         /\ StillMidLine(c, mid) <=> (n + Len(c) > 0 /\ n + Len(c) \notin LineEnds)
<1>1. Len(c) \in Nat /\ \A i \in 1..Len(c) : c[i].of = s /\ c[i].n = n + i
  BY DEF Follow
<1>2. Stamp(c, mid) \in Seq(Output) /\ Len(Stamp(c, mid)) = Len(c)
  BY StampLines
<1>3. ASSUME NEW i \in 1..Len(c)
      PROVE  /\ Stamp(c, mid)[i].of = s /\ Stamp(c, mid)[i].n = n + i
             /\ Stamp(c, mid)[i].stamped <=> /\ config.timestamp
                                             /\ IF i = 1 THEN ~mid ELSE EndsLine(c[i - 1])
  BY <1>1 DEF Stamp
<1>4. Follow(Stamp(c, mid), s, n)
  BY <1>2, <1>3 DEF Follow
<1>5. ASSUME NEW i \in 1..Len(c)
      PROVE  (IF i = 1 THEN ~mid ELSE EndsLine(c[i - 1]))
               <=> (n + i = 1 \/ (n + i) - 1 \in LineEnds)
  <2>1. CASE i = 1
    <3>1. (n + i = 1 <=> ~(n > 0)) /\ (n + i) - 1 = n
      BY <2>1
    <3>2. QED
      BY <2>1, <3>1
  <2>2. CASE i # 1
    <3>1. i - 1 \in 1..Len(c) /\ n + i # 1 /\ (n + i) - 1 = n + (i - 1)
      BY <1>1, <2>2
    <3>2. QED
      BY <1>1, <2>2, <3>1 DEF EndsLine
  <2>3. QED
    BY <2>1, <2>2
<1>6. StampedRight(Stamp(c, mid))
  BY <1>2, <1>3, <1>5 DEF StampedRight
<1>7. /\ StillMidLine(c, mid) \in BOOLEAN
      /\ StillMidLine(c, mid) <=> (n + Len(c) > 0 /\ n + Len(c) \notin LineEnds)
  <2>1. CASE c = <<>>
    <3>1. n + Len(c) = n
      BY <2>1
    <3>2. QED
      BY <2>1, <3>1 DEF StillMidLine
  <2>2. CASE c # <<>>
    <3>1. Len(c) \in 1..Len(c) /\ Last(c) = c[Len(c)] /\ n + Len(c) > 0
      BY <1>1, <2>2 DEF Last
    <3>2. Last(c).n = n + Len(c)
      BY <1>1, <3>1
    <3>3. QED
      BY <2>2, <3>1, <3>2 DEF StillMidLine, EndsLine
  <2>3. QED
    BY <2>1, <2>2
<1>8. QED
  BY <1>2, <1>4, <1>6, <1>7

\* The numbers that the invariant calculates with.
LEMMA FlowNumbers ==
  ASSUME LineTypes, NEW s \in Stream, FlowOf(s)
  PROVE  \E t, p, c, o \in Nat :
            /\ t = produced[s] /\ p = Len(pipe[s]) /\ c = Len(chunk[s]) /\ o = Len(out[s])
            /\ p + c + o <= t
            /\ Unread(s) = t - p /\ Delivered(s) = (t - p) - c /\ Written(s) = ((t - p) - c) - o
            /\ Unread(s) \in Nat /\ Delivered(s) \in Nat /\ Written(s) \in Nat
<1>1. /\ Len(pipe[s]) \in Nat /\ Len(chunk[s]) \in Nat /\ Len(out[s]) \in Nat
      /\ produced[s] \in Nat
  BY DEF LineTypes
<1>2. PICK t, p, c, o \in Nat :
         t = produced[s] /\ p = Len(pipe[s]) /\ c = Len(chunk[s]) /\ o = Len(out[s])
  BY <1>1
<1>3. p + c + o <= t
  BY <1>2 DEF FlowOf
<1>4. Unread(s) = t - p /\ Delivered(s) = (t - p) - c /\ Written(s) = ((t - p) - c) - o
  BY <1>2, Zenon DEF Unread, Delivered, Written
<1>5. t - p \in Nat /\ (t - p) - c \in Nat /\ ((t - p) - c) - o \in Nat
  BY <1>3
<1>6. QED
  BY <1>2, <1>3, <1>4, <1>5, ZenonT(40)

\* What k pieces change in the calculation when they are read, stamped or written.
LEMMA ReadSums ==
  ASSUME NEW t \in Nat, NEW p \in Nat, NEW k \in Nat, p <= t, k <= p
  PROVE  /\ t - (p - k) = (t - p) + k /\ (t - (p - k)) - k = t - p
         /\ ((t - (p - k)) - k) - 0 = t - p /\ (t - p) - 0 = t - p
         /\ (p - k) + k + 0 <= t
OBVIOUS

LEMMA EmitSums ==
  ASSUME NEW t \in Nat, NEW p \in Nat, NEW c \in Nat, NEW o \in Nat, NEW k \in Nat,
         p + c + o <= t, k <= c
  PROVE  /\ (t - p) - (c - k) = ((t - p) - c) + k
         /\ ((t - p) - (c - k)) - k = (t - p) - c
         /\ p + (c - k) + k <= t
OBVIOUS

LEMMA WroteSums ==
  ASSUME NEW t \in Nat, NEW p \in Nat, NEW c \in Nat, NEW o \in Nat, NEW k \in Nat,
         p + c + o <= t, k <= o
  PROVE  /\ ((t - p) - c) - (o - k) = (((t - p) - c) - o) + k
         /\ p + c + (o - k) <= t
OBVIOUS

\* A chunk comes from the front of the pipe.
LEMMA ReadFlow ==
  ASSUME LineTypes, NEW s \in Stream, FlowOf(s), at[s] = "reading",
         NEW k \in 1..Len(pipe[s]), at'[s] = "deliver",
         chunk'[s] = SubSeq(pipe[s], 1, k),
         pipe'[s] = SubSeq(pipe[s], k + 1, Len(pipe[s])),
         UNCHANGED <<config, out, midLine, produced>>
  PROVE  FlowOf(s)' /\ Written(s)' = Written(s)
<1>1. chunk[s] = <<>> /\ out[s] = <<>> /\ Len(chunk[s]) = 0 /\ Len(out[s]) = 0
  BY DEF FlowOf
<1>2. pipe[s] \in Seq(Pieces) /\ k \in 0..Len(pipe[s]) /\ Follow(pipe[s], s, Unread(s))
  BY DEF LineTypes, FlowOf
<1>3. PICK t, p, c, o \in Nat :
            /\ t = produced[s] /\ p = Len(pipe[s]) /\ c = Len(chunk[s]) /\ o = Len(out[s])
            /\ p + c + o <= t
            /\ Unread(s) = t - p /\ Delivered(s) = (t - p) - c /\ Written(s) = ((t - p) - c) - o
            /\ Unread(s) \in Nat
  BY FlowNumbers
<1>4. /\ Len(chunk'[s]) = k /\ Follow(chunk'[s], s, Unread(s))
      /\ Len(pipe'[s]) = p - k /\ Follow(pipe'[s], s, Unread(s) + k)
  <2>1. Unread(s) \in Nat /\ p = Len(pipe[s])
    BY <1>3
  <2>2. /\ Len(SubSeq(pipe[s], 1, k)) = k /\ Follow(SubSeq(pipe[s], 1, k), s, Unread(s))
        /\ Len(SubSeq(pipe[s], k + 1, Len(pipe[s]))) = Len(pipe[s]) - k
        /\ Follow(SubSeq(pipe[s], k + 1, Len(pipe[s])), s, Unread(s) + k)
    BY <1>2, <2>1, FollowParts, SMTT(30)
  <2>3. QED
    BY <2>1, <2>2, Zenon
<1>5. c = 0 /\ o = 0 /\ k \in Nat /\ k <= p
  <2>1. p = Len(pipe[s]) /\ c = Len(chunk[s]) /\ o = Len(out[s])
    BY <1>3
  <2>2. QED
    BY <1>1, <2>1
<1>6. /\ Unread(s)' = t - (p - k) /\ Delivered(s)' = (t - (p - k)) - k
      /\ Written(s)' = ((t - (p - k)) - k) - 0
      /\ (p - k) + k + 0 <= t => (Len(pipe[s]) + Len(chunk[s]) + Len(out[s]) <= produced[s])'
  <2>1. produced'[s] = t /\ Len(pipe'[s]) = p - k /\ Len(chunk'[s]) = k /\ Len(out'[s]) = 0
    BY <1>1, <1>3, <1>4, Zenon
  <2>2. QED
    BY <2>1, Zenon DEF Unread, Delivered, Written
<1>7. /\ t - (p - k) = (t - p) + k /\ (t - (p - k)) - k = t - p
      /\ ((t - (p - k)) - k) - 0 = t - p /\ (t - p) - c = t - p
      /\ ((t - p) - c) - o = t - p
      /\ (p - k) + k + 0 <= t
  <2>1. p <= t /\ t \in Nat /\ p \in Nat
    BY <1>3, <1>5
  <2>2. QED
    BY <1>5, <2>1, ReadSums
<1>8. /\ Unread(s)' = Unread(s) + k /\ Delivered(s)' = Unread(s) /\ Written(s)' = Unread(s)
      /\ Delivered(s) = Unread(s) /\ Written(s) = Unread(s)
      /\ (Len(pipe[s]) + Len(chunk[s]) + Len(out[s]) <= produced[s])'
  BY <1>3, <1>6, <1>7, Zenon
<1>9. Follow(out[s], s, Written(s))' /\ StampedRight(out[s])'
  BY <1>1 DEF Follow, StampedRight
<1>10. Follow(pipe[s], s, Unread(s))' /\ Follow(chunk[s], s, Delivered(s))'
  BY <1>4, <1>8 DEF Follow
<1>11. QED
  BY <1>1, <1>8, <1>9, <1>10 DEF FlowOf

\* The first k pieces of the chunk are stamped and given to writeAll.
LEMMA EmitFlow ==
  ASSUME LineTypes, midLine \in [Stream -> BOOLEAN], NEW s \in Stream, FlowOf(s),
         out[s] = <<>>, NEW k \in 0..Len(chunk[s]),
         out'[s] = Stamp(SubSeq(chunk[s], 1, k), midLine[s]),
         chunk'[s] = SubSeq(chunk[s], k + 1, Len(chunk[s])),
         midLine'[s] = StillMidLine(SubSeq(chunk[s], 1, k), midLine[s]),
         at'[s] \notin {"head", "rest", "failed"} => k = 0,
         at'[s] \notin {"deliver", "head", "rotate", "done", "failed"} => k = Len(chunk[s]),
         UNCHANGED <<config, pipe, produced>>
  PROVE  FlowOf(s)' /\ midLine'[s] \in BOOLEAN /\ Written(s)' = Written(s)
<1> DEFINE now == SubSeq(chunk[s], 1, k)
           rest == SubSeq(chunk[s], k + 1, Len(chunk[s]))
<1>1. chunk[s] \in Seq(Pieces) /\ Follow(chunk[s], s, Delivered(s)) /\ Len(out[s]) = 0
  BY DEF LineTypes, FlowOf
<1>2. PICK t, p, c, o \in Nat :
            /\ t = produced[s] /\ p = Len(pipe[s]) /\ c = Len(chunk[s]) /\ o = Len(out[s])
            /\ p + c + o <= t
            /\ Unread(s) = t - p /\ Delivered(s) = (t - p) - c /\ Written(s) = ((t - p) - c) - o
            /\ Delivered(s) \in Nat
  BY FlowNumbers
<1>3. /\ now \in Seq(Pieces) /\ Len(now) = k /\ Follow(now, s, Delivered(s))
      /\ rest \in Seq(Pieces) /\ Len(rest) = c - k
      /\ Follow(rest, s, Delivered(s) + k)
  <2>1. Delivered(s) \in Nat /\ c = Len(chunk[s])
    BY <1>2
  <2>2. /\ now \in Seq(Pieces) /\ Len(now) = k /\ Follow(now, s, Delivered(s))
        /\ rest \in Seq(Pieces) /\ Len(rest) = Len(chunk[s]) - k
        /\ Follow(rest, s, Delivered(s) + k)
    BY <1>1, <2>1, FollowParts, SMTT(30)
  <2>3. QED
    BY <2>1, <2>2, Zenon
<1>4. midLine[s] \in BOOLEAN /\ (midLine[s] <=> (Delivered(s) > 0 /\ Delivered(s) \notin LineEnds))
  BY DEF FlowOf
<1>5. out'[s] = Stamp(now, midLine[s]) /\ midLine'[s] = StillMidLine(now, midLine[s])
      /\ chunk'[s] = rest
  OBVIOUS
<1> HIDE DEF now, rest
<1>6. /\ out'[s] \in Seq(Output) /\ Len(out'[s]) = k /\ Follow(out'[s], s, Delivered(s))
      /\ StampedRight(Stamp(now, midLine[s])) /\ midLine'[s] \in BOOLEAN
      /\ midLine'[s] <=> (Delivered(s) + k > 0 /\ Delivered(s) + k \notin LineEnds)
  <2>1. Delivered(s) \in Nat
    BY <1>2
  <2>2. QED
    <3>1. /\ Stamp(now, midLine[s]) \in Seq(Output) /\ Len(Stamp(now, midLine[s])) = Len(now)
          /\ Follow(Stamp(now, midLine[s]), s, Delivered(s))
          /\ StampedRight(Stamp(now, midLine[s]))
          /\ StillMidLine(now, midLine[s]) \in BOOLEAN
          /\ StillMidLine(now, midLine[s])
               <=> (Delivered(s) + Len(now) > 0 /\ Delivered(s) + Len(now) \notin LineEnds)
      BY <1>3, <1>4, <2>1, StampFlow
    <3>2. QED
      BY <1>3, <1>5, <3>1, Zenon
<1>7. k <= c /\ k \in Nat /\ o = 0
  <2>1. c = Len(chunk[s]) /\ o = Len(out[s])
    BY <1>2
  <2>2. QED
    BY <1>1, <2>1
<1>8. /\ Unread(s)' = Unread(s) /\ Delivered(s)' = Delivered(s) + k
      /\ Written(s)' = Delivered(s) /\ Written(s) = Delivered(s)
      /\ (Len(pipe[s]) + Len(chunk[s]) + Len(out[s]) <= produced[s])'
  <2>1. /\ Unread(s)' = t - p /\ Delivered(s)' = (t - p) - (c - k)
        /\ Written(s)' = ((t - p) - (c - k)) - k
        /\ p + (c - k) + k <= t => (Len(pipe[s]) + Len(chunk[s]) + Len(out[s]) <= produced[s])'
    <3>1. /\ produced'[s] = t /\ Len(pipe'[s]) = p /\ Len(chunk'[s]) = c - k
          /\ Len(out'[s]) = k
      BY <1>2, <1>3, <1>5, <1>6, Zenon
    <3>2. QED
      BY <3>1, Zenon DEF Unread, Delivered, Written
  <2>2. /\ (t - p) - (c - k) = ((t - p) - c) + k
        /\ ((t - p) - (c - k)) - k = (t - p) - c
        /\ p + (c - k) + k <= t /\ ((t - p) - c) - o = (t - p) - c
    <3>1. p + c + o <= t /\ t \in Nat /\ p \in Nat /\ c \in Nat /\ o \in Nat
      BY <1>2
    <3>2. QED
      BY <1>7, <3>1, EmitSums
  <2>3. QED
    BY <1>2, <2>1, <2>2, Zenon
<1>9. Follow(pipe[s], s, Unread(s))'
  BY <1>8 DEF FlowOf, Follow
<1>10. Follow(chunk[s], s, Delivered(s))' /\ Follow(out[s], s, Written(s))'
  BY <1>3, <1>5, <1>6, <1>8 DEF Follow
<1>11. StampedRight(out[s])'
  BY <1>5, <1>6 DEF StampedRight
<1>12. /\ (at[s] \notin {"head", "rest", "failed"} => out[s] = <<>>)'
       /\ (at[s] \notin {"deliver", "head", "rotate", "done", "failed"} => chunk[s] = <<>>)'
  <2>1. ASSUME k = 0 PROVE out'[s] = <<>>
    BY <1>6, <2>1
  <2>2. ASSUME k = Len(chunk[s]) PROVE chunk'[s] = <<>>
    BY <1>2, <1>3, <1>5, <2>2
  <2>3. QED
    BY <2>1, <2>2
<1>13. QED
  BY <1>6, <1>8, <1>9, <1>10, <1>11, <1>12 DEF FlowOf

\* writeAll gives the first k pieces to the file.
LEMMA WroteFlow ==
  ASSUME LineTypes, NEW s \in Stream, FlowOf(s), NEW k \in 0..Len(out[s]),
         out'[s] = SubSeq(out[s], k + 1, Len(out[s])),
         at[s] \in {"head", "rest"},
         \/ at'[s] \in {at[s], "failed"}
         \/ k = Len(out[s]) /\ at'[s] = IF at[s] = "head" THEN "rotate" ELSE "read",
         UNCHANGED <<config, pipe, chunk, midLine, produced>>
  PROVE  FlowOf(s)' /\ Written(s)' = Written(s) + k
<1>1. out[s] \in Seq(Output) /\ Follow(out[s], s, Written(s)) /\ StampedRight(out[s])
  BY DEF LineTypes, FlowOf
<1>2. PICK t, p, c, o \in Nat :
            /\ t = produced[s] /\ p = Len(pipe[s]) /\ c = Len(chunk[s]) /\ o = Len(out[s])
            /\ p + c + o <= t
            /\ Unread(s) = t - p /\ Delivered(s) = (t - p) - c /\ Written(s) = ((t - p) - c) - o
            /\ Written(s) \in Nat
  BY FlowNumbers
<1>3. /\ out'[s] \in Seq(Output) /\ Len(out'[s]) = o - k
      /\ Follow(out'[s], s, Written(s) + k)
  <2>1. Written(s) \in Nat /\ o = Len(out[s])
    BY <1>2
  <2>2. /\ SubSeq(out[s], k + 1, Len(out[s])) \in Seq(Output)
        /\ Len(SubSeq(out[s], k + 1, Len(out[s]))) = Len(out[s]) - k
        /\ Follow(SubSeq(out[s], k + 1, Len(out[s])), s, Written(s) + k)
    BY <1>1, <2>1, FollowParts, SMTT(30)
  <2>3. QED
    BY <2>1, <2>2, Zenon
<1>4. /\ Unread(s)' = Unread(s) /\ Delivered(s)' = Delivered(s)
      /\ Written(s)' = Written(s) + k
      /\ (Len(pipe[s]) + Len(chunk[s]) + Len(out[s]) <= produced[s])'
  <2>1. /\ Unread(s)' = t - p /\ Delivered(s)' = (t - p) - c
        /\ Written(s)' = ((t - p) - c) - (o - k)
        /\ p + c + (o - k) <= t => (Len(pipe[s]) + Len(chunk[s]) + Len(out[s]) <= produced[s])'
    <3>1. /\ produced'[s] = t /\ Len(pipe'[s]) = p /\ Len(chunk'[s]) = c
          /\ Len(out'[s]) = o - k
      BY <1>2, <1>3, Zenon
    <3>2. QED
      BY <3>1, Zenon DEF Unread, Delivered, Written
  <2>2. k \in Nat /\ k <= o
    <3>1. o = Len(out[s])
      BY <1>2
    <3>2. QED
      BY <3>1
  <2>3. /\ ((t - p) - c) - (o - k) = (((t - p) - c) - o) + k
        /\ p + c + (o - k) <= t
    <3>1. p + c + o <= t /\ t \in Nat /\ p \in Nat /\ c \in Nat /\ o \in Nat
      BY <1>2
    <3>2. QED
      BY <2>2, <3>1, WroteSums
  <2>4. QED
    BY <1>2, <2>1, <2>3, Zenon
<1>5. k \in Nat
  OBVIOUS
<1>6. \A i \in DOMAIN out'[s] : k + i \in DOMAIN out[s] /\ out'[s][i] = out[s][k + i]
  <2> DEFINE q == out[s]
  <2>1. q \in Seq(Output) /\ k \in 0..Len(q) /\ out'[s] = SubSeq(q, k + 1, Len(q))
    BY <1>1
  <2> HIDE DEF q
  <2>2. \A i \in DOMAIN SubSeq(q, k + 1, Len(q)) :
           k + i \in DOMAIN q /\ SubSeq(q, k + 1, Len(q))[i] = q[k + i]
    BY <2>1
  <2>3. QED
    BY <2>1, <2>2 DEF q
<1>7. StampedRight(out[s])'
  BY <1>1, <1>6 DEF StampedRight
<1>8. /\ Follow(pipe[s], s, Unread(s))' /\ Follow(chunk[s], s, Delivered(s))'
      /\ Follow(out[s], s, Written(s))'
  BY <1>3, <1>4 DEF FlowOf, Follow
<1>9. /\ (at[s] \notin {"head", "rest", "failed"} => out[s] = <<>>)'
      /\ (at[s] \notin {"deliver", "head", "rotate", "done", "failed"} => chunk[s] = <<>>)'
  BY <1>2, <1>3 DEF FlowOf
<1>10. QED
  BY <1>4, <1>5, <1>7, <1>8, <1>9 DEF FlowOf


LEMMA OneFlow ==
  ASSUME FlowInv, NEW s \in Stream, FlowOf(s)', config' = config,
         midLine' \in [Stream -> BOOLEAN],
         \A r \in Stream \ {s} : /\ at'[r] = at[r] /\ pipe'[r] = pipe[r]
                                 /\ chunk'[r] = chunk[r] /\ out'[r] = out[r]
                                 /\ midLine'[r] = midLine[r] /\ produced'[r] = produced[r]
  PROVE  FlowInv' /\ \A r \in Stream \ {s} : Written(r)' = Written(r)
<1>1. \A r \in Stream \ {s} : FlowOf(r)' /\ Written(r)' = Written(r)
  BY SameFlow DEF FlowInv
<1>2. QED
  BY <1>1 DEF FlowInv

LEMMA RelayFlow ==
  ASSUME LineInv, FlowInv, NEW s \in Stream, Relay(s), produced' = produced
  PROVE  /\ FlowInv'
         /\ \A r \in Stream \ {s} : Written(r)' = Written(r)
         /\ WriteOut(s) \/ Written(s)' = Written(s)
<1>0. LineTypes /\ FlowOf(s) /\ midLine \in [Stream -> BOOLEAN]
  BY DEF LineInv, FlowInv
<1> DEFINE Elsewhere == \A r \in Stream \ {s} :
                            /\ at'[r] = at[r] /\ pipe'[r] = pipe[r] /\ chunk'[r] = chunk[r]
                            /\ out'[r] = out[r] /\ midLine'[r] = midLine[r]
                            /\ produced'[r] = produced[r]
<1>1. CASE BeginRead(s)
  <2>1. /\ at[s] = "read" /\ at'[s] \in {"reading", "failed"}
        /\ UNCHANGED <<config, pipe, chunk, out, midLine>> /\ Elsewhere
    BY <1>0, <1>1 DEF BeginRead, Goto, Set, LineTypes
  <2>2. FlowOf(s)' /\ Written(s)' = Written(s)
    BY <1>0, <2>1, MovedFlow DEF FlowOf
  <2>3. QED
    BY <1>0, <2>1, <2>2, OneFlow
<1>2. CASE ReadReturns(s)
  <2>1. CASE \E k \in 1..Len(pipe[s]) :
                /\ chunk' = [chunk EXCEPT ![s] = SubSeq(pipe[s], 1, k)]
                /\ pipe' = [pipe EXCEPT ![s] = SubSeq(pipe[s], k + 1, Len(pipe[s]))]
                /\ at' = [at EXCEPT ![s] = "deliver"]
    <3>1. PICK k \in 1..Len(pipe[s]) :
                /\ chunk' = [chunk EXCEPT ![s] = SubSeq(pipe[s], 1, k)]
                /\ pipe' = [pipe EXCEPT ![s] = SubSeq(pipe[s], k + 1, Len(pipe[s]))]
                /\ at' = [at EXCEPT ![s] = "deliver"]
      BY <2>1
    <3>2. /\ at[s] = "reading" /\ at'[s] = "deliver"
          /\ chunk'[s] = SubSeq(pipe[s], 1, k)
          /\ pipe'[s] = SubSeq(pipe[s], k + 1, Len(pipe[s]))
          /\ UNCHANGED <<config, out, midLine, produced>> /\ Elsewhere
      BY <1>0, <1>2, <3>1 DEF ReadReturns, LineTypes
    <3>3. FlowOf(s)' /\ Written(s)' = Written(s)
      BY <1>0, <3>2, ReadFlow
    <3>4. QED
      BY <1>0, <3>2, <3>3, OneFlow
  <2>2. CASE /\ \E place \in {"ended", "failed", "read"} : at' = [at EXCEPT ![s] = place]
             /\ UNCHANGED <<pipe, chunk>>
    <3>1. /\ at[s] = "reading" /\ at'[s] \in {"ended", "failed", "read"}
          /\ UNCHANGED <<config, pipe, chunk, out, midLine>> /\ Elsewhere
      BY <1>0, <1>2, <2>2 DEF ReadReturns, LineTypes
    <3>2. FlowOf(s)' /\ Written(s)' = Written(s)
      BY <1>0, <3>1, MovedFlow DEF FlowOf
    <3>3. QED
      BY <1>0, <3>1, <3>2, OneFlow
  <2>3. QED
    BY <1>2, <2>1, <2>2 DEF ReadReturns, Retry, Goto, Set
<1>3. CASE Deliver(s)
  <2> DEFINE c == chunk[s]
             k == IF Cut(s) > 0 THEN Cut(s) ELSE Len(c)
  <2>1. c \in Seq(Pieces) /\ Len(c) \in Nat /\ Cut(s) \in 0..Len(c) /\ out[s] = <<>>
    BY <1>0, <1>3, BoundaryEndsLine DEF LineTypes, Cut, Deliver, FlowOf
  <2>2. /\ SubSeq(c, 1, k) = IF Cut(s) > 0 THEN SubSeq(c, 1, Cut(s)) ELSE c
        /\ SubSeq(c, k + 1, Len(c)) = Remainder(c, Cut(s))
        /\ k \in 0..Len(c)
    <3>1. CASE Cut(s) > 0
      BY <2>1, <3>1 DEF Remainder
    <3>2. CASE ~(Cut(s) > 0)
      <4>1. k = Len(c) /\ Remainder(c, Cut(s)) = <<>>
        BY <3>2 DEF Remainder
      <4>2. SubSeq(c, 1, Len(c)) = c /\ SubSeq(c, Len(c) + 1, Len(c)) = <<>>
        BY <2>1
      <4>3. QED
        BY <2>1, <3>2, <4>1, <4>2
    <3>3. QED
      BY <3>1, <3>2
  <2>3. /\ out' = [out EXCEPT ![s] = Stamp(SubSeq(c, 1, k), midLine[s])]
        /\ chunk' = [chunk EXCEPT ![s] = SubSeq(c, k + 1, Len(c))]
        /\ midLine' = [midLine EXCEPT ![s] = StillMidLine(SubSeq(c, 1, k), midLine[s])]
        /\ at' = [at EXCEPT ![s] = IF Cut(s) > 0 THEN "head" ELSE "rest"]
        /\ UNCHANGED <<config, pipe>>
    BY <1>3, <2>2 DEF Deliver, Set, Goto
  <2>4. at'[s] \in {"head", "rest"} /\ (at'[s] = "rest" => k = Len(c))
    BY <1>0, <2>3 DEF LineTypes
  <2> HIDE DEF k
  <2>5. /\ out'[s] = Stamp(SubSeq(chunk[s], 1, k), midLine[s])
        /\ chunk'[s] = SubSeq(chunk[s], k + 1, Len(chunk[s]))
        /\ midLine'[s] = StillMidLine(SubSeq(chunk[s], 1, k), midLine[s])
        /\ Elsewhere
    BY <1>0, <2>3 DEF LineTypes
  <2>6. FlowOf(s)' /\ midLine'[s] \in BOOLEAN /\ Written(s)' = Written(s)
    BY <1>0, <2>1, <2>2, <2>3, <2>4, <2>5, EmitFlow
  <2>7. midLine' \in [Stream -> BOOLEAN]
    BY <1>0, <2>3, <2>6
  <2>8. QED
    BY <2>3, <2>5, <2>6, <2>7, OneFlow
<1>4. CASE WriteOut(s)
  <2>1. CASE at' = [at EXCEPT ![s] = "failed"] /\ UNCHANGED out
    <3>1. /\ at'[s] = "failed" /\ UNCHANGED <<config, pipe, chunk, out, midLine>> /\ Elsewhere
      BY <1>0, <1>4, <2>1 DEF WriteOut, LineTypes
    <3>2. FlowOf(s)' /\ Written(s)' = Written(s)
      BY <1>0, <3>1, MovedFlow DEF FlowOf
    <3>3. QED
      BY <1>0, <3>1, <3>2, OneFlow
  <2>2. CASE \E k \in 0..Len(out[s]) :
                /\ out' = [out EXCEPT ![s] = SubSeq(out[s], k + 1, Len(out[s]))]
                /\ \/ at' = [at EXCEPT ![s] = "failed"] \/ at' = at
                   \/ /\ k = Len(out[s])
                      /\ at' = [at EXCEPT ![s] = IF at[s] = "head" THEN "rotate" ELSE "read"]
    <3>1. PICK k \in 0..Len(out[s]) :
                /\ out' = [out EXCEPT ![s] = SubSeq(out[s], k + 1, Len(out[s]))]
                /\ \/ at' = [at EXCEPT ![s] = "failed"] \/ at' = at
                   \/ /\ k = Len(out[s])
                      /\ at' = [at EXCEPT ![s] = IF at[s] = "head" THEN "rotate" ELSE "read"]
      BY <2>2
    <3>2. /\ at[s] \in {"head", "rest"}
          /\ out'[s] = SubSeq(out[s], k + 1, Len(out[s]))
          /\ \/ at'[s] \in {at[s], "failed"}
             \/ k = Len(out[s]) /\ at'[s] = IF at[s] = "head" THEN "rotate" ELSE "read"
          /\ UNCHANGED <<config, pipe, chunk, midLine>> /\ Elsewhere
      BY <1>0, <1>4, <3>1 DEF WriteOut, LineTypes
    <3>3. FlowOf(s)'
      BY <1>0, <3>2, WroteFlow
    <3>4. QED
      BY <1>0, <1>4, <3>2, <3>3, OneFlow
  <2>3. Len(out[s]) \in Nat
    BY <1>0 DEF LineTypes
  <2>4. Len(out[s]) \in 0..Len(out[s]) /\ \A n \in 0..(Len(out[s]) - 1) : n \in 0..Len(out[s])
    BY <2>3
  <2>5. \/ at' = [at EXCEPT ![s] = "failed"] /\ UNCHANGED out
        \/ /\ out' = [out EXCEPT ![s] = SubSeq(out[s], Len(out[s]) + 1, Len(out[s]))]
           /\ at' = [at EXCEPT ![s] = IF at[s] = "head" THEN "rotate" ELSE "read"]
        \/ /\ \E n \in 0..(Len(out[s]) - 1) :
                 out' = [out EXCEPT ![s] = SubSeq(out[s], n + 1, Len(out[s]))]
           /\ at' = [at EXCEPT ![s] = "failed"] \/ at' = [at EXCEPT ![s] = at[s]]
    BY <1>4 DEF WriteOut, Wrote, Retry, Goto, Set
  <2>6. [at EXCEPT ![s] = at[s]] = at
    BY <1>0 DEF LineTypes
  <2>7. QED
    BY <2>1, <2>2, <2>4, <2>5, <2>6
<1>5. CASE RotateSink(s)
  <2>1. /\ at[s] = "rotate" /\ at'[s] = "done"
        /\ UNCHANGED <<config, pipe, chunk, out, midLine>> /\ Elsewhere
    BY <1>0, <1>5 DEF RotateSink, Goto, Set, LineTypes
  <2>2. FlowOf(s)' /\ Written(s)' = Written(s)
    BY <1>0, <2>1, MovedFlow DEF FlowOf
  <2>3. QED
    BY <1>0, <2>1, <2>2, OneFlow
<1>6. CASE RotationDone(s)
  <2> DEFINE c == chunk[s]
             k == Len(c)
  <2>1. c \in Seq(Pieces) /\ k \in Nat /\ out[s] = <<>>
    BY <1>0, <1>6 DEF LineTypes, RotationDone, FlowOf
  <2>2. SubSeq(c, 1, k) = c /\ SubSeq(c, k + 1, Len(c)) = <<>> /\ k \in 0..Len(c)
        /\ (c = <<>> => k = 0)
    BY <2>1
  <2>3. /\ out' = [out EXCEPT ![s] = Stamp(SubSeq(c, 1, k), midLine[s])]
        /\ chunk' = [chunk EXCEPT ![s] = SubSeq(c, k + 1, Len(c))]
        /\ midLine' = [midLine EXCEPT ![s] = StillMidLine(SubSeq(c, 1, k), midLine[s])]
        /\ at' = [at EXCEPT ![s] = IF c = <<>> THEN "read" ELSE "rest"]
        /\ UNCHANGED <<config, pipe>>
    BY <1>6, <2>2 DEF RotationDone, Set, Goto
  <2>4. at'[s] \in {"read", "rest"} /\ (at'[s] = "read" => k = 0)
    BY <1>0, <2>2, <2>3 DEF LineTypes
  <2> HIDE DEF k
  <2>5. /\ out'[s] = Stamp(SubSeq(chunk[s], 1, k), midLine[s])
        /\ chunk'[s] = SubSeq(chunk[s], k + 1, Len(chunk[s]))
        /\ midLine'[s] = StillMidLine(SubSeq(chunk[s], 1, k), midLine[s])
        /\ Elsewhere
    BY <1>0, <2>3 DEF LineTypes
  <2>6. k = Len(chunk[s])
    BY DEF k
  <2>7. FlowOf(s)' /\ midLine'[s] \in BOOLEAN /\ Written(s)' = Written(s)
    BY <1>0, <2>1, <2>2, <2>3, <2>4, <2>5, <2>6, EmitFlow
  <2>8. midLine' \in [Stream -> BOOLEAN]
    BY <1>0, <2>3, <2>7
  <2>9. QED
    BY <2>3, <2>5, <2>7, <2>8, OneFlow
<1>7. QED
  BY <1>1, <1>2, <1>3, <1>4, <1>5, <1>6 DEF Relay

\* A process writes the next piece.
LEMMA WriteFlow ==
  ASSUME LineInv, FlowInv, NEW s \in Stream, Write(s)
  PROVE  FlowInv' /\ \A r \in Stream : Written(r)' = Written(r)
<1>0. LineTypes /\ FlowOf(s) /\ midLine \in [Stream -> BOOLEAN]
  BY DEF LineInv, FlowInv
<1>1. /\ produced' = [produced EXCEPT ![s] = produced[s] + 1]
      /\ pipe' = [pipe EXCEPT ![s] = Append(pipe[s], Piece(s, produced'[s]))]
      /\ UNCHANGED <<config, at, chunk, out, midLine>>
  BY DEF Write, Set, goroutine
<1>2. PICK t, p, c, o \in Nat :
            /\ t = produced[s] /\ p = Len(pipe[s]) /\ c = Len(chunk[s]) /\ o = Len(out[s])
            /\ p + c + o <= t
            /\ Unread(s) = t - p /\ Delivered(s) = (t - p) - c /\ Written(s) = ((t - p) - c) - o
            /\ Unread(s) \in Nat
  BY <1>0, FlowNumbers
<1>3. /\ produced'[s] = t + 1 /\ pipe'[s] = Append(pipe[s], Piece(s, t + 1))
      /\ pipe[s] \in Seq(Pieces)
  BY <1>0, <1>1, <1>2 DEF LineTypes
<1>4. /\ Len(pipe'[s]) = p + 1 /\ pipe'[s][p + 1] = Piece(s, t + 1)
      /\ \A i \in 1..p : pipe'[s][i] = pipe[s][i]
      /\ DOMAIN pipe'[s] = 1..(p + 1)
  BY <1>2, <1>3, SMTT(30)
<1>5. /\ (t + 1) - (p + 1) = t - p /\ (p + 1) + c + o <= t + 1
      /\ (t - p) + (p + 1) = t + 1
  <2>1. p + c + o <= t /\ t \in Nat /\ p \in Nat /\ c \in Nat /\ o \in Nat
    BY <1>2
  <2>2. QED
    BY <2>1
<1>6. /\ Unread(s)' = Unread(s) /\ Delivered(s)' = Delivered(s) /\ Written(s)' = Written(s)
      /\ (Len(pipe[s]) + Len(chunk[s]) + Len(out[s]) <= produced[s])'
  <2>1. /\ produced'[s] = t + 1 /\ Len(pipe'[s]) = p + 1 /\ Len(chunk'[s]) = c
        /\ Len(out'[s]) = o
    BY <1>1, <1>2, <1>3, <1>4, Zenon
  <2>2. /\ Unread(s)' = (t + 1) - (p + 1) /\ Delivered(s)' = ((t + 1) - (p + 1)) - c
        /\ Written(s)' = (((t + 1) - (p + 1)) - c) - o
        /\ (p + 1) + c + o <= t + 1
             => (Len(pipe[s]) + Len(chunk[s]) + Len(out[s]) <= produced[s])'
    BY <2>1, Zenon DEF Unread, Delivered, Written
  <2>3. QED
    BY <1>2, <1>5, <2>2, Zenon
<1>7. Follow(pipe[s], s, Unread(s))'
  <2>1. \A i \in 1..p : pipe[s][i].of = s /\ pipe[s][i].n = (t - p) + i
    <3>1. \A i \in DOMAIN pipe[s] : pipe[s][i].of = s /\ pipe[s][i].n = Unread(s) + i
      BY <1>0 DEF FlowOf, Follow
    <3>2. DOMAIN pipe[s] = 1..Len(pipe[s])
      BY <1>3
    <3>3. Unread(s) = t - p /\ Len(pipe[s]) = p
      BY <1>2
    <3>4. QED
      BY <3>1, <3>2, <3>3, Zenon
  <2>2. \A i \in 1..(p + 1) : i \in 1..p \/ i = p + 1
    OBVIOUS
  <2>3. pipe'[s][p + 1].of = s /\ pipe'[s][p + 1].n = (t - p) + (p + 1)
    BY <1>4, <1>5 DEF Piece
  <2>4. \A i \in 1..(p + 1) : pipe'[s][i].of = s /\ pipe'[s][i].n = (t - p) + i
    BY <1>4, <2>1, <2>2, <2>3, Zenon
  <2>5. Unread(s)' = t - p
    BY <1>2, <1>6
  <2>6. QED
    BY <1>4, <2>4, <2>5, Zenon DEF Follow
<1>8. /\ Follow(chunk[s], s, Delivered(s))' /\ Follow(out[s], s, Written(s))'
      /\ StampedRight(out[s])'
  BY <1>0, <1>1, <1>6 DEF FlowOf, Follow, StampedRight
<1>9. FlowOf(s)'
  BY <1>0, <1>1, <1>6, <1>7, <1>8 DEF FlowOf
<1>10. QED
  BY <1>0, <1>1, <1>6, <1>9, OneFlow DEF LineTypes

\* Where the relay has ended nobody can write any more.
EndInv ==
  /\ phase \in {"stdin", "file", "pipe", "inherit", "duplicate", "open"}
       => \A s \in Stream : at[s] = "none"
  /\ \A s \in Stream : at[s] = "ended" =>
       pipe[s] = <<>> /\ holders[s] = {} /\ WriteEnds(s) \cap handles = {}

LEMMA BeginFlow ==
  ASSUME FlowInv, EndInv, Begin PROVE FlowInv' /\ \A r \in Stream : Written(r)' = Written(r)
<1>1. ASSUME NEW s \in Stream PROVE FlowOf(s)' /\ Written(s)' = Written(s)
  <2>1. at[s] = "none" /\ FlowOf(s)
    BY DEF Begin, EndInv, FlowInv
  <2>2. out[s] = <<>> /\ chunk[s] = <<>>
    BY <2>1 DEF FlowOf
  <2>3. UNCHANGED <<config, pipe, chunk, out, midLine, produced>>
    BY DEF Begin
  <2>4. QED
    BY <2>1, <2>2, <2>3, MovedFlow
<1>2. QED
  BY <1>1 DEF FlowInv, Begin

LEMMA StillFlow ==
  ASSUME FlowInv, UNCHANGED <<config, at, pipe, chunk, out, midLine, produced>>
  PROVE  FlowInv' /\ \A r \in Stream : Written(r)' = Written(r)
BY SameFlow DEF FlowInv

LEMMA StepFlow ==
  ASSUME LineInv, FlowInv, EndInv, [Next]_vars PROVE FlowInv'
<1> USE DEF goroutine
<1>1. CASE OpenStdin \/ OpenFile \/ CreatePipe \/ SetInherit \/ Duplicate
  BY <1>1, StillFlow DEF OpenStdin, OpenFile, CreatePipe, SetInherit, Duplicate, Untouched
<1>2. CASE Begin
  BY <1>2, BeginFlow
<1>3. CASE HookStarts \/ Request
  BY <1>3, StillFlow DEF HookStarts, Request
<1>4. CASE CloseStarts \/ CloseSources \/ CloseSinks
  BY <1>4, StillFlow DEF CloseStarts, CloseSources, CloseSinks, Untouched
<1>5. CASE \E s \in Stream : Write(s)
  BY <1>5, WriteFlow
<1>6. CASE \E s \in Stream : RunRelay(s)
  BY <1>6, RelayFlow DEF RunRelay
<1>7. CASE \E who \in {"child", "hook"} : ProcessEnds(who)
  BY <1>7, StillFlow DEF ProcessEnds
<1>8. CASE UNCHANGED vars
  BY <1>8, StillFlow DEF vars
<1>9. QED
  BY <1>1, <1>2, <1>3, <1>4, <1>5, <1>6, <1>7, <1>8 DEF Next, Supervise

LEMMA InitEnd == Init => EndInv
BY DEF Init, EndInv

\* A step that opens no write end and hands none out.
LEMMA SameEnd ==
  ASSUME EndInv, UNCHANGED <<at, pipe, holders>>, handles' \subseteq handles,
         phase' \in {"stdin", "file", "pipe", "inherit", "duplicate", "open"} => phase' = phase
  PROVE  EndInv'
BY DEF EndInv

LEMMA OpeningEnd ==
  ASSUME EndInv, phase \in {"stdin", "file", "pipe", "inherit", "duplicate", "open"},
         at' = at
  PROVE  EndInv'
BY DEF EndInv

LEMMA RelayEnd ==
  ASSUME LineInv, EndInv, NEW s \in Stream, RunRelay(s) PROVE EndInv'
<1>1. handles' \subseteq handles /\ holders' = holders /\ phase' = phase
  BY RelayHandles DEF RunRelay, Relay, BeginRead, ReadReturns, Deliver, WriteOut, RotateSink,
     RotationDone
<1>2. at[s] # "none"
  BY DEF RunRelay, Relay, BeginRead, ReadReturns, Deliver, WriteOut, RotateSink, RotationDone
<1>3. at \in [Stream -> Places] /\ pipe \in [Stream -> Seq(Pieces)]
  BY DEF LineInv, LineTypes
<1>4. \A r \in Stream \ {s} : at'[r] = at[r] /\ pipe'[r] = pipe[r]
  BY <1>3 DEF RunRelay, Relay, BeginRead, ReadReturns, Deliver, WriteOut, RotateSink,
     RotationDone, Retry, Goto, Set
<1>5. at'[s] = "ended" =>
        pipe'[s] = <<>> /\ holders[s] = {} /\ WriteEnds(s) \cap handles = {}
  <2>1. CASE ReadReturns(s)
    BY <1>3, <2>1 DEF ReadReturns, Retry, Goto, Set
  <2>2. CASE WriteOut(s)
    BY <1>3, <2>2 DEF WriteOut, Retry, Goto, Set
  <2>3. CASE BeginRead(s) \/ Deliver(s) \/ RotateSink(s) \/ RotationDone(s)
    BY <1>3, <2>3 DEF BeginRead, Deliver, RotateSink, RotationDone, Goto, Set
  <2>4. QED
    BY <2>1, <2>2, <2>3 DEF RunRelay, Relay
<1>6. QED
  BY <1>1, <1>2, <1>4, <1>5 DEF EndInv

LEMMA StepEnd ==
  ASSUME LineInv, EndInv, [Next]_vars PROVE EndInv'
<1> USE DEF goroutine, life
<1>1. CASE OpenStdin \/ OpenFile \/ CreatePipe \/ SetInherit \/ Duplicate
  BY <1>1, OpeningEnd DEF OpenStdin, OpenFile, CreatePipe, SetInherit, Duplicate, Untouched
<1>2. CASE Begin
  BY <1>2 DEF Begin, EndInv
<1>3. CASE HookStarts
  <2>1. ASSUME NEW s \in Stream, at[s] = "ended" PROVE holders'[s] = {}
    BY <1>3, <2>1 DEF HookStarts, EndInv, WriteEnds
  <2>2. QED
    BY <1>3, <2>1 DEF HookStarts, EndInv
<1>4. CASE Request
  BY <1>4, SameEnd DEF Request
<1>5. CASE CloseStarts
  BY <1>5, SameEnd DEF CloseStarts, Untouched, Abandon
<1>6. CASE CloseSources \/ CloseSinks
  BY <1>6, SameEnd DEF CloseSources, CloseSinks, Untouched
<1>7. ASSUME NEW s \in Stream, Write(s) PROVE EndInv'
  <2>1. pipe \in [Stream -> Seq(Pieces)]
    BY DEF LineInv, LineTypes
  <2>2. /\ holders[s] # {} /\ \A r \in Stream \ {s} : pipe'[r] = pipe[r]
        /\ UNCHANGED <<at, holders, handles, phase>>
    BY <1>7, <2>1 DEF Write, Set
  <2>3. QED
    BY <2>2 DEF EndInv
<1>8. CASE \E s \in Stream : RunRelay(s)
  BY <1>8, RelayEnd
<1>9. CASE \E who \in {"child", "hook"} : ProcessEnds(who)
  BY <1>9 DEF ProcessEnds, EndInv
<1>10. CASE UNCHANGED vars
  BY <1>10, SameEnd DEF vars
<1>11. QED
  BY <1>1, <1>2, <1>3, <1>4, <1>5, <1>6, <1>7, <1>8, <1>9, <1>10 DEF Next, Supervise

-----------------------------------------------------------------------------
(* The stream in its log.  The files of a sink hold each piece of a stream *)
(* that was written, once and in order; a rotation begins a new file and   *)
(* moves none, unless two of them fall into one millisecond or a file that *)
(* was copied cannot be truncated.                                         *)

\* What stands where when the last file grows.
Grown(L, M, a, p, g) ==
  /\ a \in DOMAIN L /\ DOMAIN M = DOMAIN L /\ \A i \in DOMAIN L : i \in Nat /\ i <= a
  /\ \A i \in DOMAIN L : \A j \in DOMAIN L[i] :
        j \in Nat /\ j \in DOMAIN M[i] /\ M[i][j] = L[i][j]
  /\ \A j \in DOMAIN L[a] : j <= p
  /\ \A r \in 1..Len(g) : p + r \in DOMAIN M[a] /\ M[a][p + r] = g[r]
  /\ \A i \in DOMAIN M : \A j \in DOMAIN M[i] :
        j \in DOMAIN L[i] \/ (i = a /\ \E r \in 1..Len(g) : j = p + r)

LEMMA GrownPlaces ==
  ASSUME NEW A \in Seq(Seq(Output)), NEW f \in Seq(Output), NEW g \in Seq(Output)
  PROVE  Grown(Append(A, f), Append(A, f \o g), Len(A) + 1, Len(f), g)
<1> DEFINE L == Append(A, f)
           M == Append(A, f \o g)
           a == Len(A) + 1
<1>1. /\ DOMAIN L = 1..a /\ DOMAIN M = 1..a /\ a \in Nat /\ a > 0
      /\ L[a] = f /\ M[a] = f \o g
      /\ \A i \in 1..a : i # a => L[i] = A[i] /\ M[i] = A[i] /\ A[i] \in Seq(Output)
  <2>1. f \o g \in Seq(Output)
    OBVIOUS
  <2>2. DOMAIN L = 1..a /\ L[a] = f /\ \A i \in 1..a : i # a => L[i] = A[i] /\ A[i] \in Seq(Output)
    OBVIOUS
  <2>3. DOMAIN M = 1..a /\ M[a] = f \o g /\ \A i \in 1..a : i # a => M[i] = A[i]
    BY <2>1
  <2>4. a \in Nat /\ a > 0
    OBVIOUS
  <2>5. QED
    BY <2>2, <2>3, <2>4, Zenon
<1> HIDE DEF L, M, a
<1>2. /\ Len(f) \in Nat /\ Len(g) \in Nat /\ DOMAIN f = 1..Len(f)
      /\ DOMAIN (f \o g) = 1..(Len(f) + Len(g))
      /\ \A j \in 1..Len(f) : (f \o g)[j] = f[j]
      /\ \A r \in 1..Len(g) : (f \o g)[Len(f) + r] = g[r]
  OBVIOUS
<1>3. PICK p, q \in Nat : p = Len(f) /\ q = Len(g)
  BY <1>2
<1>4. \A j \in 1..p : j \in 1..(p + q) /\ j <= p /\ j \in Nat
  OBVIOUS
<1>5. \A r \in 1..q : p + r \in 1..(p + q)
  OBVIOUS
<1>6. \A j \in 1..(p + q) : j \in 1..p \/ \E r \in 1..q : j = p + r
  <2>1. \A j \in 1..(p + q) : j \in 1..p \/ (j - p \in 1..q /\ j = p + (j - p))
    OBVIOUS
  <2>2. QED
    BY <2>1
<1>7. a \in DOMAIN L /\ DOMAIN M = DOMAIN L /\ \A i \in DOMAIN L : i \in Nat /\ i <= a
  BY <1>1
<1>8. ASSUME NEW i \in DOMAIN L, NEW j \in DOMAIN L[i]
      PROVE  j \in Nat /\ j \in DOMAIN M[i] /\ M[i][j] = L[i][j]
  <2>1. CASE i = a
    <3>1. j \in 1..p
      BY <1>1, <1>2, <1>3, <2>1, Zenon
    <3>2. QED
      BY <1>1, <1>2, <1>3, <1>4, <2>1, <3>1, Zenon
  <2>2. CASE i # a
    <3>1. L[i] = A[i] /\ M[i] = A[i] /\ A[i] \in Seq(Output)
      BY <1>1, <2>2, Zenon
    <3>2. QED
      BY <3>1
  <2>3. QED
    BY <2>1, <2>2
<1>9. \A j \in DOMAIN L[a] : j <= Len(f)
  BY <1>1, <1>2, <1>3, <1>4, Zenon
<1>10. \A r \in 1..Len(g) : Len(f) + r \in DOMAIN M[a] /\ M[a][Len(f) + r] = g[r]
  BY <1>1, <1>2, <1>3, <1>5, Zenon
<1>11. ASSUME NEW i \in DOMAIN M, NEW j \in DOMAIN M[i]
       PROVE  j \in DOMAIN L[i] \/ (i = a /\ \E r \in 1..Len(g) : j = Len(f) + r)
  <2>1. CASE i = a
    <3>1. j \in 1..(p + q)
      BY <1>1, <1>2, <1>3, <2>1, Zenon
    <3>2. QED
      BY <1>1, <1>2, <1>3, <1>6, <2>1, <3>1, Zenon
  <2>2. CASE i # a
    BY <1>1, <2>2, Zenon
  <2>3. QED
    BY <2>1, <2>2
<1>12. QED
  <2>1. Grown(L, M, a, Len(f), g)
    BY <1>7, <1>8, <1>9, <1>10, <1>11, Zenon DEF Grown
  <2>2. QED
    BY <2>1 DEF L, M, a

\* The next pieces of the stream are written.
LEMMA GrownLog ==
  ASSUME NEW A \in Seq(Seq(Output)), NEW f \in Seq(Output), NEW g \in Seq(Output),
         NEW s, NEW w \in Nat, Complete(Append(A, f), s, w), Follow(g, s, w)
  PROVE  Complete(Append(A, f \o g), s, w + Len(g))
<1> DEFINE L == Append(A, f)
           M == Append(A, f \o g)
           a == Len(A) + 1
<1>0. L = Append(A, f) /\ M = Append(A, f \o g) /\ a = Len(A) + 1 /\ Complete(L, s, w)
  OBVIOUS
<1> HIDE DEF L, M, a
<1>1. PICK p, q \in Nat : p = Len(f) /\ q = Len(g)
  OBVIOUS
<1>2. \A r \in 1..q : g[r].of = s /\ g[r].n = w + r
  BY <1>1, SMTT(30) DEF Follow
<1>3. /\ a \in DOMAIN L /\ DOMAIN M = DOMAIN L /\ \A i \in DOMAIN L : i \in Nat /\ i <= a
      /\ \A i \in DOMAIN L : \A j \in DOMAIN L[i] :
            j \in Nat /\ j \in DOMAIN M[i] /\ M[i][j] = L[i][j]
      /\ \A j \in DOMAIN L[a] : j <= p
      /\ \A r \in 1..q : p + r \in DOMAIN M[a] /\ M[a][p + r] = g[r]
      /\ \A i \in DOMAIN M : \A j \in DOMAIN M[i] :
            \/ j \in DOMAIN L[i]
            \/ i = a /\ \E r \in 1..q : j = p + r
  <2>1. Grown(L, M, a, p, g)
    BY <1>0, <1>1, GrownPlaces
  <2>2. QED
    BY <1>1, <2>1, Zenon DEF Grown
<1>4. /\ \A r \in 1..q : w + r \in 1..(w + q)
      /\ \A n \in 1..w : n \in 1..(w + q)
  OBVIOUS
<1>5. ASSUME NEW i \in DOMAIN M, NEW j \in DOMAIN M[i], M[i][j].of = s
      PROVE  \/ /\ i \in DOMAIN L /\ j \in DOMAIN L[i] /\ M[i][j] = L[i][j]
                /\ L[i][j].of = s /\ L[i][j].n \in 1..w
             \/ i = a /\ \E r \in 1..q : j = p + r /\ M[i][j].n = w + r
  <2>1. CASE j \in DOMAIN L[i]
    BY <1>0, <1>3, <1>5, <2>1 DEF Complete
  <2>2. CASE i = a /\ \E r \in 1..q : j = p + r
    BY <1>2, <1>3, <2>2
  <2>3. QED
    BY <1>3, <2>1, <2>2
<1>6. ASSUME NEW i \in DOMAIN M, NEW j \in DOMAIN M[i], M[i][j].of = s
      PROVE  M[i][j].n \in 1..(w + q)
  BY <1>4, <1>5, <1>6, ZenonT(40)
<1>7. ASSUME NEW m \in 1..(w + q)
      PROVE  \E i \in DOMAIN M : \E j \in DOMAIN M[i] : M[i][j].of = s /\ M[i][j].n = m
  <2>1. CASE m \in 1..w
    <3>1. PICK i \in DOMAIN L : \E j \in DOMAIN L[i] : L[i][j].of = s /\ L[i][j].n = m
      BY <1>0, <2>1 DEF Complete
    <3>2. QED
      BY <1>3, <3>1
  <2>2. CASE m \notin 1..w
    <3>1. m - w \in 1..q /\ w + (m - w) = m
      BY <2>2
    <3>2. PICK r \in 1..q : w + r = m
      BY <3>1
    <3>3. p + r \in DOMAIN M[a] /\ M[a][p + r].of = s /\ M[a][p + r].n = m
      BY <1>2, <1>3, <3>2
    <3>4. QED
      BY <1>3, <3>3
  <2>3. QED
    BY <2>1, <2>2
<1>8. ASSUME NEW i \in DOMAIN M, NEW k \in DOMAIN M,
             NEW j \in DOMAIN M[i], NEW l \in DOMAIN M[k],
             M[i][j].of = s, M[k][l].of = s, i < k \/ (i = k /\ j < l)
      PROVE  M[i][j].n < M[k][l].n
  <2>1. CASE /\ i \in DOMAIN L /\ j \in DOMAIN L[i] /\ M[i][j] = L[i][j]
             /\ L[i][j].of = s /\ L[i][j].n \in 1..w
    <3>1. CASE /\ k \in DOMAIN L /\ l \in DOMAIN L[k] /\ M[k][l] = L[k][l]
               /\ L[k][l].of = s /\ L[k][l].n \in 1..w
      BY <1>0, <1>8, <2>1, <3>1 DEF Complete
    <3>2. CASE k = a /\ \E r \in 1..q : l = p + r /\ M[k][l].n = w + r
      BY <2>1, <3>2
    <3>3. QED
      BY <1>5, <1>8, <3>1, <3>2
  <2>2. CASE i = a /\ \E r \in 1..q : j = p + r /\ M[i][j].n = w + r
    <3>1. k = a /\ p < l
      BY <1>3, <1>8, <2>2, SMTT(30)
    <3>2. l \notin DOMAIN L[a]
      BY <1>3, <3>1
    <3>3. PICK r \in 1..q : l = p + r /\ M[k][l].n = w + r
      BY <1>5, <1>8, <3>1, <3>2
    <3>4. PICK x \in 1..q : j = p + x /\ M[i][j].n = w + x
      BY <2>2
    <3>5. QED
      BY <1>3, <1>8, <2>2, <3>1, <3>3, <3>4
  <2>3. QED
    BY <1>5, <1>8, <2>1, <2>2
<1>9. Complete(M, s, w + q)
  BY <1>6, <1>7, <1>8 DEF Complete
<1>10. QED
  BY <1>0, <1>1, <1>9, Zenon

\* The pieces of another stream are written.
LEMMA ForeignLog ==
  ASSUME NEW A \in Seq(Seq(Output)), NEW f \in Seq(Output), NEW g \in Seq(Output),
         NEW s, NEW w \in Nat, Complete(Append(A, f), s, w), \A i \in DOMAIN g : g[i].of # s
  PROVE  Complete(Append(A, f \o g), s, w)
<1> DEFINE L == Append(A, f)
           M == Append(A, f \o g)
           a == Len(A) + 1
<1>0. L = Append(A, f) /\ M = Append(A, f \o g) /\ a = Len(A) + 1 /\ Complete(L, s, w)
  OBVIOUS
<1> HIDE DEF L, M, a
<1>1. \A r \in 1..Len(g) : g[r].of # s
  OBVIOUS
<1>2. Grown(L, M, a, Len(f), g)
  BY <1>0, GrownPlaces
<1>4. ASSUME NEW i \in DOMAIN M, NEW j \in DOMAIN M[i], M[i][j].of = s
      PROVE  i \in DOMAIN L /\ j \in DOMAIN L[i] /\ M[i][j] = L[i][j]
  <2>1. CASE i = a /\ \E r \in 1..Len(g) : j = Len(f) + r
    BY <1>1, <1>2, <1>4, <2>1, Zenon DEF Grown
  <2>2. CASE j \in DOMAIN L[i]
    BY <1>2, <2>2, Zenon DEF Grown
  <2>3. QED
    BY <1>2, <2>1, <2>2, Zenon DEF Grown
<1>5. QED
  <2>1. \A i \in DOMAIN M : \A j \in DOMAIN M[i] : M[i][j].of = s => M[i][j].n \in 1..w
    <3> SUFFICES ASSUME NEW i \in DOMAIN M, NEW j \in DOMAIN M[i], M[i][j].of = s
                 PROVE  M[i][j].n \in 1..w
      OBVIOUS
    <3>1. i \in DOMAIN L /\ j \in DOMAIN L[i] /\ M[i][j] = L[i][j]
      BY <1>4
    <3>2. QED
      BY <1>0, <3>1 DEF Complete
  <2>2. \A m \in 1..w : \E i \in DOMAIN M : \E j \in DOMAIN M[i] :
           M[i][j].of = s /\ M[i][j].n = m
    <3> SUFFICES ASSUME NEW m \in 1..w
                 PROVE  \E i \in DOMAIN M : \E j \in DOMAIN M[i] :
                           M[i][j].of = s /\ M[i][j].n = m
      OBVIOUS
    <3>1. PICK i \in DOMAIN L : \E j \in DOMAIN L[i] : L[i][j].of = s /\ L[i][j].n = m
      BY <1>0 DEF Complete
    <3>2. QED
      BY <1>2, <3>1 DEF Grown
  <2>3. \A i, k \in DOMAIN M : \A j \in DOMAIN M[i], l \in DOMAIN M[k] :
           /\ M[i][j].of = s /\ M[k][l].of = s
           /\ i < k \/ (i = k /\ j < l)
           => M[i][j].n < M[k][l].n
    <3> SUFFICES ASSUME NEW i \in DOMAIN M, NEW k \in DOMAIN M,
                        NEW j \in DOMAIN M[i], NEW l \in DOMAIN M[k],
                        M[i][j].of = s, M[k][l].of = s, i < k \/ (i = k /\ j < l)
                 PROVE  M[i][j].n < M[k][l].n
      OBVIOUS
    <3>1. /\ i \in DOMAIN L /\ j \in DOMAIN L[i] /\ M[i][j] = L[i][j]
          /\ k \in DOMAIN L /\ l \in DOMAIN L[k] /\ M[k][l] = L[k][l]
      BY <1>4
    <3>2. L[i][j].of = s /\ L[k][l].of = s
      BY <3>1
    <3>3. L[i][j].n < L[k][l].n
      BY <1>0, <3>1, <3>2, Zenon DEF Complete
    <3>4. QED
      BY <3>1, <3>3, Zenon
  <2>4. Complete(M, s, w)
    BY <2>1, <2>2, <2>3 DEF Complete
  <2>5. QED
    BY <1>0, <2>4

\* A new file is begun.
LEMMA BegunLog ==
  ASSUME NEW A \in Seq(Seq(Output)), NEW s, NEW w, Complete(A, s, w)
  PROVE  Complete(Append(A, <<>>), s, w)
<1> DEFINE M == Append(A, <<>>)
           a == Len(A) + 1
<1>1. <<>> \in Seq(Output) /\ DOMAIN <<>> = {}
  OBVIOUS
<1>2. /\ DOMAIN M = 1..a /\ M[a] = <<>> /\ a \in Nat
      /\ \A i \in 1..a : i # a => i \in DOMAIN A /\ M[i] = A[i]
      /\ \A i \in DOMAIN A : i \in DOMAIN M /\ M[i] = A[i] /\ i \in Nat
  BY <1>1
<1> HIDE DEF M, a
<1>3. \A i \in DOMAIN M : \A j \in DOMAIN M[i] : i \in DOMAIN A /\ M[i] = A[i]
  BY <1>1, <1>2
<1>4. Complete(M, s, w)
  BY <1>2, <1>3 DEF Complete
<1>5. QED
  BY <1>4 DEF M

FilesTyped == archives \in [Stream -> Seq(Seq(Output))]

LogInv == ~OpenEmpties => \A s \in Stream : Complete(Logs(Sink(s)), s, Written(s))

LEMMA InitLog == Init => FilesTyped /\ LogInv
<1> SUFFICES ASSUME Init PROVE FilesTyped /\ LogInv
  OBVIOUS
<1>1. /\ archives = [s \in Stream |-> <<>>] /\ file = [s \in Stream |-> <<>>]
      /\ produced = [s \in Stream |-> 0] /\ pipe = [s \in Stream |-> <<>>]
      /\ chunk = [s \in Stream |-> <<>>] /\ out = [s \in Stream |-> <<>>]
  BY DEF Init
<1>2. <<>> \in Seq(Seq(Output)) /\ Len(<<>>) = 0 /\ DOMAIN <<>> = {}
      /\ Append(<<>>, <<>>)[1] = <<>> /\ DOMAIN Append(<<>>, <<>>) = {1} /\ 0 - 0 = 0
      /\ 1..0 = {}
  OBVIOUS
<1>3. ASSUME NEW s \in Stream PROVE Complete(Logs(Sink(s)), s, Written(s))
  <2>1. Logs(Sink(s)) = Append(<<>>, <<>>)
    BY <1>1, SinkIsStream DEF Logs
  <2>2. Written(s) = 0
    <3>1. produced[s] = 0 /\ pipe[s] = <<>> /\ chunk[s] = <<>> /\ out[s] = <<>>
      BY <1>1
    <3>2. QED
      BY <1>2, <3>1, Zenon DEF Written, Delivered, Unread
  <2>3. QED
    BY <1>2, <2>1, <2>2 DEF Complete
<1>4. FilesTyped
  BY <1>1, <1>2 DEF FilesTyped
<1>5. QED
  BY <1>3, <1>4 DEF LogInv

\* Neither the files nor what has been written of a stream changes.
LEMMA SameLog ==
  ASSUME LogInv, FilesTyped, UNCHANGED <<config, files>>,
         \A r \in Stream : Written(r)' = Written(r)
  PROVE  LogInv' /\ FilesTyped'
<1>1. OpenEmpties' = OpenEmpties /\ \A r \in Stream : Sink(r)' = Sink(r)
  BY DEF OpenEmpties, Sink
<1>2. ASSUME NEW r \in Stream, Complete(Logs(Sink(r)), r, Written(r))
      PROVE  Complete(Logs(Sink(r)), r, Written(r))'
  <2> DEFINE L == Logs(Sink(r))'
  <2>1. L = Logs(Sink(r)) /\ Written(r)' = Written(r)
    BY <1>1 DEF files, Logs
  <2>2. Complete(L, r, Written(r)')
    BY <1>2, <2>1
  <2>3. QED
    BY <2>2 DEF Complete
<1>3. QED
  BY <1>1, <1>2 DEF LogInv, FilesTyped, files

\* A write of k pieces of s, whoever else writes to the same file.
LEMMA WroteLog ==
  ASSUME LineTypes, FlowInv, FilesTyped, LogInv, NEW s \in Stream, NEW k \in 0..Len(out[s]),
         file' = [file EXCEPT ![Sink(s)] = file[Sink(s)] \o SubSeq(out[s], 1, k)],
         UNCHANGED <<config, archives>>,
         Written(s)' = Written(s) + k,
         \A r \in Stream \ {s} : Written(r)' = Written(r)
  PROVE  LogInv' /\ FilesTyped'
<1> DEFINE d == Sink(s)
           g == SubSeq(out[s], 1, k)
<1>1. OpenEmpties' = OpenEmpties /\ \A r \in Stream : Sink(r)' = Sink(r)
  BY DEF OpenEmpties, Sink
<1>2. /\ d \in Stream /\ file[d] \in Seq(Output) /\ archives[d] \in Seq(Seq(Output))
      /\ out[s] \in Seq(Output) /\ Follow(out[s], s, Written(s)) /\ Written(s) \in Nat
  <2>1. FlowOf(s)
    BY DEF FlowInv
  <2>2. Written(s) \in Nat
    BY <2>1, FlowNumbers
  <2>3. QED
    BY <2>1, <2>2, SinkIsStream DEF LineTypes, FilesTyped, FlowOf
<1>3. g \in Seq(Output) /\ Len(g) = k /\ Follow(g, s, Written(s))
  BY <1>2, FollowParts
<1> HIDE DEF g
<1>4. /\ file'[d] = file[d] \o g /\ \A x \in Stream \ {d} : file'[x] = file[x]
      /\ archives' = archives
  BY <1>2 DEF LineTypes, g
<1>7. \A r \in Stream : /\ Logs(Sink(r)) = Append(archives[Sink(r)], file[Sink(r)])
                        /\ Logs(Sink(r))' = Append(archives[Sink(r)], file'[Sink(r)])
  BY <1>1, <1>4 DEF Logs
<1>8. d = Sink(s)
  OBVIOUS
<1> HIDE DEF d
<1>5. ASSUME NEW r \in Stream, ~OpenEmpties, Complete(Logs(Sink(r)), r, Written(r))
      PROVE  Complete(Logs(Sink(r)), r, Written(r))'
  <2> DEFINE L == Logs(Sink(r))'
  <2>1. Written(r) \in Nat
    BY FlowNumbers DEF FlowInv
  <2>2. CASE r = s
    <3>1. Complete(Append(archives[d], file[d] \o g), s, Written(s) + Len(g))
      BY <1>2, <1>3, <1>5, <1>7, <1>8, <2>2, GrownLog
    <3>2. L = Append(archives[d], file[d] \o g) /\ Written(r)' = Written(s) + Len(g)
      BY <1>3, <1>4, <1>7, <1>8, <2>2
    <3>3. Complete(L, r, Written(r)')
      BY <2>2, <3>1, <3>2
    <3>4. QED
      BY <3>3 DEF Complete
  <2>3. CASE r # s /\ Sink(r) = d
    <3>1. \A i \in DOMAIN g : g[i].of # r
      BY <1>3, <2>3 DEF Follow
    <3>2. Complete(Append(archives[d], file[d] \o g), r, Written(r))
      BY <1>2, <1>3, <1>5, <1>7, <2>1, <2>3, <3>1, ForeignLog
    <3>3. L = Append(archives[d], file[d] \o g) /\ Written(r)' = Written(r)
      BY <1>4, <1>7, <2>3
    <3>4. Complete(L, r, Written(r)')
      BY <3>2, <3>3
    <3>5. QED
      BY <3>4 DEF Complete
  <2>4. CASE r # s /\ Sink(r) # d
    <3>1. L = Logs(Sink(r)) /\ Written(r)' = Written(r)
      BY <1>4, <1>7, <2>4, SinkIsStream
    <3>2. Complete(L, r, Written(r)')
      BY <1>5, <3>1
    <3>3. QED
      BY <3>2 DEF Complete
  <2>5. QED
    BY <2>2, <2>3, <2>4
<1>6. QED
  BY <1>1, <1>5 DEF LogInv, FilesTyped

\* What of two rotations within a millisecond, and of a copy that cannot be truncated,
\* is beyond repair.
RotationsApart == "sameMillisecond" \notin Faults /\ "truncate" \notin Faults

LEMMA RotatedLog ==
  ASSUME RotationsApart, LineTypes, FilesTyped, LogInv, NEW k \in Stream, NEW a \in Applied(k),
         archives' = [archives EXCEPT ![k] = a.old],
         ~OpenEmpties => file' = [file EXCEPT ![k] = a.now],
         config' = config, \A r \in Stream : Written(r)' = Written(r)
  PROVE  LogInv'
<1>1. OpenEmpties' = OpenEmpties /\ \A r \in Stream : Sink(r)' = Sink(r)
  BY DEF OpenEmpties, Sink
<1>2. \/ a.old = archives[k] /\ a.now = file[k]
      \/ a.old = Append(archives[k], file[k]) /\ a.now = <<>>
  BY DEF Applied, Archived, RotationsApart
<1>3. archives[k] \in Seq(Seq(Output)) /\ file[k] \in Seq(Output)
  BY DEF LineTypes, FilesTyped
<1>4. ASSUME ~OpenEmpties
      PROVE  /\ Logs(k)' = Logs(k) \/ Logs(k)' = Append(Logs(k), <<>>)
             /\ Logs(k) \in Seq(Seq(Output))
             /\ \A x \in Stream \ {k} : Logs(x)' = Logs(x)
  <2>1. archives'[k] = a.old /\ file'[k] = a.now
    BY <1>4 DEF LineTypes, FilesTyped
  <2>2. Logs(k) = Append(archives[k], file[k]) /\ Logs(k)' = Append(a.old, a.now)
    BY <2>1 DEF Logs
  <2>3. \A x \in Stream \ {k} : archives'[x] = archives[x] /\ file'[x] = file[x]
    BY <1>4 DEF LineTypes, FilesTyped
  <2>4. Logs(k) \in Seq(Seq(Output))
    BY <1>3, <2>2
  <2>5. \A x \in Stream \ {k} : Logs(x)' = Logs(x)
    BY <2>3 DEF Logs
  <2>6. QED
    BY <1>2, <2>2, <2>4, <2>5
<1>5. ASSUME NEW r \in Stream, ~OpenEmpties, Complete(Logs(Sink(r)), r, Written(r))
      PROVE  Complete(Logs(Sink(r)), r, Written(r))'
  <2> DEFINE L == Logs(Sink(r))'
  <2>1. CASE L = Logs(Sink(r))
    <3>1. Complete(L, r, Written(r)')
      BY <1>5, <2>1
    <3>2. QED
      BY <3>1 DEF Complete
  <2>2. CASE Sink(r) = k /\ L = Append(Logs(k), <<>>)
    <3>1. Complete(Append(Logs(k), <<>>), r, Written(r))
      BY <1>4, <1>5, <2>2, BegunLog
    <3>2. Complete(L, r, Written(r)')
      BY <2>2, <3>1
    <3>3. QED
      BY <3>2 DEF Complete
  <2>3. QED
    BY <1>1, <1>4, <1>5, <2>1, <2>2, SinkIsStream
<1>6. QED
  BY <1>1, <1>5 DEF LogInv

LEMMA RotatedTypes ==
  ASSUME LineTypes, FilesTyped, NEW k \in Stream, NEW a \in Applied(k),
         archives' = [archives EXCEPT ![k] = a.old]
  PROVE  FilesTyped'
<1>1. archives[k] \in Seq(Seq(Output)) /\ file[k] \in Seq(Output)
  BY DEF LineTypes, FilesTyped
<1>2. Append(archives[k], file[k]) \in Seq(Seq(Output))
  BY <1>1
<1>3. ASSUME archives[k] # <<>> PROVE Append(Front(archives[k]), file[k]) \in Seq(Seq(Output))
  <2>1. /\ Len(archives[k]) - 1 \in Int
        /\ \A i \in 1..(Len(archives[k]) - 1) : archives[k][i] \in Seq(Output)
    BY <1>1
  <2>2. Front(archives[k]) \in Seq(Seq(Output))
    BY <1>1, <2>1, SubSeqProperties, 1 \in Int DEF Front
  <2>3. QED
    BY <1>1, <2>2
<1>4. a.old \in Seq(Seq(Output))
  <2>1. \A b \in Archived(k) : b \in Seq(Seq(Output))
    BY <1>2, <1>3 DEF Archived
  <2>2. QED
    BY <1>1, <2>1 DEF Applied
<1>5. QED
  BY <1>4 DEF FilesTyped

\* What a write does to the file, and that nothing else of the relay does.
LEMMA WriteOutEffect ==
  ASSUME LineTypes, FlowInv, NEW s \in Stream, WriteOut(s), produced' = produced
  PROVE  /\ UNCHANGED <<config, archives>>
         /\ \/ file' = file /\ Written(s)' = Written(s)
            \/ \E k \in 0..Len(out[s]) :
                  /\ file' = [file EXCEPT ![Sink(s)] = file[Sink(s)] \o SubSeq(out[s], 1, k)]
                  /\ Written(s)' = Written(s) + k
<1>1. FlowOf(s) /\ at \in [Stream -> Places] /\ out \in [Stream -> Seq(Output)]
      /\ Len(out[s]) \in Nat
  BY DEF LineTypes, FlowInv
<1>2. at[s] \in {"head", "rest"} /\ UNCHANGED <<config, pipe, chunk, midLine, archives>>
  BY DEF WriteOut
<1>3. \/ UNCHANGED <<file, out>>
      \/ \E k \in 0..Len(out[s]) :
            /\ Wrote(s, k)
            /\ \/ at'[s] \in {at[s], "failed"}
               \/ k = Len(out[s]) /\ at'[s] = IF at[s] = "head" THEN "rotate" ELSE "read"
  <2>1. CASE /\ Wrote(s, Len(out[s]))
             /\ Goto(s, IF at[s] = "head" THEN "rotate" ELSE "read")
    <3>1. Len(out[s]) \in 0..Len(out[s])
      BY <1>1
    <3>2. at'[s] = IF at[s] = "head" THEN "rotate" ELSE "read"
      BY <1>1, <2>1 DEF Goto, Set
    <3>3. QED
      BY <2>1, <3>1, <3>2
  <2>2. ASSUME NEW n \in 0..(Len(out[s]) - 1), Wrote(s, n),
               Retry(s, at[s]) \/ Goto(s, at[s])
        PROVE  \E k \in 0..Len(out[s]) : Wrote(s, k) /\ at'[s] \in {at[s], "failed"}
    <3>1. at'[s] \in {at[s], "failed"}
      BY <1>1, <2>2 DEF Retry, Goto, Set
    <3>2. n \in 0..Len(out[s])
      BY <1>1
    <3>3. QED
      BY <2>2, <3>1, <3>2
  <2>3. \/ UNCHANGED <<file, out>>
        \/ /\ Wrote(s, Len(out[s]))
           /\ Goto(s, IF at[s] = "head" THEN "rotate" ELSE "read")
        \/ \E n \in 0..(Len(out[s]) - 1) :
              Wrote(s, n) /\ (Retry(s, at[s]) \/ Goto(s, at[s]))
    BY Zenon DEF WriteOut
  <2>4. CASE \E n \in 0..(Len(out[s]) - 1) :
               Wrote(s, n) /\ (Retry(s, at[s]) \/ Goto(s, at[s]))
    BY <2>2, <2>4
  <2>5. QED
    BY <2>1, <2>3, <2>4
<1>4. CASE UNCHANGED <<file, out>>
  <2>1. Written(s)' = Written(s)
    BY <1>2, <1>4 DEF Written, Delivered, Unread
  <2>2. QED
    BY <1>2, <1>4, <2>1
<1>5. ASSUME NEW k \in 0..Len(out[s]), Wrote(s, k),
             \/ at'[s] \in {at[s], "failed"}
             \/ k = Len(out[s]) /\ at'[s] = IF at[s] = "head" THEN "rotate" ELSE "read"
      PROVE  /\ file' = [file EXCEPT ![Sink(s)] = file[Sink(s)] \o SubSeq(out[s], 1, k)]
             /\ Written(s)' = Written(s) + k
  <2>1. out' = [out EXCEPT ![s] = SubSeq(out[s], k + 1, Len(out[s]))]
        /\ file' = [file EXCEPT ![Sink(s)] = file[Sink(s)] \o SubSeq(out[s], 1, k)]
    BY <1>5 DEF Wrote, Set
  <2>2. out'[s] = SubSeq(out[s], k + 1, Len(out[s]))
    BY <1>1, <2>1
  <2>3. Written(s)' = Written(s) + k
    BY <1>1, <1>2, <1>5, <2>2, WroteFlow
  <2>4. QED
    BY <2>1, <2>3
<1>6. QED
  BY <1>2, <1>3, <1>4, <1>5

\* A rotation, of which a failed one leaves everything as it was.
LEMMA RotateEffect ==
  ASSUME LineTypes, FilesTyped, NEW s \in Stream, RotateSink(s)
  PROVE  /\ config' = config
         /\ \/ UNCHANGED files
            \/ \E k \in Stream : \E a \in Applied(k) :
                  /\ archives' = [archives EXCEPT ![k] = a.old]
                  /\ \/ file' = [file EXCEPT ![k] = a.now]
                     \/ OpenEmpties /\ file' = [file EXCEPT ![k] = <<>>]
BY SinkIsStream DEF RotateSink, Set

LEMMA RelayLog ==
  ASSUME LineInv, FlowInv, FilesTyped, NEW s \in Stream, Relay(s), produced' = produced
  PROVE  FilesTyped' /\ (RotationsApart /\ LogInv => LogInv')
<1>1. /\ LineTypes
      /\ \A r \in Stream \ {s} : Written(r)' = Written(r)
      /\ WriteOut(s) \/ Written(s)' = Written(s)
  BY RelayFlow DEF LineInv
<1>2. CASE UNCHANGED <<config, files>> /\ Written(s)' = Written(s)
  BY <1>1, <1>2, SameLog DEF files, FilesTyped
<1>3. CASE WriteOut(s)
  <2>1. FilesTyped'
    BY <1>3 DEF WriteOut, FilesTyped
  <2>2. ASSUME LogInv PROVE LogInv'
    <3>1. CASE file' = file /\ Written(s)' = Written(s)
      BY <1>1, <1>3, <2>2, <3>1, WriteOutEffect, SameLog DEF files
    <3>2. CASE \E k \in 0..Len(out[s]) :
                  /\ file' = [file EXCEPT ![Sink(s)] = file[Sink(s)] \o SubSeq(out[s], 1, k)]
                  /\ Written(s)' = Written(s) + k
      <4>1. PICK k \in 0..Len(out[s]) :
                  /\ file' = [file EXCEPT ![Sink(s)] = file[Sink(s)] \o SubSeq(out[s], 1, k)]
                  /\ Written(s)' = Written(s) + k
        BY <3>2
      <4>2. UNCHANGED <<config, archives>>
        BY <1>3 DEF WriteOut
      <4>3. QED
        BY <1>1, <2>2, <4>1, <4>2, WroteLog
    <3>3. QED
      BY <1>1, <1>3, <3>1, <3>2, WriteOutEffect
  <2>3. QED
    BY <2>1, <2>2
<1>4. CASE RotateSink(s)
  <2>1. \A r \in Stream : Written(r)' = Written(r)
    BY <1>1, <1>4 DEF RotateSink, WriteOut
  <2>2. CASE UNCHANGED files
    BY <1>4, <2>1, <2>2, SameLog DEF RotateSink, files, FilesTyped
  <2>3. CASE \E k \in Stream : \E a \in Applied(k) :
                  /\ archives' = [archives EXCEPT ![k] = a.old]
                  /\ \/ file' = [file EXCEPT ![k] = a.now]
                     \/ OpenEmpties /\ file' = [file EXCEPT ![k] = <<>>]
    <3>1. PICK k \in Stream : \E a \in Applied(k) :
                  /\ archives' = [archives EXCEPT ![k] = a.old]
                  /\ \/ file' = [file EXCEPT ![k] = a.now]
                     \/ OpenEmpties /\ file' = [file EXCEPT ![k] = <<>>]
      BY <2>3
    <3>2. PICK a \in Applied(k) :
                  /\ archives' = [archives EXCEPT ![k] = a.old]
                  /\ \/ file' = [file EXCEPT ![k] = a.now]
                     \/ OpenEmpties /\ file' = [file EXCEPT ![k] = <<>>]
      BY <3>1
    <3>3. FilesTyped'
      BY <1>1, <3>2, RotatedTypes
    <3>4. ASSUME RotationsApart, LogInv PROVE LogInv'
      <4>1. config' = config
        BY <1>4 DEF RotateSink
      <4>2. ~OpenEmpties => file' = [file EXCEPT ![k] = a.now]
        BY <3>2
      <4>3. QED
        BY <1>1, <2>1, <3>2, <3>4, <4>1, <4>2, RotatedLog
    <3>5. QED
      BY <3>3, <3>4
  <2>4. QED
    BY <1>1, <1>4, <2>2, <2>3, RotateEffect
<1>5. QED
  <2>1. BeginRead(s) \/ ReadReturns(s) \/ Deliver(s) \/ RotationDone(s)
          => UNCHANGED <<config, files>>
    BY DEF BeginRead, ReadReturns, Deliver, RotationDone
  <2>2. QED
    BY <1>1, <1>2, <1>3, <1>4, <2>1 DEF Relay

LEMMA StepLog ==
  ASSUME LineInv, FlowInv, EndInv, FilesTyped, [Next]_vars
  PROVE  FilesTyped' /\ (RotationsApart /\ LogInv => LogInv')
<1> USE DEF goroutine
<1>1. ASSUME UNCHANGED <<config, files>>, \A r \in Stream : Written(r)' = Written(r)
      PROVE  FilesTyped' /\ (LogInv => LogInv')
  BY <1>1, SameLog DEF files, FilesTyped
<1>2. CASE OpenStdin \/ OpenFile \/ CreatePipe \/ SetInherit \/ Duplicate
  BY <1>1, <1>2, StillFlow DEF OpenStdin, OpenFile, CreatePipe, SetInherit, Duplicate, Untouched
<1>3. CASE Begin
  BY <1>1, <1>3, BeginFlow DEF Begin
<1>4. CASE HookStarts \/ Request
  BY <1>1, <1>4, StillFlow DEF HookStarts, Request
<1>5. CASE CloseStarts \/ CloseSources \/ CloseSinks
  BY <1>1, <1>5, StillFlow DEF CloseStarts, CloseSources, CloseSinks, Untouched
<1>6. CASE \E s \in Stream : Write(s)
  BY <1>1, <1>6, WriteFlow DEF Write
<1>7. CASE \E s \in Stream : RunRelay(s)
  BY <1>7, RelayLog DEF RunRelay
<1>8. CASE \E who \in {"child", "hook"} : ProcessEnds(who)
  BY <1>1, <1>8, StillFlow DEF ProcessEnds
<1>9. CASE UNCHANGED vars
  BY <1>1, <1>9, StillFlow DEF vars, files
<1>10. QED
  BY <1>2, <1>3, <1>4, <1>5, <1>6, <1>7, <1>8, <1>9 DEF Next, Supervise

-----------------------------------------------------------------------------
(* The stamps in the files.                                                *)

StampInv == \A k \in Stream : /\ StampedRight(file[k])
                              /\ \A i \in DOMAIN archives[k] : StampedRight(archives[k][i])

LEMMA InitStamps == Init => StampInv
BY DEF Init, StampInv, StampedRight

LEMMA SameStamps ==
  ASSUME StampInv, UNCHANGED <<config, files>> PROVE StampInv'
BY DEF StampInv, StampedRight, files

LEMMA WroteStamps ==
  ASSUME LineTypes, FlowInv, StampInv, NEW s \in Stream, NEW k \in 0..Len(out[s]),
         file' = [file EXCEPT ![Sink(s)] = file[Sink(s)] \o SubSeq(out[s], 1, k)],
         UNCHANGED <<config, archives>>
  PROVE  StampInv'
<1> DEFINE f == file[Sink(s)]
           q == out[s]
           g == SubSeq(q, 1, k)
<1>1. /\ Sink(s) \in Stream /\ f \in Seq(Output) /\ q \in Seq(Output)
      /\ StampedRight(f) /\ StampedRight(q)
  BY SinkIsStream DEF LineTypes, FlowInv, FlowOf, StampInv
<1>2. /\ file'[Sink(s)] = f \o g /\ \A x \in Stream \ {Sink(s)} : file'[x] = file[x]
  BY <1>1 DEF LineTypes
<1>3. g \in Seq(Output) /\ \A i \in DOMAIN g : i \in DOMAIN q /\ g[i] = q[i]
  <2> HIDE DEF q
  <2>1. k \in 0..Len(q)
    BY DEF q
  <2>2. QED
    BY <1>1, <2>1
<1> HIDE DEF f, q, g
<1>4. ASSUME NEW i \in DOMAIN (f \o g)
      PROVE  \/ i \in DOMAIN f /\ (f \o g)[i] = f[i]
             \/ \E r \in DOMAIN g : (f \o g)[i] = g[r]
  <2>1. /\ Len(f) \in Nat /\ Len(g) \in Nat /\ DOMAIN f = 1..Len(f) /\ DOMAIN g = 1..Len(g)
        /\ i \in 1..(Len(f) + Len(g))
        /\ i <= Len(f) => (f \o g)[i] = f[i]
        /\ ~(i <= Len(f)) => (f \o g)[i] = g[i - Len(f)]
    BY <1>1, <1>3
  <2>2. CASE i <= Len(f)
    BY <2>1, <2>2
  <2>3. CASE ~(i <= Len(f))
    <3>1. i - Len(f) \in 1..Len(g)
      BY <2>1, <2>3
    <3>2. QED
      BY <2>1, <2>3, <3>1
  <2>4. QED
    BY <2>2, <2>3
<1>5. StampedRight(f \o g)
  BY <1>1, <1>3, <1>4 DEF StampedRight
<1>6. \A x \in Stream : StampedRight(file'[x])
  BY <1>2, <1>5 DEF StampInv, f
<1>7. QED
  BY <1>6 DEF StampInv, StampedRight

LEMMA RotatedStamps ==
  ASSUME LineTypes, FilesTyped, StampInv, NEW k \in Stream, NEW a \in Applied(k),
         archives' = [archives EXCEPT ![k] = a.old],
         \/ file' = [file EXCEPT ![k] = a.now]
         \/ file' = [file EXCEPT ![k] = <<>>],
         config' = config
  PROVE  StampInv'
<1> DEFINE A == archives[k]
           f == file[k]
           Right(logs) == \A i \in DOMAIN logs : StampedRight(logs[i])
<1>1. A \in Seq(Seq(Output)) /\ f \in Seq(Output) /\ Right(A) /\ StampedRight(f)
  BY DEF LineTypes, FilesTyped, StampInv
<1>2. StampedRight(<<>>)
  BY DEF StampedRight
<1>3. ASSUME NEW B \in Seq(Seq(Output)), Right(B) PROVE Right(Append(B, f))
  BY <1>1, <1>3
<1>4. ASSUME A # <<>> PROVE Front(A) \in Seq(Seq(Output)) /\ Right(Front(A))
  <2>1. Len(A) - 1 \in Int /\ \A i \in 1..(Len(A) - 1) : A[i] \in Seq(Output) /\ i \in DOMAIN A
    BY <1>1
  <2> HIDE DEF A, Right
  <2>2. /\ Front(A) \in Seq(Seq(Output)) /\ DOMAIN Front(A) = 1..(Len(A) - 1)
        /\ \A i \in 1..(Len(A) - 1) : Front(A)[i] = A[i]
    BY <1>1, <1>4, <2>1 DEF Front
  <2>3. Right(Front(A))
    BY <1>1, <2>1, <2>2 DEF Right
  <2>4. QED
    BY <2>2, <2>3
<1>5. Right(a.old) /\ a.now \in {<<>>, f}
  <2>1. \A b \in Archived(k) : Right(b)
    BY <1>1, <1>3, <1>4 DEF Archived
  <2>2. QED
    BY <1>1, <2>1 DEF Applied
<1>6. StampedRight(file'[k]) /\ \A x \in Stream \ {k} : file'[x] = file[x]
  BY <1>1, <1>2, <1>5 DEF LineTypes
<1>7. archives'[k] = a.old /\ \A x \in Stream \ {k} : archives'[x] = archives[x]
  BY DEF FilesTyped
<1>8. \A x \in Stream : StampedRight(file'[x]) /\ Right(archives'[x])
  BY <1>5, <1>6, <1>7 DEF StampInv
<1>9. QED
  BY <1>8 DEF StampInv, StampedRight

LEMMA StepStamps ==
  ASSUME LineInv, FlowInv, FilesTyped, StampInv, [Next]_vars PROVE StampInv'
<1>0. LineTypes
  BY DEF LineInv
<1>1. CASE UNCHANGED <<config, files>>
  BY <1>1, SameStamps
<1>2. ASSUME NEW s \in Stream, WriteOut(s), produced' = produced PROVE StampInv'
  <2>1. CASE \E k \in 0..Len(out[s]) :
                file' = [file EXCEPT ![Sink(s)] = file[Sink(s)] \o SubSeq(out[s], 1, k)]
    BY <1>0, <1>2, <2>1, WroteStamps DEF WriteOut
  <2>2. QED
    BY <1>0, <1>1, <1>2, <2>1, WriteOutEffect DEF files
<1>3. ASSUME NEW s \in Stream, RotateSink(s) PROVE StampInv'
  <2>1. CASE \E k \in Stream : \E a \in Applied(k) :
                  /\ archives' = [archives EXCEPT ![k] = a.old]
                  /\ \/ file' = [file EXCEPT ![k] = a.now]
                     \/ OpenEmpties /\ file' = [file EXCEPT ![k] = <<>>]
    <3>1. config' = config
      BY <1>3 DEF RotateSink
    <3>2. QED
      BY <1>0, <2>1, <3>1, RotatedStamps
  <2>2. QED
    BY <1>0, <1>1, <1>3, <2>1, RotateEffect
<1>4. ASSUME NEW s \in Stream, RunRelay(s) PROVE StampInv'
  <2>1. BeginRead(s) \/ ReadReturns(s) \/ Deliver(s) \/ RotationDone(s)
          => UNCHANGED <<config, files>>
    BY DEF BeginRead, ReadReturns, Deliver, RotationDone
  <2>2. QED
    BY <1>1, <1>2, <1>3, <1>4, <2>1 DEF RunRelay, Relay
<1>5. CASE Supervise
  <2>1. UNCHANGED <<config, files>>
    BY <1>5 DEF Supervise, OpenStdin, OpenFile, CreatePipe, SetInherit, Duplicate, Begin,
       HookStarts, Request, CloseStarts, CloseSources, CloseSinks, Untouched
  <2>2. QED
    BY <1>1, <2>1
<1>6. CASE (\E s \in Stream : Write(s)) \/ \E who \in {"child", "hook"} : ProcessEnds(who)
  BY <1>1, <1>6 DEF Write, ProcessEnds
<1>7. CASE UNCHANGED vars
  BY <1>1, <1>7 DEF vars
<1>8. QED
  BY <1>4, <1>5, <1>6, <1>7 DEF Next

-----------------------------------------------------------------------------
StreamInv == config \in Configs /\ LineInv /\ FlowInv /\ EndInv /\ FilesTyped /\ StampInv

LEMMA SameConfig == [Next]_vars => config' = config
BY DEF Next, Supervise, OpenStdin, OpenFile, CreatePipe, SetInherit, Duplicate, Begin,
   HookStarts, Request, CloseStarts, CloseSources, CloseSinks, Untouched, Write, ProcessEnds,
   RunRelay, Relay, BeginRead, ReadReturns, Deliver, WriteOut, RotateSink, RotationDone, vars

LEMMA PipedStreams == config \in Configs => Piped \subseteq Stream
BY RelayAssumption DEF Piped, Config

LEMMA StreamInvariant == Spec => []StreamInv
<1>1. Init => StreamInv
  BY InitLines, InitFlow, InitEnd, InitLog, InitStamps DEF StreamInv, Init
<1>2. StreamInv /\ [Next]_vars => StreamInv'
  BY SameConfig, StepLines, StepFlow, StepEnd, StepLog, StepStamps DEF StreamInv
<1>3. QED
  BY <1>1, <1>2, PTL DEF Spec

LEMMA LogInvariant ==
  ASSUME RotationsApart PROVE Spec => []LogInv
<1>1. Init => LogInv
  BY InitLog
<1>2. StreamInv /\ LogInv /\ [Next]_vars => LogInv'
  BY StepLog DEF StreamInv
<1>3. QED
  BY <1>1, <1>2, StreamInvariant, PTL DEF Spec

\* Whatever fails, and however chunks, short writes and rotations fall: a time stamp
\* stands before the first piece of each line and before no other.
THEOREM StampsAreRight == Spec => []StampsAtLineStarts
<1>1. StreamInv => StampsAtLineStarts
  <2> SUFFICES ASSUME StreamInv, NEW k \in Stream, NEW i \in DOMAIN Logs(k),
                      NEW j \in DOMAIN Logs(k)[i]
               PROVE  Logs(k)[i][j].stamped <=>
                        /\ config.timestamp
                        /\ Logs(k)[i][j].n = 1 \/ Logs(k)[i][j].n - 1 \in LineEnds
    BY DEF StampsAtLineStarts
  <2>1. archives[k] \in Seq(Seq(Output)) /\ file[k] \in Seq(Output)
    BY DEF StreamInv, FilesTyped, LineInv, LineTypes
  <2>2. Logs(k)[i] = file[k] \/ (i \in DOMAIN archives[k] /\ Logs(k)[i] = archives[k][i])
    BY <2>1 DEF Logs
  <2>3. StampedRight(Logs(k)[i])
    BY <2>2 DEF StreamInv, StampInv
  <2>4. QED
    BY <2>3 DEF StampedRight
<1>2. QED
  BY <1>1, StreamInvariant, PTL

\* Whatever the relays, the writers and the supervisor do, and whichever calls fail
\* short of two rotations in one millisecond and a copy that cannot be truncated: each
\* piece of a stream is once, and in order, in its log or on its way there.
THEOREM NothingIsLost ==
  ASSUME "sameMillisecond" \notin Faults, "truncate" \notin Faults
  PROVE  Spec => []NothingLost
<1>1. RotationsApart
  BY DEF RotationsApart
<1>2. StreamInv /\ LogInv => NothingLost
  <2>1. StreamInv => Piped \subseteq Stream
    BY PipedStreams DEF StreamInv
  <2>2. QED
    BY <2>1 DEF StreamInv, FlowInv, FlowOf, LogInv, NothingLost
<1>3. QED
  BY <1>1, <1>2, StreamInvariant, LogInvariant, PTL

\* Where the relay of a stream has ended, everything that the child and the hooks have
\* written is in the log, and nobody is left who could write.
THEOREM OutputIsComplete ==
  ASSUME "sameMillisecond" \notin Faults, "truncate" \notin Faults
  PROVE  Spec => []OutputComplete
<1>1. RotationsApart
  BY DEF RotationsApart
<1>2. StreamInv /\ LogInv => OutputComplete
  <2> SUFFICES ASSUME StreamInv, LogInv, ~OpenEmpties, NEW s \in Stream, at[s] = "ended"
               PROVE  holders[s] = {} /\ Complete(Logs(Sink(s)), s, produced[s])
    BY PipedStreams DEF OutputComplete, StreamInv
  <2>1. pipe[s] = <<>> /\ chunk[s] = <<>> /\ out[s] = <<>> /\ holders[s] = {}
    BY DEF StreamInv, EndInv, FlowInv, FlowOf
  <2>2. Written(s) = produced[s]
    <3>1. PICK t \in Nat : t = produced[s]
      BY DEF StreamInv, LineInv, LineTypes
    <3>2. Len(pipe[s]) = 0 /\ Len(chunk[s]) = 0 /\ Len(out[s]) = 0
      BY <2>1
    <3>3. Written(s) = ((t - 0) - 0) - 0
      BY <3>1, <3>2, Zenon DEF Written, Delivered, Unread
    <3>4. QED
      BY <3>1, <3>3
  <2>3. QED
    BY <2>1, <2>2 DEF LogInv
<1>3. QED
  BY <1>1, <1>2, StreamInvariant, LogInvariant, PTL
=============================================================================
