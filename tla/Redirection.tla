----------------------------- MODULE Redirection -----------------------------
(***************************************************************************)
(* windowsRedirection: the life of the standard streams of one child, from *)
(* OpenRedirect to Close, with the relays of LogRelay.tla, the child and a *)
(* hook that write, and the supervisor that books rotations and closes.    *)
(***************************************************************************)
EXTENDS LogRelay, FiniteSets

CONSTANTS PipeSize,      \* a writer blocks when the pipe holds so much
          MaxPieces,     \* bound: MaxPieces[s] pieces are written to s
          MaxRequests    \* bound: rotations booked

ASSUME RedirectionAssumption == /\ PipeSize \in Nat \ {0}
                                /\ MaxPieces \in [Stream -> Nat]
                                /\ MaxRequests \in Nat

VARIABLES phase,       \* the call the supervisor is in, see Phases
          opening,     \* the stream that is being opened
          registered,  \* the handles that Close knows of
          produced,    \* produced[s]: pieces written by the processes
          requests,    \* rotations booked
          expired      \* history: Close gave up waiting for the relays

life == <<phase, opening, registered, requests, expired>>
vars == <<config, handles, holders, pipe, goroutine, flag, files, taken, life, produced>>

Phases == {"stdin", "file", "pipe", "inherit", "duplicate", "open", "begun",
           "draining", "closing", "closed"}

Entries == UNION {[of : {s}, n : 1..MaxPieces[s], stamped : BOOLEAN] : s \in Stream}

TypeOK == /\ config \in Configs
          /\ phase \in Phases /\ opening \in Stream
          /\ registered \subseteq handles
          /\ \A s \in Stream : produced[s] \in 0..MaxPieces[s]
          /\ requests \in 0..MaxRequests /\ expired \in BOOLEAN
          /\ holders \in [Stream -> SUBSET {"child", "hook"}]
          /\ \A s \in Stream : Len(pipe[s]) <= PipeSize
          /\ at \in [Stream -> Relaying \cup {"none", "ended", "failed"}]
          /\ tries \in [Stream -> 0..(IORetryMax + 1)]
          /\ midLine \in [Stream -> BOOLEAN]
          /\ flag \in [Stream -> {"off", "on", "asap"}]
          /\ \A s \in Stream : \A i \in DOMAIN file[s] : file[s][i] \in Entries

Init == /\ config \in Configs
        /\ phase = "stdin" /\ opening = "stdout"
        /\ handles = {} /\ registered = {}
        /\ requests = 0 /\ expired = FALSE
        /\ produced = [s \in Stream |-> 0]
        /\ holders = [s \in Stream |-> {}]
        /\ pipe = [s \in Stream |-> <<>>]
        /\ at = [s \in Stream |-> "none"]
        /\ chunk = [s \in Stream |-> <<>>]
        /\ out = [s \in Stream |-> <<>>]
        /\ tries = [s \in Stream |-> 0]
        /\ midLine = [s \in Stream |-> FALSE]
        /\ flag = [s \in Stream |-> IF config.online THEN "on" ELSE "off"]
        /\ file = [s \in Stream |-> <<>>]
        /\ archives = [s \in Stream |-> <<>>]
        /\ taken = [s \in Stream |-> FALSE]

-----------------------------------------------------------------------------
(* OpenRedirect, call by call.  A call that fails closes what its own      *)
(* function opened and then everything registered (r.Close).               *)

Untouched == UNCHANGED <<config, holders, pipe, goroutine, flag, files, taken, produced>>

\* releasePending and releaseHookMasters, the first step of Close.
ParentEnds(h) == h[1] \in {"stdin", "child", "master"}

Abandon(kept) == /\ registered' = {h \in registered \cap kept : ~ParentEnds(h)}
                 /\ handles' = kept \ (registered \ registered')
                 /\ phase' = "draining"
                 /\ UNCHANGED <<opening, requests, expired>>

\* The second of two streams with one target takes what the first has opened.
Second(s) == s = "stderr" /\ config.shared

\* Where the opening of stderr begins, and what follows stdout.
StderrPhase == IF "stderr" \notin config.enabled THEN "open"
               ELSE IF ~config.shared THEN "file"
               ELSE IF config.relayed THEN "pipe" ELSE "open"

NextStream == IF opening = "stdout"
              THEN opening' = "stderr" /\ phase' = StderrPhase
              ELSE phase' = "open" /\ UNCHANGED opening

OpenStdin ==
    /\ phase = "stdin"
    /\ \/ /\ handles' = handles \cup {<<"stdin", "stdin">>}
          /\ registered' = registered \cup {<<"stdin", "stdin">>}
          /\ IF "stdout" \in config.enabled
             THEN phase' = "file" /\ UNCHANGED opening
             ELSE phase' = StderrPhase /\ opening' = "stderr"
          /\ UNCHANGED <<requests, expired>>
       \/ "open" \in Faults /\ Abandon(handles)
    /\ Untouched

\* The file: a sink for a relayed stream, which Close knows at once, or the file the
\* child writes itself.
OpenFile ==
    /\ phase = "file"
    /\ LET h == IF config.relayed THEN SinkHandle(opening) ELSE <<"master", opening>>
       IN  \/ /\ handles' = handles \cup {h}
              /\ registered' = IF config.relayed THEN registered \cup {h} ELSE registered
              /\ phase' = IF config.relayed THEN "pipe" ELSE "duplicate"
              /\ UNCHANGED <<opening, requests, expired>>
           \/ "open" \in Faults /\ Abandon(handles)
    /\ Untouched

PipeEnds(s) == {ReadHandle(s), <<"master", s>>}
OwnSink(s)  == IF Second(s) THEN {} ELSE {SinkHandle(s)}

\* A broken variant: the write end is left behind.
OwnButMaster(s) == {ReadHandle(s)} \cup OwnSink(s)

\* What the function that opens s has opened, and closes itself after a failure.
Own(s) == PipeEnds(s) \cup OwnSink(s)

CreatePipe ==
    /\ phase = "pipe"
    /\ \/ /\ handles' = handles \cup PipeEnds(opening)
          /\ phase' = "inherit"
          /\ UNCHANGED <<opening, registered, requests, expired>>
       \/ "pipe" \in Faults /\ Abandon(handles \ OwnSink(opening))
    /\ Untouched

SetInherit ==
    /\ phase = "inherit"
    /\ \/ /\ phase' = "duplicate"
          /\ UNCHANGED <<handles, opening, registered, requests, expired>>
       \/ "inherit" \in Faults /\ Abandon(handles \ Own(opening))
    /\ Untouched

\* The child's copy of the write end or of the file; then Close knows them all.
Duplicate ==
    /\ phase = "duplicate"
    /\ \/ /\ handles' = handles \cup {<<"child", opening>>}
          /\ registered' = registered \cup WriteEnds(opening)
                           \cup (handles \cap {ReadHandle(opening)})
          /\ NextStream
          /\ UNCHANGED <<requests, expired>>
       \/ /\ "duplicate" \in Faults
          /\ Abandon(handles \ Own(opening))
    /\ Untouched

-----------------------------------------------------------------------------
(* The run of the child.                                                   *)

Piped == IF config.relayed THEN config.enabled ELSE {}

\* StartProcess, which hands the child its copies, and Begin.
Begin ==
    /\ phase = "open"
    /\ phase' = "begun"
    /\ holders' = [s \in Stream |-> IF s \in config.enabled THEN holders[s] \cup {"child"} ELSE {}]
    /\ handles' = {h \in handles : h[1] \notin {"stdin", "child"}}
    /\ registered' = registered \cap handles'
    /\ at' = [s \in Stream |-> IF s \in Piped THEN "read" ELSE "none"]
    /\ UNCHANGED <<config, pipe, chunk, out, tries, midLine, flag, files, taken,
                   opening, produced, requests, expired>>

\* The child or a hook writes.  A full pipe blocks the writer.
Write(s) ==
    /\ s \in Piped /\ holders[s] # {}
    /\ Len(pipe[s]) < PipeSize
    /\ produced[s] < MaxPieces[s]
    /\ produced' = Set(produced, s, produced[s] + 1)
    /\ pipe' = Set(pipe, s, Append(pipe[s], Piece(s, produced'[s])))
    /\ UNCHANGED <<config, handles, holders, goroutine, flag, files, taken, life>>

ProcessEnds(who) ==
    /\ \E s \in Stream : who \in holders[s]
    /\ holders' = [s \in Stream |-> holders[s] \ {who}]
    /\ UNCHANGED <<config, handles, pipe, goroutine, flag, files, taken, life, produced>>

\* OpenHookOutput and the start of a hook, which gets the masters duplicated.
HookStarts ==
    /\ phase \in {"open", "begun"}
    /\ \A s \in Stream : "hook" \notin holders[s]
    /\ holders' = [s \in Stream |-> IF <<"master", s>> \in handles
                                     THEN holders[s] \cup {"hook"} ELSE holders[s]]
    /\ UNCHANGED <<config, handles, pipe, goroutine, flag, files, taken, life, produced>>

\* A broken variant of Request: a store instead of a compare-and-swap.
BookableAgain(k) == flag[k] # "off"

\* Flag.Request: off and pending flags stay as they are.
Bookable(k) == flag[k] = "on"

\* Rotate: Request on the flag of every sink.
Request ==
    /\ phase \in {"open", "begun"}
    /\ requests < MaxRequests
    /\ requests' = requests + 1
    /\ LET booked == {k \in Stream : SinkHandle(k) \in registered /\ Bookable(k)}
       IN  /\ flag' = [k \in Stream |-> IF k \in booked THEN "asap" ELSE flag[k]]
           /\ taken' = [k \in Stream |-> taken[k] /\ k \notin booked]
    /\ UNCHANGED <<config, handles, holders, pipe, goroutine, files, phase, opening,
                   registered, produced, expired>>

-----------------------------------------------------------------------------
(* Close.                                                                  *)

CloseStarts ==
    /\ phase \in {"open", "begun"}
    /\ Abandon(handles)
    /\ Untouched

AllOver == \A s \in Stream : Over(s)

\* waitForRelays returns when the relays are over or after LoggerCleanupDeadline.
CloseSources ==
    /\ phase = "draining"
    /\ expired' = ~AllOver
    /\ phase' = "closing"
    /\ handles' = {h \in handles : h[1] # "read" \/ h \notin registered}
    /\ registered' = registered \cap handles'
    /\ UNCHANGED <<opening, requests>>
    /\ Untouched

CloseSinks ==
    /\ phase = "closing"
    /\ phase' = "closed"
    /\ handles' = {h \in handles : h[1] # "sink" \/ h \notin registered}
    /\ registered' = registered \cap handles'
    /\ UNCHANGED <<opening, requests, expired>>
    /\ Untouched

RunRelay(s) == Relay(s) /\ registered' = registered \cap handles'
               /\ UNCHANGED <<phase, opening, requests, expired, produced>>

Supervise == \/ OpenStdin \/ OpenFile \/ CreatePipe \/ SetInherit \/ Duplicate \/ Begin
             \/ HookStarts \/ Request \/ CloseStarts \/ CloseSources \/ CloseSinks

Next == \/ Supervise
        \/ \E s \in Stream : Write(s) \/ RunRelay(s)
        \/ \E who \in {"child", "hook"} : ProcessEnds(who)

Spec == Init /\ [][Next]_vars

(* Relays run.  Nothing is assumed of the processes that write.            *)
FairSpec == Spec /\ \A s \in Stream : WF_vars(RunRelay(s))

-----------------------------------------------------------------------------
\* The files of a sink since the child was started, oldest first.
Logs(k) == Append(archives[k], file[k])

\* The pieces of s in these files, read one file after the other, are 1 to n.
Complete(logs, s, n) ==
    /\ \A i \in DOMAIN logs : \A j \in DOMAIN logs[i] :
          logs[i][j].of = s => logs[i][j].n \in 1..n
    /\ \A m \in 1..n : \E i \in DOMAIN logs : \E j \in DOMAIN logs[i] :
          logs[i][j].of = s /\ logs[i][j].n = m
    /\ \A i, k \in DOMAIN logs : \A j \in DOMAIN logs[i], l \in DOMAIN logs[k] :
          /\ logs[i][j].of = s /\ logs[k][l].of = s
          /\ i < k \/ (i = k /\ j < l)
          => logs[i][j].n < logs[k][l].n

\* The pieces of s that come after its first n.
Follow(pieces, s, n) == \A i \in DOMAIN pieces : pieces[i].of = s /\ pieces[i].n = n + i

\* How much of s is on its way; the rest has been written.
Unread(s)    == produced[s] - Len(pipe[s])
Delivered(s) == Unread(s) - Len(chunk[s])
Written(s)   == Delivered(s) - Len(out[s])

(* Between a stream and its log nothing is lost, doubled or reordered,     *)
(* whatever fails and however the relays of a shared file and rotations    *)
(* interleave ("nothing may be lost or written twice", the test of online  *)
(* rotation).  The dispositions that empty a file when it is opened again  *)
(* are asked to lose it.                                                   *)
NothingLost ==
    ~OpenEmpties =>
        \A s \in Piped :
            /\ Complete(Logs(Sink(s)), s, Written(s))
            /\ Follow(out[s], s, Written(s))
            /\ Follow(chunk[s], s, Delivered(s))
            /\ Follow(pipe[s], s, Unread(s))

(* A rotated file ends with a complete line of each stream that it is      *)
(* alone in ("the completed line stays in the old file").                  *)
RotatesAtLineEnds ==
    \A k \in Stream : ~config.shared =>
        \A i \in DOMAIN archives[k] :
            archives[k][i] # <<>> => Last(archives[k][i]).n \in LineEnds

(* A time stamp stands before the first piece of a line and before no      *)
(* other, across chunks, partial writes and rotations.                     *)
StampsAtLineStarts ==
    \A k \in Stream : \A i \in DOMAIN Logs(k) : \A j \in DOMAIN Logs(k)[i] :
        LET e == Logs(k)[i][j]
        IN  e.stamped <=> config.timestamp /\ (e.n = 1 \/ e.n - 1 \in LineEnds)

(* When the relay of a stream has come to the end of the pipe, all the     *)
(* output of the child and its hooks is in the log and nobody can write    *)
(* more, although the hooks hold the pipe without the supervisor's         *)
(* knowledge.                                                              *)
OutputComplete ==
    ~OpenEmpties =>
        \A s \in Piped : at[s] = "ended" =>
            /\ holders[s] = {}
            /\ Complete(Logs(Sink(s)), s, produced[s])

(* Whichever call of OpenRedirect fails, and however a rotation ends, Close *)
(* leaves no handle open: a file that stays open cannot be rotated by the  *)
(* next start.                                                             *)
HandlesReleased == phase = "closed" => handles = {}

(* A booked rotation is cleared only once the file was archived for it,    *)
(* however requests, reads, short writes and reopenings interleave with    *)
(* it, unless Close has taken the sink away.  relay.go:110 ignores the     *)
(* error of Rotate, so it is kept only where nothing keeps the file from   *)
(* being renamed or copied, and not by two relays of one sink.             *)
RequestHonoured ==
    [][ \A k \in Stream :
          (~config.shared /\ config.archivable /\ flag[k] = "asap" /\ flag'[k] = "on")
            => taken[k] \/ phase = "closed" ]_vars

(* A child that writes more than the pipe holds is not blocked for ever:   *)
(* the pipe is emptied, unless its relay has failed or nobody holds it.    *)
WritersGoOn ==
    \A s \in Stream : (s \in Piped /\ Len(pipe[s]) = PipeSize)
                        ~> (Len(pipe[s]) < PipeSize \/ Over(s))

(* "Rotation failure does not stop the relay": while the streams are open  *)
(* a relay fails only if its own reads and writes do.                      *)
RotationNeverStopsRelay == \A s \in Stream : phase = "begun" => at[s] # "failed"
=============================================================================
