------------------------------ MODULE LogRelay ------------------------------
(***************************************************************************)
(* internal/logrelay and the log files of platform/redirect_windows: one   *)
(* relay goroutine per redirected stream reads a pipe and writes a sink;   *)
(* stdout and stderr share a sink when they name the same file.  A request *)
(* to rotate is booked in the sink's flag and taken by whichever relay     *)
(* meets a line boundary first.                                            *)
(*                                                                         *)
(* The output of a stream is a sequence of numbered pieces; LineEnds says  *)
(* which of them end a line.  What is in a file is the piece together with *)
(* whether a time stamp was put before it.                                 *)
(***************************************************************************)
EXTENDS Naturals, Sequences, SequencesExt

CONSTANTS Stream,      \* the redirected output streams
          LineEnds,    \* the numbers of the pieces that end a line
          Configs,     \* the redirect.Config values
          Faults,      \* which calls may fail
          IORetryMax

Dispositions == {"createNew", "createAlways", "openExisting", "openAlways",
                 "truncateExisting"}

\* enabled: the streams with a path; relayed: they go through pipes; shared: both name
\* the same file; archivable: no other program or right keeps the log file from being
\* renamed or copied.
Config == [enabled : SUBSET Stream, relayed : BOOLEAN, shared : BOOLEAN,
           timestamp : BOOLEAN, online : BOOLEAN, copyAndTruncate : BOOLEAN,
           archivable : BOOLEAN, disposition : Dispositions]

AllFaults == {"read", "write", "rename", "copy", "truncate", "reopen",
              "sameMillisecond", "open", "pipe", "inherit", "duplicate"}

ASSUME RelayAssumption == /\ Stream = {"stdout", "stderr"}
                          /\ LineEnds \subseteq Nat
                          /\ Configs # {} /\ Configs \subseteq Config
                          /\ \A c \in Configs :
                                /\ c.shared => c.enabled = Stream
                                /\ c.relayed <=> c.timestamp \/ c.online
                          /\ Faults \subseteq AllFaults
                          /\ IORetryMax \in Nat

VARIABLES
    config,
    handles,    \* the open handles of the supervisor's process
    holders,    \* holders[s]: the other processes that hold the write end of s
    pipe,       \* pipe[s]: pieces written and not yet read
    at,         \* at[s]: where the relay of s stands
    chunk,      \* chunk[s]: pieces read and not yet given to emit
    out,        \* out[s]: what writeAll still has to write
    tries,      \* tries[s]: failures in a row
    midLine,    \* midLine[s]: LineState.Written > 0
    flag,       \* flag[k]: the online rotation state of sink k
    file,       \* file[k]: the current log file
    archives,   \* archives[k]: the rotated files, oldest first
    taken       \* history: taken[k], the file was archived for the request in flag[k]

goroutine == <<at, chunk, out, tries, midLine>>
files     == <<file, archives>>

Sink(s) == IF config.shared THEN "stdout" ELSE s

SinkHandle(k) == <<"sink", k>>
ReadHandle(s) == <<"read", s>>
WriteEnds(s)  == {<<"child", s>>, <<"master", s>>}

Piece(s, n) == [of |-> s, n |-> n]
EndsLine(p) == p.n \in LineEnds

Relaying == {"read", "reading", "deliver", "head", "rotate", "done", "rest"}

-----------------------------------------------------------------------------
(* The pure part: timestamp.go.                                            *)

\* RotateBoundary: the length of the chunk up to its first line end, 0 for none.
RotateBoundary(c) ==
    LET ends == {i \in DOMAIN c : EndsLine(c[i])}
    IN  IF ends = {} THEN 0 ELSE CHOOSE i \in ends : \A j \in ends : i <= j

\* The stamp is forgotten when the chunk begins a line after another chunk.
StampInsideChunkOnly(c, mid) ==
    [i \in DOMAIN c |->
        [of |-> c[i].of, n |-> c[i].n,
         stamped |-> config.timestamp /\ i > 1 /\ EndsLine(c[i - 1])]]

\* LineState.Stamp: a stamp before each piece that begins a line.
Stamp(c, mid) ==
    [i \in DOMAIN c |->
        [of |-> c[i].of, n |-> c[i].n,
         stamped |-> /\ config.timestamp
                     /\ IF i = 1 THEN ~mid ELSE EndsLine(c[i - 1])]]

\* LineState.Written > 0 after the chunk.
StillMidLine(c, mid) == IF c = <<>> THEN mid ELSE ~EndsLine(Last(c))

-----------------------------------------------------------------------------
(* The steps of one relay.                                                 *)

Set(f, s, v) == [f EXCEPT ![s] = v]

Goto(s, place) == at' = Set(at, s, place)

\* A broken variant: nothing counts the retries.
RetryUncounted(s, place) == UNCHANGED tries /\ Goto(s, place)

\* A relay fails for good after IORetryMax retries without success.
Retry(s, place) ==
    /\ tries' = Set(tries, s, tries[s] + 1)
    /\ Goto(s, IF tries[s] + 1 > IORetryMax THEN "failed" ELSE place)

\* pipeReader.Read looks at its handle before it reads.
BeginRead(s) ==
    /\ at[s] = "read"
    /\ Goto(s, IF ReadHandle(s) \in handles THEN "reading" ELSE "failed")
    /\ UNCHANGED <<config, handles, holders, pipe, chunk, out, tries, midLine, flag,
                   files, taken>>

ReadReturns(s) ==
    /\ at[s] = "reading"
    /\ \/ /\ pipe[s] # <<>>
          /\ \E k \in 1..Len(pipe[s]) :
                /\ chunk' = Set(chunk, s, SubSeq(pipe[s], 1, k))
                /\ pipe' = Set(pipe, s, SubSeq(pipe[s], k + 1, Len(pipe[s])))
          /\ tries' = Set(tries, s, 0)
          /\ Goto(s, "deliver")
       \/ /\ pipe[s] = <<>> /\ holders[s] = {} /\ WriteEnds(s) \cap handles = {}
          /\ Goto(s, "ended")      \* a broken pipe is the end of the output
          /\ UNCHANGED <<pipe, chunk, tries>>
       \/ /\ ReadHandle(s) \notin handles
          /\ Goto(s, "failed")
          /\ UNCHANGED <<pipe, chunk, tries>>
       \/ /\ "read" \in Faults
          /\ Retry(s, "read")
          /\ UNCHANGED <<pipe, chunk>>
    /\ UNCHANGED <<config, handles, holders, out, midLine, flag, files, taken>>

\* Broken variants: the remainder is the whole chunk, and a rotation does not wait for
\* the end of a line.
RemainderUncut(c, cut) == IF cut > 0 THEN c ELSE <<>>
CutAnywhere(s) == IF flag[Sink(s)] = "asap" THEN Len(chunk[s]) ELSE 0

\* How much of the chunk goes to the old file when a rotation is due, 0 when none is.
Cut(s) == IF flag[Sink(s)] = "asap" THEN RotateBoundary(chunk[s]) ELSE 0

\* What of the chunk c is left for the new file.
Remainder(c, cut) == IF cut > 0 THEN SubSeq(c, cut + 1, Len(c)) ELSE <<>>

\* deliver up to the first call of writeAll.
Deliver(s) ==
    /\ at[s] = "deliver"
    /\ LET c   == chunk[s]
           cut == Cut(s)
           now == IF cut > 0 THEN SubSeq(c, 1, cut) ELSE c
       IN  /\ out' = Set(out, s, Stamp(now, midLine[s]))
           /\ chunk' = Set(chunk, s, Remainder(c, cut))
           /\ midLine' = Set(midLine, s, StillMidLine(now, midLine[s]))
           /\ Goto(s, IF cut > 0 THEN "head" ELSE "rest")
    /\ tries' = Set(tries, s, 0)
    /\ UNCHANGED <<config, handles, holders, pipe, flag, files, taken>>

\* A broken variant: what could not be written is dropped.
WroteDropsRest(s, n) == /\ file' = Set(file, Sink(s), file[Sink(s)] \o SubSeq(out[s], 1, n))
                        /\ out' = Set(out, s, <<>>)

\* writeAll after a Write that took n pieces.
Wrote(s, n) == /\ file' = Set(file, Sink(s), file[Sink(s)] \o SubSeq(out[s], 1, n))
               /\ out' = Set(out, s, SubSeq(out[s], n + 1, Len(out[s])))

\* One turn of writeAll: fileSink.Write under the sink's lock.  A short write without
\* an error goes on at once; one with an error, or of nothing, is a retry.
WriteOut(s) ==
    /\ at[s] \in {"head", "rest"}
    /\ \/ /\ SinkHandle(Sink(s)) \notin handles
          /\ Goto(s, "failed")
          /\ UNCHANGED <<file, out, tries>>
       \/ /\ SinkHandle(Sink(s)) \in handles
          /\ Wrote(s, Len(out[s]))
          /\ Goto(s, IF at[s] = "head" THEN "rotate" ELSE "read")
          /\ tries' = Set(tries, s, 0)
       \/ /\ SinkHandle(Sink(s)) \in handles
          /\ "write" \in Faults
          /\ \E n \in 0..(Len(out[s]) - 1) :
                /\ Wrote(s, n)
                /\ \/ Retry(s, at[s])
                   \/ n > 0 /\ tries' = Set(tries, s, 0) /\ Goto(s, at[s])
    /\ UNCHANGED <<config, handles, holders, pipe, chunk, midLine, flag, archives, taken>>

\* The archives once the file was copied or renamed.  Its name carries the time of its
\* last write in milliseconds, and an archive of the same name is replaced.
Archived(k) ==
    {Append(archives[k], file[k])}
    \cup (IF "sameMillisecond" \in Faults /\ archives[k] # <<>>
          THEN {Append(Front(archives[k]), file[k])} ELSE {})

\* What rotate.Apply leaves: the archives, the content of the log file, its existence,
\* and whether the file was archived.
Applied(k) ==
    LET untouched == [old |-> archives[k], now |-> file[k], exists |-> TRUE, made |-> FALSE]
        moved == {[old |-> a, now |-> <<>>, exists |-> config.copyAndTruncate, made |-> TRUE]
                    : a \in Archived(k)}
        halfDone == {[old |-> a, now |-> file[k], exists |-> TRUE, made |-> TRUE]
                       : a \in Archived(k)}
    IN  moved
        \cup (IF /\ ~config.archivable
                 /\ (IF config.copyAndTruncate THEN "copy" ELSE "rename") \in Faults
              THEN {untouched} ELSE {})
        \cup (IF config.copyAndTruncate /\ "truncate" \in Faults THEN halfDone ELSE {})

\* CreateFileW by creation disposition.
Openable(exists) == CASE config.disposition = "createNew" -> ~exists
                      [] config.disposition \in {"openExisting", "truncateExisting"} -> exists
                      [] OTHER -> TRUE
OpenEmpties == config.disposition \in {"createAlways", "truncateExisting"}

\* fileSink.Rotate under the sink's lock, its result ignored.  Nobody else removes the
\* log file, so there is one to rotate.
RotateSink(s) ==
    LET k == Sink(s)
    IN  /\ at[s] = "rotate"
        /\ Goto(s, "done")
        /\ \/ /\ SinkHandle(k) \notin handles
              /\ UNCHANGED <<handles, files, taken>>
           \/ /\ SinkHandle(k) \in handles
              /\ \E a \in Applied(k) :
                    /\ archives' = Set(archives, k, a.old)
                    /\ taken' = IF a.made THEN Set(taken, k, TRUE) ELSE taken
                    /\ \/ /\ Openable(a.exists)
                          /\ file' = Set(file, k, IF OpenEmpties THEN <<>> ELSE a.now)
                          /\ UNCHANGED handles
                       \/ /\ ~Openable(a.exists) \/ "reopen" \in Faults
                          /\ file' = Set(file, k, a.now)
                          /\ handles' = handles \ {SinkHandle(k)}
        /\ UNCHANGED <<config, holders, pipe, chunk, out, tries, midLine, flag>>

\* Flag.Done, then the remainder of the chunk.
RotationDone(s) ==
    /\ at[s] = "done"
    /\ LET k == Sink(s) IN flag' = Set(flag, k, IF flag[k] = "asap" THEN "on" ELSE flag[k])
    /\ out' = Set(out, s, Stamp(chunk[s], midLine[s]))
    /\ midLine' = Set(midLine, s, StillMidLine(chunk[s], midLine[s]))
    /\ chunk' = Set(chunk, s, <<>>)
    /\ Goto(s, IF chunk[s] = <<>> THEN "read" ELSE "rest")
    /\ UNCHANGED <<config, handles, holders, pipe, tries, files, taken>>

Relay(s) == \/ BeginRead(s) \/ ReadReturns(s) \/ Deliver(s) \/ WriteOut(s)
            \/ RotateSink(s) \/ RotationDone(s)

Over(s) == at[s] \in {"none", "ended", "failed"}
=============================================================================
