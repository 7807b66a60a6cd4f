------------------------------ MODULE LogFile ------------------------------
(***************************************************************************)
(* muduo/base/LogFile.cc: lines are appended to a file, which is rolled    *)
(* when it has grown to rollSize_ and at the start of a period, and        *)
(* flushed at intervals that are looked at every checkEveryN_ lines.  The  *)
(* clock may be set back, summer time may end, writing, flushing and       *)
(* closing may fail, and the process may crash, whereby the lines that     *)
(* stdio still buffers are lost; a new one then opens its own LogFile.     *)
(* stdio's buffer (64K) is flushed earlier when it is full, which only     *)
(* makes the losses smaller and is left out, and so is a flush or a close  *)
(* that fails when a part of the buffer is written.  An fopen() that fails *)
(* ends the process, as a crash after the roll does.                       *)
(***************************************************************************)
EXTENDS Naturals

CONSTANTS rollSize_,
          flushInterval_,
          checkEveryN_,
          kRollPerSeconds_,
          localtime,         \* external: the local time of each second, as
                             \* its rank among the local times
          MaxTime,           \* bound: the clock, in seconds
          MaxLines           \* bound: lines

ASSUME LogFileAssumption ==
  /\ {rollSize_, flushInterval_, MaxLines} \subseteq Nat
  /\ {checkEveryN_, kRollPerSeconds_, MaxTime} \subseteq Nat \ {0}
  /\ localtime \in [0 .. MaxTime -> 0 .. MaxTime]

VARIABLES
  now,            \* the system clock
  life,           \* of the LogFile: "none", "open", "crashed"
  file,           \* the name of the file, that is the local time in it
  writtenBytes_,
  count_,
  startOfPeriod_,
  lastRoll_,
  lastFlush_,
  disk,           \* per name: the numbers of the lines in the file, which
                  \* are there in the order of their numbers
  lines,          \* lines appended so far
  pending,        \* the lines in stdio's buffer, all of them in file, each
                  \* with the time at which it was appended
  stepped,        \* ghost: the clock was set back
  older,          \* ghost: a name was taken that is older than the last,
                  \* by a new process or at a later time
  failed,         \* ghost: a flush due after the interval has failed, and
                  \* none has succeeded since
  checkedAt,      \* ghost: when the interval was last looked at
  late            \* ghost: bytes of lines appended to file after the second
                  \* in which it was opened

timeVars == <<startOfPeriod_, lastRoll_, lastFlush_>>
fileVars == <<life, file, writtenBytes_, count_, timeVars>>
dataVars == <<disk, lines, pending>>
logFileVars ==
  <<now, fileVars, dataVars, stepped, older, failed, checkedAt, late>>

Times == 0 .. MaxTime

LogFileTypeOK ==
  /\ {now, file, startOfPeriod_, lastRoll_, lastFlush_, checkedAt}
       \subseteq Times
  /\ life \in {"none", "open", "crashed"}
  /\ writtenBytes_ \in 0 .. rollSize_
  /\ count_ \in 0 .. checkEveryN_ - 1
  /\ disk \in [Times -> SUBSET (1 .. lines)]
  /\ lines \in 0 .. MaxLines
  /\ pending \subseteq (1 .. lines) \X Times
  /\ {stepped, older, failed} \subseteq BOOLEAN
  /\ late \in Nat

LogFileInit ==
  /\ now = 1
  /\ life = "none"
  /\ file = 0
  /\ writtenBytes_ = 0 /\ count_ = 0
  /\ startOfPeriod_ = 0 /\ lastRoll_ = 0 /\ lastFlush_ = 0
  /\ disk = [t \in Times |-> {}]
  /\ lines = 0
  /\ pending = {}
  /\ stepped = FALSE /\ older = FALSE /\ failed = FALSE
  /\ checkedAt = 0
  /\ late = 0

-----------------------------------------------------------------------------
Period(t) == (t \div kRollPerSeconds_) * kRollPerSeconds_

(* Mutations: rollFile() takes any time for a new one, or goes by periods.  *)
MayRollAlways(last) == TRUE
MayRollInPeriod(last) == Period(now) > last

(* The test of line 96.                                                     *)
MayRoll(last) == now > last

(* What files have without the lines that are in stdio's buffer only.       *)
Lost(contents, unflushed) ==
  [contents EXCEPT ![file] = @ \ {p[1] : p \in unflushed}]

(* fclose() flushes the buffer or loses it.                                 *)
Closed(contents, unflushed) ==
  /\ disk' \in {contents, Lost(contents, unflushed)}
  /\ pending' = {}
  /\ failed' = FALSE

Buffered(contents, unflushed) ==
  /\ disk' = contents
  /\ pending' = unflushed
  /\ UNCHANGED failed

(* rollFile(): the file is closed and another opened for appending, under   *)
(* the name getLogFileName() makes of the local time, unless one was opened *)
(* in this second.                                                          *)
Rolled ==
  /\ lastRoll_' = now /\ lastFlush_' = now
  /\ startOfPeriod_' = Period(now)
  /\ file' = localtime[now]
  /\ late' = 0

rollFile(contents, unflushed, grown) ==
  IF MayRoll(lastRoll_)
  THEN /\ Rolled
       /\ Closed(contents, unflushed)
       /\ older' = (older \/ (now > lastRoll_ /\ localtime[now] < file))
  ELSE /\ Buffered(contents, unflushed)
       /\ late' = grown
       /\ UNCHANGED <<timeVars, file, older>>

(* LogFile(): all members but fp_ are given values.                         *)
Construct ==
  /\ life # "open"
  /\ life' = "open"
  /\ writtenBytes_' = 0 /\ count_' = 0
  /\ Rolled                             \* lastRoll_ is 0 there
  /\ checkedAt' = now
  /\ older' = (older \/ localtime[now] < file)
  /\ UNCHANGED <<now, dataVars, stepped, failed>>

(* rollFile() in the constructor reads fp_, which nothing has set: if it is *)
(* not NULL by chance, fclose() is given a pointer to nowhere.              *)
ConstructUninitialised ==
  /\ life = "none"
  /\ life' = "crashed"
  /\ UNCHANGED <<now, file, writtenBytes_, count_, timeVars, dataVars, stepped,
                 older, failed, checkedAt, late>>

(* Mutation: the difference is taken the wrong way round.                   *)
FlushDueReversed == lastFlush_ > now + flushInterval_

(* Line 74.                                                                 *)
FlushDue == now > lastFlush_ + flushInterval_

(* The rest of append() once the bytes are written.  Bytes written where    *)
(* rollFile() declines are forgotten, the roll of a period keeps the count, *)
(* and a flush that fails is not repeated before the next interval.         *)
AppendTail(contents, written, unflushed) ==
  LET bytes == writtenBytes_ + written
      grown == IF now > lastRoll_ THEN late + written ELSE late
  IN  \/ /\ bytes > rollSize_
         /\ writtenBytes_' = 0
         /\ rollFile(contents, unflushed, grown)
         /\ UNCHANGED <<count_, checkedAt>>
      \/ /\ bytes <= rollSize_ /\ count_ + 1 < checkEveryN_
         /\ writtenBytes_' = bytes
         /\ count_' = count_ + 1
         /\ Buffered(contents, unflushed)
         /\ late' = grown
         /\ UNCHANGED <<timeVars, file, older, checkedAt>>
      \/ /\ bytes <= rollSize_ /\ count_ + 1 >= checkEveryN_
         /\ writtenBytes_' = bytes
         /\ count_' = 0
         /\ checkedAt' = now
         /\ \/ /\ Period(now) # startOfPeriod_
               /\ rollFile(contents, unflushed, grown)
            \/ /\ Period(now) = startOfPeriod_
               /\ late' = grown
               /\ UNCHANGED <<startOfPeriod_, lastRoll_, file, older>>
               /\ \/ /\ FlushDue
                     /\ lastFlush_' = now
                     /\ disk' = contents
                     /\ \/ pending' = {} /\ failed' = FALSE
                        \/ pending' = unflushed /\ failed' = TRUE
                  \/ /\ ~FlushDue
                     /\ UNCHANGED lastFlush_
                     /\ Buffered(contents, unflushed)

(* append() of a line.  A write that fails may leave a part of the line;    *)
(* that counts as the line, but not to writtenBytes_.                       *)
Append_(len) ==
  /\ life = "open"
  /\ lines' = lines + 1
  /\ LET Written == [disk EXCEPT ![file] = @ \cup {lines + 1}]
         unflushed == pending \cup {<<lines + 1, now>>}
     IN  \/ AppendTail(Written, len, unflushed)
         \/ AppendTail(Written, 0, unflushed)
         \/ AppendTail(disk, 0, pending)
  /\ UNCHANGED <<now, life, stepped>>

(* flush(), as user code calls it through g_flush.  One that fails changes  *)
(* nothing.                                                                 *)
Flush ==
  /\ life = "open"
  /\ pending # {}
  /\ pending' = {} /\ failed' = FALSE
  /\ UNCHANGED <<now, fileVars, disk, lines, stepped, older, checkedAt, late>>

(* The LogFile and its members are gone.                                    *)
Gone ==
  /\ writtenBytes_' = 0 /\ count_' = 0
  /\ startOfPeriod_' = 0 /\ lastRoll_' = 0 /\ lastFlush_' = 0
  /\ late' = 0 /\ checkedAt' = 0
  /\ UNCHANGED <<now, file, lines, stepped, older>>

(* ~LogFile() closes the file.                                              *)
Destruct ==
  /\ life = "open"
  /\ life' = "none"
  /\ Gone
  /\ Closed(disk, pending)

(* The process dies: what was not flushed is not in the file.               *)
Crash ==
  /\ life # "crashed"
  /\ life' = "crashed"
  /\ Gone
  /\ disk' = Lost(disk, pending) /\ pending' = {} /\ failed' = FALSE

Tick ==
  /\ now < MaxTime
  /\ now' = now + 1
  /\ UNCHANGED <<fileVars, dataVars, stepped, older, failed, checkedAt, late>>

(* The administrator or NTP sets the clock back.                            *)
StepBack ==
  /\ ~stepped
  /\ stepped' = TRUE
  /\ now' \in 1 .. now - 1
  /\ UNCHANGED <<fileVars, dataVars, older, failed, checkedAt, late>>

-----------------------------------------------------------------------------
(* The files in the order of their names hold the lines in the order in     *)
(* which they were appended (lines 96 and 105), even if the clock is set    *)
(* back while a file is open.  There are two exceptions: a process that     *)
(* starts after that may take an older name, and so may any roll after      *)
(* summer time has ended, for the names are local times (line 123).         *)
FilesInOrder ==
  \/ older
  \/ \A s, t \in Times :
       s < t => \A l \in disk[s], m \in disk[t] : l < m

(* A crash loses no line that was older than flushInterval_ when the        *)
(* interval was last looked at (lines 64-78), if the clock is not set back  *)
(* and the flush of line 77 has not failed since the last that succeeded:   *)
(* rolling by size or by period flushes too and moves the interval.  What a *)
(* failing fclose() loses (line 103) is gone without a crash.               *)
BoundedLoss ==
  \/ stepped \/ failed
  \/ \A p \in pending : checkedAt <= p[2] + flushInterval_

(* No line is appended to a file that already has more than rollSize_ bytes *)
(* from after the second in which it was opened, so that a file passes      *)
(* rollSize_ by its last line at most (lines 54-59).  Not counted are what  *)
(* comes in that second, when rollFile() declines but line 58 forgets the   *)
(* bytes, and what a failing write leaves in the file.                      *)
RollsInTime ==
  [][lines' # lines => stepped \/ late <= rollSize_]_logFileVars
=============================================================================
