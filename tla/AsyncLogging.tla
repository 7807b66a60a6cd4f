---------------------------- MODULE AsyncLogging ----------------------------
(***************************************************************************)
(* muduo/base/AsyncLogging.cc and AsyncLogging.h: threads append lines to  *)
(* the current buffer under mutex_, the logging thread takes the buffers   *)
(* away and should write them to its LogFile.  A critical section is one   *)
(* step.  A buffer is a sequence of lines, NULL is what a BufferPtr is     *)
(* after it was moved from.                                                *)
(***************************************************************************)
EXTENDS Naturals, Sequences

CONSTANTS NULL,
          Capacity,        \* lines in a FixedBuffer
          MaxLines         \* bound: lines appended

VARIABLES
  owner,           \* who starts and stops: "new", "starting", "started",
                   \* "joining", "stopped"
  running_,
  tpc,             \* the logging thread: "none", "loop", "write", "done"
  currentBuffer_,
  nextBuffer_,
  buffers_,
  newBuffer1,      \* locals of threadFunc()
  newBuffer2,
  buffersToWrite,
  output,          \* the lines in the LogFile
  lines,           \* how many lines were appended
  taken,           \* ghost: how many of them the thread has swapped out
  crashed          \* append() went through a null pointer

frontVars == <<currentBuffer_, nextBuffer_, buffers_, lines>>
backVars == <<newBuffer1, newBuffer2, buffersToWrite, output>>
vars == <<owner, running_, tpc, frontVars, backVars, taken, crashed>>

Init ==
  /\ owner = "new"
  /\ running_ = FALSE
  /\ tpc = "none"
  /\ currentBuffer_ = <<>> /\ nextBuffer_ = <<>>
  /\ buffers_ = <<>>
  /\ newBuffer1 = NULL /\ newBuffer2 = NULL
  /\ buffersToWrite = <<>>
  /\ output = <<>>
  /\ lines = 0 /\ taken = 0
  /\ crashed = FALSE

-----------------------------------------------------------------------------
(* start() sets running_ and creates the thread, ...                        *)
Start ==
  /\ owner = "new" /\ owner' = "starting"
  /\ running_' = TRUE
  /\ UNCHANGED <<tpc, frontVars, backVars, taken, crashed>>

(* ... which opens latch_ and goes on to its loop.                          *)
ThreadBegin ==
  /\ owner = "starting" /\ owner' = "started"
  /\ tpc' = "loop"
  /\ newBuffer1' = <<>> /\ newBuffer2' = <<>>
  /\ UNCHANGED <<running_, frontVars, buffersToWrite, output, taken, crashed>>

(* append().                                                                *)
AppendLine ==
  /\ ~crashed
  /\ lines < MaxLines
  /\ lines' = lines + 1
  /\ \/ /\ currentBuffer_ = NULL
        /\ crashed' = TRUE
        /\ UNCHANGED <<currentBuffer_, nextBuffer_, buffers_>>
     \/ /\ currentBuffer_ # NULL
        /\ UNCHANGED crashed
        /\ IF Len(currentBuffer_) < Capacity
           THEN /\ currentBuffer_' = Append(currentBuffer_, lines + 1)
                /\ UNCHANGED <<nextBuffer_, buffers_>>
           ELSE /\ buffers_' = Append(buffers_, currentBuffer_)
                /\ currentBuffer_' = <<lines + 1>>
                /\ nextBuffer_' = NULL
  /\ UNCHANGED <<owner, running_, tpc, backVars, taken>>

(* The critical section of threadFunc(), which waits for nothing.           *)
ThreadSwap ==
  /\ ~crashed
  /\ tpc = "loop" /\ running_
  /\ tpc' = "write"
  /\ buffersToWrite' = Append(buffers_, currentBuffer_)
  /\ buffers_' = buffersToWrite
  /\ currentBuffer_' = newBuffer1
  /\ newBuffer1' = NULL
  /\ nextBuffer_' = IF nextBuffer_ = NULL THEN newBuffer2 ELSE nextBuffer_
  /\ newBuffer2' = IF nextBuffer_ = NULL THEN NULL ELSE newBuffer2
  /\ taken' = lines
  /\ UNCHANGED <<owner, running_, output, lines, crashed>>

(* Lines 83 and 84: the buffers are dropped.                                *)
ThreadWrite ==
  /\ ~crashed
  /\ tpc = "write" /\ tpc' = "loop"
  /\ buffersToWrite' = <<>>
  /\ UNCHANGED <<owner, running_, frontVars, newBuffer1, newBuffer2, output,
                 taken, crashed>>

ThreadEnd ==
  /\ ~crashed
  /\ tpc = "loop" /\ ~running_
  /\ tpc' = "done"
  /\ UNCHANGED <<owner, running_, frontVars, backVars, taken, crashed>>

(* stop(), of the destructor too.                                           *)
Stop ==
  /\ ~crashed
  /\ owner = "started" /\ owner' = "joining"
  /\ running_' = FALSE
  /\ UNCHANGED <<tpc, frontVars, backVars, taken, crashed>>

Join ==
  /\ owner = "joining" /\ tpc = "done"
  /\ owner' = "stopped"
  /\ UNCHANGED <<running_, tpc, frontVars, backVars, taken, crashed>>

Next ==
  \/ Start \/ ThreadBegin \/ AppendLine \/ ThreadSwap \/ ThreadWrite
  \/ ThreadEnd \/ Stop \/ Join

Spec == Init /\ [][Next]_vars
-----------------------------------------------------------------------------
(* buffers_ are the "filled buffers that wait to be written to the file"    *)
(* (AsyncLogging.h line 63): the lines of the buffers that the logging      *)
(* thread has taken and is done with are in the file.                       *)
TakenIsWritten ==
  tpc \in {"loop", "done"} =>
    \A l \in 1 .. taken : \E k \in 1 .. Len(output) : output[k] = l
=============================================================================
