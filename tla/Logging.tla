------------------------------ MODULE Logging ------------------------------
(***************************************************************************)
(* muduo/base/Logging.cc and Logging.h over LogStream and LogFile: log     *)
(* statements of a thread that writes to a file as LogFile_test.cc does.   *)
(* A statement builds its line in a LogStream, item by item, and its       *)
(* Logger's destructor hands it to g_output.                               *)
(***************************************************************************)
EXTENDS LogStream, LogFile

CONSTANTS TimeLen, NameLen, BasenameLen,  \* characters of the time, of a level
                                          \* and of a source file's name
          Texts,           \* lengths of the strings that are logged
          Numbers,         \* integers and pointers that are logged, and line_
          Doubles,         \* lengths of the numbers that are logged
          MaxItems         \* bound: items in a statement

ASSUME LoggingAssumption ==
  /\ {TimeLen, NameLen, BasenameLen, MaxItems} \cup Texts \subseteq Nat
  /\ Numbers \subseteq Ints
  /\ Doubles \subseteq 0 .. kMaxNumericSize - 1

VARIABLES
  g_logLevel,      \* of "INFO" and "WARN"
  g_output,        \* "stdout" or "file"
  lpc,             \* a statement is in "build" or "finish", or "none" runs
  stream_,         \* its LogStream
  items            \* items it has inserted

globalVars == <<g_logLevel, g_output>>
vars == <<logFileVars, globalVars, lpc, stream_, items>>

TypeOK ==
  /\ LogFileTypeOK
  /\ g_logLevel \in {"INFO", "WARN"}
  /\ g_output \in {"stdout", "file"}
  /\ lpc \in {"none", "build", "finish"}
  /\ stream_ \in Buffers
  /\ items \in 0 .. MaxItems

Init ==
  /\ LogFileInit
  /\ g_logLevel = "INFO"
  /\ g_output = "stdout"
  /\ lpc = "none"
  /\ stream_ = Empty
  /\ items = 0

-----------------------------------------------------------------------------
(* LOG_INFO and LOG_WARN: the test of the macro, and Logger() with          *)
(* formatTime() and the level's name.                                       *)
Begin(level) ==
  /\ lpc = "none" /\ life # "crashed"
  /\ lines < MaxLines
  /\ level = "INFO" => g_logLevel = "INFO"
  /\ lpc' = "build"
  /\ stream_' = append(append(Empty, TimeLen), NameLen)
  /\ UNCHANGED <<logFileVars, globalVars, items>>

(* A string, an integer, a pointer or a double is inserted.                 *)
Insert ==
  /\ lpc = "build"
  /\ items < MaxItems
  /\ items' = items + 1
  /\ \/ \E n \in Texts : stream_' = append(stream_, n)
     \/ \E v \in Numbers : stream_' = InsertInt(stream_, v)
     \/ \E v \in Numbers \cap Nat : stream_' = InsertPointer(stream_, v)
     \/ \E n \in Doubles : stream_' = InsertDouble(stream_, n)
  /\ UNCHANGED <<logFileVars, globalVars, lpc>>

(* finish(): " - ", the name of the source file, ":" and line_.             *)
Finish ==
  /\ lpc = "build"
  /\ lpc' = "finish"
  /\ \E line_ \in Numbers \cap Nat :
       stream_' = InsertInt(append(append(append(stream_, 3), BasenameLen), 1),
                            line_)
  /\ UNCHANGED <<logFileVars, globalVars, items>>

(* The newline, and the rest of ~Logger(): g_output() gets the line.  One   *)
(* that runs over its buffer has overwritten cur_, which lies behind it,    *)
(* and what follows is undefined; here it ends the process.                 *)
Output ==
  /\ lpc = "finish"
  /\ lpc' = "none" /\ stream_' = Empty /\ items' = 0
  /\ \/ stream_.len >= SIZE /\ Crash
     \/ stream_.len < SIZE /\ g_output = "file" /\ Append_(append(stream_, 1).len)
     \/ stream_.len < SIZE /\ g_output = "stdout" /\ UNCHANGED logFileVars
  /\ UNCHANGED globalVars

SetLogLevel(level) ==
  /\ lpc = "none"
  /\ g_logLevel' = level
  /\ UNCHANGED <<logFileVars, g_output, lpc, stream_, items>>

SetOutput ==
  /\ lpc = "none" /\ life = "open"
  /\ g_output' = "file"
  /\ UNCHANGED <<logFileVars, g_logLevel, lpc, stream_, items>>

(* A new process has the initial values.                                    *)
Construct_ ==
  /\ lpc = "none"
  /\ Construct
  /\ g_logLevel' = "INFO" /\ g_output' = "stdout"
  /\ UNCHANGED <<lpc, stream_, items>>

(* Between statements, because only LogFile reads the clock's second.       *)
FileStep ==
  /\ lpc = "none"
  /\ ConstructUninitialised \/ Flush \/ Destruct \/ Crash \/ Tick \/ StepBack
  /\ UNCHANGED <<globalVars, lpc, stream_, items>>

Next ==
  \/ \E level \in {"INFO", "WARN"} : Begin(level) \/ SetLogLevel(level)
  \/ Insert \/ Finish \/ Output \/ SetOutput \/ Construct_ \/ FileStep

Spec == Init /\ [][Next]_vars
-----------------------------------------------------------------------------
(* A line fits its buffer, newline included, whatever is dropped from it,   *)
(* unless an integer was inserted where less than kMaxNumericSize was free: *)
(* formatInteger() is the only one that does not look (LogStream.cc lines   *)
(* 71-76).                                                                  *)
LineFits ==
  /\ TypeOK
  /\ \/ stream_.tight
     \/ /\ stream_.len < SIZE
        /\ lpc = "finish" => Takes(stream_, 1)

(* Whatever integer or pointer a statement inserts, its digits stand for it *)
(* (convert() and converHex(), LogStream.cc lines 25-64): any sign, and     *)
(* both ends of the range, where -value does not exist.                     *)
ConversionsExact == lpc = "build" => AllExact
=============================================================================
