----------------------------- MODULE LogQueue -------------------------------
(***************************************************************************)
(* The program's one Log: any thread logs a message, which goes into a     *)
(* SafeQueue; the Log's own thread (_flush) takes messages out and writes  *)
(* them to the open file; the main thread closes the file and opens the    *)
(* next one as the day changes.  The log's mutex is a pthread mutex, whose *)
(* unlock does not look at who holds it.                                   *)
(*                                                                         *)
(* A message below the log's level leaves no trace and is not modelled.    *)
(***************************************************************************)
EXTENDS Naturals, FiniteSets, Sequences, Functions

CONSTANTS
  WRITERS,        \* the threads that log
  OPEN_MAY_FAIL,  \* whether fopen may fail
  MAX_MSGS,       \* bound: messages logged in a behaviour
  MAX_FILES,      \* bound: files opened in a behaviour
  MAIN, FLUSH, NO_THREAD        \* the other threads, and none

ASSUME LogQueueAssumption ==
  /\ OPEN_MAY_FAIL \in BOOLEAN /\ MAX_MSGS \in Nat /\ MAX_FILES \in Nat \ {0}
  /\ MAIN # FLUSH /\ {MAIN, FLUSH} \cap WRITERS = {}
  /\ NO_THREAD \notin WRITERS \cup {MAIN, FLUSH}

VARIABLES
  mutex,          \* who locked Log::_mutex, or NO_THREAD
  stream,         \* Log::_stream: the number of the open file, 0 when NULL
  strIsOwn,       \* Log::_strIsOwn
  queue,          \* SafeQueue::_q of _strQueue
  waiting,        \* whether _flush waits on SafeQueue::_pushCond
  wpc,            \* the writers: in Log::operator() or not
  dpc, fileNo,    \* the main thread at the day's change: pc, and the file it opens next
  fpc, msg,       \* _flush: pc and local
  file,           \* the contents of the files
  pushed          \* history: what was put into the queue

logVars == <<mutex, stream, strIsOwn, queue, waiting, wpc, dpc, fileNo, fpc, msg, file, pushed>>

Files    == 1 .. MAX_FILES
Messages == [id : 1 .. MAX_MSGS, for : 1 .. MAX_FILES]

LogTypeOK ==
  /\ mutex \in WRITERS \cup {MAIN, FLUSH, NO_THREAD}
  /\ stream \in 0 .. MAX_FILES /\ strIsOwn \in BOOLEAN
  /\ queue \in Seq(Messages) /\ waiting \in BOOLEAN
  /\ wpc \in [WRITERS -> {"out", "in"}]
  /\ dpc \in {"open", "fopen", "opened", "failed", "run", "close"}
  /\ fileNo \in 2 .. MAX_FILES + 1
  /\ fpc \in {"pop", "lock", "check", "write", "unlock", "crashed"}
  /\ msg \in {<<>>} \cup {<<m>> : m \in Messages}
  /\ file \in [Files -> Seq(Messages)]
  /\ pushed \in Seq(Messages)

\* SpectaProbe::initializeLog has opened the first file, before any thread that
\* logs is started.
LogInit ==
  /\ mutex = NO_THREAD /\ stream = 1 /\ strIsOwn = TRUE
  /\ queue = <<>> /\ waiting = FALSE
  /\ wpc = [w \in WRITERS |-> "out"]
  /\ dpc = "run" /\ fileNo = 2
  /\ fpc = "pop" /\ msg = <<>>
  /\ file = [f \in Files |-> <<>>]
  /\ pushed = <<>>

-----------------------------------------------------------------------------
Lock(t)  == mutex = NO_THREAD /\ mutex' = t
Unlock   == mutex' = NO_THREAD

-----------------------------------------------------------------------------
(* Log::operator().                                                         *)

EnterLog(w) ==
  /\ wpc[w] = "out" /\ Len(pushed) < MAX_MSGS
  /\ Lock(w)
  /\ wpc' = [wpc EXCEPT ![w] = "in"]
  /\ UNCHANGED <<stream, strIsOwn, queue, waiting, dpc, fileNo, fpc, msg, file, pushed>>

\* Messages taken without a look at _stream.
AnyStream == TRUE

\* With no file open a message is dropped at once.
StreamOpen == stream # 0

\* SafeQueue::push, under the queue's own mutex, without its broadcast.
SilentPush(m) == queue' = Append(queue, m) /\ UNCHANGED waiting

\* A push at the end from which pop takes.
PushFront(m) == queue' = <<m>> \o queue /\ waiting' = FALSE

\* SafeQueue::push, under the queue's own mutex.
Push(m) == queue' = Append(queue, m) /\ waiting' = FALSE

LeaveLog(w) ==
  /\ wpc[w] = "in"
  /\ LET m == [id |-> Len(pushed) + 1, for |-> stream]
     IN  IF StreamOpen /\ Len(pushed) < MAX_MSGS
         THEN Push(m) /\ pushed' = Append(pushed, m)
         ELSE UNCHANGED <<queue, waiting, pushed>>
  /\ Unlock
  /\ wpc' = [wpc EXCEPT ![w] = "out"]
  /\ UNCHANGED <<stream, strIsOwn, dpc, fileNo, fpc, msg, file>>

-----------------------------------------------------------------------------
(* The main thread: Log::close and Log::open when the day changes.          *)

LockToOpen ==
  /\ dpc = "open" /\ fileNo <= MAX_FILES
  /\ Lock(MAIN)
  /\ dpc' = "fopen"
  /\ UNCHANGED <<stream, strIsOwn, queue, waiting, wpc, fileNo, fpc, msg, file, pushed>>

Fopen ==
  /\ dpc = "fopen"
  /\ \/ stream' = fileNo /\ dpc' = "opened"
     \/ OPEN_MAY_FAIL /\ stream' = 0 /\ dpc' = "failed"
  /\ fileNo' = fileNo + 1
  /\ UNCHANGED <<mutex, strIsOwn, queue, waiting, wpc, fpc, msg, file, pushed>>

\* "if (!_stream) UNLOCK", and no return.
UnlockFailed ==
  /\ dpc = "failed"
  /\ Unlock
  /\ dpc' = "opened"
  /\ UNCHANGED <<stream, strIsOwn, queue, waiting, wpc, fileNo, fpc, msg, file, pushed>>

UnlockOpened ==
  /\ dpc = "opened"
  /\ strIsOwn' = TRUE
  /\ Unlock
  /\ dpc' = "run"
  /\ UNCHANGED <<stream, queue, waiting, wpc, fileNo, fpc, msg, file, pushed>>

LockToClose ==
  /\ dpc = "run" /\ fileNo <= MAX_FILES
  /\ Lock(MAIN)
  /\ dpc' = "close"
  /\ UNCHANGED <<stream, strIsOwn, queue, waiting, wpc, fileNo, fpc, msg, file, pushed>>

Close ==
  /\ dpc = "close"
  /\ stream' = 0 /\ strIsOwn' = FALSE
  /\ Unlock
  /\ dpc' = "open"
  /\ UNCHANGED <<queue, waiting, wpc, fileNo, fpc, msg, file, pushed>>

DayChange == LockToOpen \/ Fopen \/ UnlockFailed \/ UnlockOpened \/ LockToClose \/ Close

-----------------------------------------------------------------------------
(* Log::_flush.                                                             *)

\* SafeQueue::pop waits, in one step with the test, while the queue is empty.
\* (Its 30 minute timeout only makes it test again.)
WaitForPush ==
  /\ fpc = "pop" /\ ~waiting /\ queue = <<>>
  /\ waiting' = TRUE
  /\ UNCHANGED <<mutex, stream, strIsOwn, queue, wpc, dpc, fileNo, fpc, msg, file, pushed>>

Pop ==
  /\ fpc = "pop" /\ ~waiting /\ queue # <<>>
  /\ msg' = <<Head(queue)>> /\ queue' = Tail(queue)
  /\ fpc' = "lock"
  /\ UNCHANGED <<mutex, stream, strIsOwn, waiting, wpc, dpc, fileNo, file, pushed>>

LockToWrite ==
  /\ fpc = "lock"
  /\ Lock(FLUSH)
  /\ fpc' = "check"
  /\ UNCHANGED <<stream, strIsOwn, queue, waiting, wpc, dpc, fileNo, msg, file, pushed>>

\* With no file open the message is lost.
CheckStream ==
  /\ fpc = "check"
  /\ fpc' = IF stream # 0 THEN "write" ELSE "unlock"
  /\ UNCHANGED <<mutex, stream, strIsOwn, queue, waiting, wpc, dpc, fileNo, msg, file, pushed>>

Fwrite ==
  /\ fpc = "write" /\ stream # 0
  /\ file' = [file EXCEPT ![stream] = @ \o msg]
  /\ fpc' = "unlock"
  /\ UNCHANGED <<mutex, stream, strIsOwn, queue, waiting, wpc, dpc, fileNo, msg, pushed>>

\* fwrite to a file that was closed after the test ends the program: _stream is NULL.
FwriteNull ==
  /\ fpc = "write" /\ stream = 0
  /\ fpc' = "crashed"
  /\ UNCHANGED <<mutex, stream, strIsOwn, queue, waiting, wpc, dpc, fileNo, msg, file, pushed>>

UnlockWritten ==
  /\ fpc = "unlock"
  /\ Unlock
  /\ msg' = <<>>
  /\ fpc' = "pop"
  /\ UNCHANGED <<stream, strIsOwn, queue, waiting, wpc, dpc, fileNo, file, pushed>>

FlushStep ==
  WaitForPush \/ Pop \/ LockToWrite \/ CheckStream \/ Fwrite \/ FwriteNull \/ UnlockWritten

-----------------------------------------------------------------------------
LogNext ==
  /\ fpc # "crashed"
  /\ DayChange \/ FlushStep \/ \E w \in WRITERS : EnterLog(w) \/ LeaveLog(w)

LogSpec == LogInit /\ [][LogNext]_logVars

\* Threads in the log's code run on, and whoever wants a mutex that is free
\* again and again gets it; the day need not change, and no thread need log.
LogFairness ==
  /\ WF_logVars(FlushStep) /\ SF_logVars(LockToWrite)
  /\ WF_logVars(Fopen \/ UnlockFailed \/ UnlockOpened \/ Close)
  /\ \A w \in WRITERS : WF_logVars(LeaveLog(w))

LogFairSpec == LogSpec /\ LogFairness

-----------------------------------------------------------------------------
(* Properties.                                                              *)

Written == UNION {Range(file[f]) : f \in Files}

\* From file to file messages are in the order in which they were logged, none
\* twice, and none in a file older than the one that was open then.
WrittenInOrder ==
  /\ \A f, g \in Files : \A i \in 1 .. Len(file[f]), j \in 1 .. Len(file[g]) :
       f < g \/ (f = g /\ i < j) => file[f][i].id < file[g][j].id
  /\ \A f \in Files : \A i \in 1 .. Len(file[f]) : file[f][i].for <= f

\* A message is lost or filed late only if its file was closed meanwhile.
KeptWhileOpen ==
  \A i \in 1 .. Len(pushed) : stream = pushed[i].for =>
    pushed[i] \in Range(queue) \cup Range(msg) \cup Written

\* Every message in the queue is taken out in the end: the wake-up that push
\* gives cannot be lost between pop's test and its wait.  Unless the program ends.
Flushed == \A i \in 1 .. MAX_MSGS :
  Len(pushed) >= i ~>
    \/ Len(pushed) >= i /\ pushed[i] \notin Range(queue) \cup Range(msg)
    \/ fpc = "crashed"

\* "per-instance mutex": one thread at a time is in the code it guards.
InLog ==
  {w \in WRITERS : wpc[w] = "in"}
    \cup {t \in {MAIN} : dpc \in {"fopen", "close"}}
    \cup {t \in {FLUSH} : fpc \in {"check", "write", "unlock"}}

OneInLog == Cardinality(InLog) <= 1

=============================================================================
