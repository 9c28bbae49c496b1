------------------------------- MODULE Logger -------------------------------
(***************************************************************************)
(* CLoggerImpl.  Any thread may call Log().  A synchronous logger, which is   *)
(* the default, writes the record on the thread of the caller, without a      *)
(* lock, and replaces the file when it is full.  An asynchronous one posts     *)
(* the record on a channel for one producer, under a spin lock, for a thread   *)
(* of its own, which looks after the files as well.                          *)
(*                                                                         *)
(* A record is one unit long, and what Log() is given is left out.  Files have *)
(* the contents they were given in their order of creation; the directory     *)
(* maps the seconds at which files were replaced, and Current, to them.        *)
(***************************************************************************)
EXTENDS Naturals, Sequences, FiniteSets

CONSTANTS
  LogThread,     \* the threads that log
  MaxFileSize,   \* m_uLogFileMaxSizeMB, in records
  MaxTotalSize,  \* m_uLogTotalSizeMB, in records
  ChannelSize,   \* elements of the channel (4096)
  MaxRecords,    \* bound on the calls of Log()
  MaxSecond      \* bound on the clock

ASSUME LoggerAssumption ==
  /\ "nobody" \notin LogThread
  /\ MaxFileSize \in Nat \ {0}
  /\ MaxTotalSize \in Nat
  /\ ChannelSize \in Nat \ {0}
  /\ MaxRecords \in Nat
  /\ MaxSecond \in Nat

VARIABLES
  m_bAsync,
  m_bRunning,    \* whether the thread of an asynchronous logger runs
  m_pLogFile,    \* which of the streams, None for nullptr
  m_uLogFileSize,
  streams,       \* the file that each stream was opened on
  closed,        \* streams that fclose() has been called on
  directory,     \* the files by name
  files,         \* the records in each file
  now,           \* the clock, in seconds
  logPc,         \* where each thread is in Log()
  sizeSeen,      \* m_uLogFileSize as a thread that adds to it has read it
  m_pSpinLock,   \* the thread that holds it, or nobody
  queue,         \* the records on the channel
  calls,         \* calls of Log() so far; a record is the number of its call
  record,        \* the record of each thread
  accepted,      \* records that a synchronous Log() reported success for
  unnoticed,     \* those that fwrite() could not write
  replaced,      \* files that went when another was given their name
  cleaned,       \* files deleted for the total size
  contended,     \* whether a thread has opened the file while another was in Log()
  misused        \* what was used that must not be: "no", "stream", "slot" or "address"

outputVars == <<m_pLogFile, m_uLogFileSize, streams, closed>>
diskVars == <<directory, files, now, replaced, cleaned>>
callVars == <<logPc, sizeSeen, calls, record, accepted, unnoticed>>
channelVars == <<m_pSpinLock, queue>>
modeVars == <<m_bAsync, m_bRunning>>
loggerVars == <<modeVars, outputVars, diskVars, callVars, channelVars, contended, misused>>

None == 0
Free == "nobody"
Current == MaxSecond + 1  \* the name of the file being written, later than any
Name == 0 .. Current

LoggerInit ==
  /\ m_bAsync \in BOOLEAN
  /\ m_bRunning = FALSE
  /\ m_pLogFile = None
  /\ m_uLogFileSize = 0
  /\ streams = << >>
  /\ closed = {}
  /\ directory = [n \in Name |-> None]
  /\ files = << >>
  /\ now = 0
  /\ logPc = [t \in LogThread |-> "idle"]
  /\ sizeSeen = [t \in LogThread |-> 0]
  /\ m_pSpinLock = Free
  /\ queue = << >>
  /\ calls = 0
  /\ record = [t \in LogThread |-> 0]
  /\ accepted = {}
  /\ unnoticed = {}
  /\ replaced = {}
  /\ cleaned = {}
  /\ contended = FALSE
  /\ misused = "no"

\* What is undefined from here on is not followed further.
Defined == misused = "no"
Opening == {"open log file", "forget", "rename", "open"}

Go(t, from, to) ==
  /\ Defined
  /\ logPc[t] = from
  /\ logPc' = [logPc EXCEPT ![t] = to]
  /\ contended' = (contended \/ \E u, v \in LogThread :
                     u # v /\ logPc'[u] \in Opening /\ logPc'[v] # "idle")

Tick ==
  /\ now < MaxSecond
  /\ now' = now + 1
  /\ UNCHANGED <<modeVars, outputVars, directory, files, replaced, cleaned, callVars,
                 channelVars, misused, contended>>

-----------------------------------------------------------------------------
(* Log() of a synchronous logger: WriteLog() and OpenLogFile(). *)

Log(t) ==
  /\ Go(t, "idle", IF m_bAsync THEN "lock" ELSE "format")
  /\ calls < MaxRecords
  /\ calls' = calls + 1
  /\ record' = [record EXCEPT ![t] = calls + 1]
  /\ UNCHANGED <<modeVars, outputVars, diskVars, sizeSeen, accepted, unnoticed,
                 channelVars, misused>>

\* LogFormat() takes a size for the address of its buffer, and writes there.
LogFormat(t) ==
  /\ Defined
  /\ logPc[t] = "idle"
  /\ misused' = "address"
  /\ UNCHANGED <<modeVars, outputVars, diskVars, callVars, channelVars, contended>>

\* WriteLog() of an item puts the line together, unless there is no memory for it.
FormatRecord(t) ==
  /\ \E next \in {"check", "idle"} : Go(t, "format", next)
  /\ UNCHANGED <<modeVars, outputVars, diskVars, sizeSeen, calls, record, accepted,
                 unnoticed, channelVars, misused>>

Full == m_uLogFileSize >= MaxFileSize

CheckFile(t) ==
  /\ Go(t, "check", IF m_pLogFile = None \/ Full THEN "open log file" ELSE "write")
  /\ UNCHANGED <<modeVars, outputVars, diskVars, sizeSeen, calls, record, accepted,
                 unnoticed, channelVars, misused>>

Misuse(stream) == stream \in closed \cup {None}

CloseFile(t) ==
  /\ Go(t, "open log file", IF m_pLogFile = None THEN "open" ELSE "forget")
  /\ closed' = closed \cup {m_pLogFile}
  /\ misused' = IF m_pLogFile # None /\ m_pLogFile \in closed THEN "stream" ELSE misused
  /\ UNCHANGED <<modeVars, m_pLogFile, m_uLogFileSize, streams, diskVars, sizeSeen,
                 calls, record, accepted, unnoticed, channelVars>>

ForgetFile(t) ==
  /\ Go(t, "forget", "rename")
  /\ m_pLogFile' = None
  /\ m_uLogFileSize' = 0
  /\ UNCHANGED <<modeVars, streams, closed, diskVars, sizeSeen, calls, record, accepted,
                 unnoticed, channelVars, misused>>

\* rename() replaces a file of the same second.  It throws when another thread
\* has renamed the file since exists() found it, or for a reason of its own.
RenameFile(t) ==
  /\ \/ /\ Go(t, "rename", "open")
        /\ IF directory[Current] = None
           THEN UNCHANGED <<directory, replaced>>
           ELSE /\ directory' = [directory EXCEPT ![now] = directory[Current],
                                                  ![Current] = None]
                /\ replaced' = replaced \cup ({directory[now]} \ {None})
     \/ Go(t, "rename", "idle") /\ UNCHANGED <<directory, replaced>>
  /\ UNCHANGED <<modeVars, outputVars, files, now, cleaned, sizeSeen, calls, record,
                 accepted, unnoticed, channelVars, misused>>

\* fopen() in mode "a" goes on with the file that is there.
OpenTruncating(t) ==
  /\ Go(t, "open", "write")
  /\ directory' = [directory EXCEPT ![Current] = Len(files) + 1]
  /\ files' = Append(files, {})
  /\ streams' = Append(streams, Len(files) + 1)
  /\ m_pLogFile' = Len(streams) + 1
  /\ UNCHANGED <<modeVars, m_uLogFileSize, closed, now, replaced, cleaned, sizeSeen,
                 calls, record, accepted, unnoticed, channelVars, misused>>

OpenFile(t) ==
  /\ \/ /\ Go(t, "open", "write")
        /\ LET file == IF directory[Current] = None THEN Len(files) + 1
                       ELSE directory[Current]
           IN /\ directory' = [directory EXCEPT ![Current] = file]
              /\ files' = IF file > Len(files) THEN Append(files, {}) ELSE files
              /\ streams' = Append(streams, file)
        /\ m_pLogFile' = Len(streams) + 1
     \/ /\ Go(t, "open", "idle")
        /\ m_pLogFile' = None
        /\ UNCHANGED <<directory, files, streams>>
  /\ UNCHANGED <<modeVars, m_uLogFileSize, closed, now, replaced, cleaned, sizeSeen,
                 calls, record, accepted, unnoticed, channelVars, misused>>

\* fwrite() through the member as it is now.  A short count is no error to
\* WriteLog(), which looks for -1.  Adding to m_uLogFileSize is not atomic.
WriteRecord(t) ==
  /\ Go(t, "write", "count")
  /\ \/ /\ Misuse(m_pLogFile)
        /\ misused' = "stream"
        /\ UNCHANGED <<files, sizeSeen, unnoticed>>
     \/ /\ ~Misuse(m_pLogFile)
        /\ \/ /\ files' = [files EXCEPT ![streams[m_pLogFile]] = @ \cup {record[t]}]
              /\ UNCHANGED unnoticed
           \/ /\ unnoticed' = unnoticed \cup {record[t]}
              /\ UNCHANGED files
        /\ sizeSeen' = [sizeSeen EXCEPT ![t] = m_uLogFileSize]
        /\ UNCHANGED misused
  /\ UNCHANGED <<modeVars, outputVars, directory, now, replaced, cleaned, calls, record,
                 accepted, channelVars>>

\* After fflush(), through the member again.  What was not written is not added.
CountRecord(t) ==
  /\ Go(t, "count", "idle")
  /\ m_uLogFileSize' = sizeSeen[t] + IF record[t] \in unnoticed THEN 0 ELSE 1
  /\ accepted' = accepted \cup {record[t]}
  /\ misused' = IF m_pLogFile \in closed \ {None} THEN "stream" ELSE misused
  /\ UNCHANGED <<modeVars, m_pLogFile, streams, closed, diskVars, sizeSeen, calls, record,
                 unnoticed, channelVars>>

-----------------------------------------------------------------------------
(* Log() of an asynchronous logger. *)

AnyLock(t) ==
  /\ Go(t, "lock", "new")
  /\ m_pSpinLock' = t
  /\ UNCHANGED <<modeVars, outputVars, diskVars, sizeSeen, calls, record, accepted,
                 unnoticed, queue, misused>>

\* SpinLock::Lock(): test_and_set() until it was clear.
Lock(t) ==
  /\ Go(t, "lock", "new")
  /\ m_pSpinLock = Free
  /\ m_pSpinLock' = t
  /\ UNCHANGED <<modeVars, outputVars, diskVars, sizeSeen, calls, record, accepted,
                 unnoticed, queue, misused>>

NewSlotWhenFull(t) ==
  /\ Go(t, "new", IF Len(queue) <= ChannelSize THEN "post" ELSE "unlock")
  /\ UNCHANGED <<modeVars, outputVars, diskVars, sizeSeen, calls, record, accepted,
                 unnoticed, channelVars, misused>>

\* New(): a full channel refuses, and the record is freed.
NewSlot(t) ==
  /\ Go(t, "new", IF Len(queue) < ChannelSize THEN "post" ELSE "unlock")
  /\ UNCHANGED <<modeVars, outputVars, diskVars, sizeSeen, calls, record, accepted,
                 unnoticed, channelVars, misused>>

Post(t) ==
  /\ Go(t, "post", "unlock")
  /\ queue' = Append(queue, record[t])
  /\ UNCHANGED <<modeVars, outputVars, diskVars, sizeSeen, calls, record, accepted,
                 unnoticed, m_pSpinLock, misused>>

Unlock(t) ==
  /\ Go(t, "unlock", "idle")
  /\ m_pSpinLock' = Free
  /\ UNCHANGED <<modeVars, outputVars, diskVars, sizeSeen, calls, record, accepted,
                 unnoticed, queue, misused>>

-----------------------------------------------------------------------------
(* The thread of an asynchronous logger: Run(). *)

\* Get() answers with the address of a slot, which holds the address of the item.
\* Run() takes it for the address of the item: it reads the kind of the item from
\* the slot, and frees the slot.
RunTakesSlot ==
  /\ Defined
  /\ m_bRunning
  /\ queue # << >>
  /\ misused' = "slot"
  /\ UNCHANGED <<modeVars, outputVars, diskVars, callVars, channelVars, contended>>

\* CheckFileSwitch() closes the file when it is full.  An asynchronous logger has none,
\* but may have been left the size of one by an Exit().
SwitchFile ==
  /\ Defined
  /\ m_bRunning
  /\ queue = << >>
  /\ Full
  /\ misused' = "stream"
  /\ UNCHANGED <<modeVars, outputVars, diskVars, callVars, channelVars, contended>>

\* CheckFileSwitch(), every ten minutes: the files whose names have the prefix and
\* the suffix are deleted from the oldest on, until they are small enough.  The
\* names that are recognised are those with a suffix of one character; the file in
\* use is among them, for a name is compared with a path.
RecordsFrom(n) == UNION {files[directory[m]] : m \in {m \in n .. Current : directory[m] # None}}
TooOld == {n \in Name : directory[n] # None /\ Cardinality(RecordsFrom(n)) > MaxTotalSize}

CleanUp ==
  /\ Defined
  /\ m_bRunning
  /\ queue = << >>
  /\ ~Full
  /\ TooOld # {}
  /\ directory' = [n \in Name |-> IF n \in TooOld THEN None ELSE directory[n]]
  /\ cleaned' = cleaned \cup {directory[n] : n \in TooOld}
  /\ UNCHANGED <<modeVars, outputVars, files, now, replaced, callVars, channelVars, misused, contended>>

-----------------------------------------------------------------------------
(* Start(), Stop(), and Exit() followed by Init() with any configuration, of this *)
(* logger or of a new one.  They are not called while a thread logs.             *)

Quiet == Defined /\ \A t \in LogThread : logPc[t] = "idle"

StartLogger ==
  /\ Quiet
  /\ m_bAsync
  /\ ~m_bRunning
  /\ m_bRunning' = TRUE
  /\ UNCHANGED <<m_bAsync, outputVars, diskVars, callVars, channelVars, misused, contended>>

StopLogger ==
  /\ Quiet
  /\ m_bRunning
  /\ m_bRunning' = FALSE
  /\ UNCHANGED <<m_bAsync, outputVars, diskVars, callVars, channelVars, misused, contended>>

\* Exit() destroys the channel with what is on it, and leaves m_uLogFileSize alone.
Restart ==
  /\ Quiet
  /\ m_bAsync' \in BOOLEAN
  /\ m_bRunning' = FALSE
  /\ queue' = << >>
  /\ closed' = closed \cup {m_pLogFile}
  /\ m_pLogFile' = None
  /\ m_uLogFileSize' \in {0, m_uLogFileSize}
  /\ UNCHANGED <<streams, diskVars, callVars, m_pSpinLock, misused, contended>>

LogStep(t) ==
  \/ Log(t)
  \/ LogFormat(t)
  \/ FormatRecord(t)
  \/ CheckFile(t)
  \/ CloseFile(t)
  \/ ForgetFile(t)
  \/ RenameFile(t)
  \/ OpenFile(t)
  \/ WriteRecord(t)
  \/ CountRecord(t)
  \/ Lock(t)
  \/ NewSlot(t)
  \/ Post(t)
  \/ Unlock(t)

LoggerNext ==
  \/ \E t \in LogThread : LogStep(t)
  \/ Tick
  \/ RunTakesSlot
  \/ SwitchFile
  \/ CleanUp
  \/ StartLogger
  \/ StopLogger
  \/ Restart

LoggerSpec == LoggerInit /\ [][LoggerNext]_loggerVars

-----------------------------------------------------------------------------
LoggerTypeOK ==
  /\ m_bAsync \in BOOLEAN
  /\ m_bRunning \in BOOLEAN
  /\ m_pLogFile \in 0 .. Len(streams)
  /\ m_uLogFileSize \in 0 .. MaxRecords
  /\ \A s \in 1 .. Len(streams) : streams[s] \in 1 .. Len(files)
  /\ \A n \in Name : directory[n] \in 0 .. Len(files)
  /\ \A f \in 1 .. Len(files) : files[f] \subseteq 1 .. MaxRecords
  /\ m_pSpinLock \in LogThread \cup {Free}
  /\ Len(queue) <= ChannelSize
  /\ contended \in BOOLEAN
  /\ misused \in {"no", "stream", "slot", "address"}

\* A record that a synchronous Log() has reported success for is in a file of the
\* directory, whatever was rotated, restarted or raced for, but for three losses:
\* a write that failed unnoticed, a file replaced by another of the same second,
\* and a file deleted for the total size.
Stored == UNION {files[directory[n]] : n \in {n \in Name : directory[n] # None}}
Lost == unnoticed \cup UNION {files[f] : f \in replaced \cup cleaned}
AcceptedIsStored == accepted \subseteq Stored \cup Lost

\* The channel has one producer at a time, as it must.
OneProducer ==
  \A t, u \in LogThread :
    logPc[t] \in {"new", "post", "unlock"} /\ logPc[u] \in {"new", "post", "unlock"} => t = u

\* Threads may log at the same time as long as none of them opens the file, for
\* the first time or for a full one, while another is in Log(); a single thread
\* never uses a stream that is closed.  (A logger that is initialised once more, as
\* an asynchronous one, may close the file it does not have.)
SafeUnlessContended == misused = "stream" => contended \/ m_bAsync

LogIsSound == AcceptedIsStored /\ OneProducer /\ SafeUnlessContended

\* logger.h says that a logger may be used from several threads: the threads that log
\* to a synchronous one never use a stream that another of them has closed.
LogIsThreadSafe == misused = "stream" => m_bAsync
=============================================================================
