------------------------------ MODULE AsyncLog ------------------------------
(***************************************************************************)
(* src/base/AsyncLog.cpp: threads that output lines, the writer thread,    *)
(* and a thread that calls uninit once.  A line is a logger and a number,  *)
(* and has a length.                                                       *)
(* output() of a level below m_nCurrentLevel returns at once: a line here  *)
(* is one that passed (FATAL, CRITICAL and binary lines always do).        *)
(***************************************************************************)
EXTENDS Naturals, Sequences, FiniteSets, Functions

CONSTANTS Loggers,
          FatalLoggers,     (* those that may output a FATAL line            *)
          DiskFails,        (* fopen and fwrite may fail                     *)
          m_nFileRollSize,
          LengthOf,         (* the bytes of each line                        *)
          MaxLines,         (* bound: lines a logger outputs                 *)
          MaxTime,          (* bound: seconds that pass                      *)
          NoLine, NoFile

(* A file is named by the second in which it is created.                     *)
FileNames == 0 .. MaxTime
Lines     == Loggers \X (1 .. MaxLines)

ASSUME LogAssumption ==
    /\ FatalLoggers \subseteq Loggers
    /\ DiskFails \in BOOLEAN
    /\ m_nFileRollSize \in Nat \ {0}
    /\ LengthOf \in [Lines -> Nat \ {0}]
    /\ MaxLines \in Nat /\ MaxTime \in Nat
    /\ NoFile \notin Nat /\ NoLine \notin Lines

(* A FATAL line, which ends the process: at most one a logger.               *)
FatalLine(l) == <<l, 0>>
FatalLines   == {FatalLine(l) : l \in FatalLoggers}

VARIABLES toFile,                  (* m_strFileName is not empty             *)
          logged,                  (* lines each logger has output           *)
          m_listLinesToWrite,
          m_mutexWrite,            (* the writer holds it                    *)
          waiting,                 (* the writer sleeps on m_cvWrite         *)
          m_bExit, m_bRunning,
          writerPc, strLine,       (* the writer, and the line it has taken  *)
          uninitPc,
          console, files,          (* what has been written                  *)
          m_hLogFile, m_nCurrentWrittenSize,
          closed,                  (* m_hLogFile has been closed: it dangles *)
          fatalPc, crashed,        (* the loggers inside output(FATAL)       *)
          now

disk  == <<toFile, files, m_hLogFile, closed, m_nCurrentWrittenSize>>
fatal == <<fatalPc, crashed>>
vars  == <<logged, m_listLinesToWrite, m_mutexWrite, waiting, m_bExit, m_bRunning,
           writerPc, strLine, uninitPc, console, disk, fatal, now>>

(* init(), with or without a file name, has started the writer thread.       *)
Init ==
    /\ toFile \in BOOLEAN
    /\ logged = [l \in Loggers |-> 0]
    /\ m_listLinesToWrite = <<>>
    /\ m_mutexWrite = FALSE
    /\ waiting = FALSE
    /\ m_bExit = FALSE
    /\ m_bRunning = FALSE
    /\ writerPc = "start"
    /\ strLine = NoLine
    /\ uninitPc = "setExit"
    /\ console = <<>>
    /\ files = [f \in FileNames |-> <<>>]
    /\ m_hLogFile = NoFile
    /\ m_nCurrentWrittenSize = 0
    /\ closed = FALSE
    /\ fatalPc = [l \in FatalLoggers |-> "none"]
    /\ crashed = FALSE
    /\ now = 0

-----------------------------------------------------------------------------
(* The loggers: push_back and notify_one under m_mutexWrite.                 *)

(* output(FATAL) of this logger has not been called, or has returned.        *)
Logs(l) == l \in FatalLoggers => fatalPc[l] \in {"none", "returned"}

(* Mutant of output: nobody is notified.                                     *)
outputSilently(l) ==
    /\ logged[l] < MaxLines /\ Logs(l)
    /\ ~m_mutexWrite
    /\ logged' = [logged EXCEPT ![l] = @ + 1]
    /\ m_listLinesToWrite' = Append(m_listLinesToWrite, <<l, logged[l] + 1>>)
    /\ UNCHANGED <<m_mutexWrite, waiting, m_bExit, m_bRunning, writerPc, strLine, uninitPc,
                   console, disk, fatal, now>>

(* Mutant of output: the line goes to the front of the list.                 *)
outputFirst(l) ==
    /\ logged[l] < MaxLines /\ Logs(l)
    /\ ~m_mutexWrite
    /\ logged' = [logged EXCEPT ![l] = @ + 1]
    /\ m_listLinesToWrite' = <<<<l, logged[l] + 1>>>> \o m_listLinesToWrite
    /\ waiting' = FALSE
    /\ UNCHANGED <<m_mutexWrite, m_bExit, m_bRunning, writerPc, strLine, uninitPc,
                   console, disk, fatal, now>>

output(l) ==
    /\ logged[l] < MaxLines /\ Logs(l)
    /\ ~m_mutexWrite
    /\ logged' = [logged EXCEPT ![l] = @ + 1]
    /\ m_listLinesToWrite' = Append(m_listLinesToWrite, <<l, logged[l] + 1>>)
    /\ waiting' = FALSE
    /\ UNCHANGED <<m_mutexWrite, m_bExit, m_bRunning, writerPc, strLine, uninitPc,
                   console, disk, fatal, now>>

-----------------------------------------------------------------------------
(* writeThreadProc.                                                          *)

Start ==
    /\ writerPc = "start"
    /\ m_bRunning' = TRUE
    /\ writerPc' = "file"
    /\ UNCHANGED <<logged, m_listLinesToWrite, m_mutexWrite, waiting, m_bExit, strLine,
                   uninitPc, console, disk, fatal, now>>

(* Mutant of NeedsFile: the size is compared one line too late.              *)
NeedsFileLate == toFile /\ (m_hLogFile = NoFile \/ m_nCurrentWrittenSize > m_nFileRollSize)

NeedsFile == toFile /\ (m_hLogFile = NoFile \/ m_nCurrentWrittenSize >= m_nFileRollSize)

(* For the first file, or the next one, the count starts anew.               *)
TestFile ==
    /\ writerPc = "file"
    /\ IF NeedsFile
       THEN m_nCurrentWrittenSize' = 0 /\ writerPc' = "close"
       ELSE writerPc' = "lock" /\ UNCHANGED m_nCurrentWrittenSize
    /\ UNCHANGED <<logged, m_listLinesToWrite, m_mutexWrite, waiting, m_bExit, m_bRunning,
                   strLine, uninitPc, console, toFile, files, m_hLogFile, closed, fatal, now>>

(* createNewFile: what is open by now, perhaps a FATAL line's, is closed.    *)
CloseFile ==
    /\ writerPc = "close"
    /\ closed' = (m_hLogFile # NoFile)
    /\ writerPc' = "open"
    /\ UNCHANGED <<logged, m_listLinesToWrite, m_mutexWrite, waiting, m_bExit, m_bRunning,
                   strLine, uninitPc, console, toFile, files, m_hLogFile,
                   m_nCurrentWrittenSize, fatal, now>>

(* The file is opened "w+" under the name of the second it is, which empties *)
(* a file of that name.                                                     *)
Fopen(done) ==
    /\ closed' = FALSE
    /\ \/ /\ done
          /\ m_hLogFile' = now
          /\ files' = [files EXCEPT ![now] = <<>>]
       \/ /\ DiskFails /\ ~done
          /\ m_hLogFile' = NoFile
          /\ UNCHANGED files

OpenFile ==
    /\ writerPc = "open"
    /\ \E done \in BOOLEAN :
          Fopen(done) /\ writerPc' = IF done THEN "lock" ELSE "failed"
    /\ UNCHANGED <<logged, m_listLinesToWrite, m_mutexWrite, waiting, m_bExit, m_bRunning,
                   strLine, uninitPc, console, toFile, m_nCurrentWrittenSize, fatal, now>>

Lock ==
    /\ writerPc = "lock"
    /\ ~waiting /\ ~m_mutexWrite
    /\ m_mutexWrite' = TRUE
    /\ writerPc' = "test"
    /\ UNCHANGED <<logged, m_listLinesToWrite, waiting, m_bExit, m_bRunning, strLine,
                   uninitPc, console, disk, fatal, now>>

TakeLine ==
    /\ writerPc = "test"
    /\ m_listLinesToWrite # <<>>
    /\ strLine' = Head(m_listLinesToWrite)
    /\ m_listLinesToWrite' = Tail(m_listLinesToWrite)
    /\ m_mutexWrite' = FALSE
    /\ writerPc' = "write"
    /\ UNCHANGED <<logged, waiting, m_bExit, m_bRunning, uninitPc, console, disk, fatal, now>>

(* Mutant of TestExit: the flag is tested before the list.                   *)
TestExitFirst ==
    /\ writerPc = "test"
    /\ IF m_bExit
       THEN writerPc' = "returned" /\ m_mutexWrite' = FALSE
       ELSE m_listLinesToWrite = <<>> /\ writerPc' = "wait" /\ UNCHANGED m_mutexWrite
    /\ UNCHANGED <<logged, m_listLinesToWrite, waiting, m_bExit, m_bRunning, strLine,
                   uninitPc, console, disk, fatal, now>>

(* Nothing to write: m_bExit, which uninit sets without the mutex, is read   *)
(* once.                                                                    *)
TestExit ==
    /\ writerPc = "test"
    /\ m_listLinesToWrite = <<>>
    /\ IF m_bExit
       THEN writerPc' = "returned" /\ m_mutexWrite' = FALSE
       ELSE writerPc' = "wait" /\ UNCHANGED m_mutexWrite
    /\ UNCHANGED <<logged, m_listLinesToWrite, waiting, m_bExit, m_bRunning, strLine,
                   uninitPc, console, disk, fatal, now>>

(* Mutant of Wait: the writer sleeps with the mutex held.                    *)
WaitHolding ==
    /\ writerPc = "wait"
    /\ waiting' = TRUE
    /\ writerPc' = "lock"
    /\ UNCHANGED <<logged, m_listLinesToWrite, m_mutexWrite, m_bExit, m_bRunning, strLine,
                   uninitPc, console, disk, fatal, now>>

Wait ==
    /\ writerPc = "wait"
    /\ waiting' = TRUE
    /\ m_mutexWrite' = FALSE
    /\ writerPc' = "lock"
    /\ UNCHANGED <<logged, m_listLinesToWrite, m_bExit, m_bRunning, strLine, uninitPc,
                   console, disk, fatal, now>>

(* m_hLogFile is an open file.  Where it is not, a write is lost or fails;   *)
(* UseOfClosedFile is its other outcome.                                    *)
Usable == m_hLogFile # NoFile /\ ~closed

WriteLine ==
    /\ writerPc = "write"
    /\ console' = Append(console, strLine)
    /\ strLine' = NoLine
    /\ \/ /\ toFile
          /\ files' = IF Usable THEN [files EXCEPT ![m_hLogFile] = Append(@, strLine)] ELSE files
          /\ m_nCurrentWrittenSize' = m_nCurrentWrittenSize + LengthOf[strLine]
          /\ writerPc' = "file"
       \/ /\ toFile /\ (DiskFails \/ ~Usable)
          /\ writerPc' = "failed"
          /\ UNCHANGED <<files, m_nCurrentWrittenSize>>
       \/ /\ ~toFile
          /\ writerPc' = "file"
          /\ UNCHANGED <<files, m_nCurrentWrittenSize>>
    /\ UNCHANGED <<logged, m_listLinesToWrite, m_mutexWrite, waiting, m_bExit, m_bRunning,
                   uninitPc, toFile, m_hLogFile, closed, fatal, now>>

WriterStep ==
    /\ ~crashed
    /\ \/ Start \/ TestFile \/ CloseFile \/ OpenFile \/ Lock \/ TakeLine \/ TestExit
       \/ Wait \/ WriteLine

-----------------------------------------------------------------------------
(* uninit: the flag and the notification, both without the mutex, then join. *)

SetExit ==
    /\ uninitPc = "setExit"
    /\ m_bExit' = TRUE
    /\ uninitPc' = "notify"
    /\ UNCHANGED <<logged, m_listLinesToWrite, m_mutexWrite, waiting, m_bRunning, writerPc,
                   strLine, console, disk, fatal, now>>

NotifyExit ==
    /\ uninitPc = "notify"
    /\ waiting' = FALSE
    /\ uninitPc' = "join"
    /\ UNCHANGED <<logged, m_listLinesToWrite, m_mutexWrite, m_bExit, m_bRunning, writerPc,
                   strLine, console, disk, fatal, now>>

Join ==
    /\ uninitPc = "join"
    /\ writerPc \in {"returned", "failed"}
    /\ uninitPc' = "close"
    /\ UNCHANGED <<logged, m_listLinesToWrite, m_mutexWrite, waiting, m_bExit, m_bRunning,
                   writerPc, strLine, console, disk, fatal, now>>

(* fclose, if there is a file, and m_hLogFile = nullptr.                     *)
CloseLog ==
    /\ uninitPc = "close"
    /\ closed' = (m_hLogFile # NoFile)
    /\ uninitPc' = IF m_hLogFile # NoFile THEN "clear" ELSE "returned"
    /\ UNCHANGED <<logged, m_listLinesToWrite, m_mutexWrite, waiting, m_bExit, m_bRunning,
                   writerPc, strLine, console, toFile, files, m_hLogFile,
                   m_nCurrentWrittenSize, fatal, now>>

ClearLog ==
    /\ uninitPc = "clear"
    /\ m_hLogFile' = NoFile
    /\ closed' = FALSE
    /\ uninitPc' = "returned"
    /\ UNCHANGED <<logged, m_listLinesToWrite, m_mutexWrite, waiting, m_bExit, m_bRunning,
                   writerPc, strLine, console, toFile, files, m_nCurrentWrittenSize, fatal, now>>

uninit        == ~crashed /\ SetExit
UninitReturns == ~crashed /\ (NotifyExit \/ Join \/ CloseLog \/ ClearLog)

-----------------------------------------------------------------------------
(* output(FATAL): the logger itself writes, without m_mutexWrite, and then   *)
(* crashes the process.                                                     *)

FatalMoves(l, from, to) == fatalPc[l] = from /\ fatalPc' = [fatalPc EXCEPT ![l] = to]

OutputFatal(l) ==
    /\ FatalMoves(l, "none", IF toFile THEN "file" ELSE "crash")
    /\ console' = Append(console, FatalLine(l))
    /\ UNCHANGED <<disk, crashed>>

FatalFile(l) ==
    /\ FatalMoves(l, "file", IF m_hLogFile = NoFile THEN "close" ELSE "write")
    /\ UNCHANGED <<console, disk, crashed>>

(* createNewFile: by now the writer may have opened a file, which is closed. *)
FatalClose(l) ==
    /\ FatalMoves(l, "close", "open")
    /\ closed' = (m_hLogFile # NoFile)
    /\ UNCHANGED <<console, toFile, files, m_hLogFile, m_nCurrentWrittenSize, crashed>>

(* If it fails, output returns false, and nothing crashes.                   *)
FatalOpen(l) ==
    /\ \E done \in BOOLEAN :
          Fopen(done) /\ FatalMoves(l, "open", IF done THEN "write" ELSE "returned")
    /\ UNCHANGED <<console, toFile, m_nCurrentWrittenSize, crashed>>

(* writeToFile, whose result is ignored.                                     *)
FatalWrite(l) ==
    /\ FatalMoves(l, "write", "crash")
    /\ \/ /\ Usable
          /\ files' = [files EXCEPT ![m_hLogFile] = Append(@, FatalLine(l))]
       \/ /\ DiskFails \/ ~Usable
          /\ UNCHANGED files
    /\ UNCHANGED <<console, toFile, m_hLogFile, closed, m_nCurrentWrittenSize, crashed>>

(* crash() is meant to end the process.                                     *)
crash(l) ==
    /\ fatalPc[l] = "crash"
    /\ crashed' = TRUE
    /\ UNCHANGED <<fatalPc, console, disk>>

Fatal(l) ==
    /\ ~crashed
    /\ \/ OutputFatal(l) \/ FatalFile(l) \/ FatalClose(l) \/ FatalOpen(l)
       \/ FatalWrite(l) \/ crash(l)
    /\ UNCHANGED <<logged, m_listLinesToWrite, m_mutexWrite, waiting, m_bExit, m_bRunning,
                   writerPc, strLine, uninitPc, now>>

-----------------------------------------------------------------------------
(* m_hLogFile is used or closed after another thread has closed or cleared   *)
(* it: undefined, and here the end of the process.                          *)
UseOfClosedFile ==
    /\ ~crashed /\ toFile
    /\ \/ ~Usable /\ (writerPc = "write" \/ \E l \in FatalLoggers : fatalPc[l] = "write")
       \/ closed /\ (writerPc = "close" \/ \E l \in FatalLoggers : fatalPc[l] = "close")
    /\ crashed' = TRUE
    /\ UNCHANGED <<logged, m_listLinesToWrite, m_mutexWrite, waiting, m_bExit, m_bRunning,
                   writerPc, strLine, uninitPc, console, disk, fatalPc, now>>

SpuriousWake ==
    /\ ~crashed /\ waiting
    /\ waiting' = FALSE
    /\ UNCHANGED <<logged, m_listLinesToWrite, m_mutexWrite, m_bExit, m_bRunning, writerPc,
                   strLine, uninitPc, console, disk, fatal, now>>

Tick ==
    /\ ~crashed
    /\ now < MaxTime
    /\ now' = now + 1
    /\ UNCHANGED <<logged, m_listLinesToWrite, m_mutexWrite, waiting, m_bExit, m_bRunning,
                   writerPc, strLine, uninitPc, console, disk, fatal>>

Output(l) == ~crashed /\ output(l)

Next ==
    \/ \E l \in Loggers : Output(l)
    \/ \E l \in FatalLoggers : Fatal(l)
    \/ WriterStep \/ uninit \/ UninitReturns
    \/ UseOfClosedFile \/ SpuriousWake \/ Tick

Spec     == Init /\ [][Next]_vars
FairSpec == Spec /\ WF_vars(WriterStep) /\ WF_vars(UninitReturns)

-----------------------------------------------------------------------------
TypeOK ==
    /\ toFile \in BOOLEAN
    /\ logged \in [Loggers -> 0 .. MaxLines]
    /\ m_listLinesToWrite \in Seq(Lines)
    /\ m_mutexWrite \in BOOLEAN /\ (m_mutexWrite <=> writerPc \in {"test", "wait"})
    /\ waiting \in BOOLEAN /\ m_bExit \in BOOLEAN /\ m_bRunning \in BOOLEAN
    /\ writerPc \in {"start", "file", "close", "open", "lock", "test", "wait", "write",
                    "returned", "failed"}
    /\ strLine \in Lines \cup {NoLine}
    /\ uninitPc \in {"setExit", "notify", "join", "close", "clear", "returned"}
    /\ console \in Seq(Lines \cup FatalLines)
    /\ files \in [FileNames -> Seq(Lines \cup FatalLines)]
    /\ m_hLogFile \in FileNames \cup {NoFile}
    /\ closed \in BOOLEAN /\ crashed \in BOOLEAN
    /\ fatalPc \in [FatalLoggers -> {"none", "file", "close", "open", "write", "crash", "returned"}]
    /\ m_nCurrentWrittenSize \in Nat
    /\ now \in FileNames

(* The lines in the order in which they are, or will be, on the console.     *)
AllLines == console \o (IF strLine = NoLine THEN <<>> ELSE <<strLine>>) \o m_listLinesToWrite

(* Lines of one logger are in its order; a FATAL line overtakes what waits.  *)
Ordered(s) ==
    \A i, j \in DOMAIN s :
        i < j /\ s[i][1] = s[j][1] /\ {s[i], s[j]} \cap FatalLines = {} => s[i][2] < s[j][2]

(* Every line a logger has output, and no other, is on the console, in the   *)
(* writer's hand or in the list, once, and a logger's lines stay in order.  *)
NothingLostOrReordered ==
    /\ Range(AllLines) \ FatalLines = {x \in Lines : x[2] <= logged[x[1]]}
    /\ Ordered(AllLines)

(* The writer sleeps only when there is nothing to write.                    *)
SleepsOnlyWhenIdle == waiting => m_listLinesToWrite = <<>>

(* What the first n lines of a file count for: m_nCurrentWrittenSize does    *)
(* not count FATAL lines.                                                   *)
Counts(x) == IF x \in FatalLines THEN 0 ELSE LengthOf[x]

Bytes(s) ==
    LET upTo[n \in 0 .. Len(s)] == IF n = 0 THEN 0 ELSE upTo[n - 1] + Counts(s[n])
    IN  upTo

(* The log rolls in time, whoever creates its files and closes them under    *)
(* the writer: a line is added only to a file below the roll size, which it  *)
(* therefore exceeds by less than its last line; FATAL lines come on top.    *)
FilesBounded ==
    \A f \in FileNames : \A i \in DOMAIN files[f] :
      files[f][i] \notin FatalLines => Bytes(files[f])[i - 1] < m_nFileRollSize

(* Told to exit, the writer first writes what was output before.             *)
ExitDrains ==
    [][writerPc' = "returned" /\ writerPc # "returned" => m_listLinesToWrite = <<>>]_vars

(* A line that has been output is written, unless the writer or the process  *)
(* is gone.                                                                 *)
EveryLineWritten ==
    \A x \in Lines :
        logged[x[1]] >= x[2] ~> \/ x \in Range(console)
                                 \/ writerPc \in {"returned", "failed"}
                                 \/ crashed

(* The exit flag ends the writer thread, for which uninit waits.             *)
ExitFlagEndsWriter == m_bExit ~> uninitPc = "returned"
=============================================================================
