--------------------------- MODULE AsyncLogProofs ---------------------------
(***************************************************************************)
(* Theorems about AsyncLog for any loggers, lines, roll size and time: its *)
(* types, that the writer never sleeps on a line, that it drains the list  *)
(* before it returns, that no line is lost, invented, doubled or reordered *)
(* on its way to the console, and that no line is added to a file that has *)
(* reached the roll size.                                                  *)
(***************************************************************************)
EXTENDS AsyncLog, NatRecursion, SequenceTheorems

WriterPCs == {"start", "file", "close", "open", "lock", "test", "wait", "write", "returned", "failed"}

(* The writer sleeps in lock, on its way back from wait; between its test    *)
(* of the list and its sleep it holds m_mutexWrite, so that the list stays  *)
(* empty; in write it has a line.                                           *)
LinesInv ==
    /\ m_listLinesToWrite \in Seq(Lines)
    /\ logged \in [Loggers -> 0 .. MaxLines]
    /\ writerPc \in WriterPCs
    /\ strLine \in Lines \cup {NoLine}
    /\ writerPc = "write" <=> strLine # NoLine
    /\ m_bExit \in BOOLEAN /\ m_bRunning \in BOOLEAN

MutexInv ==
    /\ m_mutexWrite \in BOOLEAN
    /\ m_mutexWrite <=> writerPc \in {"test", "wait"}
    /\ writerPc = "wait" => m_listLinesToWrite = <<>>

SleepInv ==
    /\ waiting \in BOOLEAN
    /\ waiting => writerPc = "lock" /\ m_listLinesToWrite = <<>>

WriterInv == LinesInv /\ MutexInv /\ SleepInv

(* What is on the disk and on the console.                                  *)
DiskInv ==
    /\ toFile \in BOOLEAN
    /\ console \in Seq(Lines \cup FatalLines)
    /\ files \in [FileNames -> Seq(Lines \cup FatalLines)]
    /\ m_hLogFile \in FileNames \cup {NoFile}
    /\ closed \in BOOLEAN /\ crashed \in BOOLEAN
    /\ fatalPc \in [FatalLoggers -> {"none", "file", "close", "open", "write", "crash", "returned"}]
    /\ m_nCurrentWrittenSize \in Nat
    /\ now \in FileNames

UninitInv == uninitPc \in {"setExit", "notify", "join", "close", "clear", "returned"}

LogInv == WriterInv /\ DiskInv /\ UninitInv

(* What a step leaves alone keeps its part of the invariant.                *)
LEMMA LogFrame ==
    /\ WriterInv /\ UNCHANGED <<logged, m_listLinesToWrite, m_mutexWrite, waiting, m_bExit,
                               m_bRunning, writerPc, strLine>> => WriterInv'
    /\ DiskInv /\ UNCHANGED <<console, disk, fatal, now>> => DiskInv'
    /\ UninitInv /\ UNCHANGED uninitPc => UninitInv'
BY DEF WriterInv, LinesInv, MutexInv, SleepInv, DiskInv, UninitInv, disk, fatal

LEMMA LogTypes == LogInv => TypeOK /\ SleepsOnlyWhenIdle
BY DEF LogInv, WriterInv, LinesInv, MutexInv, SleepInv, WriterPCs, DiskInv, UninitInv, TypeOK, SleepsOnlyWhenIdle

LEMMA LogInit == Init => LogInv
<1> SUFFICES ASSUME Init PROVE LogInv
  OBVIOUS
<1>1. WriterInv
  <2>1. LinesInv
    <3>1. /\ m_listLinesToWrite = <<>> /\ logged = [l \in Loggers |-> 0] /\ writerPc = "start"
          /\ strLine = NoLine
      BY DEF Init
    <3>2. m_bExit \in BOOLEAN /\ m_bRunning \in BOOLEAN
      BY DEF Init
    <3> QED
      BY <3>1, <3>2, LogAssumption DEF LinesInv, WriterPCs
  <2>2. MutexInv
    BY DEF Init, MutexInv
  <2>3. SleepInv
    BY DEF Init, SleepInv
  <2> QED
    BY <2>1, <2>2, <2>3 DEF WriterInv
<1>2. DiskInv
  <2>1. 0 \in FileNames
    BY LogAssumption DEF FileNames
  <2>2. toFile \in BOOLEAN /\ closed \in BOOLEAN /\ crashed \in BOOLEAN
    BY DEF Init
  <2>3. /\ console = <<>> /\ files = [f \in FileNames |-> <<>>] /\ m_hLogFile = NoFile
        /\ fatalPc = [l \in FatalLoggers |-> "none"] /\ m_nCurrentWrittenSize = 0 /\ now = 0
    BY DEF Init
  <2> QED
    BY <2>1, <2>2, <2>3 DEF DiskInv
<1>3. UninitInv
  BY DEF Init, UninitInv
<1> QED
  BY <1>1, <1>2, <1>3 DEF LogInv

(* A file opened anew, or not.                                              *)
LEMMA Opened ==
    ASSUME DiskInv, NEW done \in BOOLEAN, Fopen(done)
    PROVE  /\ files' \in [FileNames -> Seq(Lines \cup FatalLines)]
           /\ m_hLogFile' \in FileNames \cup {NoFile}
           /\ closed' \in BOOLEAN
<1>1. closed' \in BOOLEAN /\ now \in FileNames
  BY DEF DiskInv, Fopen
<1>2. CASE m_hLogFile' = now /\ files' = [files EXCEPT ![now] = <<>>]
  BY <1>1, <1>2 DEF DiskInv
<1>3. CASE m_hLogFile' = NoFile /\ files' = files
  BY <1>1, <1>3 DEF DiskInv
<1> QED
  BY <1>2, <1>3 DEF Fopen

(* A line written to a file or to none.                                     *)
LEMMA Written ==
    ASSUME DiskInv, NEW x \in Lines \cup FatalLines
    PROVE  /\ Append(console, x) \in Seq(Lines \cup FatalLines)
           /\ [files EXCEPT ![m_hLogFile] = Append(@, x)] \in [FileNames -> Seq(Lines \cup FatalLines)]
<1>1. console \in Seq(Lines \cup FatalLines) /\ files \in [FileNames -> Seq(Lines \cup FatalLines)]
  BY DEF DiskInv
<1>2. \A s \in Seq(Lines \cup FatalLines) : Append(s, x) \in Seq(Lines \cup FatalLines)
  OBVIOUS
<1>3. \A f \in FileNames : files[f] \in Seq(Lines \cup FatalLines)
  BY <1>1
<1> QED
  BY <1>1, <1>2, <1>3

(* The steps of the writer thread.                                          *)
LEMMA WriterKeeps ==
    ASSUME LogInv, WriterStep
    PROVE  LogInv'
<1>0. LinesInv /\ MutexInv /\ SleepInv /\ DiskInv /\ UninitInv
  BY DEF LogInv, WriterInv
<1>1. UninitInv'
  BY <1>0, LogFrame
  DEF WriterStep, Start, Lock, TakeLine, TestExit, Wait, TestFile, CloseFile, OpenFile, WriteLine
<1>2. SleepInv'
  <2>1. CASE Start \/ TestFile \/ CloseFile \/ OpenFile \/ TakeLine \/ TestExit \/ WriteLine
    <3>1. writerPc # "lock" /\ waiting' = waiting
      BY <2>1 DEF Start, TestFile, CloseFile, OpenFile, TakeLine, TestExit, WriteLine
    <3> QED
      BY <1>0, <3>1 DEF SleepInv
  <2>2. CASE Lock
    BY <1>0, <2>2 DEF SleepInv, Lock
  <2>3. CASE Wait
    BY <1>0, <2>3 DEF SleepInv, MutexInv, Wait
  <2> QED
    BY <2>1, <2>2, <2>3 DEF WriterStep
<1>3. MutexInv'
  <2>1. CASE Start \/ TestFile \/ CloseFile \/ OpenFile \/ WriteLine
    <3>1. /\ writerPc \notin {"test", "wait"} /\ writerPc' \notin {"test", "wait"}
          /\ m_mutexWrite' = m_mutexWrite
      BY <2>1 DEF Start, TestFile, CloseFile, OpenFile, WriteLine
    <3> QED
      BY <1>0, <3>1 DEF MutexInv
  <2>2. CASE Lock
    <3>1. m_mutexWrite' = TRUE /\ writerPc' = "test"
      BY <2>2 DEF Lock
    <3> QED
      BY <3>1 DEF MutexInv
  <2>3. CASE Wait \/ TakeLine
    <3>1. m_mutexWrite' = FALSE /\ writerPc' \in {"lock", "write"}
      BY <2>3 DEF Wait, TakeLine
    <3> QED
      BY <3>1 DEF MutexInv
  <2>4. CASE TestExit
    <3>1. m_listLinesToWrite' = <<>> /\ writerPc = "test"
      BY <2>4 DEF TestExit
    <3>2. CASE m_bExit
      <4>1. m_mutexWrite' = FALSE /\ writerPc' = "returned"
        BY <2>4, <3>2 DEF TestExit
      <4> QED
        BY <4>1 DEF MutexInv
    <3>3. CASE ~m_bExit
      <4>1. m_mutexWrite' = m_mutexWrite /\ writerPc' = "wait"
        BY <2>4, <3>3 DEF TestExit
      <4> QED
        BY <1>0, <3>1, <4>1 DEF MutexInv
    <3> QED
      BY <3>2, <3>3
  <2> QED
    BY <2>1, <2>2, <2>3, <2>4 DEF WriterStep
<1>4. LinesInv'
  <2>1. CASE TakeLine
    <3>1. Head(m_listLinesToWrite) \in Lines /\ Tail(m_listLinesToWrite) \in Seq(Lines)
      BY <1>0, <2>1 DEF TakeLine, LinesInv
    <3> QED
      BY <1>0, <2>1, <3>1, LogAssumption DEF TakeLine, LinesInv, WriterPCs
  <2>2. CASE Start
    BY <1>0, <2>2 DEF LinesInv, WriterPCs, Start
  <2>3. CASE TestFile \/ CloseFile \/ OpenFile \/ Lock \/ TestExit \/ Wait \/ WriteLine
    <3>1. /\ UNCHANGED <<logged, m_listLinesToWrite, m_bExit, m_bRunning>>
          /\ strLine' = NoLine \/ (strLine' = strLine /\ writerPc # "write")
          /\ writerPc' \in WriterPCs \ {"write"}
      BY <2>3 DEF TestFile, CloseFile, OpenFile, Lock, TestExit, Wait, WriteLine, WriterPCs
    <3> QED
      BY <1>0, <3>1 DEF LinesInv
  <2> QED
    BY <2>1, <2>2, <2>3 DEF WriterStep
<1>5. DiskInv'
  <2>1. CASE Start \/ Lock \/ TakeLine \/ TestExit \/ Wait
    <3>1. UNCHANGED <<console, disk, fatal, now>>
      BY <2>1 DEF Start, Lock, TakeLine, TestExit, Wait
    <3> QED
      BY <1>0, <3>1, LogFrame
  <2>2. CASE TestFile \/ CloseFile
    <3>1. /\ m_nCurrentWrittenSize' \in {0, m_nCurrentWrittenSize}
          /\ closed' \in BOOLEAN
          /\ UNCHANGED <<console, toFile, files, m_hLogFile, fatal, now>>
      BY <1>0, <2>2 DEF TestFile, CloseFile, DiskInv
    <3> QED
      BY <1>0, <3>1 DEF DiskInv, fatal
  <2>3. CASE OpenFile
    <3>1. PICK done \in BOOLEAN : Fopen(done)
      BY <2>3 DEF OpenFile
    <3>2. UNCHANGED <<console, toFile, m_nCurrentWrittenSize, fatal, now>>
      BY <2>3 DEF OpenFile
    <3> QED
      BY <1>0, <3>1, <3>2, Opened DEF DiskInv, fatal
  <2>4. CASE WriteLine
    <3>1. strLine \in Lines
      BY <1>0, <2>4 DEF WriteLine, LinesInv
    <3>2. /\ console' = Append(console, strLine)
          /\ files' \in {files, [files EXCEPT ![m_hLogFile] = Append(@, strLine)]}
          /\ m_nCurrentWrittenSize' \in {m_nCurrentWrittenSize, m_nCurrentWrittenSize + LengthOf[strLine]}
          /\ UNCHANGED <<toFile, m_hLogFile, closed, fatal, now>>
      BY <2>4 DEF WriteLine
    <3>3. /\ console' \in Seq(Lines \cup FatalLines)
          /\ files' \in [FileNames -> Seq(Lines \cup FatalLines)]
      BY <1>0, <3>1, <3>2, Written DEF DiskInv
    <3>4. LengthOf[strLine] \in Nat
      BY <3>1, LogAssumption
    <3> QED
      BY <1>0, <3>2, <3>3, <3>4 DEF DiskInv, fatal
  <2> QED
    BY <2>1, <2>2, <2>3, <2>4 DEF WriterStep
<1> QED
  BY <1>1, <1>2, <1>3, <1>4, <1>5 DEF LogInv, WriterInv

(* The loggers and whoever calls uninit.                                    *)
LEMMA OthersKeep ==
    ASSUME LogInv, [Next]_vars, ~WriterStep
    PROVE  LogInv'
<1>0. LinesInv /\ MutexInv /\ SleepInv /\ WriterInv /\ DiskInv /\ UninitInv
  BY DEF LogInv, WriterInv
<1>1. ASSUME NEW l \in Loggers, Output(l)
      PROVE  LogInv'
  <2>1. /\ logged[l] < MaxLines /\ logged' = [logged EXCEPT ![l] = @ + 1]
        /\ m_listLinesToWrite' = Append(m_listLinesToWrite, <<l, logged[l] + 1>>)
        /\ ~m_mutexWrite /\ ~waiting'
        /\ waiting' = FALSE
        /\ UNCHANGED <<m_mutexWrite, m_bExit, m_bRunning, writerPc, strLine, uninitPc, console,
                       disk, fatal, now>>
    BY <1>1 DEF Output, output
  <2>2. <<l, logged[l] + 1>> \in Lines /\ logged' \in [Loggers -> 0 .. MaxLines]
    BY <1>0, <2>1, LogAssumption DEF LinesInv, Lines
  <2>3. LinesInv'
    BY <1>0, <2>1, <2>2 DEF LinesInv
  <2>4. MutexInv'
    BY <1>0, <2>1 DEF MutexInv
  <2>5. SleepInv'
    BY <2>1 DEF SleepInv
  <2>6. DiskInv' /\ UninitInv'
    BY <1>0, <2>1, LogFrame
  <2> QED
    BY <2>3, <2>4, <2>5, <2>6 DEF LogInv, WriterInv
<1>2. ASSUME NEW l \in FatalLoggers, Fatal(l)
      PROVE  LogInv'
  <2>1. WriterInv' /\ UninitInv' /\ now' = now
    BY <1>0, <1>2, LogFrame DEF Fatal
  <2>2. fatalPc' \in [FatalLoggers -> {"none", "file", "close", "open", "write", "crash", "returned"}]
    BY <1>0, <1>2
    DEF Fatal, OutputFatal, FatalFile, FatalClose, FatalOpen, FatalWrite, crash, FatalMoves, DiskInv
  <2>3. FatalLine(l) \in FatalLines
    BY DEF FatalLines
  <2>4. CASE OutputFatal(l) \/ FatalFile(l) \/ FatalClose(l) \/ crash(l)
    <3>1. /\ console' \in Seq(Lines \cup FatalLines)
          /\ files' = files /\ toFile' = toFile /\ m_hLogFile' = m_hLogFile
          /\ m_nCurrentWrittenSize' = m_nCurrentWrittenSize
          /\ closed' \in BOOLEAN /\ crashed' \in BOOLEAN
      BY <1>0, <2>3, <2>4, Written DEF OutputFatal, FatalFile, FatalClose, crash, DiskInv, disk
    <3> QED
      BY <1>0, <2>1, <2>2, <3>1 DEF DiskInv, LogInv
  <2>5. CASE FatalOpen(l)
    <3>1. PICK done \in BOOLEAN : Fopen(done)
      BY <2>5 DEF FatalOpen
    <3>2. UNCHANGED <<console, toFile, m_nCurrentWrittenSize, crashed>>
      BY <2>5 DEF FatalOpen
    <3> QED
      BY <1>0, <2>1, <2>2, <3>1, <3>2, Opened DEF DiskInv, LogInv
  <2>6. CASE FatalWrite(l)
    <3>1. files' \in {files, [files EXCEPT ![m_hLogFile] = Append(@, FatalLine(l))]}
      BY <2>6 DEF FatalWrite
    <3>2. files' \in [FileNames -> Seq(Lines \cup FatalLines)]
      BY <1>0, <2>3, <3>1, Written DEF DiskInv
    <3>3. UNCHANGED <<console, toFile, m_hLogFile, closed, m_nCurrentWrittenSize, crashed>>
      BY <2>6 DEF FatalWrite
    <3> QED
      BY <1>0, <2>1, <2>2, <3>2, <3>3 DEF DiskInv, LogInv
  <2> QED
    BY <1>2, <2>4, <2>5, <2>6 DEF Fatal
<1>3. CASE uninit \/ UninitReturns
  <2>1. /\ waiting' = waiting \/ waiting' = FALSE
        /\ m_bExit' \in BOOLEAN
        /\ UNCHANGED <<logged, m_listLinesToWrite, m_mutexWrite, m_bRunning, writerPc, strLine,
                       console, toFile, files, m_nCurrentWrittenSize, fatal, now>>
        /\ closed' \in BOOLEAN /\ m_hLogFile' \in {m_hLogFile, NoFile}
        /\ uninitPc' \in {"notify", "join", "close", "clear", "returned"}
    BY <1>0, <1>3
    DEF uninit, UninitReturns, SetExit, NotifyExit, Join, CloseLog, ClearLog, LinesInv, DiskInv, disk
  <2>2. LinesInv' /\ MutexInv' /\ UninitInv'
    BY <1>0, <2>1 DEF LinesInv, MutexInv, UninitInv
  <2>3. SleepInv'
    <3>1. CASE waiting' = waiting
      BY <1>0, <2>1, <3>1 DEF SleepInv
    <3>2. CASE waiting' = FALSE
      BY <3>2 DEF SleepInv
    <3> QED
      BY <2>1, <3>1, <3>2
  <2>4. DiskInv'
    BY <1>0, <2>1 DEF DiskInv, fatal
  <2> QED
    BY <2>2, <2>3, <2>4 DEF LogInv, WriterInv
<1>4. CASE UseOfClosedFile
  <2>1. WriterInv' /\ UninitInv'
    BY <1>0, <1>4, LogFrame DEF UseOfClosedFile
  <2>2. DiskInv'
    BY <1>0, <1>4 DEF UseOfClosedFile, DiskInv, disk
  <2> QED
    BY <2>1, <2>2 DEF LogInv
<1>5. CASE SpuriousWake
  <2>1. /\ waiting' = FALSE
        /\ UNCHANGED <<logged, m_listLinesToWrite, m_mutexWrite, m_bExit, m_bRunning, writerPc,
                       strLine, uninitPc, console, disk, fatal, now>>
    BY <1>5 DEF SpuriousWake
  <2>2. LinesInv' /\ MutexInv' /\ SleepInv'
    BY <1>0, <2>1 DEF LinesInv, MutexInv, SleepInv
  <2> QED
    BY <1>0, <2>1, <2>2, LogFrame DEF LogInv, WriterInv
<1>6. CASE Tick
  <2>1. now' \in FileNames
    BY <1>0, <1>6, LogAssumption DEF Tick, DiskInv, FileNames
  <2>2. WriterInv' /\ UninitInv' /\ UNCHANGED <<console, disk, fatal>>
    BY <1>0, <1>6, LogFrame DEF Tick
  <2> QED
    BY <1>0, <2>1, <2>2 DEF LogInv, DiskInv, disk, fatal
<1>7. CASE UNCHANGED vars
  BY <1>0, <1>7, LogFrame DEF vars, LogInv
<1> QED
  BY <1>1, <1>2, <1>3, <1>4, <1>5, <1>6, <1>7 DEF Next

THEOREM LogInvariance == Spec => []LogInv
<1>1. LogInv /\ [Next]_vars => LogInv'
  BY WriterKeeps, OthersKeep
<1> QED
  BY <1>1, LogInit, PTL DEF Spec

(* Types, m_mutexWrite's holder among them.                                 *)
THEOREM LogTypeCorrect == Spec => []TypeOK
BY LogInvariance, LogTypes, PTL

(* A line can not be pushed between the writer's test of the list and its    *)
(* wait, and one pushed later wakes it: asleep, it has nothing to write.    *)
THEOREM NeverSleepsOnALine == Spec => []SleepsOnlyWhenIdle
BY LogInvariance, LogTypes, PTL

(* Whenever the flag is set, the writer returns only with an empty list.    *)
THEOREM DrainsBeforeExit == Spec => ExitDrains
<1>1. [Next]_vars =>
        [writerPc' = "returned" /\ writerPc # "returned" => m_listLinesToWrite = <<>>]_vars
  <2> SUFFICES ASSUME Next, writerPc' = "returned", writerPc # "returned"
               PROVE  m_listLinesToWrite = <<>>
    OBVIOUS
  <2>1. CASE WriterStep
    BY <2>1 DEF WriterStep, Start, TestFile, CloseFile, OpenFile, Lock, TakeLine, TestExit, Wait, WriteLine
  <2>2. CASE uninit \/ UninitReturns
    BY <2>2 DEF uninit, UninitReturns, SetExit, NotifyExit, Join, CloseLog, ClearLog
  <2>3. CASE UseOfClosedFile \/ SpuriousWake \/ Tick
    BY <2>3 DEF UseOfClosedFile, SpuriousWake, Tick
  <2>4. ASSUME NEW l, Output(l) \/ Fatal(l)
        PROVE  writerPc' = writerPc
    BY <2>4 DEF Output, output, Fatal
  <2> QED
    BY <2>1, <2>2, <2>3, <2>4 DEF Next
<1> QED
  BY <1>1, PTL DEF Spec, ExitDrains

-----------------------------------------------------------------------------
(* Order.                                                                   *)

(* A line behind all others of its logger keeps the order.                  *)
LEMMA AppendOrdered ==
    ASSUME NEW S, NEW s \in Seq(S), Ordered(s), NEW x,
           \A i \in DOMAIN s : s[i][1] = x[1] => s[i][2] < x[2]
    PROVE  Ordered(Append(s, x))
<1> DEFINE t == Append(s, x)
<1>1. /\ DOMAIN t = 1 .. (Len(s) + 1) /\ t[Len(s) + 1] = x
      /\ \A i \in 1 .. Len(s) : t[i] = s[i]
      /\ DOMAIN s = 1 .. Len(s) /\ Len(s) \in Nat
  OBVIOUS
<1> HIDE DEF t
<1>2. SUFFICES ASSUME NEW i \in DOMAIN t, NEW j \in DOMAIN t, i < j, t[i][1] = t[j][1],
                      {t[i], t[j]} \cap FatalLines = {}
               PROVE  t[i][2] < t[j][2]
  BY DEF Ordered, t
<1>3. i \in 1 .. Len(s) /\ t[i] = s[i]
  BY <1>1, <1>2
<1>4. CASE j = Len(s) + 1
  BY <1>1, <1>2, <1>3, <1>4
<1>5. CASE j # Len(s) + 1
  <2>1. j \in 1 .. Len(s) /\ t[j] = s[j]
    BY <1>1, <1>5
  <2> QED
    BY <1>1, <1>2, <1>3, <2>1 DEF Ordered
<1> QED
  BY <1>4, <1>5

(* A FATAL line changes nothing wherever it is put.                         *)
LEMMA FatalOrdered ==
    ASSUME NEW S, NEW a \in Seq(S), NEW b \in Seq(S), NEW f \in FatalLines, Ordered(a \o b)
    PROVE  Ordered(Append(a, f) \o b)
<1> DEFINE s == a \o b
           t == Append(a, f) \o b
           old(i) == IF i <= Len(a) THEN i ELSE i - 1
<1>1. /\ Len(a) \in Nat /\ Len(b) \in Nat
      /\ DOMAIN s = 1 .. (Len(a) + Len(b)) /\ DOMAIN t = 1 .. (Len(a) + 1 + Len(b))
      /\ t[Len(a) + 1] = f
      /\ \A i \in DOMAIN t : i # Len(a) + 1 => old(i) \in DOMAIN s /\ t[i] = s[old(i)]
  OBVIOUS
<1> HIDE DEF s, t
<1>2. SUFFICES ASSUME NEW i \in DOMAIN t, NEW j \in DOMAIN t, i < j, t[i][1] = t[j][1],
                      {t[i], t[j]} \cap FatalLines = {}
               PROVE  t[i][2] < t[j][2]
  BY DEF Ordered, t
<1>3. i # Len(a) + 1 /\ j # Len(a) + 1
  BY <1>1, <1>2
<1>4. /\ old(i) \in DOMAIN s /\ t[i] = s[old(i)]
      /\ old(j) \in DOMAIN s /\ t[j] = s[old(j)]
      /\ old(i) < old(j)
  BY <1>1, <1>2, <1>3
<1> HIDE DEF old
<1>5. Ordered(s)
  BY DEF s
<1> QED
  BY <1>2, <1>4, <1>5 DEF Ordered


Logged == Lines \cup FatalLines

(* Concatenation of what the log handles.                                   *)
LEMMA InARow ==
    /\ \A s, t, u \in Seq(Logged) : (s \o t) \o u = s \o (t \o u)
    /\ \A s, t \in Seq(Logged) : Range(s \o t) = Range(s) \cup Range(t)
    /\ \A s \in Seq(Logged), x \in Logged :
          /\ <<x>> \in Seq(Logged)
          /\ Append(s, x) = s \o <<x>>
          /\ Range(Append(s, x)) = Range(s) \cup {x}
<1>1. \A s, t, u \in Seq(Logged) : (s \o t) \o u = s \o (t \o u)
  BY ConcatAssociative
<1>2. \A s, t \in Seq(Logged) : Range(s \o t) = Range(s) \cup Range(t)
  BY RangeConcatenation
<1>3. \A x \in Logged : <<x>> \in Seq(Logged) /\ Range(<<x>>) = {x}
  BY DEF Range
<1>4. \A s \in Seq(Logged), x \in Logged : Append(s, x) = s \o <<x>>
  BY AppendIsConcat
<1> QED
  BY <1>1, <1>2, <1>3, <1>4, Zenon

(* What comes behind the console.                                           *)
Hand == IF strLine = NoLine THEN <<>> ELSE <<strLine>>
Rest == Hand \o m_listLinesToWrite

(* The three places a line can be in are sequences of lines.                *)
LEMMA Parts ==
    ASSUME LogInv
    PROVE  /\ console \in Seq(Logged) /\ Hand \in Seq(Logged) /\ m_listLinesToWrite \in Seq(Logged)
           /\ Rest \in Seq(Logged) /\ AllLines \in Seq(Logged)
           /\ AllLines = console \o Rest
           /\ AllLines = (console \o Hand) \o m_listLinesToWrite
           /\ console \o Hand \in Seq(Logged)
<1>1. console \in Seq(Logged) /\ m_listLinesToWrite \in Seq(Lines) /\ strLine \in Lines \cup {NoLine}
  BY DEF LogInv, WriterInv, LinesInv, DiskInv, Logged
<1>2. m_listLinesToWrite \in Seq(Logged)
  BY <1>1 DEF Logged
<1>3. Hand \in Seq(Logged)
  <2>1. CASE strLine = NoLine
    BY <2>1 DEF Hand
  <2>2. CASE strLine \in Lines /\ strLine # NoLine
    BY <2>2 DEF Hand, Logged
  <2> QED
    BY <1>1, <2>1, <2>2
<1>4. AllLines = (console \o Hand) \o m_listLinesToWrite
  BY DEF AllLines, Hand
<1>5. AllLines = console \o Rest
  BY <1>1, <1>2, <1>3, <1>4, ConcatAssociative DEF Rest
<1>6. console \o Hand \in Seq(Logged) /\ Rest \in Seq(Logged)
  BY <1>1, <1>2, <1>3, ConcatProperties DEF Rest
<1> QED
  BY <1>1, <1>2, <1>3, <1>4, <1>5, <1>6, ConcatProperties

(* A line is put behind all others.                                         *)
LEMMA OutputOrdered ==
    ASSUME LogInv, NothingLostOrReordered, NEW l \in Loggers, Output(l)
    PROVE  NothingLostOrReordered'
<1> DEFINE x == <<l, logged[l] + 1>>
<1>1. /\ logged[l] < MaxLines /\ logged' = [logged EXCEPT ![l] = @ + 1]
      /\ m_listLinesToWrite' = Append(m_listLinesToWrite, x)
      /\ UNCHANGED <<strLine, console>>
  BY DEF Output, output
<1>2. logged \in [Loggers -> 0 .. MaxLines] /\ x \in Lines /\ x \in Logged /\ x \notin FatalLines
  BY <1>1, LogAssumption DEF LogInv, WriterInv, LinesInv, Lines, Logged, FatalLines, FatalLine
<1>3. AllLines' = Append(AllLines, x) /\ Range(AllLines') = Range(AllLines) \cup {x}
  <2> HIDE DEF x
  <2>1. AllLines' = (console \o Hand) \o Append(m_listLinesToWrite, x)
    BY <1>1 DEF AllLines, Hand
  <2>2. Append(m_listLinesToWrite, x) = m_listLinesToWrite \o <<x>>
    BY <1>2, Parts, InARow
  <2>3. <<x>> \in Seq(Logged)
    BY <1>2, InARow
  <2>4. (console \o Hand) \o (m_listLinesToWrite \o <<x>>) = AllLines \o <<x>>
    <3> DEFINE one == <<x>>
    <3> HIDE DEF one
    <3>1. one \in Seq(Logged)
      BY <2>3 DEF one
    <3>2. ((console \o Hand) \o m_listLinesToWrite) \o one = (console \o Hand) \o (m_listLinesToWrite \o one)
      BY <3>1, Parts, InARow
    <3> QED
      BY <3>2, Parts DEF one
  <2> QED
    BY <1>2, <2>1, <2>2, <2>4, Parts, InARow, Zenon
<1>4. Range(AllLines') \ FatalLines = {y \in Lines : y[2] <= logged'[y[1]]}
  <2>1. \A y \in Lines : y[2] <= logged'[y[1]] <=> y[2] <= logged[y[1]] \/ y = x
    BY <1>1, <1>2, LogAssumption DEF Lines
  <2> QED
    BY <1>2, <1>3, <2>1 DEF NothingLostOrReordered
<1>5. \A i \in DOMAIN AllLines : AllLines[i][1] = x[1] => AllLines[i][2] < x[2]
  <2> SUFFICES ASSUME NEW i \in DOMAIN AllLines, AllLines[i][1] = l
               PROVE  AllLines[i][2] < logged[l] + 1
    OBVIOUS
  <2>1. CASE AllLines[i] \in FatalLines
    BY <1>2, <2>1, LogAssumption DEF FatalLines, FatalLine
  <2>2. CASE AllLines[i] \notin FatalLines
    <3>1. AllLines[i] \in Range(AllLines) \ FatalLines
      BY <2>2 DEF Range
    <3>2. AllLines[i] \in Lines /\ AllLines[i][2] <= logged[AllLines[i][1]]
      BY <3>1 DEF NothingLostOrReordered
    <3> QED
      BY <1>2, <3>2, LogAssumption DEF Lines
  <2> QED
    BY <2>1, <2>2
<1> HIDE DEF x
<1>6. Ordered(AllLines')
  BY <1>3, <1>5, Parts, AppendOrdered DEF NothingLostOrReordered
<1> QED
  BY <1>4, <1>6 DEF NothingLostOrReordered

(* A FATAL line overtakes what waits.                                       *)
LEMMA FatalKeepsOrder ==
    ASSUME LogInv, NothingLostOrReordered, NEW l \in FatalLoggers, Fatal(l)
    PROVE  NothingLostOrReordered'
<1>1. UNCHANGED <<logged, strLine, m_listLinesToWrite>>
  BY DEF Fatal
<1>2. CASE console' = console
  BY <1>1, <1>2 DEF NothingLostOrReordered, AllLines, Ordered
<1>3. CASE console' = Append(console, FatalLine(l))
  <2> DEFINE f == FatalLine(l)
  <2>1. f \in FatalLines /\ f \in Logged
    BY DEF FatalLines, Logged
  <2> HIDE DEF f
  <2>2. AllLines' = (console' \o Hand) \o m_listLinesToWrite
    BY <1>1 DEF AllLines, Hand
  <2>3. console' = Append(console, f) /\ console' \in Seq(Logged)
    BY <1>3, <2>1, Parts DEF f
  <2>4. AllLines' = Append(console, f) \o Rest
    <3>1. (console' \o Hand) \o m_listLinesToWrite = console' \o Rest
      BY <2>3, Parts, InARow, Zenon DEF Rest
    <3> QED
      BY <2>2, <2>3, <3>1
  <2>5. Ordered(AllLines')
    BY <2>1, <2>4, Parts, FatalOrdered DEF NothingLostOrReordered
  <2>6. Range(AllLines') = Range(AllLines) \cup {f}
    <3>1. Range(Append(console, f)) = Range(console) \cup {f}
      BY <2>1, Parts, InARow, Zenon
    <3>2. Range(AllLines') = Range(Append(console, f)) \cup Range(Rest)
      BY <2>3, <2>4, Parts, InARow, Zenon
    <3>3. Range(AllLines) = Range(console) \cup Range(Rest)
      BY Parts, InARow, Zenon
    <3> QED
      BY <3>1, <3>2, <3>3
  <2> QED
    BY <1>1, <2>1, <2>5, <2>6 DEF NothingLostOrReordered
<1> QED
  BY <1>2, <1>3 DEF Fatal, OutputFatal, FatalFile, FatalClose, FatalOpen, FatalWrite, crash

(* From the list to the hand, from the hand to the console.                 *)
LEMMA WriterKeepsOrder ==
    ASSUME LogInv, NothingLostOrReordered, WriterStep
    PROVE  NothingLostOrReordered'
<1>1. SUFFICES AllLines' = AllLines /\ logged' = logged
  BY DEF NothingLostOrReordered, Ordered
<1>2. logged' = logged
  BY DEF WriterStep, Start, TestFile, CloseFile, OpenFile, Lock, TakeLine, TestExit, Wait, WriteLine
<1>3. CASE UNCHANGED <<console, strLine, m_listLinesToWrite>>
  BY <1>2, <1>3 DEF AllLines
<1>4. CASE TakeLine
  <2>1. /\ m_listLinesToWrite # <<>> /\ strLine' = Head(m_listLinesToWrite)
        /\ m_listLinesToWrite' = Tail(m_listLinesToWrite) /\ console' = console
    BY <1>4 DEF TakeLine
  <2>2. /\ m_listLinesToWrite \in Seq(Lines) /\ strLine = NoLine
        /\ Head(m_listLinesToWrite) \in Lines
    BY <1>4, <2>1 DEF TakeLine, LogInv, WriterInv, LinesInv
  <2>3. strLine' # NoLine
    BY <2>1, <2>2, LogAssumption
  <2>4. Hand = <<>> /\ Hand' = <<Head(m_listLinesToWrite)>>
    BY <2>1, <2>2, <2>3 DEF Hand
  <2>5. m_listLinesToWrite = <<Head(m_listLinesToWrite)>> \o Tail(m_listLinesToWrite)
    BY <2>1, <2>2
  <2>6. /\ Tail(m_listLinesToWrite) \in Seq(Logged)
        /\ <<Head(m_listLinesToWrite)>> \in Seq(Logged)
    BY <2>1, <2>2 DEF Logged
  <2>7. AllLines = console \o m_listLinesToWrite
    BY <2>4, Parts, ConcatEmptySeq
  <2>8. AllLines' = (console \o <<Head(m_listLinesToWrite)>>) \o Tail(m_listLinesToWrite)
    BY <2>1, <2>4 DEF AllLines, Hand
  <2>9. AllLines' = AllLines
    <3> DEFINE one == <<Head(m_listLinesToWrite)>>
               L == Tail(m_listLinesToWrite)
    <3> HIDE DEF one, L
    <3>1. one \in Seq(Logged) /\ L \in Seq(Logged)
      BY <2>6 DEF one, L
    <3>2. (console \o one) \o L = console \o (one \o L)
      <4>1. console \in Seq(Logged)
        BY Parts
      <4> QED
        BY <3>1, <4>1, InARow, Zenon
    <3> QED
      BY <2>5, <2>7, <2>8, <3>2, Zenon DEF one, L
  <2> QED
    BY <1>2, <2>9
<1>5. CASE WriteLine
  <2>1. /\ console' = Append(console, strLine) /\ strLine' = NoLine
        /\ m_listLinesToWrite' = m_listLinesToWrite /\ writerPc = "write"
    BY <1>5 DEF WriteLine
  <2>2. strLine \in Lines /\ strLine # NoLine
    BY <2>1 DEF LogInv, WriterInv, LinesInv
  <2>3. Hand = <<strLine>> /\ Hand' = <<>>
    BY <2>1, <2>2 DEF Hand
  <2>4. console' = console \o Hand
    BY <2>1, <2>2, <2>3, Parts, AppendIsConcat DEF Logged
  <2>5. AllLines' = ((console \o Hand) \o <<>>) \o m_listLinesToWrite
    BY <2>1, <2>3, <2>4 DEF AllLines, Hand
  <2>6. AllLines' = AllLines
    BY <2>5, Parts, ConcatEmptySeq
  <2> QED
    BY <1>2, <2>6
<1> QED
  BY <1>3, <1>4, <1>5
  DEF WriterStep, Start, TestFile, CloseFile, OpenFile, Lock, TestExit, Wait

(* Whoever outputs when, whatever becomes of the files, and while FATAL      *)
(* lines go past the list: a logger's lines come out once and in order.     *)
THEOREM OrderKept == Spec => []NothingLostOrReordered
<1>1. Init => NothingLostOrReordered
  <2> SUFFICES ASSUME Init PROVE NothingLostOrReordered
    OBVIOUS
  <2>1. AllLines = <<>> /\ logged = [l \in Loggers |-> 0]
    BY DEF Init, AllLines
  <2>2. Range(AllLines) = {} /\ Ordered(AllLines)
    BY <2>1 DEF Range, Ordered
  <2>3. {x \in Lines : x[2] <= logged[x[1]]} = {}
    BY <2>1, LogAssumption DEF Lines
  <2> QED
    BY <2>2, <2>3 DEF NothingLostOrReordered
<1>2. LogInv /\ NothingLostOrReordered /\ [Next]_vars => NothingLostOrReordered'
  <2> SUFFICES ASSUME LogInv, NothingLostOrReordered, [Next]_vars
               PROVE  NothingLostOrReordered'
    OBVIOUS
  <2>1. CASE uninit \/ UninitReturns \/ UseOfClosedFile \/ SpuriousWake \/ Tick \/ UNCHANGED vars
    <3>1. UNCHANGED <<logged, console, strLine, m_listLinesToWrite>>
      BY <2>1 DEF uninit, UninitReturns, SetExit, NotifyExit, Join, CloseLog, ClearLog,
                  UseOfClosedFile, SpuriousWake, Tick, vars
    <3> QED
      BY <3>1 DEF NothingLostOrReordered, AllLines, Ordered
  <2> QED
    BY <2>1, OutputOrdered, FatalKeepsOrder, WriterKeepsOrder DEF Next
<1> QED
  BY <1>1, <1>2, LogInvariance, PTL DEF Spec

-----------------------------------------------------------------------------
(* Rolling.                                                                 *)

Total(s) == Bytes(s)[Len(s)]

RollsInTime(s) == \A i \in DOMAIN s : s[i] \notin FatalLines => Bytes(s)[i - 1] < m_nFileRollSize

(* m_nCurrentWrittenSize counts at least the bytes of the open file, except *)
(* while the writer is about to close it, and leaves room for one more line *)
(* from the writer's test of the size to its write.                         *)
BoundInv ==
    /\ \A f \in FileNames : RollsInTime(files[f])
    /\ Usable /\ writerPc # "close" => Total(files[m_hLogFile]) <= m_nCurrentWrittenSize
    /\ toFile /\ writerPc \in {"close", "open", "lock", "test", "wait", "write"} =>
          m_nCurrentWrittenSize < m_nFileRollSize

LEMMA CountsSomething == \A x \in Logged : Counts(x) \in Nat
BY LogAssumption DEF Logged, Counts

(* Bytes adds up.                                                           *)
LEMMA BytesAddUp ==
    ASSUME NEW s \in Seq(Logged)
    PROVE  /\ Bytes(s)[0] = 0
           /\ \A i \in 1 .. Len(s) : Bytes(s)[i] = Bytes(s)[i - 1] + Counts(s[i])
           /\ \A i \in 0 .. Len(s) : Bytes(s)[i] \in Nat
<1> DEFINE n == Len(s)
           F == [i \in 1 .. n |-> [b \in Nat |-> b + Counts(s[i])]]
           E(g) == [i \in 0 .. n |-> IF i = 0 THEN 0 ELSE g[i - 1] + Counts(s[i])]
           sums == CHOOSE g : g = E(g)
<1>0. n \in Nat /\ \A i \in 1 .. n : Counts(s[i]) \in Nat
  BY CountsSomething
<1>1. F \in [1 .. n -> [Nat -> Nat]]
  BY <1>0
<1>2. \E g \in [0 .. n -> Nat] : Iterates(g, 0, n, F)
  <2> HIDE DEF F, n
  <2> QED
    BY <1>0, <1>1, IterationExists
<1>3. PICK g \in [0 .. n -> Nat] : g = [i \in 0 .. n |-> IF i = 0 THEN 0 ELSE F[i][g[i - 1]]]
  BY <1>2 DEF Iterates
<1>4. ASSUME NEW i \in 1 .. n
      PROVE  F[i][g[i - 1]] = g[i - 1] + Counts(s[i])
  <2>1. F[i] = [b \in Nat |-> b + Counts(s[i])]
    OBVIOUS
  <2>2. i - 1 \in 0 .. n
    BY <1>0
  <2>3. g[i - 1] \in Nat
    BY <2>2
  <2> QED
    BY <2>1, <2>3
<1>5. g = E(g)
  <2> HIDE DEF F, n
  <2> QED
    BY <1>0, <1>3, <1>4
<1>6. sums = E(sums)
  <2> HIDE DEF E
  <2> QED
    BY <1>5
<1>7. sums[0] = 0 /\ \A i \in 1 .. n : sums[i] = sums[i - 1] + Counts(s[i])
  <2> HIDE DEF sums, n
  <2> QED
    BY <1>0, <1>6
<1>8. \A i \in 0 .. n : sums[i] \in Nat
  <2> DEFINE S == {i \in 0 .. n : sums[i] \in Nat}
  <2> HIDE DEF sums, n
  <2>1. 0 \in S
    BY <1>0, <1>7
  <2>2. \A i \in 1 .. n : i - 1 \in S => i \in S
    BY <1>0, <1>7
  <2> HIDE DEF S
  <2>3. \A i \in 0 .. n : i \in S
    BY <1>0, <2>1, <2>2, IndicesReached
  <2> QED
    BY <2>3 DEF S
<1>9. Bytes(s) = sums
  BY DEF Bytes
<1> HIDE DEF sums
<1> QED
  BY <1>7, <1>8, <1>9

(* One more line leaves what the lines before it count for.                 *)
LEMMA BytesAppended ==
    ASSUME NEW s \in Seq(Logged), NEW x \in Logged
    PROVE  /\ Append(s, x) \in Seq(Logged)
           /\ \A i \in 0 .. Len(s) : Bytes(Append(s, x))[i] = Bytes(s)[i]
           /\ Total(Append(s, x)) = Total(s) + Counts(x)
           /\ Total(s) \in Nat
<1> DEFINE t == Append(s, x)
           n == Len(s)
           S == {i \in 0 .. n : Bytes(t)[i] = Bytes(s)[i]}
<1>1. /\ t \in Seq(Logged) /\ n \in Nat /\ Len(t) = n + 1 /\ t[n + 1] = x
      /\ \A i \in 1 .. n : t[i] = s[i]
  OBVIOUS
<1> HIDE DEF t
<1>2. /\ Bytes(s)[0] = 0 /\ Bytes(t)[0] = 0
      /\ \A i \in 1 .. n : Bytes(s)[i] = Bytes(s)[i - 1] + Counts(s[i])
      /\ \A i \in 1 .. n + 1 : Bytes(t)[i] = Bytes(t)[i - 1] + Counts(t[i])
      /\ \A i \in 0 .. n : Bytes(s)[i] \in Nat
  BY <1>1, BytesAddUp
<1> HIDE DEF n
<1>3. 0 \in S
  BY <1>1, <1>2
<1>4. ASSUME NEW i \in 1 .. n, i - 1 \in S
      PROVE  i \in S
  <2>1. i \in 1 .. n + 1
    BY <1>1
  <2> QED
    BY <1>1, <1>2, <1>4, <2>1
<1> HIDE DEF S
<1>5. \A i \in 0 .. n : i \in S
  BY <1>1, <1>3, <1>4, IndicesReached
<1>6. \A i \in 0 .. n : Bytes(t)[i] = Bytes(s)[i]
  BY <1>5 DEF S
<1>7. Bytes(t)[n + 1] = Bytes(s)[n] + Counts(x)
  <2>1. n + 1 \in 1 .. n + 1 /\ (n + 1) - 1 = n /\ n \in 0 .. n
    BY <1>1
  <2> QED
    BY <1>1, <1>2, <1>6, <2>1
<1>8. Bytes(s)[n] \in Nat
  BY <1>1, <1>2
<1> QED
  BY <1>1, <1>6, <1>7, <1>8 DEF Total, n, t

(* A line may be added below the roll size; a FATAL line always.            *)
LEMMA OneMoreLine ==
    ASSUME NEW s \in Seq(Logged), NEW x \in Logged, RollsInTime(s),
           x \in FatalLines \/ Total(s) < m_nFileRollSize
    PROVE  RollsInTime(Append(s, x))
<1> DEFINE t == Append(s, x)
           n == Len(s)
<1>1. /\ n \in Nat /\ DOMAIN s = 1 .. n /\ DOMAIN t = 1 .. (n + 1) /\ t[n + 1] = x
      /\ \A i \in 1 .. n : t[i] = s[i]
  OBVIOUS
<1>2. /\ \A i \in 0 .. n : Bytes(t)[i] = Bytes(s)[i]
      /\ Total(s) = Bytes(s)[n]
  BY BytesAppended DEF Total
<1> HIDE DEF t, n
<1>3. ASSUME NEW i \in 1 .. (n + 1), t[i] \notin FatalLines
      PROVE  Bytes(t)[i - 1] < m_nFileRollSize
  <2>1. CASE i = n + 1
    <3>1. i - 1 = n /\ n \in 0 .. n
      BY <1>1, <2>1
    <3> QED
      BY <1>1, <1>2, <1>3, <2>1, <3>1
  <2>2. CASE i \in 1 .. n
    <3>1. i - 1 \in 0 .. n
      BY <1>1, <2>2
    <3> QED
      BY <1>1, <1>2, <1>3, <2>2, <3>1 DEF RollsInTime
  <2> QED
    BY <1>1, <2>1, <2>2
<1> QED
  BY <1>1, <1>3 DEF RollsInTime, t

LEMMA EmptyFile == RollsInTime(<<>>) /\ Total(<<>>) = 0
<1>1. <<>> \in Seq(Logged) /\ Len(<<>>) = 0 /\ DOMAIN <<>> = {}
  OBVIOUS
<1>2. Bytes(<<>>)[0] = 0
  BY <1>1, BytesAddUp
<1> QED
  BY <1>1, <1>2 DEF RollsInTime, Total

(* Every file has its bytes.                                                *)
LEMMA FilesCounted ==
    ASSUME LogInv
    PROVE  /\ files \in [FileNames -> Seq(Logged)] /\ m_nCurrentWrittenSize \in Nat
           /\ now \in FileNames /\ m_hLogFile \in FileNames \cup {NoFile}
           /\ m_nFileRollSize \in Nat /\ m_nFileRollSize > 0
BY LogAssumption DEF LogInv, DiskInv, Logged

(* A file is opened, empty, or none is.                                     *)
LEMMA OpenedBounded ==
    ASSUME LogInv, BoundInv, NEW done \in BOOLEAN, Fopen(done),
           m_nCurrentWrittenSize' = m_nCurrentWrittenSize
    PROVE  /\ \A f \in FileNames : RollsInTime(files'[f])
           /\ Usable' => Total(files'[m_hLogFile']) <= m_nCurrentWrittenSize'
<1>1. CASE m_hLogFile' = now /\ files' = [files EXCEPT ![now] = <<>>]
  <2>1. /\ files'[now] = <<>>
        /\ \A f \in FileNames : f # now => files'[f] = files[f]
    BY <1>1, FilesCounted
  <2>2. 0 <= m_nCurrentWrittenSize
    BY FilesCounted
  <2> QED
    BY <1>1, <2>1, <2>2, EmptyFile DEF BoundInv
<1>2. CASE m_hLogFile' = NoFile /\ files' = files
  BY <1>2 DEF BoundInv, Usable
<1> QED
  BY <1>1, <1>2 DEF Fopen

(* A line is written to the open file.                                      *)
LEMMA WrittenCount ==
    ASSUME LogInv, BoundInv, Usable, NEW x \in Logged,
           x \in FatalLines \/ Total(files[m_hLogFile]) < m_nFileRollSize,
           files' = [files EXCEPT ![m_hLogFile] = Append(@, x)]
    PROVE  /\ \A f \in FileNames : RollsInTime(files'[f])
           /\ Total(files'[m_hLogFile]) = Total(files[m_hLogFile]) + Counts(x)
           /\ Total(files[m_hLogFile]) \in Nat
<1>1. m_hLogFile \in FileNames /\ files[m_hLogFile] \in Seq(Logged)
  BY FilesCounted DEF Usable
<1>2. /\ files'[m_hLogFile] = Append(files[m_hLogFile], x)
      /\ \A f \in FileNames : f # m_hLogFile => files'[f] = files[f]
  BY <1>1, FilesCounted
<1>3. RollsInTime(files'[m_hLogFile])
  BY <1>1, <1>2, OneMoreLine DEF BoundInv
<1> QED
  BY <1>1, <1>2, <1>3, BytesAppended DEF BoundInv

(* The size is tested before each write, and a new file starts with none.   *)
LEMMA WriterKeepsBound ==
    ASSUME LogInv, BoundInv, WriterStep
    PROVE  BoundInv'
<1>1. CASE Start \/ Lock \/ TakeLine \/ TestExit \/ Wait
  <2>1. /\ UNCHANGED <<toFile, files, m_hLogFile, closed, m_nCurrentWrittenSize>>
        /\ \/ writerPc \in {"lock", "test", "wait"}
           \/ writerPc' \notin {"close", "open", "lock", "test", "wait", "write"}
        /\ writerPc # "close"
    BY <1>1 DEF Start, Lock, TakeLine, TestExit, Wait, disk
  <2> QED
    BY <2>1 DEF BoundInv, Usable
<1>2. CASE TestFile
  <2>1. UNCHANGED <<toFile, files, m_hLogFile, closed>> /\ writerPc = "file"
    BY <1>2 DEF TestFile
  <2>2. CASE NeedsFile
    <3>1. m_nCurrentWrittenSize' = 0 /\ writerPc' = "close"
      BY <1>2, <2>2 DEF TestFile
    <3> QED
      BY <2>1, <3>1, FilesCounted DEF BoundInv
  <2>3. CASE ~NeedsFile
    <3>1. UNCHANGED m_nCurrentWrittenSize
      BY <1>2, <2>3 DEF TestFile
    <3>2. toFile => m_nCurrentWrittenSize < m_nFileRollSize
      BY <2>3, FilesCounted DEF NeedsFile
    <3> QED
      BY <2>1, <3>1, <3>2 DEF BoundInv, Usable
  <2> QED
    BY <2>2, <2>3
<1>3. CASE CloseFile
  <2>1. /\ UNCHANGED <<toFile, files, m_hLogFile, m_nCurrentWrittenSize>> /\ writerPc = "close"
        /\ ~Usable'
    BY <1>3 DEF CloseFile, Usable
  <2> QED
    BY <2>1 DEF BoundInv
<1>4. CASE OpenFile
  <2>1. PICK done \in BOOLEAN : Fopen(done)
    BY <1>4 DEF OpenFile
  <2>2. UNCHANGED <<toFile, m_nCurrentWrittenSize>> /\ writerPc = "open"
    BY <1>4 DEF OpenFile
  <2> QED
    BY <2>1, <2>2, OpenedBounded DEF BoundInv
<1>5. CASE WriteLine
  <2>1. /\ strLine \in Logged /\ strLine \notin FatalLines
        /\ writerPc = "write" /\ writerPc' \in {"file", "failed"}
        /\ UNCHANGED <<toFile, m_hLogFile, closed>>
        /\ Counts(strLine) = LengthOf[strLine] /\ LengthOf[strLine] \in Nat
    BY <1>5, LogAssumption DEF Counts, WriteLine, LogInv, WriterInv, LinesInv, Lines, Logged, FatalLines, FatalLine
  <2>2. CASE toFile /\ Usable /\ m_nCurrentWrittenSize' = m_nCurrentWrittenSize + LengthOf[strLine]
             /\ files' = [files EXCEPT ![m_hLogFile] = Append(@, strLine)]
    <3> DEFINE total == Total(files[m_hLogFile])
    <3>1. total <= m_nCurrentWrittenSize /\ m_nCurrentWrittenSize < m_nFileRollSize
      BY <2>1, <2>2 DEF BoundInv
    <3>2. total \in Nat
      <4>1. m_hLogFile \in FileNames /\ files[m_hLogFile] \in Seq(Logged)
        BY <2>2, FilesCounted DEF Usable
      <4> QED
        BY <2>1, <4>1, BytesAppended
    <3>3. total < m_nFileRollSize
      <4> HIDE DEF total
      <4> QED
        BY <3>1, <3>2, FilesCounted
    <3>4. /\ \A f \in FileNames : RollsInTime(files'[f])
          /\ Total(files'[m_hLogFile]) = total + LengthOf[strLine]
      BY <2>1, <2>2, <3>3, WrittenCount
    <3>5. total + LengthOf[strLine] <= m_nCurrentWrittenSize + LengthOf[strLine]
      <4> HIDE DEF total
      <4> QED
        BY <2>1, <3>1, <3>2, FilesCounted
    <3> HIDE DEF total
    <3> QED
      BY <2>1, <2>2, <3>4, <3>5 DEF BoundInv
  <2>3. CASE /\ files' = files
             /\ m_nCurrentWrittenSize' \in {m_nCurrentWrittenSize, m_nCurrentWrittenSize + LengthOf[strLine]}
    <3>1. m_nCurrentWrittenSize <= m_nCurrentWrittenSize + LengthOf[strLine]
      BY <2>1, FilesCounted
    <3>2. m_nCurrentWrittenSize <= m_nCurrentWrittenSize'
      BY <2>3, <3>1, FilesCounted
    <3>3. Usable' => Total(files'[m_hLogFile']) <= m_nCurrentWrittenSize'
      <4> SUFFICES ASSUME Usable PROVE Total(files[m_hLogFile]) <= m_nCurrentWrittenSize'
        BY <2>1, <2>3 DEF Usable
      <4>1. files[m_hLogFile] \in Seq(Logged) /\ Total(files[m_hLogFile]) \in Nat
        BY <2>1, FilesCounted, BytesAppended DEF Usable
      <4>2. Total(files[m_hLogFile]) <= m_nCurrentWrittenSize
        BY <2>1 DEF BoundInv
      <4>3. m_nCurrentWrittenSize' \in Nat
        BY <2>1, <2>3, FilesCounted
      <4> QED
        BY <3>2, <4>1, <4>2, <4>3, FilesCounted
    <3> QED
      BY <2>1, <2>3, <3>3 DEF BoundInv
  <2> QED
    BY <1>5, <2>2, <2>3 DEF WriteLine
<1> QED
  BY <1>1, <1>2, <1>3, <1>4, <1>5 DEF WriterStep

(* A FATAL line is not counted, and the file it may open is empty.          *)
LEMMA FatalKeepsBound ==
    ASSUME LogInv, BoundInv, NEW l \in FatalLoggers, Fatal(l)
    PROVE  BoundInv'
<1>1. writerPc' = writerPc
  BY DEF Fatal
<1>2. CASE OutputFatal(l) \/ FatalFile(l) \/ FatalClose(l) \/ crash(l)
  <2>1. UNCHANGED <<toFile, files, m_hLogFile, m_nCurrentWrittenSize>>
    BY <1>2 DEF OutputFatal, FatalFile, FatalClose, crash, disk
  <2>2. Usable' => Usable
    <3>1. CASE FatalClose(l)
      <4>1. m_hLogFile # NoFile => closed'
        BY <3>1 DEF FatalClose
      <4> QED
        BY <2>1, <4>1 DEF Usable
    <3>2. CASE OutputFatal(l) \/ FatalFile(l) \/ crash(l)
      BY <3>2 DEF OutputFatal, FatalFile, crash, disk, Usable
    <3> QED
      BY <1>2, <3>1, <3>2
  <2> QED
    BY <1>1, <2>1, <2>2 DEF BoundInv
<1>3. CASE FatalOpen(l)
  <2>1. PICK done \in BOOLEAN : Fopen(done)
    BY <1>3 DEF FatalOpen
  <2>2. UNCHANGED <<toFile, m_nCurrentWrittenSize>>
    BY <1>3 DEF FatalOpen
  <2> QED
    BY <1>1, <2>1, <2>2, OpenedBounded DEF BoundInv
<1>4. CASE FatalWrite(l)
  <2>1. UNCHANGED <<toFile, m_hLogFile, closed, m_nCurrentWrittenSize>>
    BY <1>4 DEF FatalWrite
  <2>2. CASE Usable /\ files' = [files EXCEPT ![m_hLogFile] = Append(@, FatalLine(l))]
    <3>1. FatalLine(l) \in FatalLines /\ FatalLine(l) \in Logged /\ Counts(FatalLine(l)) = 0
      BY DEF FatalLines, Logged, Counts
    <3>2. /\ \A f \in FileNames : RollsInTime(files'[f])
          /\ Total(files'[m_hLogFile]) = Total(files[m_hLogFile]) + 0
          /\ Total(files[m_hLogFile]) \in Nat
      BY <2>2, <3>1, WrittenCount
    <3> QED
      BY <1>1, <2>1, <2>2, <3>2 DEF BoundInv
  <2>3. CASE files' = files
    BY <1>1, <2>1, <2>3 DEF BoundInv, Usable
  <2> QED
    BY <1>4, <2>2, <2>3 DEF FatalWrite
<1> QED
  BY <1>2, <1>3, <1>4 DEF Fatal

(* Whatever opens or closes the file under the writer, for lines of any      *)
(* length: each counted line is added to a file below m_nFileRollSize, which *)
(* a file therefore exceeds by less than its last line.                      *)
THEOREM FilesRoll == Spec => []FilesBounded
<1>1. Init => BoundInv
  <2> SUFFICES ASSUME Init PROVE BoundInv
    OBVIOUS
  <2>1. \A f \in FileNames : files[f] = <<>>
    BY DEF Init
  <2>2. ~Usable /\ writerPc = "start"
    BY DEF Init, Usable
  <2> QED
    BY <2>1, <2>2, EmptyFile DEF BoundInv
<1>2. LogInv /\ BoundInv /\ [Next]_vars => BoundInv'
  <2> SUFFICES ASSUME LogInv, BoundInv, [Next]_vars
               PROVE  BoundInv'
    OBVIOUS
  <2>1. CASE \/ uninit \/ UninitReturns \/ UseOfClosedFile \/ SpuriousWake \/ Tick \/ UNCHANGED vars
             \/ \E l \in Loggers : Output(l)
    <3>1. UNCHANGED <<toFile, files, m_nCurrentWrittenSize, writerPc>>
      BY <2>1 DEF uninit, UninitReturns, SetExit, NotifyExit, Join, CloseLog, ClearLog,
                  UseOfClosedFile, SpuriousWake, Tick, vars, disk, Output, output
    <3>2. Usable' => Usable /\ m_hLogFile' = m_hLogFile
      <4>1. CASE CloseLog
        <5>1. m_hLogFile' = m_hLogFile /\ (m_hLogFile # NoFile => closed')
          BY <4>1 DEF CloseLog
        <5> QED
          BY <5>1 DEF Usable
      <4>2. CASE ClearLog
        BY <4>2 DEF ClearLog, Usable
      <4>3. CASE m_hLogFile' = m_hLogFile /\ closed' = closed
        BY <4>3 DEF Usable
      <4> QED
        BY <2>1, <4>1, <4>2, <4>3
        DEF uninit, UninitReturns, SetExit, NotifyExit, Join, UseOfClosedFile, SpuriousWake, Tick,
            vars, disk, Output, output
    <3> QED
      BY <3>1, <3>2 DEF BoundInv
  <2> QED
    BY <2>1, WriterKeepsBound, FatalKeepsBound DEF Next
<1>3. BoundInv => FilesBounded
  BY DEF BoundInv, RollsInTime, FilesBounded
<1> QED
  BY <1>1, <1>2, <1>3, LogInvariance, PTL DEF Spec
=============================================================================
