------------------------------ MODULE QueryLog ------------------------------
(* The resolver's query log (internal/services/dns.go and                       *)
(* dns_querylog_rotate.go): Unbound appends lines to a file, the tail goroutine *)
(* reads them into a ring buffer, the statistics goroutine rotates the file and *)
(* the DNS page clears it. A line is written in two parts, the second ending    *)
(* with the newline, so that a poll or a truncation can fall inside a line.     *)
EXTENDS Naturals, Integers, Sequences, SequencesExt

CONSTANTS
    LogBufSize,      \* bufSize, the entries the ring buffer holds
    LogLimit,        \* maxSize: the log is rotated above this many parts
    BlockedLines,         \* the lines that say REFUSED
    MaxLines,        \* bound: lines Unbound writes
    MaxLogUpsets,    \* bound: rotations, clears and reads of the file that fail
    MaxReadErrors    \* bound: of these, the reads that fail

ASSUME QueryLogAssumption ==
    LogBufSize \in Nat \ {0} /\ {LogLimit, MaxLines, MaxLogUpsets, MaxReadErrors} \subseteq Nat /\ BlockedLines \subseteq Nat

VARIABLES
    logFile,        \* the parts in the file: <<line, 1>> and <<line, 2>>
    lineCount,      \* lines Unbound has finished
    midLine,        \* it is between the two parts of the next one
    rotatedLog,        \* LogPath.1 exists
    logRotation,       \* where rotateQueryLog stands
    logTail,           \* the tail's offset (saved), the one of the poll under way, the parts it read ahead,
                       \* the lines it recorded and whether it started the file over
    queryBuf,       \* the ring buffer
    blockedCount,   \* stats.BlockedCount
    logClearing,       \* ClearQueryLog has reset the buffer and not yet the file
    truncations,
    recordedLines,       \* history: the lines recorded, and those since the last clear
    sinceClear,
    readErrors,
    failedPolls,    \* history: the lines recorded by polls that failed later on
    cutSincePoll,   \* history: the file was emptied since the last poll
    cutUnnoticed       \* history: a poll found an emptied file grown past its offset

logVars == <<logFile, lineCount, midLine, rotatedLog, logRotation, logTail, queryBuf, blockedCount, logClearing, truncations,
             recordedLines, sinceClear, readErrors, failedPolls, cutSincePoll, cutUnnoticed>>
logHistory == <<recordedLines, sinceClear>>
logErrors == <<readErrors, failedPolls>>
logFileVars == <<logFile, lineCount, midLine, rotatedLog, logRotation>>
logBuffer == <<queryBuf, blockedCount, logHistory>>

\* tailQueryLog between two polls.
TailAsleep(offset) ==
    [pc |-> "sleep", saved |-> offset, offset |-> offset, ahead |-> <<>>, polled |-> {}, restarted |-> FALSE]

QueryLogInit ==
    /\ logFile \in {<<>>, <<<<1, 1>>, <<1, 2>>>>} /\ lineCount = Len(logFile) \div 2 /\ midLine = FALSE
    /\ rotatedLog = FALSE /\ logRotation = "idle" /\ logClearing = FALSE /\ truncations = 0
    /\ logTail = TailAsleep(-1) /\ readErrors = 0 /\ failedPolls = {}
    /\ queryBuf = <<>> /\ blockedCount = 0
    /\ recordedLines = <<>> /\ sinceClear = <<>> /\ cutSincePoll = FALSE /\ cutUnnoticed = FALSE

\* Clears and rotations under way count already.
LogUpset ==
    truncations + readErrors + (IF logClearing THEN 1 ELSE 0) + (IF logRotation = "copied" THEN 1 ELSE 0) < MaxLogUpsets

LogWriteStart ==
    /\ lineCount < MaxLines /\ ~midLine /\ midLine' = TRUE
    /\ logFile' = Append(logFile, <<lineCount + 1, 1>>)
    /\ UNCHANGED <<lineCount, rotatedLog, logRotation, logTail, logBuffer, logClearing, truncations, logErrors, cutSincePoll, cutUnnoticed>>
\* The rest of the line, wherever the file now ends.
LogWriteEnd ==
    /\ midLine /\ midLine' = FALSE
    /\ logFile' = Append(logFile, <<lineCount + 1, 2>>) /\ lineCount' = lineCount + 1
    /\ UNCHANGED <<rotatedLog, logRotation, logTail, logBuffer, logClearing, truncations, logErrors, cutSincePoll, cutUnnoticed>>

-----------------------------------------------------------------------------
(* tailQueryLog polls readQueryLog.                                             *)

\* Variant: a file that shrank is not started over.
ReadFromNoReset(size) == IF logTail.offset < 0 THEN size ELSE logTail.offset
\* The position a poll reads from: the end at first, the start of a file that is shorter than the offset.
ReadFrom(size) == IF logTail.offset < 0 THEN size ELSE IF size < logTail.offset THEN 0 ELSE logTail.offset
TailPoll ==
    /\ logTail.pc = "sleep"
    /\ LET from == ReadFrom(Len(logFile))
       IN logTail' = IF logTail.offset < 0 THEN TailAsleep(from)
                     ELSE [logTail EXCEPT !.pc = "read", !.offset = from, !.restarted = from < logTail.offset]
    /\ cutUnnoticed' = (cutUnnoticed \/ (cutSincePoll /\ Len(logFile) >= logTail.offset)) /\ cutSincePoll' = FALSE
    /\ UNCHANGED <<logFileVars, logBuffer, logClearing, truncations, logErrors>>
LineEnd == SelectInSeq(logTail.ahead, LAMBDA part : part[2] = 2)
\* bufio reads ahead of the lines it hands out, and again when what it holds has no newline.
TailFill ==
    /\ logTail.pc = "read" /\ LineEnd = 0 /\ Len(logFile) > logTail.offset + Len(logTail.ahead)
    /\ logTail' = [logTail EXCEPT !.ahead = @ \o SubSeq(logFile, logTail.offset + Len(@) + 1, Len(logFile))]
    /\ UNCHANGED <<logFileVars, logBuffer, logClearing, truncations, logErrors, cutSincePoll, cutUnnoticed>>
\* The expression is not anchored: what ends in a whole line parses, a line that lost its beginning does not.
ParseQueryLogLine(line) == Len(line) > 1 /\ line[Len(line) - 1][1] = line[Len(line)][1]
RingPush(buf, line) == Append(IF Len(buf) >= LogBufSize THEN Tail(buf) ELSE buf, line)
RecordQuery ==
    /\ logTail.pc = "read" /\ LineEnd # 0
    /\ LET line == SubSeq(logTail.ahead, 1, LineEnd)
           id == line[LineEnd][1]
       IN IF ParseQueryLogLine(line)
          THEN /\ queryBuf' = RingPush(queryBuf, id)
               /\ blockedCount' = blockedCount + (IF id \in BlockedLines THEN 1 ELSE 0)
               /\ recordedLines' = Append(recordedLines, id) /\ sinceClear' = Append(sinceClear, id)
          ELSE UNCHANGED logBuffer
    /\ logTail' = [logTail EXCEPT !.offset = @ + LineEnd, !.ahead = SubSeq(@, LineEnd + 1, Len(@)),
                                  !.polled = @ \cup {logTail.ahead[LineEnd][1]}]
    /\ UNCHANGED <<logFileVars, logClearing, truncations, logErrors, cutSincePoll, cutUnnoticed>>
\* End of file: what is left has no newline and stays for the next poll.
TailEOF ==
    /\ logTail.pc = "read" /\ LineEnd = 0 /\ Len(logFile) <= logTail.offset + Len(logTail.ahead)
    /\ logTail' = TailAsleep(logTail.offset)
    /\ UNCHANGED <<logFileVars, logBuffer, logClearing, truncations, logErrors, cutSincePoll, cutUnnoticed>>
\* A read fails: the lines already handed out stay recorded, and tailQueryLog keeps the offset it had.
TailReadError ==
    /\ logTail.pc = "read" /\ LineEnd = 0 /\ LogUpset /\ readErrors < MaxReadErrors /\ readErrors' = readErrors + 1
    /\ logTail' = TailAsleep(logTail.saved) /\ failedPolls' = failedPolls \cup logTail.polled
    /\ cutSincePoll' = (cutSincePoll \/ logTail.restarted)
    /\ UNCHANGED <<logFileVars, logBuffer, logClearing, truncations, cutUnnoticed>>

-----------------------------------------------------------------------------
(* Emptying the file.                                                           *)

TruncateLog == logFile' = <<>> /\ truncations' = truncations + 1 /\ cutSincePoll' = TRUE
\* ClearQueryLog resets the buffer and the statistics under the lock, then truncates outside it.
ClearQueryLog ==
    /\ ~logClearing /\ LogUpset
    /\ queryBuf' = <<>> /\ blockedCount' = 0 /\ sinceClear' = <<>> /\ logClearing' = TRUE
    /\ UNCHANGED <<logFileVars, logTail, truncations, recordedLines, logErrors, cutSincePoll, cutUnnoticed>>
\* A truncation that fails is logged.
ClearTruncates ==
    /\ logClearing /\ logClearing' = FALSE
    /\ \/ TruncateLog
       \/ truncations' = truncations + 1 /\ UNCHANGED <<logFile, cutSincePoll>>
    /\ UNCHANGED <<lineCount, midLine, rotatedLog, logRotation, logTail, logBuffer, logErrors, cutUnnoticed>>
\* rotateQueryLog: an old generation expires; a log above the limit is copied and then emptied in place.
ExpireRotatedQueryLog ==
    /\ logRotation = "idle" /\ rotatedLog /\ rotatedLog' = FALSE
    /\ UNCHANGED <<logFile, lineCount, midLine, logRotation, logTail, logBuffer, logClearing, truncations, logErrors, cutSincePoll, cutUnnoticed>>
RotateQueryLog ==
    /\ logRotation = "idle" /\ LogUpset /\ Len(logFile) > LogLimit
    /\ rotatedLog' = TRUE /\ logRotation' = "copied"
    /\ UNCHANGED <<logFile, lineCount, midLine, logTail, logBuffer, logClearing, truncations, logErrors, cutSincePoll, cutUnnoticed>>
RotateEmpties ==
    /\ logRotation = "copied" /\ logRotation' = "idle"
    /\ TruncateLog
    /\ UNCHANGED <<lineCount, midLine, rotatedLog, logTail, logBuffer, logClearing, logErrors, cutUnnoticed>>
\* The agent refuses the write: the copy stays and the log grows on.
RotateFails ==
    /\ logRotation = "copied" /\ logRotation' = "idle" /\ truncations' = truncations + 1
    /\ UNCHANGED <<logFile, lineCount, midLine, rotatedLog, logTail, logBuffer, logClearing, logErrors, cutSincePoll, cutUnnoticed>>

\* readQueryLog after its checks, until the end of the file or a read that fails.
ReadQueryLog == TailFill \/ RecordQuery \/ TailEOF
TailQueryLog == TailPoll \/ ReadQueryLog
QueryLogNext ==
    \/ LogWriteStart \/ LogWriteEnd \/ TailQueryLog \/ TailReadError
    \/ ClearQueryLog \/ ClearTruncates \/ ExpireRotatedQueryLog \/ RotateQueryLog \/ RotateEmpties \/ RotateFails

\* The tail polls for as long as the server runs.
QueryLogFair == WF_logVars(TailQueryLog)
QueryLogSpec == QueryLogInit /\ [][QueryLogNext]_logVars /\ QueryLogFair

-----------------------------------------------------------------------------
LogTypeOK ==
    /\ Range(logFile) \subseteq (1..MaxLines) \X {1, 2} /\ lineCount \in 0..MaxLines
    /\ logRotation \in {"idle", "copied"} /\ logTail.pc \in {"sleep", "read"} /\ {logTail.offset, logTail.saved} \subseteq -1..2 * MaxLines
    /\ {readErrors, truncations} \subseteq 0..MaxLogUpsets
    /\ {midLine, rotatedLog, logClearing, cutSincePoll, cutUnnoticed} \subseteq BOOLEAN

\* Lines are recorded in the order Unbound wrote them and none twice, whatever was rotated or cleared in
\* between. Only a poll that fails after it recorded lines upsets this: a later one reads from its start again.
RecordedInOrder ==
    \A i, j \in 1..Len(recordedLines) :
        i < j /\ recordedLines[i] >= recordedLines[j] => {recordedLines[i], recordedLines[j]} \cap failedPolls # {}

\* Without a truncation no line is skipped, also where a failed poll is read again: the offset survives.
NothingSkipped == truncations = 0 => \A i \in 1..Len(recordedLines) - 1 : recordedLines[i + 1] <= recordedLines[i] + 1

\* The buffer holds the latest lines since the last clear, up to its size, and the counter is the number of
\* refused lines among those recorded since then.
BufferIsRecent ==
    /\ Len(queryBuf) <= LogBufSize /\ IsSuffix(queryBuf, sinceClear)
    /\ Len(queryBuf) < LogBufSize => queryBuf = sinceClear
    /\ blockedCount = Len(SelectSeq(sinceClear, LAMBDA id : id \in BlockedLines))

\* What the DNS page shows of the log, whatever is rotated or cleared while the tail reads: the three facts above.
QueryLogSound == RecordedInOrder /\ NothingSkipped /\ BufferIsRecent

\* The whole line is in the file, past the offset.
InLogAfter(id, offset) == \E i \in offset + 1..Len(logFile) - 1 : logFile[i] = <<id, 1>> /\ logFile[i + 1] = <<id, 2>>

\* A whole line written after the tail opened the file is recorded, unless the file is emptied before: also the
\* lines that follow a truncation, provided a poll saw the file shorter than it left it.
LinesReachBuffer == \A id \in 1..MaxLines :
    (logTail.offset >= 0 /\ InLogAfter(id, logTail.offset)) ~> (id \in Range(recordedLines) \/ ~InLogAfter(id, 0) \/ cutUnnoticed)

=============================================================================
