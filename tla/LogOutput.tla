------------------------------ MODULE LogOutput ------------------------------
(***************************************************************************)
(* The way of a log record to the log file, with outputOption              *)
(* OUTPUT_OPTION_TEXT_FILE: WriteToCache and ReadFromCache of              *)
(* hiview_cache.c on the ring buffer g_logCache; OutputLog2TextFile and    *)
(* FlushLog of hiview_output_log.c; WriteToFile, ProcFile and              *)
(* InitHiviewFile of hiview_file.c, and the file operations of             *)
(* hiview_util.c, each of which may fail.                                  *)
(*                                                                         *)
(* Memory and files are counted in cells: a record is its HiLogCommon (one *)
(* cell) and a cell for each value, and its line in a file has as many.  A *)
(* file begins with its header, one cell.  Any thread writes records under *)
(* the cache mutex.  The hiview service flushes when its timer says so,    *)
(* threads of applications call FlushLog(TRUE); whoever flushes holds      *)
(* g_logFlushInfo.mutex.  The mutex of the output file has no other taker: *)
(* the callers of HiLogFileProcImp and HiLogOutputFileLockImp are compiled *)
(* out (hiview_log.c), and so are the modes of ProcFile but RENAME.        *)
(*                                                                         *)
(* Assumed of the file system: lseek on an open file succeeds, the number  *)
(* of a descriptor that close gave up is not used again, and a header that *)
(* was not written whole is not recognised.                                *)
(***************************************************************************)
EXTENDS Integers, Sequences, FiniteSets

CONSTANTS
  Size,       \* size of the cache
  MaxValues,  \* LOG_MULTI_PARA_MAX
  FileMax,    \* header.size, in cells
  MaxRecords, MaxFaults, \* bounds: records, faults of the file system
  HDR, BAD,   \* cells of a file: its header, and what is neither header nor line
  NULL

\* A cell of a record, in the cache or in a file.
Cell == [record : Nat, part : Nat, valueNumber : Nat]

ASSUME LogOutputAssumption ==
  /\ Size \in Nat \ {0} /\ MaxValues \in Nat /\ FileMax \in Nat \ {0}
  /\ MaxRecords \in Nat /\ MaxFaults \in Nat
  /\ NULL \notin Seq(Cell \cup {HDR, BAD})

VARIABLES
  buffer, wCursor, usedSize, \* the cache
  rest,     \* cells a writer, holding the cache mutex, has yet to copy
  sizes,    \* history: the valueNumber of every record accepted
  flusher,  \* who holds g_logFlushInfo.mutex: "none", "service", "app"
  pc,       \* where the flusher is
  rCursor,  \* its rCursor
  content,  \* logContent: the cells of the record it is reading
  taken,    \* history: records read
  file,     \* the cells of the log file, NULL when there is no file
  fhandle,  \* "open", "closed" (-1) or "stale": a descriptor that was given up
  end,      \* header.wCursor
  out,      \* the cells of the output file, NULL when there is none
  written,  \* history: the cells WriteToFile reported as written
  mark,     \* history: the cells of file up to mark were not written behind
            \* each other since it was opened
  faults    \* history: the file operations that failed

cacheVars == <<buffer, wCursor, usedSize, rest, sizes>>
readVars == <<rCursor, content, taken>>
fileVars == <<file, fhandle, end, out, written, mark, faults>>
vars == <<cacheVars, flusher, pc, readVars, fileVars>>

\* The cells of record k, with n values.
Record(k, n) == [i \in 1 .. n + 1 |-> [record |-> k, part |-> i - 1, valueNumber |-> n]]

\* After InitLogOutput opened the log file, which was there before or not.
Init ==
  /\ buffer = [i \in 0 .. Size - 1 |-> NULL] /\ wCursor = 0 /\ usedSize = 0
  /\ rest = <<>> /\ sizes = <<>>
  /\ flusher = "none" /\ pc = "idle" /\ rCursor = 0 /\ content = <<>> /\ taken = 0
  /\ written \in {<<>>, Record(0, 0)} /\ file = <<HDR>> \o written
  /\ fhandle = "open" /\ end = Len(file) /\ mark = 1 /\ out = NULL /\ faults = <<>>

CacheFree == rest = <<>>  \* nobody holds the cache mutex across steps

-----------------------------------------------------------------------------
(* The cache *)

Put(cells, at) ==
  [i \in DOMAIN buffer |-> IF i \in at .. at + Len(cells) - 1 THEN cells[i - at + 1]
                           ELSE buffer[i]]

HasRoom(len) == len + usedSize <= Size

\* WriteToCache of a record with n values.  One that does not fit up to the
\* end of the buffer is copied and counted in two parts, the second of them
\* by WriteRest; usedSize, which the reader tests without the mutex, counts
\* the first part before.
WriteToCache(n) ==
  LET cells == Record(Len(sizes) + 1, n)
      first == IF wCursor + n + 1 > Size THEN Size - wCursor ELSE n + 1
      all == first = 0 \/ first = n + 1
  IN /\ CacheFree /\ Len(sizes) < MaxRecords /\ HasRoom(n + 1)
     /\ IF all
        THEN LET at == IF first = 0 THEN 0 ELSE wCursor
             IN /\ buffer' = Put(cells, at) /\ wCursor' = at + n + 1
                /\ usedSize' = usedSize + n + 1 /\ rest' = <<>>
        ELSE /\ buffer' = Put(SubSeq(cells, 1, first), wCursor)
             /\ wCursor' = 0 /\ usedSize' = usedSize + first
             /\ rest' = SubSeq(cells, first + 1, n + 1)
     /\ sizes' = Append(sizes, n)
     /\ UNCHANGED <<flusher, pc, readVars, fileVars>>

WriteRest ==
  /\ rest # <<>>
  /\ buffer' = Put(rest, wCursor) /\ wCursor' = wCursor + Len(rest)
  /\ usedSize' = usedSize + Len(rest) /\ rest' = <<>>
  /\ UNCHANGED <<sizes, flusher, pc, readVars, fileVars>>

\* The cells the flusher reads next: the head, then the values.
Want == IF content = <<>> THEN 1 ELSE content[1].valueNumber

\* ReadFromCache finds too little: after the head the record is given up, and
\* without a head the flush is over.
ReadTest ==
  /\ pc = "test"
  /\ IF usedSize >= Want THEN pc' = "cursor" /\ UNCHANGED content
     ELSE IF content # <<>> THEN pc' = "test" /\ content' = <<>>
     ELSE pc' = "done" /\ UNCHANGED content
  /\ UNCHANGED <<cacheVars, flusher, rCursor, taken, fileVars>>

GetReadCursor ==
  /\ pc = "cursor" /\ CacheFree
  /\ rCursor' = IF wCursor >= usedSize THEN wCursor - usedSize
                ELSE Size - (usedSize - wCursor)
  /\ pc' = "copy"
  /\ UNCHANGED <<cacheVars, flusher, content, taken, fileVars>>

\* Mutant: the end of the buffer is not seen.
ReadCopyEnd ==
  /\ pc = "copy"
  /\ content' = content \o [i \in 1 .. Want |->
       buffer[IF rCursor + i - 1 < Size THEN rCursor + i - 1 ELSE Size - 1]]
  /\ pc' = "count"
  /\ UNCHANGED <<cacheVars, flusher, rCursor, taken, fileVars>>

\* The cells from rCursor on, in two parts if they pass the buffer's end.
ReadCopy ==
  /\ pc = "copy"
  /\ content' = content \o [i \in 1 .. Want |-> buffer[(rCursor + i - 1) % Size]]
  /\ pc' = "count"
  /\ UNCHANGED <<cacheVars, flusher, rCursor, taken, fileVars>>

\* usedSize is lowered by what was read.  A cell that is no head makes
\* OutputLog2TextFile discard all data.
ReadCount ==
  LET n == IF Len(content) = 1 THEN 1 ELSE Len(content) - 1
      head == content[1]
  IN /\ pc = "count" /\ CacheFree
     /\ IF Len(content) = 1 /\ head.part # 0
        THEN usedSize' = 0 /\ wCursor' = 0 /\ pc' = "done" /\ UNCHANGED taken
        ELSE /\ usedSize' = usedSize - n
             /\ UNCHANGED wCursor
             /\ IF Len(content) <= head.valueNumber
                THEN pc' = "test" /\ UNCHANGED taken
                ELSE pc' = "write" /\ taken' = taken + 1
     /\ UNCHANGED <<buffer, rest, sizes, flusher, rCursor, content, fileVars>>

-----------------------------------------------------------------------------
(* The file *)

\* write(2) of cells at a position, which may be past the end of the file.
Overwrite(f, at, cells) ==
  IF cells = <<>> THEN f
  ELSE [i \in 1 .. (IF Len(f) > at + Len(cells) THEN Len(f) ELSE at + Len(cells)) |->
          IF i \in at + 1 .. at + Len(cells) THEN cells[i - at]
          ELSE IF i <= Len(f) THEN f[i] ELSE BAD]

\* Mutant: a file is not copied to one that exists.
FileCopyNew ==
  {[to |-> IF out = NULL THEN file ELSE out, faults |-> <<>>]}

\* HIVIEW_FileCopy(file, out): a file cannot be opened, or copying fails and
\* what was copied is unlinked, unless that fails, too.
HIVIEW_FileCopy ==
  {[to |-> file, faults |-> <<>>], [to |-> out, faults |-> <<"copy">>],
   [to |-> NULL, faults |-> <<"copy">>]}
  \cup {[to |-> SubSeq(file, 1, n), faults |-> <<"copy", "unlink">>] : n \in 0 .. Len(file)}

\* HIVIEW_FileMove(file, out) copies and then unlinks, whether the copy was
\* made or not.
HIVIEW_FileMove ==
  {[from |-> NULL, to |-> c.to, faults |-> c.faults] : c \in HIVIEW_FileCopy}
  \cup {[from |-> file, to |-> c.to, faults |-> Append(c.faults, "unlink")] :
           c \in HIVIEW_FileCopy}

\* What InitHiviewFile makes of the file f, opened: ReadFileHeader takes the
\* length of a file with a header as write cursor; ...
ReadFileHeader(f) ==
  {[file |-> f, end |-> Len(f), mark |-> IF Len(f) > end THEN Len(f) ELSE mark,
    faults |-> <<>>]}

\* ... a file without one, or whose header cannot be read, gets a new one, and
\* new lines will go over the old ones.  WriteFileHeader may fail.
WriteFileHeader(f) ==
  {[file |-> Overwrite(f, 0, <<HDR>>), end |-> 1, mark |-> 1, faults |-> <<>>],
   [file |-> f, end |-> 1, mark |-> 1, faults |-> <<"header">>],
   [file |-> Overwrite(f, 0, <<BAD>>), end |-> 1, mark |-> 1, faults |-> <<"header">>]}

\* Mutant: the write cursor is not read from the file that was opened.
InitHiviewFileKeepCursor(f) ==
  {[file |-> IF f = NULL THEN <<HDR>> ELSE f, fhandle |-> "open", end |-> end,
    mark |-> mark, faults |-> <<>>]}

\* InitHiviewFile: open creates the file, if it does not fail.  After a failed
\* WriteFileHeader the file is open.
InitHiviewFile(f) ==
  LET opened == IF f = NULL THEN <<>> ELSE f
      results == IF opened # <<>> /\ opened[1] = HDR
                 THEN ReadFileHeader(opened) \cup
                      {[r EXCEPT !.faults = <<"read">> \o @] : r \in WriteFileHeader(opened)}
                 ELSE WriteFileHeader(opened)
  IN {[file |-> r.file, fhandle |-> "open", end |-> r.end, mark |-> r.mark,
       faults |-> r.faults] : r \in results}
     \cup {[file |-> f, fhandle |-> "closed", end |-> end, mark |-> mark,
            faults |-> <<"open">>]}

Failed(kinds) == faults' = faults \o kinds /\ Len(faults') <= MaxFaults

\* ProcFile with HIVIEW_FILE_RENAME.
ProcFile ==
  \/ /\ fhandle = "open"
     /\ \E m \in HIVIEW_FileMove : \E r \in InitHiviewFile(m.from) :
          /\ Failed(m.faults \o r.faults)
          /\ out' = m.to /\ file' = r.file /\ fhandle' = r.fhandle
          /\ end' = r.end /\ mark' = r.mark
  \/ /\ fhandle = "open"    \* HIVIEW_FileClose fails
     /\ Failed(<<"close">>) /\ fhandle' \in {"open", "stale"}
     /\ UNCHANGED <<out, file, end, mark>>
  \/ /\ fhandle = "stale"
     /\ UNCHANGED <<out, file, fhandle, end, mark, faults>>

Overflow == fhandle # "closed" /\ end + Len(content) > FileMax

\* WriteToFile: a full file becomes the output file first, ...
Rotate ==
  /\ pc = "write" /\ Overflow
  /\ ProcFile
  /\ pc' = "append"
  /\ UNCHANGED <<cacheVars, flusher, readVars, written>>

\* Mutant: lines do not go into a file that was just opened.
WriteToFileNotNew ==
  /\ pc = "append" \/ (pc = "write" /\ ~ Overflow)
  /\ IF pc = "write" /\ fhandle = "open"
     THEN /\ file' = Overwrite(file, end, content) /\ end' = end + Len(content)
          /\ written' = written \o content
     ELSE UNCHANGED <<file, end, written>>
  /\ content' = <<>> /\ pc' = "test"
  /\ UNCHANGED <<cacheVars, flusher, rCursor, taken, fhandle, out, mark, faults>>

\* ... and the line goes where the write cursor is, if the file is open.  A
\* write that fails may leave a part of the line behind the write cursor.
WriteToFile ==
  /\ pc = "append" \/ (pc = "write" /\ ~ Overflow)
  /\ \/ /\ fhandle = "open"
        /\ file' = Overwrite(file, end, content) /\ end' = end + Len(content)
        /\ written' = written \o content
        /\ UNCHANGED faults
     \/ /\ fhandle = "open" /\ Failed(<<"write">>)
        /\ \E n \in 0 .. Len(content) - 1 :
             file' = Overwrite(file, end, SubSeq(content, 1, n))
        /\ UNCHANGED <<end, written>>
     \/ fhandle # "open" /\ UNCHANGED <<file, end, written, faults>>
  /\ content' = <<>> /\ pc' = "test"
  /\ UNCHANGED <<cacheVars, flusher, rCursor, taken, fhandle, out, mark>>

-----------------------------------------------------------------------------
(* Who flushes *)

\* OutputLog2TextFile, by the message of the timer or by FlushLog(TRUE).
Flush(who) ==
  /\ flusher = "none" /\ usedSize >= 1
  /\ flusher' = who /\ pc' = "test" /\ content' = <<>>
  /\ UNCHANGED <<cacheVars, rCursor, taken, fileVars>>

Unlock ==
  /\ pc = "done"
  /\ flusher' = "none" /\ pc' = "idle"
  /\ UNCHANGED <<cacheVars, readVars, fileVars>>

Flushing == ReadTest \/ GetReadCursor \/ ReadCopy \/ ReadCount \/ Rotate \/ WriteToFile
            \/ Unlock

Next == \/ \E n \in 0 .. MaxValues : WriteToCache(n)
        \/ WriteRest
        \/ \E who \in {"service", "app"} : Flush(who)
        \/ Flushing

Spec == Init /\ [][Next]_vars

\* Writers and flushers go on, though others take the cache mutex in between,
\* and the timer makes the service flush again and again.
FairSpec == Spec /\ WF_vars(WriteRest) /\ SF_vars(Flushing) /\ SF_vars(Flush("service"))

-----------------------------------------------------------------------------
(* Properties *)

\* The flusher reads whole records in the order they were accepted, though
\* writers go on beside it and it tests usedSize and copies cells without the
\* mutex: every head it reads is the head of the record after the last one,
\* and the values that follow are that record's.  So data is never discarded.
RecordsWhole ==
  \A i \in DOMAIN content :
    LET k == IF pc \in {"write", "append"} THEN taken ELSE taken + 1
    IN k \in DOMAIN sizes /\ content[i] = Record(k, sizes[k])[i]

\* Whether one of the operations was among those that failed.
Faulty(kinds) == \E i \in DOMAIN faults : faults[i] \in kinds

\* What WriteToFile wrote last is at the end of the log file up to the write
\* cursor, in order and without a gap, through rotations of which any part
\* fails.  The whole file is that, and nothing is behind the write cursor,
\* unless a line was written in part (the part may be taken for a line when
\* the file is opened again) or the header could not be read or written (the
\* lines are then written over).
FileIsSuffix ==
  fhandle = "open" =>
    /\ mark <= end /\ end - mark <= Len(written) /\ (mark < end => end <= Len(file))
    /\ \A i \in 0 .. end - mark - 1 : file[end - i] = written[Len(written) - i]
    /\ ~ Faulty({"write", "read", "header"}) => mark = 1 /\ end = Len(file)

\* The lines of a file.
Lines(f) == IF f = NULL THEN <<>> ELSE SubSeq(f, 2, Len(f))

IsSuffix(s, t) == Len(s) <= Len(t) /\ s = SubSeq(t, Len(t) - Len(s) + 1, Len(t))

\* The output file continues in the log file: rotations lose nothing between
\* the two and put nothing into both, also when the old file cannot be closed
\* or the new one not be opened or given its header.
OutputContinues ==
  ~ Faulty({"copy", "unlink", "read", "write"}) =>
    IsSuffix(Lines(out) \o Lines(file), written)

\* Every record that was accepted is read and written to the log file in the
\* end, unless a file could not be closed, opened or written.
Drained ==
  \A k \in 1 .. MaxRecords :
    (Len(sizes) >= k) ~>
      /\ taken >= k
      /\ (\E i \in DOMAIN written : written[i].record = k) \/ Faulty({"close", "open", "write"})
=============================================================================
