------------------------------- MODULE WindowLog ------------------------------
(***************************************************************************)
(* The window serializer (arrow_serializer.rs) behind the window builder:  *)
(* write_batch appends the windows that were given out to a file, one line *)
(* each, and read_windows reads the file back.                             *)
(*                                                                         *)
(* write_batch opens the file for appending and writes through a           *)
(* BufWriter, which hands any part of what it holds to the file before the *)
(* flush.  A write or the flush may fail: write_batch then returns an      *)
(* error, what has reached the file stays there, and the caller drops the  *)
(* batch or writes it again.  Or the process crashes and is started anew,  *)
(* which also loses the open windows.  Either may leave a line torn.       *)
(*                                                                         *)
(* The builder belongs to the thread that writes its windows (both are     *)
(* plain values without a lock), so events arrive between the batches.     *)
(*                                                                         *)
(* A line is cut into three pieces: the first part of the window's JSON,   *)
(* the rest of it, and the newline.  Windows are named by their position   *)
(* in windows.                                                             *)
(***************************************************************************)
EXTENDS WindowBuilder

CONSTANT MaxFaults   \* bound: failed batches and crashes

ASSUME LogAssumption == MaxFaults \in Nat

VARIABLES file,      \* the pieces in the output file
          buffered,  \* the pieces the BufWriter still holds
          batch,     \* the windows of the batch that is being written
          written,   \* how many of them write_all was called for
          taken,     \* windows that were handed to write_batch or lost
          acked,     \* history: the windows of the batches that returned Ok
          exposed,   \* history: first windows of batches begun on a torn end
          attempts,  \* history: how often each window was in a batch
          faults,
          crashedAt  \* history: events that had arrived at the last crash

logVars == <<file, buffered, batch, written, taken, acked, exposed, attempts, faults,
             crashedAt>>

Newline == <<0, "newline">>

\* The pieces of one window.  The mutant forgets the newline.
LineOf_Mut(w) == <<<<w, "start">>, <<w, "rest">>>>
LineOf(w) == <<<<w, "start">>, <<w, "rest">>, Newline>>

\* The file as opened: append(true).  The mutant truncates it.
Opened_Mut == <<>>
Opened == file

LogInit ==
  /\ Init
  /\ file = <<>> /\ buffered = <<>> /\ batch = <<>> /\ written = 0
  /\ taken = 0 /\ acked = {} /\ exposed = {} /\ attempts = <<>> /\ faults = 0
  /\ crashedAt = 0

AtLineStart == file = <<>> \/ Last(file) = Newline

\* write_batch is called with the windows given out since the last call.
WriteBegin ==
  /\ batch = <<>> /\ taken < Len(windows)
  /\ batch' = [i \in 1 .. Len(windows) - taken |-> taken + i]
  /\ written' = 0 /\ taken' = Len(windows)
  /\ file' = Opened
  /\ exposed' = IF AtLineStart THEN exposed ELSE exposed \cup {taken + 1}
  /\ attempts' = [w \in 1 .. Len(windows) |->
                    IF w > taken THEN IF w \in DOMAIN attempts THEN attempts[w] + 1 ELSE 1
                    ELSE IF w \in DOMAIN attempts THEN attempts[w] ELSE 0]
  /\ UNCHANGED <<buffered, acked, faults, crashedAt, vars>>

\* The two calls of write_all for the next window.
WriteWindow ==
  /\ written < Len(batch)
  /\ buffered' = buffered \o LineOf(batch[written + 1])
  /\ written' = written + 1
  /\ UNCHANGED <<file, batch, taken, acked, exposed, attempts, faults, crashedAt, vars>>

\* The BufWriter hands a piece to the file.
Spill ==
  /\ buffered # <<>>
  /\ file' = Append(file, Head(buffered)) /\ buffered' = Tail(buffered)
  /\ UNCHANGED <<batch, written, taken, acked, exposed, attempts, faults, crashedAt, vars>>

\* flush succeeds and write_batch returns the count.
FlushOk ==
  /\ batch # <<>> /\ written = Len(batch)
  /\ file' = file \o buffered /\ buffered' = <<>>
  /\ acked' = acked \cup ToSet(batch)
  /\ batch' = <<>> /\ written' = 0
  /\ UNCHANGED <<taken, exposed, attempts, faults, crashedAt, vars>>

EndBatch == buffered' = <<>> /\ batch' = <<>> /\ written' = 0

\* A write or the flush fails.  The caller gives the batch up or keeps it for
\* another call.
WriteFails ==
  /\ batch # <<>> /\ faults < MaxFaults
  /\ EndBatch
  /\ taken' \in {taken, batch[1] - 1}
  /\ faults' = faults + 1
  /\ UNCHANGED <<file, acked, exposed, attempts, crashedAt, vars>>

\* The process ends at any moment and starts again: open windows, windows not
\* yet handed over and the BufWriter's content are gone.
Crash ==
  /\ faults < MaxFaults
  /\ EndBatch
  /\ pending' = <<>> /\ taken' = Len(windows)
  /\ faults' = faults + 1 /\ crashedAt' = Len(ingested)
  /\ UNCHANGED <<file, acked, exposed, attempts, windows, ingested>>

LogNext ==
  \/ batch = <<>> /\ Next /\ UNCHANGED logVars
  \/ WriteBegin \/ WriteWindow \/ Spill \/ FlushOk \/ WriteFails \/ Crash

LogSpec == LogInit /\ [][LogNext]_<<vars, logVars>>

-------------------------------------------------------------------------------
(* read_windows *)

\* content.lines(): a newline begins the next line, any other piece adds to the
\* last one.
NextPiece(lines, piece) ==
  IF piece = Newline THEN Append(lines, <<>>)
  ELSE [lines EXCEPT ![Len(lines)] = Append(@, piece)]

Lines(pieces) == FoldLeft(NextPiece, <<<<>>>>, pieces)

\* A line that serde_json takes for a window.
Parses(line) == Len(line) = 2 /\ line = SubSeq(LineOf(line[1][1]), 1, 2)

\* Blank lines are skipped, and one line that does not parse fails the whole call.
ReadOk(lines) == \A n \in 1 .. Len(lines) : lines[n] = <<>> \/ Parses(lines[n])

\* Otherwise every line that is not blank adds its window.
NextLine(read, line) == IF Parses(line) THEN Append(read, line[1][1]) ELSE read

read_windows(lines) == FoldLeft(NextLine, <<>>, lines)

-------------------------------------------------------------------------------
(* Properties *)

\* An event is lost only because its window was full or because the process
\* crashed after it arrived: no order of late events, finalizations and drains
\* loses another one.
LossExplained == \A n \in crashedAt + 1 .. Len(ingested) : KeptOrFull(n)

\* As long as no write failed, reading gives back the windows of every batch
\* that returned Ok, in the order they were given out.  After faults it gives
\* back all of them, if it gives back anything: what is torn makes the call fail
\* and never goes unnoticed.
ReadsBack ==
  LET lines == Lines(file)
      read == read_windows(lines)
  IN  /\ ReadOk(lines) => acked \subseteq ToSet(read)
      /\ faults = 0 /\ batch = <<>> =>
           ReadOk(lines) /\ read = [w \in 1 .. Cardinality(acked) |-> w]

\* A fault damages at most one line, and of the batches that returned Ok only a
\* first window that was appended to a torn line is not on a line of its own.
\* No window is in the file more often than it was tried to write it.
DamageContained ==
  LET lines == Lines(file)
      read == read_windows(lines)
      bad == {n \in 1 .. Len(lines) : lines[n] # <<>> /\ ~Parses(lines[n])}
      copies(w) == Cardinality({n \in 1 .. Len(read) : read[n] = w})
  IN  /\ Cardinality(bad) <= faults + (IF batch = <<>> THEN 0 ELSE 1)
      /\ acked \ ToSet(read) \subseteq exposed
      /\ \A w \in ToSet(read) : copies(w) <= attempts[w]
===============================================================================
