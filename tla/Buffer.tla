-------------------------------- MODULE Buffer --------------------------------
(***************************************************************************)
(* m::Buffer: bytes in memory with a current position, read from a file    *)
(* and written to one (src/src/mlib/misc.cpp).                             *)
(*                                                                         *)
(* Memory that realloc() has just added holds Junk.  The file is read one  *)
(* piece at a time, and another process may append to it in between.       *)
(***************************************************************************)
EXTENDS Integers, SequencesExt

CONSTANTS
  Byte,                   \* the bytes that are told apart
  IO_BUF_SIZE,            \* how much is read at once
  BUFFER_MAX_FILE_SIZE,   \* a buffer of this size reads no more
  MaxBytes,               \* bound: the largest buffer and file
  MaxCalls                \* bound: calls of the owner, and bytes others append

ASSUME SizesAreSizes ==
  IO_BUF_SIZE \in Nat \ {0} /\ BUFFER_MAX_FILE_SIZE \in Nat /\ MaxBytes \in Nat /\ MaxCalls \in Nat

Junk == "junk"

VARIABLES
  data,       \* the bytes from get_data(), get_size() of them
  position,   \* get_cur_ptr() - get_data()
  disk,       \* the bytes of the file
  loading,    \* the call of load_file(): its state, and what it found
  aborted,    \* MLIB_E was reached
  misplaced,  \* history: the position was set, or left, behind the end
  calls       \* bounded history: calls so far

bufferVars == <<data, position, disk, loading, aborted, misplaced, calls>>

NotLoading == [state |-> "none"]
Free == ~aborted /\ loading.state # "reading"
Call == Free /\ calls < MaxCalls /\ calls' = calls + 1

\* realloc() keeps what fits.
Resized(bytes, n) == [i \in 1..n |-> IF i <= Len(bytes) THEN bytes[i] ELSE Junk]
Reserved(bytes, at, n) == IF at + n > Len(bytes) THEN Resized(bytes, at + n) ELSE bytes

\* The bytes "some" at the position, without a change of the size.
Stored(bytes, at, some) ==
  [i \in DOMAIN bytes |-> IF i \in at + 1 .. at + Len(some) THEN some[i - at] ELSE bytes[i]]

BufferInit ==
  /\ data = <<>> /\ position = 0
  /\ disk \in BoundedSeq(Byte, MaxBytes)
  /\ loading = NotLoading
  /\ aborted = FALSE /\ misplaced = FALSE /\ calls = 0

\* The sum is unsigned: below zero it is as far behind the end as can be.
increase_pos(inc) ==
  /\ Call
  /\ IF position + inc \in 0 .. Len(data)
       THEN position' = position + inc /\ UNCHANGED aborted
       ELSE aborted' = TRUE /\ UNCHANGED position
  /\ loading' = NotLoading
  /\ UNCHANGED <<data, disk, misplaced>>

\* It is the old position that is checked.
set_pos(new_pos) ==
  /\ Call
  /\ IF position > Len(data)
       THEN aborted' = TRUE /\ UNCHANGED <<position, misplaced>>
       ELSE /\ position' = new_pos
            /\ misplaced' = (misplaced \/ new_pos > Len(data))
            /\ UNCHANGED aborted
  /\ loading' = NotLoading
  /\ UNCHANGED <<data, disk>>

reserve(n) ==
  /\ Call /\ position + n <= MaxBytes
  /\ data' = Reserved(data, position, n)
  /\ loading' = NotLoading
  /\ UNCHANGED <<position, disk, aborted, misplaced>>

\* The position stays where it is, also behind the new end.
resize(n) ==
  /\ Call
  /\ data' = Resized(data, n)
  /\ misplaced' = (misplaced \/ position > n)
  /\ loading' = NotLoading
  /\ UNCHANGED <<position, disk, aborted>>

\* operator=(): the size and the bytes of the other buffer, not its position.
Assign(other) ==
  /\ Call
  /\ data' = other
  /\ misplaced' = (misplaced \/ position > Len(other))
  /\ loading' = NotLoading
  /\ UNCHANGED <<position, disk, aborted>>

\* The owner stores a byte at get_cur_ptr(), where reserve() made room for it.
Store(b) ==
  /\ Call /\ position < Len(data)
  /\ data' = Stored(data, position, <<b>>)
  /\ loading' = NotLoading
  /\ UNCHANGED <<position, disk, aborted, misplaced>>

\* The whole buffer is written, with what is behind the position; a failure
\* leaves as much of it as there was room for.
write_file(n) ==
  /\ Call
  /\ n \in 0 .. Len(data)
  /\ disk' = SubSeq(data, 1, n)
  /\ loading' = NotLoading
  /\ UNCHANGED <<data, position, aborted, misplaced>>

\* load_file() opens the file; one that cannot be opened changes nothing.
load_file ==
  /\ Call
  /\ loading' = [state |-> "reading", start |-> position, got |-> 0, fresh |-> data = <<>>,
                 before |-> SubSeq(Resized(data, position), 1, position)]
  /\ UNCHANGED <<data, position, disk, aborted, misplaced>>

\* Fault in ReadPiece: the room for a piece is made at the end of the buffer,
\* which the pieces before left behind the position.
ReadPieceTooSoon ==
  /\ loading.state = "reading" /\ Len(data) < BUFFER_MAX_FILE_SIZE
  /\ LET n == Min({IO_BUF_SIZE, Len(disk) - loading.got})
         room == Reserved(data, Len(data), IO_BUF_SIZE)
     IN  /\ data' = Stored(room, Len(data), SubSeq(disk, loading.got + 1, loading.got + n))
         /\ position' = position + n
         /\ loading' = [loading EXCEPT !.got = @ + n,
                                       !.state = IF n < IO_BUF_SIZE THEN "loaded" ELSE @]
  /\ UNCHANGED <<disk, aborted, misplaced, calls>>

\* A turn of the loop: a piece is read behind the one before; less than a whole
\* one is the end of the file.
ReadPiece ==
  /\ loading.state = "reading" /\ Len(data) < BUFFER_MAX_FILE_SIZE
  /\ LET n == Min({IO_BUF_SIZE, Len(disk) - loading.got})
         room == Reserved(data, position, IO_BUF_SIZE)
     IN  /\ data' = Stored(room, position, SubSeq(disk, loading.got + 1, loading.got + n))
         /\ position' = position + n
         /\ loading' = [loading EXCEPT !.got = @ + n,
                                       !.state = IF n < IO_BUF_SIZE THEN "loaded" ELSE @]
  /\ UNCHANGED <<disk, aborted, misplaced, calls>>

\* EFBIG is thrown; what was read stays.
TooBig ==
  /\ loading.state = "reading" /\ Len(data) >= BUFFER_MAX_FILE_SIZE
  /\ loading' = [loading EXCEPT !.state = "too_big"]
  /\ UNCHANGED <<data, position, disk, aborted, misplaced, calls>>

ReadFails ==
  /\ loading.state = "reading" /\ Len(data) < BUFFER_MAX_FILE_SIZE
  /\ data' = Reserved(data, position, IO_BUF_SIZE)
  /\ loading' = [loading EXCEPT !.state = "failed"]
  /\ UNCHANGED <<position, disk, aborted, misplaced, calls>>

\* Another process appends to the file that is being read.
FileGrows(b) ==
  /\ loading.state = "reading" /\ calls < MaxCalls /\ Len(disk) < MaxBytes
  /\ disk' = Append(disk, b)
  /\ calls' = calls + 1
  /\ UNCHANGED <<data, position, loading, aborted, misplaced>>

BufferNext ==
  \/ \E inc \in -2 .. 2 : increase_pos(inc)
  \/ \E new_pos \in 0 .. MaxBytes : set_pos(new_pos)
  \/ \E n \in 0 .. MaxBytes : reserve(n) \/ resize(n) \/ write_file(n)
  \/ \E b \in Byte : Assign(<<b>>) \/ Store(b) \/ FileGrows(b)
  \/ load_file
  \/ ReadPiece \/ TooBig \/ ReadFails

BufferSpec == BufferInit /\ [][BufferNext]_bufferVars

-----------------------------------------------------------------------------
\* Whatever was in the buffer, and wherever its position is: load_file() keeps
\* the bytes before the position, puts behind them the bytes of the file in
\* order, all of them once the end is met, and leaves the position behind the
\* last, so that the bytes from the first one to get_cur_ptr() are known.  Into
\* a new buffer it loads every file below the limit, and refuses every file
\* that is longer than the limit by one piece.  The position gets behind the end
\* only when set_pos() is given such a place, or a size below it is set.
LoadedExactly ==
  /\ ~misplaced => position <= Len(data)
  /\ loading.state # "none" =>
       /\ position = loading.start + loading.got
       /\ SubSeq(Resized(data, position), 1, position) = loading.before \o SubSeq(disk, 1, loading.got)
       /\ loading.state = "loaded" => loading.got = Len(disk) /\ position <= Len(data)
       /\ loading.fresh /\ loading.start = 0 =>
            /\ loading.state = "too_big" => Len(disk) >= BUFFER_MAX_FILE_SIZE
            /\ loading.state = "loaded" => Len(disk) < BUFFER_MAX_FILE_SIZE + IO_BUF_SIZE
=============================================================================
