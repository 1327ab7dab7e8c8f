------------------------------ MODULE PageCopy ------------------------------
(***************************************************************************)
(* page-cache/src/upage.c: how uwrite and uread cut a call of any length   *)
(* into copies between the caller's buffer and pages.  PageCache has what  *)
(* becomes of the pages; here a copy is one of at most a page, and what    *)
(* counts is where it lies in the buffer and how long it is.               *)
(***************************************************************************)
EXTENDS Integers, Sequences

CONSTANTS
  PAGE_SIZE,
  CACHE_SIZE,   \* longer calls go past the cache
  MaxLen,       \* bound: bytes of a call
  MaxPage       \* bound: first page of a call

ASSUME PageCopyAssumption ==
  /\ PAGE_SIZE \in Nat \ {0}
  /\ CACHE_SIZE \in Nat \ {0}
  /\ MaxLen \in Nat /\ MaxPage \in Nat

VARIABLES
  pc,
  call,           \* op: uwrite or uread; size, count and stream->io_offset
  request_byte,   \* uread: bytes asked for, and when going past the cache what is left
  buffer_offset,  \* data_offset in uwrite
  index, copy_len, isFirstPage,
  copies,         \* history: the copies the call has made
  result          \* what the call has returned

vars == <<pc, call, request_byte, buffer_offset, index, copy_len, isFirstPage, copies, result>>

DATA_LEN == call.size * call.count

pages(len) == (len + PAGE_SIZE - 1) \div PAGE_SIZE

least(m, n) == IF m <= n THEN m ELSE n

Calls(op) ==
  {c \in [op : {op}, size : 1..PAGE_SIZE, count : 1..MaxLen, io_offset : 0..(MaxPage * PAGE_SIZE)] :
     c.size * c.count <= MaxLen}

\* A copy of len bytes at the place in the buffer, from or to the start of a
\* page: the offset of the stream within its page is not looked at.
copy(len) ==
  /\ copies' = Append(copies, [page |-> index, at |-> buffer_offset, len |-> len])
  /\ index' = index + 1

Init ==
  /\ pc = "idle"
  /\ call = [op |-> "read", size |-> 1, count |-> 0, io_offset |-> 0]
  /\ request_byte = 0 /\ buffer_offset = 0
  /\ index = 0 /\ copy_len = 0 /\ isFirstPage = FALSE
  /\ copies = <<>>
  /\ result = 0

\* Whether the whole call fits into the cache.
path(op, len) ==
  IF pages(len) > CACHE_SIZE THEN [read |-> "direct_read", write |-> "direct_write"][op] ELSE op

\* isFirstPage is not initialised in uread.
begin(op) ==
  /\ pc = "idle"
  /\ call' \in Calls(op)
  /\ request_byte' = call'.size * call'.count
  /\ pc' = path(op, request_byte')
  /\ buffer_offset' = 0
  /\ index' = call'.io_offset \div PAGE_SIZE
  /\ copy_len' = 0
  /\ isFirstPage' \in BOOLEAN
  /\ copies' = <<>>
  /\ result' = 0

uwrite == begin("write")

uread == begin("read")

\* A defect: a whole page is always copied.
write_len_page == PAGE_SIZE

\* The bytes written this time.
write_len == least(DATA_LEN - buffer_offset, PAGE_SIZE)

write_page ==
  /\ pc = "write"
  /\ copy(write_len)
  /\ buffer_offset' = buffer_offset + write_len
  /\ pc' = IF DATA_LEN - buffer_offset <= PAGE_SIZE THEN "return" ELSE "write"
  /\ UNCHANGED <<call, request_byte, copy_len, isFirstPage, result>>

\* Every page but the last; the first copy is made before the loop.
direct_write_page ==
  /\ pc = "direct_write"
  /\ buffer_offset = 0 \/ DATA_LEN - buffer_offset > PAGE_SIZE
  /\ copy(PAGE_SIZE)
  /\ buffer_offset' = buffer_offset + PAGE_SIZE
  /\ UNCHANGED <<pc, call, request_byte, copy_len, isFirstPage, result>>

\* data_offset is not advanced.
direct_write_last ==
  /\ pc = "direct_write"
  /\ buffer_offset # 0 /\ DATA_LEN - buffer_offset <= PAGE_SIZE
  /\ copy(DATA_LEN - buffer_offset)
  /\ pc' = "return"
  /\ UNCHANGED <<call, request_byte, buffer_offset, copy_len, isFirstPage, result>>

-----------------------------------------------------------------------------
\* A defect: the end of the request is not looked at.
read_len_page == IF isFirstPage THEN least(request_byte, PAGE_SIZE) ELSE PAGE_SIZE

\* A defect: a copy is not kept within a page.
read_len_rest == IF isFirstPage THEN least(request_byte, PAGE_SIZE) ELSE request_byte - copy_len

\* The length of the last copy, not of what has been copied, is taken off.
read_len ==
  IF isFirstPage THEN least(request_byte, PAGE_SIZE)
  ELSE least(request_byte - copy_len, PAGE_SIZE)

read_page ==
  /\ pc = "read"
  /\ request_byte > buffer_offset
  /\ isFirstPage' = FALSE
  /\ copy_len' = read_len
  /\ copy(copy_len')
  /\ buffer_offset' = buffer_offset + copy_len'
  /\ UNCHANGED <<pc, call, request_byte, result>>

read_ends ==
  /\ pc = "read"
  /\ request_byte <= buffer_offset
  /\ pc' = "return"
  /\ UNCHANGED <<call, request_byte, buffer_offset, index, copy_len, isFirstPage, copies, result>>

\* request_byte counts down here; its remainder is the last copy.
direct_read_page ==
  /\ pc = "direct_read"
  /\ request_byte # 0
  /\ LET len == least(request_byte, PAGE_SIZE) IN
       /\ copy(len)
       /\ buffer_offset' = buffer_offset + len
       /\ request_byte' = request_byte - len
  /\ UNCHANGED <<pc, call, copy_len, isFirstPage, result>>

direct_read_ends ==
  /\ pc = "direct_read"
  /\ request_byte = 0
  /\ pc' = "return"
  /\ UNCHANGED <<call, request_byte, buffer_offset, index, copy_len, isFirstPage, copies, result>>

return ==
  /\ pc = "return"
  /\ pc' = "idle"
  /\ result' = buffer_offset \div call.size
  /\ UNCHANGED <<call, request_byte, buffer_offset, index, copy_len, isFirstPage, copies>>

Next ==
  \/ uwrite \/ write_page \/ direct_write_page \/ direct_write_last
  \/ uread \/ read_page \/ read_ends \/ direct_read_page \/ direct_read_ends
  \/ return

Spec == Init /\ [][Next]_vars

-----------------------------------------------------------------------------
(* Properties. *)

\* A read through the cache of more than two pages that does not end with a
\* page: the last copy is not cut off.
overruns == path(call.op, DATA_LEN) = "read" /\ DATA_LEN > 2 * PAGE_SIZE /\ DATA_LEN % PAGE_SIZE # 0

skips_last == path(call.op, DATA_LEN) = "direct_write"

\* A copy never leaves its page, and the buffer is overrun by less than a page.
TypeOK ==
  /\ pc \in {"idle", "write", "direct_write", "read", "direct_read", "return"}
  /\ call \in [op : {"read", "write"}, size : 1..PAGE_SIZE, count : 0..MaxLen,
               io_offset : 0..(MaxPage * PAGE_SIZE)]
  /\ request_byte \in 0..MaxLen
  /\ buffer_offset \in 0..(MaxLen + PAGE_SIZE - 1)
  /\ index \in 0..(MaxPage + pages(MaxLen))
  /\ copy_len \in 0..PAGE_SIZE
  /\ isFirstPage \in BOOLEAN
  /\ copies \in Seq([page : 0..(MaxPage + pages(MaxLen)), at : 0..MaxLen, len : 1..PAGE_SIZE])
  /\ result \in 0..(MaxLen + PAGE_SIZE - 1)

\* The bytes of the buffer and of the file from the page of the offset on meet
\* one to one and in order, in calls of either kind, of any length and element
\* size, whatever isFirstPage happens to be; and when the call has returned all
\* of them have been copied, and no other but by the overrun of uread.
BytesInPlace ==
  LET n == Len(copies)
      end == IF overruns THEN pages(DATA_LEN) * PAGE_SIZE ELSE DATA_LEN IN
  /\ \A i \in 1..n : /\ copies[i].page = call.io_offset \div PAGE_SIZE + i - 1
                     /\ copies[i].at = (i - 1) * PAGE_SIZE
                     /\ copies[i].at + copies[i].len = least(i * PAGE_SIZE, end)
  /\ pc \in {"idle", "return"} => n = pages(DATA_LEN)

\* The number of elements returned is the number asked for, but for the two
\* kinds of call that miscount.
ResultIsCount ==
  pc = "idle" /\ ~overruns /\ ~skips_last => result = call.count

-----------------------------------------------------------------------------
(* What the documentation says and the code does not do. *)

\* "The total number of elements successfully written" (upage.h:158), and read:
\* every call has moved all of them by then (BytesInPlace).
ReturnsElements == pc = "idle" => result = call.count

=============================================================================
