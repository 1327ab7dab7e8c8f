---------------------------- MODULE PageCopyProofs ----------------------------
(***************************************************************************)
(* Proofs about how uwrite and uread cut a call into pages (upage.c), for  *)
(* every page size, cache size, element size and length of call.           *)
(***************************************************************************)
EXTENDS PageCopy, SequenceTheorems, TLAPS

-----------------------------------------------------------------------------
(* Arithmetic. *)

LEMMA SizeIsPositive == PAGE_SIZE \in Nat /\ PAGE_SIZE > 0
BY PageCopyAssumption

\* What the division of the code gives.
LEMMA Quotient ==
  ASSUME NEW a \in Nat, NEW b \in Nat, b > 0
  PROVE  /\ a \div b \in Nat
         /\ (a \div b) * b <= a /\ a < (a \div b) * b + b
OBVIOUS

LEMMA TimesGrows ==
  ASSUME NEW a \in Nat, NEW b \in Nat, a <= b, NEW c \in Nat
  PROVE  a * c <= b * c
<1>1. (b - a) * c >= 0
  OBVIOUS
<1> QED
  BY <1>1

LEMMA NextPage ==
  ASSUME NEW n \in Nat
  PROVE  n * PAGE_SIZE \in Nat /\ (n + 1) * PAGE_SIZE = n * PAGE_SIZE + PAGE_SIZE
BY SizeIsPositive

\* pages(len) pages, and no fewer, hold len bytes.
LEMMA PagesHold ==
  ASSUME NEW len \in Nat
  PROVE  /\ pages(len) \in Nat
         /\ len <= pages(len) * PAGE_SIZE /\ pages(len) * PAGE_SIZE < len + PAGE_SIZE
         /\ \A n \in Nat : n < pages(len) <=> n * PAGE_SIZE < len
<1> DEFINE m == pages(len)
<1>0. PAGE_SIZE \in Nat /\ PAGE_SIZE > 0
  BY SizeIsPositive
<1>1. /\ m \in Nat
      /\ m * PAGE_SIZE <= len + PAGE_SIZE - 1 /\ len + PAGE_SIZE - 1 < m * PAGE_SIZE + PAGE_SIZE
  <2>1. len + PAGE_SIZE - 1 \in Nat
    BY <1>0
  <2> QED
    BY <1>0, <2>1, Quotient DEF pages
<1> HIDE DEF m
<1>2. ASSUME NEW n \in Nat, n < m PROVE n * PAGE_SIZE < len
  <2>1. (n + 1) * PAGE_SIZE <= m * PAGE_SIZE
    BY <1>0, <1>1, <1>2, TimesGrows
  <2> QED
    BY <1>0, <1>1, <2>1, NextPage
<1>3. ASSUME NEW n \in Nat, ~(n < m) PROVE ~(n * PAGE_SIZE < len)
  <2>1. m * PAGE_SIZE <= n * PAGE_SIZE
    BY <1>0, <1>1, <1>3, TimesGrows
  <2>2. m * PAGE_SIZE \in Nat /\ n * PAGE_SIZE \in Nat
    BY <1>1, NextPage
  <2> QED
    BY <1>0, <1>1, <2>1, <2>2
<1>4. m * PAGE_SIZE \in Nat
  BY <1>1, NextPage
<1> QED
  BY <1>0, <1>1, <1>2, <1>3, <1>4 DEF m

-----------------------------------------------------------------------------
(* The invariant. *)

made == Len(copies)

first_page == call.io_offset \div PAGE_SIZE

\* Where the call's last copy ends in the buffer.
last_byte == IF overruns THEN pages(DATA_LEN) * PAGE_SIZE ELSE DATA_LEN

Copy == [page : 0..(MaxPage + pages(MaxLen)), at : 0..MaxLen, len : 1..PAGE_SIZE]

CallInv ==
  /\ call \in [op : {"read", "write"}, size : 1..PAGE_SIZE, count : 0..MaxLen,
               io_offset : 0..(MaxPage * PAGE_SIZE)]
  /\ DATA_LEN \in 0..MaxLen
  /\ pc # "idle" => DATA_LEN > 0
  /\ pc \notin {"idle", "return"} => pc = path(call.op, DATA_LEN)
  /\ pc \in {"idle", "write", "direct_write", "read", "direct_read", "return"}
  /\ isFirstPage \in BOOLEAN

CopiesInv ==
  /\ copies \in Seq(Copy)
  /\ index = first_page + made
  /\ made <= pages(DATA_LEN)
  /\ \A i \in 1..made : /\ copies[i].page = first_page + i - 1
                        /\ copies[i].at = (i - 1) * PAGE_SIZE
                        /\ copies[i].at + copies[i].len = least(i * PAGE_SIZE, last_byte)
  /\ pc \in {"idle", "return"} => made = pages(DATA_LEN)
  /\ pc \in {"write", "direct_write"} => made < pages(DATA_LEN)

\* Where the next copy begins; the last copy of a read that is not the first
\* was a whole page, but for the one that ends the call.
OffsetInv ==
  /\ pc \in {"write", "direct_write"} => buffer_offset = made * PAGE_SIZE
  /\ pc \in {"read", "direct_read"} => buffer_offset = least(made * PAGE_SIZE, last_byte)
  /\ pc = "read" => /\ request_byte = DATA_LEN
                    /\ copy_len = IF made = 0 THEN 0 ELSE buffer_offset - (made - 1) * PAGE_SIZE
                    /\ made > 0 => ~isFirstPage
  /\ pc = "direct_read" => request_byte = DATA_LEN - buffer_offset
  /\ pc = "return" => buffer_offset = IF skips_last THEN (made - 1) * PAGE_SIZE ELSE last_byte

\* The counters stay within the buffer, and the overrun.
CounterInv ==
  /\ request_byte \in 0..MaxLen
  /\ buffer_offset \in 0..(MaxLen + PAGE_SIZE - 1)
  /\ copy_len \in 0..PAGE_SIZE
  /\ result \in 0..(MaxLen + PAGE_SIZE - 1)

PageInv == CallInv /\ CopiesInv /\ OffsetInv /\ CounterInv /\ ResultIsCount

-----------------------------------------------------------------------------
(* What a call and its pages have to do with each other. *)

LEMMA CallHasPages ==
  ASSUME CallInv
  PROVE  /\ DATA_LEN \in Nat /\ pages(DATA_LEN) \in Nat /\ last_byte \in Nat
         /\ DATA_LEN <= last_byte /\ last_byte <= pages(DATA_LEN) * PAGE_SIZE
         /\ last_byte < DATA_LEN + PAGE_SIZE
         /\ pages(DATA_LEN) * PAGE_SIZE < DATA_LEN + PAGE_SIZE
         /\ \A n \in Nat : n < pages(DATA_LEN) <=> n * PAGE_SIZE < DATA_LEN
<1>1. DATA_LEN \in Nat
  BY PageCopyAssumption DEF CallInv
<1>2. /\ pages(DATA_LEN) \in Nat
      /\ DATA_LEN <= pages(DATA_LEN) * PAGE_SIZE /\ pages(DATA_LEN) * PAGE_SIZE < DATA_LEN + PAGE_SIZE
      /\ \A n \in Nat : n < pages(DATA_LEN) <=> n * PAGE_SIZE < DATA_LEN
  BY <1>1, PagesHold
<1>3. pages(DATA_LEN) * PAGE_SIZE \in Nat
  BY <1>2, NextPage
<1>4. /\ last_byte \in Nat /\ DATA_LEN <= last_byte /\ last_byte <= pages(DATA_LEN) * PAGE_SIZE
      /\ last_byte < DATA_LEN + PAGE_SIZE
  BY <1>1, <1>2, <1>3, SizeIsPositive DEF last_byte
<1> QED
  BY <1>1, <1>2, <1>4

LEMMA CallIsBounded ==
  ASSUME CallInv
  PROVE  /\ first_page \in 0..MaxPage
         /\ pages(DATA_LEN) <= pages(MaxLen) /\ pages(MaxLen) \in Nat
<1>1. DATA_LEN \in Nat /\ MaxLen \in Nat /\ MaxPage \in Nat /\ DATA_LEN <= MaxLen
  BY PageCopyAssumption DEF CallInv
<1>2. pages(DATA_LEN) <= pages(MaxLen)
  <2>1. /\ pages(MaxLen) \in Nat /\ MaxLen <= pages(MaxLen) * PAGE_SIZE
        /\ pages(MaxLen) * PAGE_SIZE \in Nat
    BY <1>1, PagesHold, NextPage
  <2>2. ~(pages(MaxLen) * PAGE_SIZE < DATA_LEN)
    BY <1>1, <2>1
  <2>3. ~(pages(MaxLen) < pages(DATA_LEN)) /\ pages(DATA_LEN) \in Nat
    BY <1>1, <2>1, <2>2, PagesHold
  <2> QED
    BY <2>1, <2>3
<1>3. first_page \in 0..MaxPage
  <2>0. call.io_offset \in 0..(MaxPage * PAGE_SIZE) /\ MaxPage * PAGE_SIZE \in Nat
    BY <1>1, NextPage DEF CallInv
  <2>1. first_page \in Nat /\ first_page * PAGE_SIZE <= MaxPage * PAGE_SIZE
    <3>1. first_page \in Nat /\ first_page * PAGE_SIZE <= call.io_offset
      BY <2>0, SizeIsPositive, Quotient DEF first_page
    <3>2. first_page * PAGE_SIZE \in Nat
      BY <3>1, NextPage
    <3> QED
      BY <2>0, <3>1, <3>2
  <2>2. ASSUME first_page > MaxPage PROVE FALSE
    <3>1. (MaxPage + 1) * PAGE_SIZE <= first_page * PAGE_SIZE
      BY <1>1, <2>1, <2>2, TimesGrows, SizeIsPositive
    <3>2. first_page * PAGE_SIZE \in Nat /\ (MaxPage + 1) * PAGE_SIZE = MaxPage * PAGE_SIZE + PAGE_SIZE
      BY <1>1, <2>1, NextPage
    <3> QED
      BY <2>0, <2>1, <3>1, <3>2, SizeIsPositive
  <2> QED
    BY <1>1, <2>1, <2>2
<1> QED
  BY <1>1, <1>2, <1>3, PagesHold

\* One more copy at the place where the last one ended.
LEMMA CopyKeepsCopies ==
  ASSUME CallInv, CopiesInv, NEW len \in 1..PAGE_SIZE, copy(len), call' = call,
         made < pages(DATA_LEN),
         buffer_offset = made * PAGE_SIZE,
         buffer_offset + len = least((made + 1) * PAGE_SIZE, last_byte),
         pc' \in {"idle", "return"} => made + 1 = pages(DATA_LEN),
         pc' \in {"write", "direct_write"} => made + 1 < pages(DATA_LEN)
  PROVE  CopiesInv' /\ made' = made + 1
<1> DEFINE c == [page |-> index, at |-> buffer_offset, len |-> len]
<1>1. copies' = Append(copies, c) /\ index' = index + 1
  BY DEF copy
<1>2. /\ made \in Nat /\ copies \in Seq(Copy)
      /\ UNCHANGED <<first_page, DATA_LEN, pages(DATA_LEN), last_byte>>
  BY DEF made, CopiesInv, first_page, DATA_LEN, pages, last_byte, overruns, path
<1>3. c \in Copy
  <2>1. index = first_page + made /\ first_page \in 0..MaxPage /\ made < pages(DATA_LEN)
        /\ pages(DATA_LEN) <= pages(MaxLen) /\ pages(MaxLen) \in Nat /\ pages(DATA_LEN) \in Nat
    BY CallIsBounded, CallHasPages DEF CopiesInv
  <2>2. index \in 0..(MaxPage + pages(MaxLen))
    BY <1>2, <2>1, PageCopyAssumption
  <2>3. buffer_offset \in Nat /\ buffer_offset < DATA_LEN /\ DATA_LEN \in 0..MaxLen
    BY <1>2, CallHasPages, NextPage DEF CallInv
  <2>4. buffer_offset \in 0..MaxLen
    BY <2>3, PageCopyAssumption
  <2> QED
    BY <2>2, <2>4 DEF Copy
<1> HIDE DEF c
<1>4. /\ copies' \in Seq(Copy) /\ made' = made + 1
      /\ \A i \in 1..made : copies'[i] = copies[i]
      /\ copies'[made + 1] = c
  BY <1>1, <1>2, <1>3 DEF made
<1>5. index' = first_page + made' /\ made' <= pages(DATA_LEN)
  <2>1. first_page \in Nat /\ pages(DATA_LEN) \in Nat /\ index = first_page + made
    BY CallIsBounded, CallHasPages DEF CopiesInv
  <2> QED
    BY <1>1, <1>2, <1>4, <2>1
<1>6. ASSUME NEW i \in 1..made'
      PROVE  /\ copies'[i].page = first_page + i - 1
             /\ copies'[i].at = (i - 1) * PAGE_SIZE
             /\ copies'[i].at + copies'[i].len = least(i * PAGE_SIZE, last_byte)
  <2>1. CASE i \in 1..made
    BY <1>4, <2>1 DEF CopiesInv
  <2>2. CASE i = made + 1
    <3>1. c.page = index /\ c.at = buffer_offset /\ c.len = len
      BY DEF c
    <3>2. index = first_page + made /\ first_page \in Nat
      BY CallIsBounded DEF CopiesInv
    <3>3. index = first_page + i - 1 /\ i - 1 = made
      BY <1>2, <2>2, <3>2
    <3> QED
      BY <1>4, <2>2, <3>1, <3>3
  <2> QED
    BY <1>2, <1>4, <2>1, <2>2
<1> QED
  BY <1>2, <1>4, <1>5, <1>6 DEF CopiesInv

-----------------------------------------------------------------------------
(* The steps. *)

LEMMA CallNumbers ==
  CallInv => /\ pages(DATA_LEN) \in Nat /\ first_page \in Nat /\ last_byte \in Nat
             /\ DATA_LEN > 0 => pages(DATA_LEN) > 0
<1> SUFFICES ASSUME CallInv
             PROVE  /\ pages(DATA_LEN) \in Nat /\ first_page \in Nat /\ last_byte \in Nat
                    /\ DATA_LEN > 0 => pages(DATA_LEN) > 0
  OBVIOUS
<1>1. 0 * PAGE_SIZE = 0
  BY SizeIsPositive
<1>2. 0 < pages(DATA_LEN) <=> 0 * PAGE_SIZE < DATA_LEN
  BY CallHasPages
<1>3. pages(DATA_LEN) \in Nat /\ last_byte \in Nat /\ DATA_LEN \in Nat
  BY CallHasPages
<1>4. first_page \in Nat
  BY CallIsBounded
<1> QED
  BY <1>1, <1>2, <1>3, <1>4

LEMMA BeginKeepsPages ==
  ASSUME PageInv, NEW op \in {"read", "write"}, begin(op)
  PROVE  PageInv'
<1>1. /\ call' \in Calls(op) /\ request_byte' = DATA_LEN' /\ pc' = path(op, DATA_LEN')
      /\ buffer_offset' = 0 /\ index' = first_page' /\ copy_len' = 0
      /\ isFirstPage' \in BOOLEAN /\ copies' = <<>> /\ result' = 0
  BY DEF begin, DATA_LEN, first_page
<1>2. /\ call' \in [op : {"read", "write"}, size : 1..PAGE_SIZE, count : 0..MaxLen,
                    io_offset : 0..(MaxPage * PAGE_SIZE)]
      /\ call'.op = op /\ DATA_LEN' <= MaxLen
      /\ call'.size \in Nat /\ call'.count \in Nat /\ call'.size > 0 /\ call'.count > 0
  BY <1>1, SizeIsPositive, PageCopyAssumption DEF Calls, DATA_LEN
<1>3. DATA_LEN' \in Nat /\ DATA_LEN' > 0
  BY <1>2 DEF DATA_LEN
<1>4. pc' = path(call.op, DATA_LEN)' /\ pc' \in {op, "direct_read", "direct_write"}
      /\ (op = "read" => pc' # "direct_write") /\ (op = "write" => pc' # "direct_read")
  BY <1>1, <1>2 DEF path, pages
<1>5. CallInv'
  BY <1>1, <1>2, <1>3, <1>4, PageCopyAssumption DEF CallInv
<1>6. /\ made' = 0 /\ pages(DATA_LEN)' \in Nat /\ pages(DATA_LEN)' > 0 /\ first_page' \in Nat
      /\ last_byte' \in Nat /\ 0 * PAGE_SIZE = 0
  <2>1. made' = 0
    BY <1>1 DEF made
  <2>2. 0 * PAGE_SIZE = 0
    BY SizeIsPositive
  <2>3. (/\ pages(DATA_LEN) \in Nat /\ first_page \in Nat /\ last_byte \in Nat
         /\ DATA_LEN > 0 => pages(DATA_LEN) > 0)'
    BY <1>5, CallNumbers, PTL
  <2> QED
    BY <1>3, <2>1, <2>2, <2>3
<1>7. CopiesInv'
  <2>0. copies' \in Seq(Copy)
    BY <1>1
  <2>1. index' = first_page' + made' /\ made' <= pages(DATA_LEN)'
    <3>1. index' = first_page'
      BY <1>1
    <3>2. made' = 0 /\ first_page' \in Nat /\ pages(DATA_LEN)' \in Nat
      BY <1>6
    <3> QED
      BY <3>1, <3>2 DEF first_page, pages, DATA_LEN, made
  <2>2. \A i \in 1..made' : FALSE
    BY <1>6
  <2>3. pc' \notin {"idle", "return"} /\ made' < pages(DATA_LEN)'
    BY <1>4, <1>6
  <2> QED
    BY <2>0, <2>1, <2>2, <2>3 DEF CopiesInv
<1>8. OffsetInv'
  <2>1. made' * PAGE_SIZE = 0 /\ least(made' * PAGE_SIZE, last_byte') = 0
    BY <1>6 DEF least
  <2>2. pc' # "return"
    BY <1>4
  <2>3. request_byte' = DATA_LEN' - buffer_offset'
    <3>1. request_byte' = DATA_LEN' /\ buffer_offset' = 0
      BY <1>1
    <3> QED
      BY <1>3, <3>1 DEF DATA_LEN
  <2> QED
    BY <1>1, <1>6, <2>1, <2>2, <2>3 DEF OffsetInv
<1>9. CounterInv' /\ ResultIsCount'
  BY <1>1, <1>2, <1>3, <1>4, SizeIsPositive, PageCopyAssumption DEF CounterInv, ResultIsCount
<1> QED
  BY <1>5, <1>7, <1>8, <1>9 DEF PageInv

\* The facts about the call that a step within it keeps.
LEMMA CallStays ==
  ASSUME CallInv, call' = call
  PROVE  UNCHANGED <<DATA_LEN, pages(DATA_LEN), last_byte, first_page, skips_last, overruns,
                     path(call.op, DATA_LEN)>>
BY DEF DATA_LEN, pages, last_byte, first_page, skips_last, overruns, path

\* What kind of call it is.
LEMMA CallKind ==
  ASSUME CallInv
  PROVE  /\ pc = "write" => call.op = "write" /\ ~overruns /\ ~skips_last
         /\ pc = "direct_write" => /\ call.op = "write" /\ ~overruns /\ skips_last
                                   /\ pages(DATA_LEN) > 1
         /\ pc = "read" => call.op = "read" /\ path(call.op, DATA_LEN) = "read" /\ ~skips_last
         /\ pc = "direct_read" => call.op = "read" /\ ~overruns /\ ~skips_last
<1>1. call.op \in {"read", "write"}
  BY DEF CallInv
<1>2. CACHE_SIZE \in Nat \ {0}
  BY PageCopyAssumption
<1>3. pages(DATA_LEN) \in Nat
  BY CallHasPages
<1> QED
  BY <1>1, <1>2, <1>3 DEF CallInv, path, overruns, skips_last

LEMMA StepKeepsCall ==
  ASSUME CallInv, call' = call, pc # "idle", pc' \in {pc, "return", "idle"}, isFirstPage' \in BOOLEAN
  PROVE  CallInv'
<1>1. /\ DATA_LEN' = DATA_LEN /\ path(call.op, DATA_LEN)' = path(call.op, DATA_LEN)
  BY CallStays
<1>2. /\ DATA_LEN' \in 0..MaxLen /\ DATA_LEN' > 0
  BY <1>1 DEF CallInv
<1>3. pc' \notin {"idle", "return"} => pc' = path(call.op, DATA_LEN)'
  BY <1>1 DEF CallInv
<1> QED
  BY <1>2, <1>3 DEF CallInv

\* Where the copies lie, and how many are left.
LEMMA PlaceOfNext ==
  ASSUME CallInv, CopiesInv
  PROVE  /\ made \in Nat /\ made * PAGE_SIZE \in Nat
         /\ (made + 1) * PAGE_SIZE = made * PAGE_SIZE + PAGE_SIZE
         /\ DATA_LEN \in Nat /\ DATA_LEN <= MaxLen /\ pages(DATA_LEN) \in Nat
         /\ pages(DATA_LEN) * PAGE_SIZE \in Nat
         /\ made < pages(DATA_LEN) <=> made * PAGE_SIZE < DATA_LEN
         /\ made + 1 < pages(DATA_LEN) <=> (made + 1) * PAGE_SIZE < DATA_LEN
<1>1. made \in Nat /\ made + 1 \in Nat
  BY DEF CopiesInv, made
<1>2. DATA_LEN <= MaxLen
  BY DEF CallInv
<1> QED
  BY <1>1, <1>2, NextPage, CallHasPages

LEMMA WritePageKeepsPages ==
  ASSUME PageInv, write_page
  PROVE  PageInv'
<1>0. /\ pc = "write" /\ copy(write_len) /\ buffer_offset' = buffer_offset + write_len
      /\ pc' = IF DATA_LEN - buffer_offset <= PAGE_SIZE THEN "return" ELSE "write"
      /\ UNCHANGED <<call, request_byte, copy_len, isFirstPage, result>>
      /\ write_len = least(DATA_LEN - buffer_offset, PAGE_SIZE)
  BY DEF write_page, write_len
<1>1. CallInv /\ CopiesInv /\ made < pages(DATA_LEN) /\ buffer_offset = made * PAGE_SIZE
  BY <1>0 DEF PageInv, CopiesInv, OffsetInv
<1>2. ~overruns /\ ~skips_last /\ last_byte = DATA_LEN
  BY <1>0, <1>1, CallKind DEF last_byte
<1>3. /\ made \in Nat /\ made * PAGE_SIZE \in Nat
      /\ (made + 1) * PAGE_SIZE = made * PAGE_SIZE + PAGE_SIZE
      /\ DATA_LEN \in Nat /\ DATA_LEN <= MaxLen /\ pages(DATA_LEN) \in Nat
      /\ made * PAGE_SIZE < DATA_LEN
      /\ made + 1 < pages(DATA_LEN) <=> (made + 1) * PAGE_SIZE < DATA_LEN
  BY <1>1, PlaceOfNext
<1>4. /\ write_len \in 1..PAGE_SIZE
      /\ buffer_offset + write_len = least((made + 1) * PAGE_SIZE, last_byte)
  BY <1>0, <1>1, <1>2, <1>3, SizeIsPositive DEF least
<1>5. /\ pc' \in {"write", "return"}
      /\ pc' = "return" => made + 1 = pages(DATA_LEN) /\ buffer_offset + write_len = DATA_LEN
      /\ pc' = "write" => /\ made + 1 < pages(DATA_LEN)
                          /\ buffer_offset + write_len = (made + 1) * PAGE_SIZE
  BY <1>0, <1>1, <1>2, <1>3, SizeIsPositive DEF least
<1>6. CopiesInv' /\ made' = made + 1
  BY <1>0, <1>1, <1>4, <1>5, CopyKeepsCopies
<1>7. CallInv'
  BY <1>0, <1>1, <1>5, StepKeepsCall DEF CallInv
<1>8. /\ last_byte' = DATA_LEN /\ ~skips_last'
  BY <1>0, <1>1, <1>2, CallStays
<1>9. OffsetInv'
  BY <1>0, <1>5, <1>6, <1>8 DEF OffsetInv
<1>10. CounterInv' /\ ResultIsCount'
  <2>1. buffer_offset' \in 0..(MaxLen + PAGE_SIZE - 1)
    BY <1>0, <1>1, <1>2, <1>3, <1>4, SizeIsPositive, PageCopyAssumption DEF least
  <2> QED
    BY <1>0, <1>5, <2>1 DEF PageInv, CounterInv, ResultIsCount
<1> QED
  BY <1>6, <1>7, <1>9, <1>10 DEF PageInv

LEMMA DirectWritePageKeepsPages ==
  ASSUME PageInv, direct_write_page
  PROVE  PageInv'
<1>0. /\ pc = "direct_write" /\ copy(PAGE_SIZE) /\ buffer_offset' = buffer_offset + PAGE_SIZE
      /\ buffer_offset = 0 \/ DATA_LEN - buffer_offset > PAGE_SIZE
      /\ UNCHANGED <<pc, call, request_byte, copy_len, isFirstPage, result>>
  BY DEF direct_write_page
<1>1. CallInv /\ CopiesInv /\ made < pages(DATA_LEN) /\ buffer_offset = made * PAGE_SIZE
  BY <1>0 DEF PageInv, CopiesInv, OffsetInv
<1>2. ~overruns /\ skips_last /\ last_byte = DATA_LEN /\ pages(DATA_LEN) > 1
  BY <1>0, <1>1, CallKind DEF last_byte
<1>3. /\ made \in Nat /\ made * PAGE_SIZE \in Nat
      /\ (made + 1) * PAGE_SIZE = made * PAGE_SIZE + PAGE_SIZE
      /\ DATA_LEN \in Nat /\ DATA_LEN <= MaxLen /\ pages(DATA_LEN) \in Nat
      /\ made * PAGE_SIZE < DATA_LEN
      /\ made + 1 < pages(DATA_LEN) <=> (made + 1) * PAGE_SIZE < DATA_LEN
  BY <1>1, PlaceOfNext
<1>4. made + 1 < pages(DATA_LEN)
  <2>1. CASE buffer_offset = 0
    <3>1. made = 0
      <4>1. made > 0 => PAGE_SIZE <= made * PAGE_SIZE
        BY <1>3, SizeIsPositive, TimesGrows
      <4> QED
        BY <1>1, <1>3, <2>1, <4>1, SizeIsPositive
    <3> QED
      BY <1>2, <3>1
  <2>2. CASE DATA_LEN - buffer_offset > PAGE_SIZE
    BY <1>1, <1>3, <2>2, SizeIsPositive
  <2> QED
    BY <1>0, <2>1, <2>2
<1>5. /\ buffer_offset + PAGE_SIZE = (made + 1) * PAGE_SIZE /\ (made + 1) * PAGE_SIZE < DATA_LEN
      /\ buffer_offset + PAGE_SIZE = least((made + 1) * PAGE_SIZE, last_byte)
  BY <1>1, <1>2, <1>3, <1>4, SizeIsPositive DEF least
<1>6. CopiesInv' /\ made' = made + 1
  <2>1. PAGE_SIZE \in 1..PAGE_SIZE
    BY SizeIsPositive
  <2> QED
    BY <1>0, <1>1, <1>4, <1>5, <2>1, CopyKeepsCopies
<1>7. CallInv'
  BY <1>0, <1>1, StepKeepsCall DEF CallInv
<1>8. OffsetInv'
  BY <1>0, <1>5, <1>6 DEF OffsetInv
<1>9. CounterInv' /\ ResultIsCount'
  <2>1. buffer_offset' \in 0..(MaxLen + PAGE_SIZE - 1)
    BY <1>0, <1>1, <1>3, <1>5, SizeIsPositive, PageCopyAssumption
  <2> QED
    BY <1>0, <2>1 DEF PageInv, CounterInv, ResultIsCount
<1> QED
  BY <1>6, <1>7, <1>8, <1>9 DEF PageInv

LEMMA DirectWriteLastKeepsPages ==
  ASSUME PageInv, direct_write_last
  PROVE  PageInv'
<1>0. /\ pc = "direct_write" /\ pc' = "return" /\ copy(DATA_LEN - buffer_offset)
      /\ DATA_LEN - buffer_offset <= PAGE_SIZE
      /\ UNCHANGED <<call, request_byte, buffer_offset, copy_len, isFirstPage, result>>
  BY DEF direct_write_last
<1>1. CallInv /\ CopiesInv /\ made < pages(DATA_LEN) /\ buffer_offset = made * PAGE_SIZE
  BY <1>0 DEF PageInv, CopiesInv, OffsetInv
<1>2. ~overruns /\ skips_last /\ last_byte = DATA_LEN
  BY <1>0, <1>1, CallKind DEF last_byte
<1>3. /\ made \in Nat /\ made * PAGE_SIZE \in Nat
      /\ (made + 1) * PAGE_SIZE = made * PAGE_SIZE + PAGE_SIZE
      /\ DATA_LEN \in Nat /\ DATA_LEN <= MaxLen /\ pages(DATA_LEN) \in Nat
      /\ made * PAGE_SIZE < DATA_LEN
      /\ made + 1 < pages(DATA_LEN) <=> (made + 1) * PAGE_SIZE < DATA_LEN
  BY <1>1, PlaceOfNext
<1>4. /\ DATA_LEN - buffer_offset \in 1..PAGE_SIZE
      /\ buffer_offset + (DATA_LEN - buffer_offset) = least((made + 1) * PAGE_SIZE, last_byte)
      /\ made + 1 = pages(DATA_LEN)
  BY <1>0, <1>1, <1>2, <1>3, SizeIsPositive DEF least
<1>5. CopiesInv' /\ made' = made + 1
  BY <1>0, <1>1, <1>4, CopyKeepsCopies
<1>6. CallInv'
  BY <1>0, <1>1, StepKeepsCall DEF CallInv
<1>7. OffsetInv'
  <2>1. skips_last'
    BY <1>0, <1>1, <1>2, CallStays
  <2>2. made' - 1 = made
    BY <1>3, <1>5
  <2> QED
    BY <1>0, <1>1, <2>1, <2>2 DEF OffsetInv
<1>8. CounterInv' /\ ResultIsCount'
  BY <1>0 DEF PageInv, CounterInv, ResultIsCount
<1> QED
  BY <1>5, <1>6, <1>7, <1>8 DEF PageInv

\* A read through the cache ends where the call ends, or with the last page.
LEMMA ReadReachesEnd ==
  ASSUME CallInv, path(call.op, DATA_LEN) = "read", DATA_LEN > 2 * PAGE_SIZE,
         NEW n \in Nat, n < pages(DATA_LEN), n * PAGE_SIZE < DATA_LEN
  PROVE  (n + 1) * PAGE_SIZE <= last_byte
<1>0. PAGE_SIZE \in Nat /\ PAGE_SIZE > 0 /\ DATA_LEN \in Nat /\ pages(DATA_LEN) \in Nat
  BY SizeIsPositive, CallHasPages
<1>1. CASE overruns
  <2>1. (n + 1) * PAGE_SIZE <= pages(DATA_LEN) * PAGE_SIZE
    BY <1>0, TimesGrows
  <2> QED
    BY <1>1, <2>1 DEF last_byte
<1>2. CASE ~overruns
  <2> DEFINE k == DATA_LEN \div PAGE_SIZE
             r == DATA_LEN % PAGE_SIZE
  <2>1. r = 0
    BY <1>0, <1>2 DEF overruns
  <2>2. k \in Nat /\ DATA_LEN = PAGE_SIZE * k + r
    BY <1>0
  <2> HIDE DEF k, r
  <2>3. k * PAGE_SIZE = DATA_LEN
    BY <1>0, <2>1, <2>2
  <2>4. n < k
    <3>1. k <= n => k * PAGE_SIZE <= n * PAGE_SIZE
      BY <1>0, <2>2, TimesGrows
    <3>2. n * PAGE_SIZE \in Nat
      BY NextPage
    <3> QED
      BY <1>0, <2>2, <2>3, <3>1, <3>2
  <2>5. (n + 1) * PAGE_SIZE <= k * PAGE_SIZE
    BY <1>0, <2>2, <2>4, TimesGrows
  <2> QED
    BY <1>2, <2>3, <2>5 DEF last_byte
<1> QED
  BY <1>1, <1>2

LEMMA ReadPageKeepsPages ==
  ASSUME PageInv, read_page
  PROVE  PageInv'
<1>0. /\ pc = "read" /\ request_byte > buffer_offset /\ isFirstPage' = FALSE
      /\ copy_len' = read_len /\ copy(read_len) /\ buffer_offset' = buffer_offset + read_len
      /\ UNCHANGED <<pc, call, request_byte, result>>
  BY DEF read_page
<1>1. /\ CallInv /\ CopiesInv /\ request_byte = DATA_LEN
      /\ buffer_offset = least(made * PAGE_SIZE, last_byte)
      /\ copy_len = IF made = 0 THEN 0 ELSE buffer_offset - (made - 1) * PAGE_SIZE
      /\ made > 0 => ~isFirstPage
  BY <1>0 DEF PageInv, OffsetInv
<1>2. path(call.op, DATA_LEN) = "read" /\ ~skips_last
  BY <1>0, <1>1, CallKind
<1>3. /\ made \in Nat /\ made * PAGE_SIZE \in Nat
      /\ (made + 1) * PAGE_SIZE = made * PAGE_SIZE + PAGE_SIZE
      /\ DATA_LEN \in Nat /\ DATA_LEN <= MaxLen /\ pages(DATA_LEN) \in Nat
      /\ made < pages(DATA_LEN) <=> made * PAGE_SIZE < DATA_LEN
  BY <1>1, PlaceOfNext
<1>4. last_byte \in Nat /\ DATA_LEN <= last_byte /\ last_byte < DATA_LEN + PAGE_SIZE
  BY <1>1, CallHasPages
<1>5. buffer_offset = made * PAGE_SIZE /\ made * PAGE_SIZE < DATA_LEN /\ made < pages(DATA_LEN)
  BY <1>0, <1>1, <1>3, <1>4 DEF least
<1>6. DATA_LEN <= 2 * PAGE_SIZE => last_byte = DATA_LEN
  <2>1. DATA_LEN <= 2 * PAGE_SIZE => ~overruns
    BY <1>3, SizeIsPositive DEF overruns
  <2> QED
    BY <2>1 DEF last_byte
<1>7. DATA_LEN > 2 * PAGE_SIZE => (made + 1) * PAGE_SIZE <= last_byte
  BY <1>1, <1>2, <1>3, <1>5, ReadReachesEnd
<1>8. /\ read_len \in 1..PAGE_SIZE
      /\ buffer_offset + read_len = least((made + 1) * PAGE_SIZE, last_byte)
  <2>1. CASE made = 0
    <3>1. made * PAGE_SIZE = 0 /\ copy_len = 0 /\ read_len = least(DATA_LEN, PAGE_SIZE)
      BY <1>1, <1>3, <2>1, SizeIsPositive DEF read_len
    <3> QED
      BY <1>3, <1>4, <1>5, <1>6, <3>1, SizeIsPositive DEF least
  <2>2. CASE made # 0
    <3>1. made - 1 \in Nat /\ (made - 1) + 1 = made
      BY <1>3, <2>2
    <3>2. made * PAGE_SIZE = (made - 1) * PAGE_SIZE + PAGE_SIZE /\ (made - 1) * PAGE_SIZE \in Nat
      BY <3>1, NextPage
    <3>3. copy_len = PAGE_SIZE /\ read_len = least(DATA_LEN - PAGE_SIZE, PAGE_SIZE)
      <4>1. copy_len = made * PAGE_SIZE - (made - 1) * PAGE_SIZE
        BY <1>1, <1>5, <2>2
      <4>2. copy_len = PAGE_SIZE
        BY <3>2, <4>1, SizeIsPositive
      <4> QED
        BY <1>1, <1>3, <2>2, <4>2 DEF read_len
    <3>4. CASE DATA_LEN > 2 * PAGE_SIZE
      <4>1. read_len = PAGE_SIZE
        BY <1>3, <3>3, <3>4, SizeIsPositive DEF least
      <4> QED
        BY <1>3, <1>4, <1>5, <1>7, <3>4, <4>1, SizeIsPositive DEF least
    <3>5. CASE DATA_LEN <= 2 * PAGE_SIZE
      <4>1. made - 1 > 0 => PAGE_SIZE <= (made - 1) * PAGE_SIZE
        <5>1. ASSUME made - 1 > 0 PROVE 1 * PAGE_SIZE <= (made - 1) * PAGE_SIZE
          BY <3>1, <5>1, SizeIsPositive, TimesGrows
        <5> QED
          BY <5>1, SizeIsPositive
      <4>2. made = 1
        BY <1>3, <1>5, <2>2, <3>1, <3>2, <3>5, <4>1, SizeIsPositive
      <4>3. made * PAGE_SIZE = PAGE_SIZE
        BY <4>2, SizeIsPositive
      <4> QED
        BY <1>3, <1>5, <1>6, <3>3, <3>5, <4>3, SizeIsPositive DEF least
    <3> QED
      BY <1>3, <3>4, <3>5, SizeIsPositive
  <2> QED
    BY <2>1, <2>2
<1>9. CopiesInv' /\ made' = made + 1
  BY <1>0, <1>1, <1>5, <1>8, CopyKeepsCopies
<1>10. CallInv'
  BY <1>0, <1>1, StepKeepsCall
<1>11. OffsetInv'
  <2>1. DATA_LEN' = DATA_LEN /\ last_byte' = last_byte
    BY <1>0, <1>1, CallStays
  <2>2. buffer_offset' = least(made' * PAGE_SIZE, last_byte')
    BY <1>0, <1>8, <1>9, <2>1
  <2>3. copy_len' = buffer_offset' - (made' - 1) * PAGE_SIZE /\ made' # 0 /\ made' - 1 = made
    <3>1. made' - 1 = made /\ made' # 0
      BY <1>3, <1>9
    <3>2. read_len \in Nat
      BY <1>8, SizeIsPositive
    <3>3. copy_len' = buffer_offset' - made * PAGE_SIZE
      BY <1>0, <1>3, <1>5, <3>2
    <3> QED
      BY <3>1, <3>3
  <2> QED
    BY <1>0, <1>1, <2>1, <2>2, <2>3 DEF OffsetInv
<1>12. CounterInv' /\ ResultIsCount'
  <2>1. buffer_offset' \in 0..(MaxLen + PAGE_SIZE - 1)
    BY <1>0, <1>3, <1>4, <1>8, SizeIsPositive, PageCopyAssumption DEF least
  <2>2. copy_len' \in 0..PAGE_SIZE
    BY <1>0, <1>8, SizeIsPositive
  <2> QED
    BY <1>0, <2>1, <2>2 DEF PageInv, CounterInv, ResultIsCount
<1> QED
  BY <1>9, <1>10, <1>11, <1>12 DEF PageInv

\* A step that copies nothing leaves the copies as they are.
LEMMA EndKeepsCopies ==
  ASSUME CallInv, CopiesInv, UNCHANGED <<call, index, copies>>, made = pages(DATA_LEN),
         pc' \in {"idle", "return"}
  PROVE  CopiesInv' /\ made' = made
<1>1. /\ UNCHANGED <<DATA_LEN, pages(DATA_LEN), last_byte, first_page>>
      /\ made' = made
  BY CallStays DEF made
<1> QED
  BY <1>1 DEF CopiesInv

LEMMA ReadEndsKeepsPages ==
  ASSUME PageInv, read_ends \/ direct_read_ends
  PROVE  PageInv'
<1>0. /\ pc \in {"read", "direct_read"} /\ pc' = "return"
      /\ pc = "read" => request_byte <= buffer_offset
      /\ pc = "direct_read" => request_byte = 0
      /\ UNCHANGED <<call, request_byte, buffer_offset, index, copy_len, isFirstPage, copies, result>>
  BY DEF read_ends, direct_read_ends
<1>1. /\ CallInv /\ CopiesInv
      /\ buffer_offset = least(made * PAGE_SIZE, last_byte)
      /\ pc = "read" => request_byte = DATA_LEN
      /\ pc = "direct_read" => request_byte = DATA_LEN - buffer_offset
  BY <1>0 DEF PageInv, OffsetInv
<1>2. ~skips_last
  BY <1>0, <1>1, CallKind
<1>3. /\ made \in Nat /\ made * PAGE_SIZE \in Nat
      /\ DATA_LEN \in Nat /\ pages(DATA_LEN) \in Nat
      /\ made < pages(DATA_LEN) <=> made * PAGE_SIZE < DATA_LEN
      /\ made <= pages(DATA_LEN)
  BY <1>1, PlaceOfNext DEF CopiesInv
<1>4. last_byte \in Nat /\ DATA_LEN <= last_byte /\ last_byte <= pages(DATA_LEN) * PAGE_SIZE
  BY <1>1, CallHasPages
<1>5. DATA_LEN <= buffer_offset
  BY <1>0, <1>1, <1>3, <1>4 DEF least
<1>6. made = pages(DATA_LEN)
  BY <1>1, <1>3, <1>4, <1>5 DEF least
<1>7. buffer_offset = last_byte
  <2>1. last_byte <= made * PAGE_SIZE
    BY <1>4, <1>6
  <2> QED
    BY <1>1, <1>3, <1>4, <2>1 DEF least
<1>8. CopiesInv' /\ CallInv'
  BY <1>0, <1>1, <1>6, EndKeepsCopies, StepKeepsCall DEF CallInv
<1>9. OffsetInv'
  <2>1. last_byte' = last_byte /\ ~skips_last'
    BY <1>0, <1>1, <1>2, CallStays
  <2> QED
    BY <1>0, <1>7, <2>1 DEF OffsetInv
<1>10. CounterInv' /\ ResultIsCount'
  BY <1>0 DEF PageInv, CounterInv, ResultIsCount
<1> QED
  BY <1>8, <1>9, <1>10 DEF PageInv

LEMMA DirectReadPageKeepsPages ==
  ASSUME PageInv, direct_read_page
  PROVE  PageInv'
<1> DEFINE len == least(request_byte, PAGE_SIZE)
<1>0. /\ pc = "direct_read" /\ request_byte # 0 /\ copy(len)
      /\ buffer_offset' = buffer_offset + len /\ request_byte' = request_byte - len
      /\ UNCHANGED <<pc, call, copy_len, isFirstPage, result>>
  BY DEF direct_read_page
<1>1. /\ CallInv /\ CopiesInv /\ request_byte = DATA_LEN - buffer_offset
      /\ buffer_offset = least(made * PAGE_SIZE, last_byte)
  BY <1>0 DEF PageInv, OffsetInv
<1>2. ~overruns /\ ~skips_last /\ last_byte = DATA_LEN
  BY <1>0, <1>1, CallKind DEF last_byte
<1>3. /\ made \in Nat /\ made * PAGE_SIZE \in Nat
      /\ (made + 1) * PAGE_SIZE = made * PAGE_SIZE + PAGE_SIZE
      /\ DATA_LEN \in Nat /\ DATA_LEN <= MaxLen /\ pages(DATA_LEN) \in Nat
      /\ made < pages(DATA_LEN) <=> made * PAGE_SIZE < DATA_LEN
  BY <1>1, PlaceOfNext
<1>4. buffer_offset = made * PAGE_SIZE /\ made * PAGE_SIZE < DATA_LEN /\ made < pages(DATA_LEN)
  BY <1>0, <1>1, <1>2, <1>3 DEF least
<1>5. /\ len \in 1..PAGE_SIZE /\ request_byte \in Nat /\ len <= request_byte
      /\ buffer_offset + len = least((made + 1) * PAGE_SIZE, last_byte)
  BY <1>1, <1>2, <1>3, <1>4, SizeIsPositive DEF least
<1> HIDE DEF len
<1>6. CopiesInv' /\ made' = made + 1
  BY <1>0, <1>1, <1>4, <1>5, CopyKeepsCopies
<1>7. CallInv'
  BY <1>0, <1>1, StepKeepsCall DEF CallInv
<1>8. OffsetInv'
  <2>1. DATA_LEN' = DATA_LEN /\ last_byte' = last_byte
    BY <1>0, <1>1, CallStays
  <2>2. buffer_offset' = least(made' * PAGE_SIZE, last_byte')
    BY <1>0, <1>5, <1>6, <2>1
  <2>3. request_byte' = DATA_LEN - buffer_offset'
    <3>1. len \in Nat /\ buffer_offset \in Nat
      BY <1>3, <1>4, <1>5, SizeIsPositive
    <3> QED
      BY <1>0, <1>1, <1>3, <3>1
  <2>4. request_byte' = DATA_LEN' - buffer_offset'
    BY <2>1, <2>3
  <2> QED
    BY <1>0, <2>2, <2>4 DEF OffsetInv
<1>9. CounterInv' /\ ResultIsCount'
  <2>1. buffer_offset' \in 0..(MaxLen + PAGE_SIZE - 1)
    BY <1>0, <1>2, <1>3, <1>5, <1>4, SizeIsPositive, PageCopyAssumption DEF least
  <2>2. request_byte' \in 0..MaxLen
    BY <1>0, <1>1, <1>3, <1>4, <1>5, SizeIsPositive, PageCopyAssumption
  <2> QED
    BY <1>0, <2>1, <2>2 DEF PageInv, CounterInv, ResultIsCount
<1> QED
  BY <1>6, <1>7, <1>8, <1>9 DEF PageInv

\* A product divided by its first factor.
LEMMA QuotientOfProduct ==
  ASSUME NEW a \in Nat, NEW b \in Nat, a > 0
  PROVE  (a * b) \div a = b
<1> DEFINE q == (a * b) \div a
<1>1. a * b \in Nat /\ b * a = a * b
  OBVIOUS
<1>2. q \in Nat /\ q * a <= a * b /\ a * b < q * a + a
  BY <1>1, Quotient
<1> HIDE DEF q
<1>3. q > b => (b + 1) * a <= q * a
  BY <1>2, TimesGrows
<1>4. q < b => (q + 1) * a <= b * a
  BY <1>2, TimesGrows
<1>5. (b + 1) * a = b * a + a /\ (q + 1) * a = q * a + a /\ q * a \in Nat
  BY <1>2
<1>6. q = b
  BY <1>1, <1>2, <1>3, <1>4, <1>5
<1> QED
  BY <1>6 DEF q

LEMMA ReturnKeepsPages ==
  ASSUME PageInv, return
  PROVE  PageInv'
<1>0. /\ pc = "return" /\ pc' = "idle" /\ result' = buffer_offset \div call.size
      /\ UNCHANGED <<call, request_byte, buffer_offset, index, copy_len, isFirstPage, copies>>
  BY DEF return
<1>1. /\ CallInv /\ CopiesInv /\ made = pages(DATA_LEN)
      /\ buffer_offset = IF skips_last THEN (made - 1) * PAGE_SIZE ELSE last_byte
  BY <1>0 DEF PageInv, CopiesInv, OffsetInv
<1>2. CopiesInv' /\ CallInv'
  BY <1>0, <1>1, EndKeepsCopies, StepKeepsCall DEF CallInv
<1>3. OffsetInv'
  BY <1>0 DEF OffsetInv
<1>4. /\ call.size \in Nat /\ call.size > 0 /\ call.count \in Nat
  BY <1>1, SizeIsPositive, PageCopyAssumption DEF CallInv
<1>5. buffer_offset \in 0..(MaxLen + PAGE_SIZE - 1)
  BY DEF PageInv, CounterInv
<1>6. result' \in 0..(MaxLen + PAGE_SIZE - 1)
  <2> DEFINE r == buffer_offset \div call.size
  <2>1. buffer_offset \in Nat
    BY <1>5
  <2>2. r \in Nat /\ r * call.size <= buffer_offset
    BY <1>4, <2>1, Quotient
  <2> HIDE DEF r
  <2>3. r <= r * call.size
    BY <1>4, <2>2
  <2>4. r \in 0..(MaxLen + PAGE_SIZE - 1)
    BY <1>4, <1>5, <2>1, <2>2, <2>3, SizeIsPositive, PageCopyAssumption
  <2> QED
    BY <1>0, <2>4 DEF r
<1>7. ~overruns /\ ~skips_last => result' = call.count
  <2> SUFFICES ASSUME ~overruns, ~skips_last PROVE result' = call.count
    OBVIOUS
  <2>1. buffer_offset = call.size * call.count
    BY <1>1 DEF last_byte, DATA_LEN
  <2> QED
    BY <1>0, <1>4, <2>1, QuotientOfProduct
<1>8. ResultIsCount'
  <2>1. UNCHANGED <<overruns, skips_last>>
    BY <1>0, <1>1, CallStays
  <2> QED
    BY <1>0, <1>7, <2>1 DEF ResultIsCount
<1>9. CounterInv'
  BY <1>0, <1>6 DEF PageInv, CounterInv
<1> QED
  BY <1>2, <1>3, <1>8, <1>9 DEF PageInv

LEMMA InitPages == Init => PageInv
<1> SUFFICES ASSUME Init PROVE PageInv
  OBVIOUS
<1>1. /\ pc = "idle" /\ call = [op |-> "read", size |-> 1, count |-> 0, io_offset |-> 0]
      /\ request_byte = 0 /\ buffer_offset = 0 /\ index = 0 /\ copy_len = 0 /\ isFirstPage = FALSE
      /\ copies = <<>> /\ result = 0
  BY DEF Init
<1>2. /\ call.op = "read" /\ call.size = 1 /\ call.count = 0 /\ call.io_offset = 0
      /\ call \in [op : {"read", "write"}, size : 1..PAGE_SIZE, count : 0..MaxLen,
                   io_offset : 0..(MaxPage * PAGE_SIZE)]
  <2>1. MaxPage * PAGE_SIZE \in Nat
    BY NextPage, PageCopyAssumption
  <2> QED
    BY <1>1, <2>1, SizeIsPositive, PageCopyAssumption
<1>3. DATA_LEN = 0
  BY <1>2 DEF DATA_LEN
<1>4. CallInv
  BY <1>1, <1>2, <1>3, PageCopyAssumption DEF CallInv
<1>5. pages(DATA_LEN) = 0
  <2>1. /\ pages(DATA_LEN) \in Nat
        /\ 0 < pages(DATA_LEN) <=> 0 * PAGE_SIZE < DATA_LEN
    BY <1>4, CallHasPages
  <2>2. 0 * PAGE_SIZE = 0
    BY SizeIsPositive
  <2> QED
    BY <1>3, <2>1, <2>2
<1>6. first_page = 0
  <2>1. 0 \div PAGE_SIZE \in Nat /\ (0 \div PAGE_SIZE) * PAGE_SIZE <= 0
    BY SizeIsPositive, Quotient
  <2> DEFINE d == 0 \div PAGE_SIZE
  <2>2. d \in Nat /\ d * PAGE_SIZE <= 0
    BY <2>1
  <2> HIDE DEF d
  <2>3. d >= 1 => 1 * PAGE_SIZE <= d * PAGE_SIZE
    BY <2>2, TimesGrows, SizeIsPositive
  <2>4. d = 0
    BY <2>2, <2>3, SizeIsPositive
  <2> QED
    BY <1>2, <2>4 DEF d, first_page
<1>7. CopiesInv
  <2>1. made = 0 /\ copies \in Seq(Copy)
    BY <1>1 DEF made
  <2>2. \A i \in 1..made : FALSE
    BY <2>1
  <2> QED
    BY <1>1, <1>5, <1>6, <2>1, <2>2 DEF CopiesInv
<1>8. OffsetInv
  BY <1>1 DEF OffsetInv
<1>9. CounterInv /\ ResultIsCount
  BY <1>1, <1>2, SizeIsPositive, PageCopyAssumption DEF CounterInv, ResultIsCount
<1> QED
  BY <1>4, <1>7, <1>8, <1>9 DEF PageInv

LEMMA PageInvIsKept == Spec => []PageInv
<1>1. Init => PageInv
  BY InitPages
<1>2. PageInv /\ [Next]_vars => PageInv'
  <2> SUFFICES ASSUME PageInv, [Next]_vars PROVE PageInv'
    OBVIOUS
  <2>1. CASE uwrite \/ uread
    BY <2>1, BeginKeepsPages DEF uwrite, uread
  <2>2. CASE write_page \/ direct_write_page \/ direct_write_last
    BY <2>2, WritePageKeepsPages, DirectWritePageKeepsPages, DirectWriteLastKeepsPages
  <2>3. CASE read_page \/ read_ends \/ direct_read_page \/ direct_read_ends
    BY <2>3, ReadPageKeepsPages, ReadEndsKeepsPages, DirectReadPageKeepsPages
  <2>4. CASE return
    BY <2>4, ReturnKeepsPages
  <2>5. CASE UNCHANGED vars
    <3>0. UNCHANGED <<pc, call, request_byte, buffer_offset, index, copy_len, isFirstPage, copies, result>>
      BY <2>5 DEF vars
    <3>1. CallInv /\ CopiesInv /\ OffsetInv /\ CounterInv /\ ResultIsCount
      BY DEF PageInv
    <3>2. /\ UNCHANGED <<DATA_LEN, pages(DATA_LEN), last_byte, first_page, skips_last, overruns,
                         path(call.op, DATA_LEN)>>
          /\ made' = made
      BY <3>0, <3>1, CallStays DEF made
    <3>3. CallInv' /\ CounterInv' /\ ResultIsCount'
      BY <3>0, <3>1, <3>2 DEF CallInv, CounterInv, ResultIsCount
    <3>4. CopiesInv'
      BY <3>0, <3>1, <3>2 DEF CopiesInv
    <3>5. OffsetInv'
      BY <3>0, <3>1, <3>2 DEF OffsetInv
    <3> QED
      BY <3>3, <3>4, <3>5 DEF PageInv
  <2> QED
    BY <2>1, <2>2, <2>3, <2>4, <2>5 DEF Next
<1> QED
  BY <1>1, <1>2, PTL DEF Spec

-----------------------------------------------------------------------------
\* For every page size, cache size and element size and for calls of any length:
\* no copy leaves its page, and the buffer is overrun by less than a page.
THEOREM CopiesAreTyped == Spec => []TypeOK
<1>1. ASSUME PageInv PROVE index \in 0..(MaxPage + pages(MaxLen))
  <2>1. CallInv /\ CopiesInv
    BY <1>1 DEF PageInv
  <2>2. /\ first_page \in 0..MaxPage /\ pages(DATA_LEN) <= pages(MaxLen) /\ pages(MaxLen) \in Nat
        /\ pages(DATA_LEN) \in Nat
    BY <2>1, CallIsBounded, CallHasPages
  <2>3. index = first_page + made /\ made <= pages(DATA_LEN) /\ made \in Nat
    BY <2>1 DEF CopiesInv, made
  <2> QED
    BY <2>2, <2>3, PageCopyAssumption
<1>2. PageInv => TypeOK
  BY <1>1 DEF PageInv, CallInv, CopiesInv, CounterInv, TypeOK, Copy
<1> QED
  BY <1>2, PageInvIsKept, PTL

\* The copies of a call cover the caller's buffer and the pages of the file one
\* to one and in order, through the cache and past it.
THEOREM BytesMeetInOrder == Spec => []BytesInPlace
<1>1. PageInv => BytesInPlace
  BY DEF PageInv, CopiesInv, BytesInPlace, made, first_page, last_byte
<1> QED
  BY <1>1, PageInvIsKept, PTL

\* uwrite and uread return the number of elements asked for, but for a read that
\* overruns its last page and a write that goes past the cache.
THEOREM CountIsReturned == Spec => []ResultIsCount
<1>1. PageInv => ResultIsCount
  BY DEF PageInv
<1> QED
  BY <1>1, PageInvIsKept, PTL

=============================================================================
