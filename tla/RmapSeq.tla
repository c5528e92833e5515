------------------------------- MODULE RmapSeq -------------------------------
(***************************************************************************)
(* /proc/rmap: the iterator of mem_leak/reverse_mapping/reverse_mapping.c  *)
(* under the kernel's seq_read, which calls show again after a full buffer *)
(* and start again in the middle of the listing, as the reader's sizes     *)
(* come.  Text is counted in the parts that seq_printf writes; what a page *)
(* is mapped by may differ at every call.                                  *)
(***************************************************************************)
EXTENDS Integers, Sequences

CONSTANTS
  totalram_pages,
  Valid,          \* the frames of which pfn_valid says yes
  IntBits,        \* the width of an int
  MaxOwner,       \* bound: the tasks that map a page
  MaxSize,        \* bound: the parts a read asks for
  PageSize        \* the first size of the buffer

\* One more than the largest int.
IntLimit == 2 ^ (IntBits - 1)

\* There may be holes in memory, with frames above the number of pages, and more
\* pages than an int can count.
ASSUME RmapSeqAssumption ==
  /\ IntLimit \in Nat \ {0} /\ totalram_pages \in Nat /\ Valid \subseteq Nat
  /\ MaxOwner \in Nat /\ MaxSize \in Nat /\ PageSize \in Nat \ {0}

VARIABLES
  m,    \* the seq_file: index, size, buf (m->buf from m->from on)
  call, \* the read: pc, the size it wants, pos, whether bytes were copied
  out   \* what the reader has got
seqVars == <<m, call, out>>

\* create_proc_entry and seq_open.
SeqInit ==
  /\ m = [index |-> 0, size |-> PageSize, buf |-> <<>>]
  /\ call = [pc |-> "idle", want |-> 0, pos |-> 0, copied |-> FALSE]
  /\ out = <<>>

-----------------------------------------------------------------------------
AsInt(pos) == LET low == pos % (2 * IntLimit) IN
  IF low < IntLimit THEN low ELSE low - 2 * IntLimit

\* A negative int compares as an unsigned long larger than any number of pages.
handler_seq_start(pos) == AsInt(pos) >= 0 /\ AsInt(pos) <= totalram_pages

\* Mutant: the position is moved twice.
handler_seq_nextTwice(pos) == [pos |-> pos + 2, more |-> pos + 2 <= totalram_pages]
handler_seq_next(pos) == [pos |-> pos + 1, more |-> pos + 1 <= totalram_pages]

\* What show may find a valid page to be.
PageInfo == [mapping : {"none", "anon", "file"}, anon_vma : BOOLEAN, owners : 0..MaxOwner]

\* A title, and an owner for every mapping: none in the swap cache, none where
\* page_lock_anon_vma finds the page unmapped.
handler_seq_show(pfn, page) ==
  IF pfn \notin Valid THEN <<>>
  ELSE LET n == IF page.mapping = "none" \/ (page.mapping = "anon" /\ ~page.anon_vma)
                THEN 0 ELSE page.owners IN
    [i \in 1..(n + 1) |-> <<pfn, i, n + 1>>]

-----------------------------------------------------------------------------
\* copy_to_user of at most n parts.
Upto(buf, n) == IF n < Len(buf) THEN SubSeq(buf, 1, n) ELSE buf

\* seq_read: what is left of the last record comes first; a read it fills ends.
Read(size) ==
  LET rest == Len(m.buf) - size
      flushed == m.buf # <<>> IN
  /\ call.pc = "idle"
  /\ out' = out \o Upto(m.buf, size)
  /\ m' = [m EXCEPT !.buf = SubSeq(@, size + 1, Len(@)),
                    !.index = IF flushed /\ rest <= 0 THEN @ + 1 ELSE @]
  /\ call' = [pc |-> IF rest >= 0 THEN "idle" ELSE "start",
              want |-> IF rest >= 0 THEN 0 ELSE -rest,
              pos |-> m'.index, copied |-> flushed]

\* No record any more: the read returns what was flushed, or 0 at the end.
End == call' = [call EXCEPT !.pc = IF call.copied THEN "idle" ELSE "eof"]

Start ==
  /\ call.pc = "start"
  /\ IF handler_seq_start(call.pos) THEN call' = [call EXCEPT !.pc = "show"] ELSE End
  /\ UNCHANGED <<m, out>>

\* The first record: an empty one is skipped, one that overflows the buffer is
\* asked for again with a buffer of twice the size.
ShowFirst ==
  /\ call.pc = "show"
  /\ \E page \in PageInfo :
       LET text == handler_seq_show(call.pos, page)
           n == handler_seq_next(call.pos) IN
       \/ /\ text = <<>>
          /\ m' = [m EXCEPT !.index = n.pos]
          /\ IF n.more THEN call' = [call EXCEPT !.pos = n.pos] ELSE End
       \/ /\ text # <<>> /\ Len(text) < m.size
          /\ m' = [m EXCEPT !.buf = text]
          /\ call' = [call EXCEPT !.pc = "fill"]
       \/ /\ Len(text) >= m.size
          /\ m' = [m EXCEPT !.size = 2 * @]
          /\ call' = [call EXCEPT !.pc = "start", !.pos = m.index]
  /\ UNCHANGED out

\* The copy to the reader; the rest is kept for the next read.
Copy ==
  /\ out' = out \o Upto(m.buf, call.want)
  /\ m' = [m EXCEPT !.buf = SubSeq(@, call.want + 1, Len(@)),
                    !.index = IF Len(m.buf) <= call.want THEN call.pos + 1 ELSE call.pos]
  /\ call' = [call EXCEPT !.pc = "idle"]

\* More records while the reader wants more; one that overflows is left for later.
FillBuffer ==
  /\ call.pc = "fill"
  /\ \/ Len(m.buf) >= call.want /\ Copy
     \/ /\ Len(m.buf) < call.want
        /\ LET n == handler_seq_next(call.pos) IN
           \/ ~n.more /\ Copy
           \/ /\ n.more
              /\ \E page \in PageInfo :
                   LET text == handler_seq_show(n.pos, page) IN
                   IF Len(m.buf) + Len(text) >= m.size /\ text # <<>>
                   THEN Copy
                   ELSE /\ m' = [m EXCEPT !.buf = @ \o text]
                        /\ call' = [call EXCEPT !.pos = n.pos]
                        /\ UNCHANGED out

SeqNext == (\E size \in 1..MaxSize : Read(size)) \/ Start \/ ShowFirst \/ FillBuffer

SeqSpec == SeqInit /\ [][SeqNext]_seqVars

\* The reader reads on until a read returns 0.
SeqFairSpec == SeqSpec /\ WF_seqVars(SeqNext)

-----------------------------------------------------------------------------
(* Properties.                                                              *)

\* What is written: the frame, the number of the part and how many the record has.
Part == Valid \X Nat \X Nat

\* Every variable has its type.
RmapSeqTypeOK ==
  /\ m \in [index : Nat, size : Nat, buf : Seq(Part)]
  /\ call \in [pc : {"idle", "start", "show", "fill", "eof"}, want : 0..MaxSize,
               pos : Nat, copied : BOOLEAN]
  /\ out \in Seq(Part)

\* b is written after a: the next part of the same record, or the title of the
\* next frame there is.
Follows(a, b) ==
  IF a[2] < a[3] THEN b = <<a[1], a[2] + 1, a[3]>>
  ELSE b[2] = 1 /\ a[1] < b[1] /\ \A f \in Valid : f <= a[1] \/ b[1] <= f

\* The last position is still told from the first ones when it is cut to an int.
NoWrap == totalram_pages + 1 < 2 * IntLimit

\* Whatever the sizes of the reads and of the buffer, and whatever happens to
\* the pages between two calls of show, the reader gets the frames' records
\* once, whole and in order, without a gap; before the end he has got those up to
\* totalram_pages whose numbers an int can hold, and as long as positions do not
\* wrap round to the first ones he gets none above totalram_pages.
EachFrameOnce ==
  /\ \A i \in 1..(Len(out) - 1) : Follows(out[i], out[i + 1])
  /\ out # <<>> => out[1][2] = 1 /\ \A f \in Valid : out[1][1] <= f
  /\ call.pc = "eof" =>
       /\ out # <<>> => out[Len(out)][2] = out[Len(out)][3]
       /\ \A f \in Valid : f <= totalram_pages /\ f < IntLimit =>
            out # <<>> /\ f <= out[Len(out)][1]
  /\ NoWrap => \A i \in 1..Len(out) : out[i][1] <= totalram_pages

\* Why: text is the listing of the frames before pfn, which is not past the end ...
NotPast(pfn) == NoWrap => pfn <= totalram_pages + 1

Lists(text, pfn) ==
  /\ NotPast(pfn)
  /\ \A i \in 1..(Len(text) - 1) : Follows(text[i], text[i + 1])
  /\ \A i \in 1..Len(text) : text[i][1] < pfn
  /\ text # <<>> =>
       /\ text[1][2] = 1 /\ \A f \in Valid : text[1][1] <= f
       /\ text[Len(text)][2] = text[Len(text)][3]
  /\ \A f \in Valid : f < pfn => text # <<>> /\ f <= text[Len(text)][1]

\* ... as far as seq_read has come, with what is still in its buffer.
Progress ==
  CASE call.pc = "idle" ->
         IF m.buf = <<>> THEN Lists(out, m.index) ELSE Lists(out \o m.buf, m.index + 1)
    [] call.pc \in {"start", "show"} ->
         /\ m.buf = <<>> /\ call.pos = m.index /\ Lists(out, m.index)
         /\ call.pc = "show" => NotPast(m.index + 1)
    [] call.pc = "fill" -> m.buf # <<>> /\ Lists(out \o m.buf, call.pos + 1)
    [] call.pc = "eof" ->
         /\ m.buf = <<>> /\ Lists(out, m.index)
         /\ m.index > totalram_pages \/ m.index >= IntLimit

\* The listing is well formed, and what the reader has of it is a part of one
\* whole listing.
SeqInv == RmapSeqTypeOK /\ EachFrameOnce /\ Progress

\* A reader who goes on reading comes to the end.
ListingEnds == call.pc # "idle" ~> call.pc = "eof"
=============================================================================
