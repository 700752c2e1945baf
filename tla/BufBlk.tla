------------------------------- MODULE BufBlk -------------------------------
(***************************************************************************)
(* BufBlk, BufBlkIter and the operations of MemBlk they use                *)
(* (include/TW/tw_bufblk.h), as one thread uses them: buffers that are     *)
(* chains of views on reference-counted memory blocks, several of which    *)
(* may view the same block.                                                *)
(*                                                                         *)
(* A chain is a sequence of views [blk, rd, wr, mark], the pointers as     *)
(* offsets from the base of the block.  The thread has the chains of       *)
(* Handle, and one iterator.  Beside each chain the model keeps text, the  *)
(* bytes a plain byte string would hold after the same calls.              *)
(***************************************************************************)
EXTENDS Integers, SequencesExt

CONSTANTS Blk,       \* the memory blocks malloc() can hand out: 1..n
          Handle,    \* the variables of the program that hold a chain
          Sizes,     \* the sizes blocks are allocated with
          Wide,      \* bytes that one copyFrom() is asked to copy, at most
          MaxBuilt,  \* blocks of the chain the program starts from, at most
          MaxCalls   \* calls on chains, one for each of those blocks included

VARIABLES mem,       \* per block: its bytes, _ref_count, whether it is allocated
          chain,     \* per handle: its views, <<>> when it holds nothing
          text,      \* per handle: the bytes it should read
          iter,      \* the iterator: _start, _cur (an index, 0 for NULL), _rd_offset
          handed,    \* the bytes the iterator has handed out since its rewind
          said,      \* what the last call returned, beside what it should return
          calls

bufVars == <<mem, chain, text, iter, handed, said, calls>>

Junk == 0            \* a byte nobody wrote, or memory that was freed
NoMark == -1         \* _mark is NULL
Take(s, from, n) ==  \* the n elements after the first from, or what there is of them
    SubSeq(s, from + 1, IF from + n < Len(s) THEN from + n ELSE Len(s))
NoIter == [start |-> <<>>, cur |-> 0, off |-> 0]

-----------------------------------------------------------------------------
\* MemBlk(size): _ref_count is 1.
NewMem(n) == [bytes |-> [i \in 1..n |-> Junk], ref |-> 1, live |-> TRUE]
\* MemBlk::deepCopy(), MemBlk::fillWith() and MemBlk::resize(), which is realloc().
MemDeepCopy(x) == [x EXCEPT !.ref = 1]
MemFillWith(x, v) == [x EXCEPT !.bytes = [i \in DOMAIN @ |-> v]]
MemResize(x, n) == [x EXCEPT !.bytes = [i \in 1..n |-> IF i \in DOMAIN @ THEN @[i] ELSE Junk]]
FreeMem == [bytes |-> <<>>, ref |-> 0, live |-> FALSE]

\* The constructors BufBlk(size), with or without an allocator, and
\* BufBlk(data, size): the three pointers are the base.
View(b) == [blk |-> b, rd |-> 0, wr |-> 0, mark |-> 0]

\* The internal constructor BufBlk(memblk), which leaves _mark NULL, and the pointers
\* that are then taken from v.
ViewOf(v) == [blk |-> v.blk, rd |-> v.rd, wr |-> v.wr, mark |-> NoMark]

length(v) == v.wr - v.rd
capacity(m, v) == Len(m[v.blk].bytes)
freespace(m, v) == capacity(m, v) - v.wr
total_length(c) == FoldLeft(LAMBDA n, v : n + length(v), 0, c)

\* What reading from rd_ptr to wr_ptr, block after block, gives.
BytesOf(m, v) ==
    IF m[v.blk].live /\ v.wr <= capacity(m, v)
    THEN SubSeq(m[v.blk].bytes, v.rd + 1, v.wr) ELSE <<Junk>>
Bytes(m, c) == FlattenSeq([i \in 1..Len(c) |-> BytesOf(m, c[i])])

\* How many views of a sequence are on block b.
On(c, b) == Cardinality({i \in DOMAIN c : c[i].blk = b})

\* MemBlk::checkout() on each block of a sequence of views.
Checkout(m, c) == [b \in Blk |-> [m[b] EXCEPT !.ref = @ + On(c, b)]]

\* Mutant of ReleaseAll: the chained blocks are not released.
ReleaseHead(m, c) ==
    [b \in Blk |->
        LET n == IF c # <<>> /\ c[1].blk = b THEN 1 ELSE 0
        IN  IF n > 0 /\ m[b].ref - n < 1 THEN FreeMem ELSE [m[b] EXCEPT !.ref = @ - n]]

\* BufBlk::release() on a chain: MemBlk::release() on each block, and the block
\* whose count falls below one is freed.
ReleaseAll(m, c) ==
    [b \in Blk |-> IF On(c, b) > 0 /\ m[b].ref - On(c, b) < 1 THEN FreeMem
                   ELSE [m[b] EXCEPT !.ref = @ - On(c, b)]]

\* malloc() and new: the free blocks, in the order they are handed out.
Spare(m) == SetToSeq({b \in Blk : ~m[b].live})

\* copyFrom(): as many bytes as there is room for, and wr_ptr moves past them.
Fits(m, v, s) == Take(s, 0, freespace(m, v))
CopyFromMem(m, v, s) ==
    LET w == Fits(m, v, s)
    IN  [m EXCEPT ![v.blk].bytes =
            [i \in DOMAIN @ |-> IF i > v.wr /\ i <= v.wr + Len(w) THEN w[i - v.wr] ELSE @[i]]]
CopyFromView(m, v, s) == [v EXCEPT !.wr = @ + Len(Fits(m, v, s))]

-----------------------------------------------------------------------------
\* Mutant of Duplicate: only the first view is copied.
DuplicateHead(c) == SubSeq(c, 1, 1)

\* A duplicate: assignFromBlk().  The chained views come from the internal
\* constructor, so they have the pointers of the original and no mark.
Duplicate(c) ==
    [i \in 1..Len(c) |-> IF i = 1 THEN c[1] ELSE ViewOf(c[i])]

\* The view in which the rd_offset-th readable byte of a chain lies, 0 when there
\* is none, and how far into the view it is (the code's "need").
Before(c, k) == total_length(SubSeq(c, 1, k - 1))
Locate(c, rd_offset) ==
    LET past == {k \in DOMAIN c : Before(c, k) + length(c[k]) > rd_offset}
    IN  IF past = {} THEN 0 ELSE CHOOSE k \in past : \A j \in past : k <= j

\* eatBytes() when the bytes lie in one view: they are shifted out, or rd_ptr or
\* wr_ptr moves, or the whole view goes.
EatInOne(m, c, k, need, size) ==
    LET v == c[k]
        b == v.blk
    IN  IF length(v) - need - size > 0
        THEN IF need > 0
             THEN [mem |-> [m EXCEPT ![b].bytes =
                        [i \in DOMAIN @ |-> IF i > v.rd + need /\ i <= v.wr - size
                                            THEN @[i + size] ELSE @[i]]],
                   chain |-> [c EXCEPT ![k].wr = @ - size]]
             ELSE [mem |-> m, chain |-> [c EXCEPT ![k].rd = @ + size]]
        ELSE IF need > 0
             THEN [mem |-> m, chain |-> [c EXCEPT ![k].wr = v.rd + need]]
             ELSE [mem |-> ReleaseAll(m, <<v>>), chain |-> RemoveAt(c, k)]

\* eatBytes() when the bytes go on past view k.  left is what remains to be eaten
\* after view k; look is the view the chain goes on with, back the last view that
\* is eaten whole.
EatAcross(m, c, k, need, size) ==
    LET left  == size - (length(c[k]) - need)
        kept  == [c EXCEPT ![k].wr = IF need > 0 THEN @ - (length(c[k]) - need) ELSE @]
        front == IF need > 0 THEN k + 1 ELSE k
        Eaten(j) == Before(c, j + 1) - Before(c, k + 1)
        ends  == {j \in (k + 1)..Len(c) : Eaten(j) >= left}
        last  == IF ends = {} THEN Len(c) + 1 ELSE CHOOSE j \in ends : \A i \in ends : j <= i
        whole == last <= Len(c) /\ Eaten(last) = left
        look  == IF whole THEN last + 1 ELSE last
        back  == IF look - 1 > k THEN look - 1 ELSE front
        cut   == IF look = last /\ last <= Len(c)
                 THEN [kept EXCEPT ![last].rd = @ + left - Eaten(last - 1)] ELSE kept
        rest  == SubSeq(cut, look, Len(cut))
    IN  IF front > Len(c) THEN [mem |-> m, chain |-> cut]
        ELSE IF need > 0
        THEN IF look = front THEN [mem |-> m, chain |-> cut]
             ELSE [mem |-> ReleaseAll(m, SubSeq(cut, front, back)),
                   chain |-> SubSeq(cut, 1, k) \o rest]
        \* The eaten bytes begin at the start of view k, which is then both the
        \* last view kept (prev) and the first to go (front).
        ELSE IF back # front
        THEN [mem |-> ReleaseAll(m, <<cut[k]>> \o rest),
              chain |-> IF k = 1 THEN rest ELSE SubSeq(cut, 1, k) \o rest]
        ELSE [mem |-> m, chain |-> IF k = 1 THEN rest ELSE cut]

eatBytes(m, c, rd_offset, size) ==
    LET k    == Locate(c, rd_offset)
        need == rd_offset - Before(c, k)
    IN  IF k = 0 THEN [mem |-> m, chain |-> c]
        ELSE IF length(c[k]) - need - size >= 0 THEN EatInOne(m, c, k, need, size)
        ELSE EatAcross(m, c, k, need, size)

\* The end of getContigBlock(): were all the bytes there?
AllCopied(copied, size) == Len(copied) = size

\* getContigBlock(): a view on the block when the bytes lie in one, else a new
\* block they are copied to.  The new block is handed out even when the chain ends
\* before it is full and the call returns false.
getContigBlock(m, c, rd_offset, size, b) ==
    LET k    == Locate(c, rd_offset)
        need == rd_offset - Before(c, k)
        v    == c[k]
        tail == Take(Bytes(m, SubSeq(c, k, Len(c))), need, size)
        whole == [bytes |-> [i \in 1..size |-> IF i <= Len(tail) THEN tail[i] ELSE Junk],
                  ref |-> 1, live |-> TRUE]
    IN  IF k = 0 THEN [ok |-> FALSE, mem |-> m, out |-> <<>>]
        ELSE IF length(v) - need - size >= 0
        THEN [ok |-> TRUE, mem |-> Checkout(m, <<v>>),
              out |-> <<[blk |-> v.blk, rd |-> v.rd + need, wr |-> v.rd + need + size,
                         mark |-> v.rd + need]>>]
        ELSE IF k = Len(c) THEN [ok |-> FALSE, mem |-> m, out |-> <<>>]
        ELSE [ok |-> AllCopied(tail, size), mem |-> [m EXCEPT ![b] = whole],
              out |-> <<[View(b) EXCEPT !.wr = Len(tail)]>>]

-----------------------------------------------------------------------------
\* The program starts from a chain it has built: each block allocated and filled up
\* to some point, the first one partly read.  Byte i of block b is 10 b + i.
Written(b, n) == [bytes |-> [i \in 1..n |-> 10 * b + i], ref |-> 1, live |-> TRUE]
BuiltMem(n, size) == [b \in Blk |-> IF b <= n THEN Written(b, size[b]) ELSE FreeMem]
BuiltChain(n, r, w) ==
    [i \in 1..n |-> [blk |-> i, rd |-> IF i = 1 THEN r ELSE 0, wr |-> w[i], mark |-> 0]]
BuiltChains(n, r, w) == [h \in Handle |-> IF h = 1 THEN BuiltChain(n, r, w) ELSE <<>>]

Init ==
    \E n \in 1..MaxBuilt : \E size \in [1..n -> Sizes] :
    \E w \in [1..n -> 0..Wide] : \E r \in 0..w[1] :
       /\ \A i \in 1..n : w[i] <= size[i]
       /\ mem = BuiltMem(n, size)
       /\ chain = BuiltChains(n, r, w)
       /\ text = [h \in Handle |-> IF h = 1 THEN Bytes(mem, chain[1]) ELSE <<>>]
       /\ iter = NoIter /\ handed = <<>> /\ said = <<TRUE, TRUE>>
       /\ calls = n

Held(h) == chain[h] # <<>>
SetChain(h, c, s) ==
    /\ chain' = [chain EXCEPT ![h] = c]
    /\ text' = [text EXCEPT ![h] = s]

\* A program may write into a block, move its bytes or its base only while no other
\* view is on it; getRefCount() is there to find that out.
Alone(v) == mem[v.blk].ref = 1
Cut(s, from, n) == Take(s, 0, from) \o SubSeq(s, from + n + 1, Len(s))

\* new BufBlk(size) and addToEnd() on the chain.
AddToEnd(h) ==
    \E n \in Sizes :
       /\ Spare(mem) # <<>>
       /\ mem' = [mem EXCEPT ![Head(Spare(mem))] = NewMem(n)]
       /\ SetChain(h, Append(chain[h], View(Head(Spare(mem)))), text[h])
       /\ UNCHANGED <<iter, handed, said>>

\* copyFrom() on the i-th block; the bytes 1, 2, ... stand for the data.
CopyFrom(h, i) ==
    \E n \in 1..Wide :
       LET v == chain[h][i]
           s == [j \in 1..n |-> j]
           k == Before(chain[h], i) + length(v)
       IN  /\ Alone(v)
           /\ mem' = CopyFromMem(mem, v, s)
           /\ SetChain(h, [chain[h] EXCEPT ![i] = CopyFromView(mem, v, s)],
                       SubSeq(text[h], 1, k) \o Fits(mem, v, s) \o SubSeq(text[h], k + 1, Len(text[h])))
           /\ UNCHANGED <<iter, handed, said>>

\* The pointers of the i-th view change and no memory does.
SetView(h, i, v, s) ==
    /\ SetChain(h, [chain[h] EXCEPT ![i] = v],
                SubSeq(text[h], 1, Before(chain[h], i)) \o s
                \o SubSeq(text[h], Before(chain[h], i + 1) + 1, Len(text[h])))
    /\ UNCHANGED <<mem, iter, handed, said>>

Reset(h, i) == SetView(h, i, View(chain[h][i].blk), <<>>)

IncRdPtr(h, i) ==
    LET v == chain[h][i]
    IN  /\ length(v) > 0
        /\ SetView(h, i, [v EXCEPT !.rd = @ + 1], Tail(BytesOf(mem, v)))

SetMark(h, i) ==
    LET v == chain[h][i] IN SetView(h, i, [v EXCEPT !.mark = v.rd], BytesOf(mem, v))

\* rewind(0).  The chained blocks of a duplicate have no mark to go back to.
Rewind(h, i) ==
    LET v == chain[h][i]
    IN  /\ v.mark # NoMark
        /\ SetView(h, i, [v EXCEPT !.rd = v.mark], SubSeq(mem[v.blk].bytes, v.mark + 1, v.wr))

\* fillWith(): the whole block, whatever the pointers.
FillWith(h, i) ==
    LET v == chain[h][i]
        k == Before(chain[h], i)
    IN  /\ Alone(v)
        /\ mem' = [mem EXCEPT ![v.blk] = MemFillWith(@, 9)]
        /\ text' = [text EXCEPT ![h] = [j \in DOMAIN @ |->
                       IF j > k /\ j <= k + length(v) THEN 9 ELSE @[j]]]
        /\ UNCHANGED <<chain, iter, handed, said>>

\* resize(): the three pointers keep their offsets.
Resize(h, i) ==
    \E n \in Sizes :
       LET v == chain[h][i]
       IN  /\ Alone(v) /\ v.wr <= n
           /\ mem' = [mem EXCEPT ![v.blk] = MemResize(@, n)]
           /\ UNCHANGED <<chain, text, iter, handed, said>>

\* duplicate() into an empty handle.
DuplicateInto(h, g) ==
    /\ ~Held(g)
    /\ mem' = Checkout(mem, Duplicate(chain[h]))
    /\ SetChain(g, Duplicate(chain[h]), text[h])
    /\ UNCHANGED <<iter, handed, said>>

\* operator=: the old chain is released before the new one is checked out.
Assign(h, g) ==
    /\ Held(g) /\ g # h
    /\ mem' = Checkout(ReleaseAll(mem, chain[g]), Duplicate(chain[h]))
    /\ SetChain(g, Duplicate(chain[h]), text[h])
    /\ UNCHANGED <<iter, handed, said>>

\* deepCopy(): new blocks with the same bytes, the pointers at the same offsets.
CopiedMem(m, c, new) ==
    [b \in Blk |-> IF b \in Range(new)
                   THEN MemDeepCopy(m[c[CHOOSE i \in DOMAIN new : new[i] = b].blk])
                   ELSE m[b]]

CopiedChain(c, new) == [i \in 1..Len(c) |-> [c[i] EXCEPT !.blk = new[i]]]

DeepCopy(h, g) ==
    /\ ~Held(g) /\ Len(chain[h]) <= Len(Spare(mem))
    /\ mem' = CopiedMem(mem, chain[h], SubSeq(Spare(mem), 1, Len(chain[h])))
    /\ SetChain(g, CopiedChain(chain[h], SubSeq(Spare(mem), 1, Len(chain[h]))), text[h])
    /\ UNCHANGED <<iter, handed, said>>

Release(h) ==
    /\ mem' = ReleaseAll(mem, chain[h])
    /\ SetChain(h, <<>>, <<>>)
    /\ UNCHANGED <<iter, handed, said>>

\* nexblk() and setNexblk(NULL): the chain is parted after its first block.
Part(h, g) ==
    /\ ~Held(g) /\ Len(chain[h]) > 1
    /\ chain' = [chain EXCEPT ![h] = SubSeq(@, 1, 1), ![g] = Tail(chain[h])]
    /\ text' = [text EXCEPT ![h] = SubSeq(@, 1, length(chain[h][1])),
                            ![g] = SubSeq(text[h], length(chain[h][1]) + 1, Len(text[h]))]
    /\ UNCHANGED <<mem, iter, handed, said>>

\* Where a call of eatBytes() in this project's runs begins and how much it eats:
\* the bytes lie in one block, or begin inside one.
EatStaysClear(c, rd_offset, size) ==
    LET k    == Locate(c, rd_offset)
        need == rd_offset - Before(c, k)
    IN  k # 0 /\ ~(need > 0) => length(c[k]) - need - size >= 0

EatBytes(h, from, n) ==
    LET r == eatBytes(mem, chain[h], from, n)
    IN  /\ \A i \in DOMAIN chain[h] : Alone(chain[h][i])
        /\ mem' = r.mem
        /\ SetChain(h, r.chain, Cut(text[h], from, n))
        /\ UNCHANGED <<iter, handed, said>>

\* getContigBlock() into an empty handle.
GetContigBlock(h, g) ==
    \E from \in 0..total_length(chain[h]), n \in 1..Wide + 1 :
       LET r == getContigBlock(mem, chain[h], from, n, Head(Spare(mem)))
       IN  /\ ~Held(g) /\ Spare(mem) # <<>>
           /\ mem' = r.mem
           /\ SetChain(g, r.out, Take(text[h], from, IF r.out = <<>> THEN 0 ELSE n))
           /\ said' = <<r.ok, from + n <= Len(text[h])>>
           /\ UNCHANGED <<iter, handed>>

-----------------------------------------------------------------------------
\* The iterator works on a duplicate of its own.
NewIter(h) ==
    /\ iter = NoIter
    /\ iter' = [start |-> Duplicate(chain[h]), cur |-> 1, off |-> 0]
    /\ mem' = Checkout(mem, iter'.start)
    /\ handed' = <<>>
    /\ UNCHANGED <<chain, text, said>>

Next1(k) == IF k < Len(iter.start) THEN k + 1 ELSE 0    \* nexblk()
Unread == LET b == BytesOf(mem, iter.start[iter.cur]) IN SubSeq(b, iter.off + 1, Len(b))
NoMax == -1

\* Mutant of getNextChunk: the offset stays when the iterator goes on.
getNextChunkKeepsOff(max) ==
    IF max = NoMax \/ max >= Len(Unread)
    THEN [chunk |-> Unread, cur |-> Next1(iter.cur), off |-> iter.off]
    ELSE [chunk |-> SubSeq(Unread, 1, max), cur |-> iter.cur, off |-> iter.off + max]

\* getNextChunk(): the chunk, and where the iterator is afterwards.
getNextChunk(max) ==
    IF max = NoMax \/ max >= Len(Unread)
    THEN [chunk |-> Unread, cur |-> Next1(iter.cur), off |-> 0]
    ELSE [chunk |-> SubSeq(Unread, 1, max), cur |-> iter.cur, off |-> iter.off + max]

previewNextChunk(max) ==
    IF max = NoMax \/ max > Len(Unread) THEN Unread ELSE SubSeq(Unread, 1, max)

\* copyNextChunks(): fills the space from as many blocks as it takes.
copyNextChunks(space) ==
    LET Upto(j) == total_length(SubSeq(iter.start, iter.cur, j)) - iter.off
        ends == {j \in iter.cur..Len(iter.start) : Upto(j) >= space}
        j    == CHOOSE i \in ends : \A k \in ends : i <= k
        all  == Bytes(mem, SubSeq(iter.start, iter.cur, Len(iter.start)))
    IN  [chunk |-> Take(all, iter.off, space),
         cur |-> IF ends = {} THEN 0 ELSE IF Upto(j) = space THEN Next1(j) ELSE j,
         off |-> IF ends = {} \/ Upto(j) = space THEN 0
                 ELSE IF j = iter.cur THEN iter.off + space ELSE space - Upto(j - 1)]

Advance(r) ==
    /\ iter' = [iter EXCEPT !.cur = r.cur, !.off = r.off]
    /\ handed' = handed \o r.chunk
    /\ UNCHANGED <<mem, chain, text, said>>

GetNextChunk(max) == iter.cur # 0 /\ Advance(getNextChunk(max))
CopyNextChunks(space) == iter.cur # 0 /\ Advance(copyNextChunks(space))

IterRewind ==
    /\ iter # NoIter
    /\ iter' = [iter EXCEPT !.cur = 1, !.off = 0]
    /\ handed' = <<>>
    /\ UNCHANGED <<mem, chain, text, said>>

DeleteIter ==
    /\ iter # NoIter
    /\ mem' = ReleaseAll(mem, iter.start)
    /\ iter' = NoIter /\ handed' = <<>>
    /\ UNCHANGED <<chain, text, said>>

-----------------------------------------------------------------------------
OnView(h, i) ==
    \/ CopyFrom(h, i) \/ Reset(h, i) \/ IncRdPtr(h, i) \/ SetMark(h, i)
    \/ Rewind(h, i) \/ FillWith(h, i) \/ Resize(h, i)

OnChain(h) ==
    \/ AddToEnd(h) \/ Release(h) \/ NewIter(h)
    \/ \E i \in DOMAIN chain[h] : OnView(h, i)
    \/ \E g \in Handle : DuplicateInto(h, g) \/ Assign(h, g) \/ DeepCopy(h, g)
                         \/ Part(h, g) \/ GetContigBlock(h, g)

OnIter ==
    \/ \E n \in 1..Wide : GetNextChunk(n) \/ CopyNextChunks(n)
    \/ GetNextChunk(NoMax) \/ IterRewind \/ DeleteIter

Eat(h) ==
    \E from \in 0..total_length(chain[h]), n \in 1..Wide + 1 :
        EatStaysClear(chain[h], from, n) /\ EatBytes(h, from, n)

Call == calls < MaxCalls /\ calls' = calls + 1

Next ==
    \/ OnIter /\ UNCHANGED calls
    \/ Call /\ \E h \in Handle : Held(h) /\ (OnChain(h) \/ Eat(h))

\* With every call of eatBytes() that its comment allows: the bytes are there.
EatAny(h) ==
    \E from \in 0..total_length(chain[h]), n \in 1..Wide + 1 :
        from + n <= total_length(chain[h]) /\ EatBytes(h, from, n)
EatNext == Call /\ \E h \in Handle : Held(h) /\ EatAny(h)
EatSpec == Init /\ [][EatNext]_bufVars

-----------------------------------------------------------------------------
\* Every chain reads as the byte string the calls on it make: eatBytes() removes
\* the bytes it was asked to, across blocks and inside them, copies, parts and
\* contiguous blocks hold what they were made from, and no call on one chain
\* changes what another one reads.
ReadsAsText == \A h \in Handle : Bytes(mem, chain[h]) = text[h]

\* "Maintains ref count by way of MemBlk" (class comment): a block counts the
\* views on it, and is freed when the last one goes and not before.
ViewsOn(b) ==
    Cardinality(UNION {{h} \X {i \in DOMAIN chain[h] : chain[h][i].blk = b} : h \in Handle})
    + On(iter.start, b)
RefCountsViews ==
    \A b \in Blk : mem[b].ref = ViewsOn(b) /\ mem[b].live = (ViewsOn(b) > 0)

\* The iterator hands out the bytes of the chain it was made from, each once and in
\* order, and reports the end only after the last one.
IterHandsOutAll ==
    LET all == Bytes(mem, iter.start)
    IN  IsPrefix(handed, all) /\ (iter.cur = 0 => handed = all)

\* previewNextChunk() shows what the next getNextChunk() will return.
PreviewIsNext ==
    iter.cur # 0 => \A max \in {NoMax} \cup 0..Wide :
        previewNextChunk(max) = getNextChunk(max).chunk

\* getContigBlock() succeeds exactly when the bytes are there.
ContigAnswerRight == said[1] = said[2]

\* What a reader is given is right: the chunks of the iterator are the chain from its
\* start without a gap, wherever they end inside a block, a preview shows the next
\* chunk, and a contiguous block is promised only when it is there.
ReadersServed == IterHandsOutAll /\ PreviewIsNext /\ ContigAnswerRight
=============================================================================
