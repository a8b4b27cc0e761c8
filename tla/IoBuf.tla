------------------------------- MODULE IoBuf --------------------------------
(***************************************************************************)
(* Buffers and chains of buffers.  The two machines are independent; the   *)
(* second has its own ChainInit and ChainNext.                             *)
(***************************************************************************)
EXTENDS Integers, Sequences, FiniteSets

(***************************************************************************)
(* The buffer handles of src/crates/util/iobuf: IOBuf and OwnedIOBuf       *)
(* (iobuf.rs, owned.rs), the storage behind them (storage.rs) and the slab *)
(* pool (pool.rs).                                                         *)
(*                                                                         *)
(* A handle is a window [off, off + len) of a region.  A region is a slab  *)
(* of the pool, a heap allocation, the caller's memory under a borrowed    *)
(* view, or static bytes.  Several handles see one region after share()    *)
(* and clone_shared(); a handle that is about to write a region others see *)
(* first moves to a copy of its own.  The tagged free list of the pool is  *)
(* the stack of TaggedTreiber; the pool's counter is bumped in a step of   *)
(* its own after the stack's, so handles of several threads interleave     *)
(* there.  view[h] is a ghost: the bytes the holder of h believes it has.  *)
(***************************************************************************)
CONSTANTS Handles,      \* the variables of the program that may hold a buffer
          Slabs,        \* slabs of the pool
          SlabSize,     \* bytes of a slab
          Frames,       \* the byte strings a caller may store, prepend or append
          Pokes,        \* what a caller writes over the bytes it has
          StaticBytes,  \* the contents of a static buffer
          Headroom,     \* of a new heap buffer
          Tailroom,
          CountMod      \* the width of free_count

VARIABLES buf, mem, free, count, busy, view

vars == <<buf, mem, free, count, busy, view>>

Pool == 1 .. Slabs
Heap == Slabs + 1 .. Slabs + Cardinality(Handles)
Static == 0
Scratch == -1
Regions == Pool \cup Heap \cup {Static, Scratch}

NoBuf == [kind |-> "none", reg |-> Static, off |-> 0, len |-> 0]
Live == {h \in Handles : buf[h].kind # "none"}
Users(r) == {h \in Live : buf[h].reg = r}
NewHeap == CHOOSE r \in Heap : Users(r) = {}
Zeros(n) == [i \in 1 .. n |-> 0]

capacity(h) == Len(mem[buf[h].reg])
Window(r, off, len) == SubSeq(mem[r], off + 1, off + len)
data(h) == Window(buf[h].reg, buf[h].off, buf[h].len)
tailroom(h) == capacity(h) - (buf[h].off + buf[h].len)

Init == /\ buf = [h \in Handles |-> NoBuf]
        /\ mem = [r \in Regions |-> CASE r = Static -> StaticBytes
                                      [] r \in Pool \cup {Scratch} -> Zeros(SlabSize)
                                      [] OTHER -> << >>]
        /\ free = [i \in 1 .. Slabs |-> i]
        /\ count = Slabs
        /\ busy = [h \in Handles |-> "no"]
        /\ view = [h \in Handles |-> << >>]

Idle(h) == busy[h] = "no"
Held(h) == Idle(h) /\ h \in Live
Vacant(h) == Idle(h) /\ h \notin Live

-----------------------------------------------------------------------------
(* Making a handle. *)

\* A slab of the pool with the frame copied in; the count follows.
alloc(h, f) == /\ Vacant(h)
               /\ Len(f) <= SlabSize
               /\ free # << >>
               /\ LET r == Head(free)
                  IN  /\ buf' = [buf EXCEPT ![h] = [kind |-> "ext", reg |-> r, off |-> 0, len |-> Len(f)]]
                      /\ mem' = [mem EXCEPT ![r] = f \o SubSeq(@, Len(f) + 1, SlabSize)]
               /\ free' = Tail(free)
               /\ busy' = [busy EXCEPT ![h] = "popped"]
               /\ view' = [view EXCEPT ![h] = f]
               /\ UNCHANGED count

pop_slot_count(h) == /\ busy[h] = "popped"
                     /\ busy' = [busy EXCEPT ![h] = "no"]
                     /\ count' = (count - 1) % CountMod
                     /\ UNCHANGED <<buf, mem, free, view>>

from_slice_with_headroom(h, f) ==
    /\ Vacant(h)
    /\ buf' = [buf EXCEPT ![h] = [kind |-> "heap", reg |-> NewHeap, off |-> Headroom, len |-> Len(f)]]
    /\ mem' = [mem EXCEPT ![NewHeap] = Zeros(Headroom) \o f \o Zeros(Tailroom)]
    /\ view' = [view EXCEPT ![h] = f]
    /\ UNCHANGED <<free, count, busy>>

from_static(h) ==
    /\ Vacant(h)
    /\ buf' = [buf EXCEPT ![h] = [kind |-> "static", reg |-> Static, off |-> 0, len |-> Len(StaticBytes)]]
    /\ view' = [view EXCEPT ![h] = StaticBytes]
    /\ UNCHANGED <<mem, free, count, busy>>

\* A view of the caller's memory.  The test build's tracker panics on a view
\* that overlaps a live one: that is the caller's contract.
borrow(h, off, len) ==
    /\ Vacant(h)
    /\ Users(Scratch) = {}
    /\ off + len <= SlabSize
    /\ buf' = [buf EXCEPT ![h] = [kind |-> "borrowed", reg |-> Scratch, off |-> off, len |-> len]]
    /\ view' = [view EXCEPT ![h] = Window(Scratch, off, len)]
    /\ UNCHANGED <<mem, free, count, busy>>

-----------------------------------------------------------------------------
(* Moving the window. *)

Windowed(h, off, len) ==
    /\ buf' = [buf EXCEPT ![h].off = off, ![h].len = len]
    /\ UNCHANGED <<mem, free, count, busy>>

consume(h, n) == /\ Held(h)
                 /\ n <= buf[h].len
                 /\ Windowed(h, buf[h].off + n, buf[h].len - n)
                 /\ view' = [view EXCEPT ![h] = SubSeq(@, n + 1, Len(@))]

trim_end(h, n) == /\ Held(h)
                  /\ n <= buf[h].len
                  /\ Windowed(h, buf[h].off, buf[h].len - n)
                  /\ view' = [view EXCEPT ![h] = SubSeq(@, 1, Len(@) - n)]

Least(a, b) == IF a < b THEN a ELSE b
narrow(h, off, len) ==
    /\ Held(h)
    /\ off <= buf[h].len
    /\ LET kept == Least(buf[h].len - off, len)
       IN  /\ Windowed(h, buf[h].off + off, kept)
           /\ view' = [view EXCEPT ![h] = SubSeq(@, off + 1, off + kept)]

-----------------------------------------------------------------------------
(* Sharing, and writing. *)

\* A borrowed view is copied to the heap; an owned buffer stays as it is.
Owned(h) ==
    IF buf[h].kind = "borrowed"
    THEN [buf |-> [kind |-> "heap", reg |-> NewHeap, off |-> 0, len |-> buf[h].len],
          mem |-> [mem EXCEPT ![NewHeap] = data(h)]]
    ELSE [buf |-> buf[h], mem |-> mem]

into_owned(h) == /\ Held(h)
                 /\ buf' = [buf EXCEPT ![h] = Owned(h).buf]
                 /\ mem' = Owned(h).mem
                 /\ UNCHANGED <<free, count, busy, view>>

share(h) == /\ Held(h)
            /\ LET o == Owned(h)
               IN  /\ buf' = [buf EXCEPT ![h] = IF o.buf.kind = "static" THEN o.buf
                                                ELSE [o.buf EXCEPT !.kind = "shared"]]
                   /\ mem' = o.mem
            /\ UNCHANGED <<free, count, busy, view>>

clone_shared(h, g) == /\ Held(h)
                      /\ Vacant(g)
                      /\ buf[h].kind \in {"shared", "static"}
                      /\ buf' = [buf EXCEPT ![g] = buf[h]]
                      /\ view' = [view EXCEPT ![g] = view[h]]
                      /\ UNCHANGED <<mem, free, count, busy>>

\* Leave a region that other handles see, for a heap copy of the window in a
\* region of the same shape.
cow_if_shared_aliased(h) ==
    IF buf[h].kind = "shared" /\ Users(buf[h].reg) # {h}
    THEN [buf |-> [buf[h] EXCEPT !.kind = "heap", !.reg = NewHeap],
          mem |-> [mem EXCEPT ![NewHeap] =
                      Zeros(buf[h].off) \o data(h) \o Zeros(tailroom(h))]]
    ELSE [buf |-> buf[h], mem |-> mem]

Put(m, r, at, f) == [m EXCEPT ![r] = [i \in DOMAIN @ |->
                        IF i > at /\ i <= at + Len(f) THEN f[i - at] ELSE @[i]]]

\* Every writer moves to its own region first, even when it then finds that
\* there is no room; a static buffer is refused.
Written(h, fits, at, off, len, f, seen) ==
    /\ Held(h)
    /\ LET c == cow_if_shared_aliased(h)
           ok == buf[h].kind # "static" /\ fits
       IN  /\ buf' = [buf EXCEPT ![h] = IF ok THEN [c.buf EXCEPT !.off = off, !.len = len] ELSE c.buf]
           /\ mem' = IF ok THEN Put(c.mem, c.buf.reg, at, f) ELSE c.mem
           /\ view' = IF ok THEN [view EXCEPT ![h] = seen] ELSE view
    /\ UNCHANGED <<free, count, busy>>

data_mut(h, f) == /\ buf[h].len = Len(f)
                  /\ Written(h, TRUE, buf[h].off, buf[h].off, buf[h].len, f, f)

prepend(h, f) == Written(h, Len(f) <= buf[h].off, buf[h].off - Len(f), buf[h].off - Len(f),
                         buf[h].len + Len(f), f, f \o view[h])

\* append_slice; extend_uninit hands the same window to a caller that fills it.
append_slice(h, f) == Written(h, Len(f) <= tailroom(h), buf[h].off + buf[h].len, buf[h].off,
                              buf[h].len + Len(f), f, view[h] \o f)

-----------------------------------------------------------------------------
(* Dropping a handle. *)

\* What a region nobody sees holds is of no account: it is blanked here.
\* The last handle of a slab returns it to the pool; the count follows.
drop(h) == /\ Held(h)
           /\ LET r == buf[h].reg
                  last == r \in Pool /\ Users(r) = {h}
              IN  /\ free' = IF last THEN <<r>> \o free ELSE free
                  /\ busy' = IF last THEN [busy EXCEPT ![h] = "pushed"] ELSE busy
                  /\ mem' = IF Users(r) = {h} /\ r # Static
                            THEN [mem EXCEPT ![r] = IF r \in Heap THEN << >> ELSE Zeros(SlabSize)]
                            ELSE mem
           /\ buf' = [buf EXCEPT ![h] = NoBuf]
           /\ view' = [view EXCEPT ![h] = << >>]
           /\ UNCHANGED count

push_slot_count(h) == /\ busy[h] = "pushed"
                      /\ busy' = [busy EXCEPT ![h] = "no"]
                      /\ count' = (count + 1) % CountMod
                      /\ UNCHANGED <<buf, mem, free, view>>

\* The tail a reader did not want: nothing when it read everything.
into_remainder(h, n) == \/ n < buf[h].len /\ consume(h, n)
                        \/ n = buf[h].len /\ drop(h)

Lens == 0 .. SlabSize
Next == \E h \in Handles :
    \/ \E f \in Frames : \/ alloc(h, f) \/ from_slice_with_headroom(h, f)
                         \/ prepend(h, f) \/ append_slice(h, f)
    \/ \E f \in Pokes : data_mut(h, f)
    \/ pop_slot_count(h)
    \/ push_slot_count(h)
    \/ from_static(h)
    \/ borrow(h, 0, SlabSize)
    \/ \E off, len \in Lens : narrow(h, off, len)
    \/ \E n \in Lens : trim_end(h, n) \/ into_remainder(h, n)
    \/ into_owned(h)
    \/ share(h)
    \/ \E g \in Handles : clone_shared(h, g)
    \/ drop(h)

Spec == Init /\ [][Next]_vars

-----------------------------------------------------------------------------
\* A buffer is a value: whatever the holders of other handles on the same
\* region write, trim, prepend or drop, a live handle reads exactly the bytes
\* its own holder put there (cow_if_shared_aliased, owned.rs, and the pool's
\* recycling of slabs).
BufferIsAValue == \A h \in Live : data(h) = view[h]

\* Every slab of the pool is on the free list once or under a live handle,
\* never both and never neither, and the counter is exact whenever nobody is
\* between the stack's step and the counter's (pool.rs, "exact once the pool
\* quiesces").
SlabsConserved ==
    /\ \A r \in Pool : Cardinality({i \in DOMAIN free : free[i] = r}) = IF Users(r) = {} THEN 1 ELSE 0
    /\ (\A h \in Handles : Idle(h)) => count = Len(free)

-----------------------------------------------------------------------------
(***************************************************************************)
(* A byte string held in parts: Chain<B> and its Cursor                    *)
(* (src/crates/util/iobuf/src/chain.rs), and the multi-buffer frame        *)
(* accumulator built on it (src/crates/drivers/rx-coalesce/src/lib.rs).    *)
(*                                                                         *)
(* A chain has three representations.  Only "many" carries a total length, *)
(* which callers that shrink a part in place must correct themselves.      *)
(* want and frame are ghosts: the strings the chain and the accumulator    *)
(* stand for.                                                              *)
(***************************************************************************)
CONSTANTS Pieces,        \* the byte strings pushed
          PartHeadroom,  \* bytes that may be prepended to a part in place
          MaxParts,      \* bound on the parts of a chain
          Timeout,       \* the accumulator's timeout, in ticks
          MaxTime        \* bound on the clock

VARIABLES chain, want, stash, frame, started, now

chainVars == <<chain, want, stash, frame, started, now>>

Empty == [repr |-> "empty", parts |-> << >>, total |-> 0]
NoChain == [repr |-> "none", parts |-> << >>, total |-> 0]

with_capacity(n) == IF n <= 1 THEN Empty ELSE [Empty EXCEPT !.repr = "many"]

Part(d, room) == [d |-> d, room |-> room]
Front(c) == c.parts[1]
Front0Len(c) == IF c.parts = << >> THEN 0 ELSE Len(Front(c).d)

total_len(c) == CASE c.repr = "empty" -> 0
                  [] c.repr = "single" -> Len(Front(c).d)
                  [] OTHER -> c.total

\* The total of a chain of many parts is not kept up.
JoinedUncounted(c, p, parts) ==
    CASE p.d = << >> -> c
      [] p.d # << >> /\ c.repr = "many" -> [c EXCEPT !.parts = parts]
      [] p.d # << >> /\ c.repr = "empty" -> [c EXCEPT !.repr = "single", !.parts = <<p>>]
      [] OTHER -> [repr |-> "many", parts |-> parts, total |-> Len(Front(c).d) + Len(p.d)]

\* A part joins at one end; the second part of a single chain makes it "many".
Joined(c, p, parts) ==
    CASE p.d = << >> -> c
      [] p.d # << >> /\ c.repr = "many" -> [c EXCEPT !.parts = parts, !.total = @ + Len(p.d)]
      [] p.d # << >> /\ c.repr = "empty" -> [c EXCEPT !.repr = "single", !.parts = <<p>>]
      [] OTHER -> [repr |-> "many", parts |-> parts, total |-> Len(Front(c).d) + Len(p.d)]
push_back(c, p) == Joined(c, p, Append(c.parts, p))
push_front(c, p) == Joined(c, p, <<p>> \o c.parts)

\* A part leaves at one end: [buf, chain].
Sub0(a, b) == IF a < b THEN 0 ELSE a - b
Without(c, p, rest) ==
    IF c.repr = "many" THEN [c EXCEPT !.parts = rest, !.total = Sub0(@, Len(p.d))] ELSE Empty
pop_front(c) == Without(c, Front(c), Tail(c.parts))
pop_back(c) == Without(c, c.parts[Len(c.parts)], SubSeq(c.parts, 1, Len(c.parts) - 1))

shrink_total_len(c, n) == IF c.repr = "many" THEN [c EXCEPT !.total = Sub0(@, n)] ELSE c
clear(c) == IF c.repr = "many" THEN [c EXCEPT !.parts = << >>, !.total = 0] ELSE Empty

\* prepend_in_place: into the first part's headroom, or refused.
prepend_in_place(c, d) ==
    LET grown == [c EXCEPT !.parts[1] = Part(d \o @.d, @.room - Len(d))]
    IN  IF c.repr = "many" THEN [grown EXCEPT !.total = @ + Len(d)] ELSE grown

\* front_mut().consume(n) and the correction its callers make.
ConsumeFront(c, n) ==
    shrink_total_len([c EXCEPT !.parts[1] = Part(SubSeq(@.d, n + 1, Len(@.d)), @.room + n)], n)

\* tcp/src/state.rs drain_chain_prefix, and the tail of tls/src/record.rs seal.
RECURSIVE drain_chain_prefix(_, _)
drain_chain_prefix(c, n) ==
    IF n = 0 \/ c.parts = << >> THEN c
    ELSE LET len == Len(Front(c).d)
         IN  IF len <= n THEN drain_chain_prefix(pop_front(c), n - len) ELSE ConsumeFront(c, n)

\* Make the first n bytes contiguous: gather parts, push the gathered one back.
RECURSIVE Gather(_, _, _)
Gather(c, n, got) ==
    IF Len(got) >= n THEN push_front(c, Part(got, 0))
    ELSE LET p == Front(c)
             rest == pop_front(c)
             take == IF n - Len(got) < Len(p.d) THEN n - Len(got) ELSE Len(p.d)
             cut == Part(SubSeq(p.d, take + 1, Len(p.d)), p.room + take)
         IN  Gather(IF take < Len(p.d) THEN push_front(rest, cut) ELSE rest, n, got \o SubSeq(p.d, 1, take))
pull(c, n) == IF n = 0 \/ Front0Len(c) >= n THEN c ELSE Gather(c, n, << >>)

-----------------------------------------------------------------------------
(* A cursor: the part it is in, the offset in it, and what it has passed. *)

cursor == [node |-> 1, off |-> 0, consumed |-> 0]
remaining(c, k) == Sub0(total_len(c), k.consumed)

RECURSIVE Skip(_, _, _)
Skip(c, k, n) ==
    IF n = 0 \/ k.node > Len(c.parts) THEN k
    ELSE LET avail == Len(c.parts[k.node].d) - k.off
         IN  IF n < avail THEN [k EXCEPT !.off = @ + n]
             ELSE Skip(c, [k EXCEPT !.node = @ + 1, !.off = 0], n - avail)
advance(c, k, n) ==
    LET m == IF n < remaining(c, k) THEN n ELSE remaining(c, k)
    IN  [Skip(c, k, m) EXCEPT !.consumed = k.consumed + m]

\* One contiguous piece of at most max bytes: [some, d, k].
RECURSIVE next_chunk(_, _, _)
next_chunk(c, k, max) ==
    IF k.node > Len(c.parts) THEN [some |-> FALSE, d |-> << >>, k |-> k]
    ELSE LET d == c.parts[k.node].d
             avail == Len(d) - k.off
             n == IF avail < max THEN avail ELSE max
             past == [k EXCEPT !.node = @ + 1, !.off = 0]
         IN  IF avail = 0 THEN next_chunk(c, past, max)
             ELSE [some |-> TRUE, d |-> SubSeq(d, k.off + 1, k.off + n),
                   k |-> IF k.off + n = Len(d) THEN [past EXCEPT !.consumed = @ + n]
                         ELSE [k EXCEPT !.off = @ + n, !.consumed = @ + n]]

\* Up to n bytes, across parts: [d, k].
RECURSIVE read(_, _, _)
read(c, k, n) ==
    LET r == next_chunk(c, k, n)
        rest == read(c, r.k, n - Len(r.d))
    IN  IF n = 0 \/ ~r.some THEN [d |-> << >>, k |-> r.k] ELSE [d |-> r.d \o rest.d, k |-> rest.k]

-----------------------------------------------------------------------------
ChainInit == /\ \E n \in {1, 2} : chain = with_capacity(n)
             /\ want = << >>
             /\ stash = NoChain
             /\ frame = << >>
             /\ started = 0
             /\ now = 0

Becomes(c, w) == /\ Len(c.parts) <= MaxParts
                 /\ chain' = c
                 /\ want' = w
                 /\ UNCHANGED <<stash, frame, started, now>>

PushBack(d) == Becomes(push_back(chain, Part(d, PartHeadroom)), want \o d)
PushFront(d) == Becomes(push_front(chain, Part(d, PartHeadroom)), d \o want)
PopFront == /\ chain.parts # << >>
            /\ Becomes(pop_front(chain), SubSeq(want, Len(Front(chain).d) + 1, Len(want)))
PopBack == /\ chain.parts # << >>
           /\ Becomes(pop_back(chain), SubSeq(want, 1, Len(want) - Len(chain.parts[Len(chain.parts)].d)))
Clear == Becomes(clear(chain), << >>)
Prepend(d) == /\ chain.parts # << >>
              /\ Len(d) <= Front(chain).room
              /\ Becomes(prepend_in_place(chain, d), d \o want)
Drain(n) == /\ n <= Len(want)
            /\ Becomes(drain_chain_prefix(chain, n), SubSeq(want, n + 1, Len(want)))
\* tcp_receive_segment (net/stack/src/rx.rs): the first part loses its headers.
Strip(n) == /\ chain.parts # << >>
            /\ n <= Len(Front(chain).d)
            /\ Becomes(ConsumeFront(chain, n), SubSeq(want, n + 1, Len(want)))
Pull(n) == /\ n <= total_len(chain)
           /\ Becomes(pull(chain, n), want)

-----------------------------------------------------------------------------
(* The accumulator of a frame that spans several receive buffers. *)

\* Buffers of a frame arrive until one carries the end of packet; the caller
\* takes the finished chain.
accumulate(d, eop) ==
    LET p == Part(d, 0)
        c == IF stash.repr = "none" THEN push_back(with_capacity(1), p) ELSE push_back(stash, p)
    IN  /\ Len(c.parts) <= MaxParts
        /\ stash' = IF eop THEN NoChain ELSE c
        /\ started' = IF stash.repr = "none" /\ ~eop THEN now ELSE started
        /\ chain' = IF eop THEN c ELSE chain
        /\ want' = IF eop THEN frame \o d ELSE want
        /\ frame' = IF eop THEN << >> ELSE frame \o d
        /\ UNCHANGED now

drop_stale == /\ stash.repr # "none"
              /\ now - started > Timeout
              /\ stash' = NoChain
              /\ frame' = << >>
              /\ UNCHANGED <<chain, want, started, now>>

Tick == /\ now < MaxTime
        /\ now' = now + 1
        /\ UNCHANGED <<chain, want, stash, frame, started>>

PieceLens == 1 .. 3
ChainNext == \/ \E d \in Pieces : PushBack(d) \/ PushFront(d) \/ Prepend(d)
             \/ PopFront \/ PopBack \/ Clear
             \/ \E n \in PieceLens : Drain(n) \/ Strip(n) \/ Pull(n)
             \/ \E d \in Pieces, eop \in BOOLEAN : accumulate(d, eop)
             \/ drop_stale
             \/ Tick

ChainSpec == ChainInit /\ [][ChainNext]_chainVars

-----------------------------------------------------------------------------
\* However it was built and cut, a chain is the string it stands for: its
\* total length is the string's (the field that front_mut's callers correct by
\* hand, chain.rs shrink_total_len), and a cursor that skips n bytes and reads
\* m returns exactly those, through empty parts as well (Cursor::read,
\* advance, next_chunk).
ChainIsItsString ==
    /\ total_len(chain) = Len(want)
    /\ \A n \in 0 .. Len(want) :
          LET k == advance(chain, cursor, n)
          IN  /\ remaining(chain, k) = Len(want) - n
              /\ read(chain, k, Len(want)).d = SubSeq(want, n + 1, Len(want))

\* After pull(n) the first part holds the first n bytes (chain.rs pull, which
\* otherwise panics on its own slice).
PullIsContiguous ==
    \A n \in 1 .. Len(want) :
        LET c == pull(chain, n) IN Len(Front(c).d) >= n /\ SubSeq(Front(c).d, 1, n) = SubSeq(want, 1, n)
=============================================================================
