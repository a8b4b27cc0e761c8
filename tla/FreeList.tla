------------------------------ MODULE FreeList ------------------------------
(***************************************************************************)
(* What a pool's free list promises its users: `alloc` atomically takes    *)
(* the most recently freed slot, `free` atomically returns a slot to the   *)
(* top, and a slot that is not free is held by the thread it was handed    *)
(* to.  util/tagged-treiber is shown to implement this.                    *)
(***************************************************************************)
EXTENDS Integers, Sequences

CONSTANTS Threads, Slots

VARIABLES
  free,   \* the free slots, the next one to hand out last
  held    \* the slots each thread holds

DropTop(q) == [i \in 1 .. Len(q) - 1 |-> q[i]]

Init ==
  /\ free \in Seq(Slots)
  /\ \A i, j \in 1 .. Len(free) : i # j => free[i] # free[j]
  /\ Slots \subseteq {free[i] : i \in 1 .. Len(free)}
  /\ held = [t \in Threads |-> {}]

\* `pop` returns Some(top).
Alloc(t) ==
  /\ free # <<>>
  /\ held' = [held EXCEPT ![t] = @ \cup {free[Len(free)]}]
  /\ free' = DropTop(free)

\* `push` of a slot the caller holds.
Free(t, s) ==
  /\ s \in held[t]
  /\ held' = [held EXCEPT ![t] = @ \ {s}]
  /\ free' = Append(free, s)

\* A slot changes hands between threads without passing through the list.
Transfer(t, u, s) ==
  /\ t # u /\ s \in held[t]
  /\ held' = [held EXCEPT ![t] = @ \ {s}, ![u] = @ \cup {s}]
  /\ UNCHANGED free

Next ==
  \E t \in Threads :
    \/ Alloc(t)
    \/ \E s \in Slots : Free(t, s)
    \/ \E u \in Threads, s \in Slots : Transfer(t, u, s)

Spec == Init /\ [][Next]_<<free, held>>
=============================================================================
