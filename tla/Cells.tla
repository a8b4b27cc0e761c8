------------------------------- MODULE Cells --------------------------------
(***************************************************************************)
(* The small shared cells the runtime is built from: the event with its    *)
(* parked waker, and the cells that are written once.  The two machines are*)
(* independent.                                                            *)
(***************************************************************************)
EXTENDS Naturals, FiniteSets, Integers

(***************************************************************************)
(* The manual-reset event of crates/runtime/executor (event.rs) over the   *)
(* parked-waker slot (waker_slot.rs).  Producers on any worker publish an  *)
(* item and call set(); one consumer task runs the loop every user of the  *)
(* event runs (quic's accept_stream, recv, stream_drain_below and connect):*)
(* look, reset, look again, wait.  The consumer may be cancelled while it  *)
(* waits (a select that another branch won), which drops its registration. *)
(*                                                                         *)
(* Each atomic operation and each locked section is a step.                *)
(***************************************************************************)
CONSTANTS Producers, MaxItems   \* MaxItems bounds how often a producer publishes

VARIABLES set,      \* AsyncEvent::set
          slot,     \* WakerSlot::waker: whether the consumer's waker is parked
          present,  \* WakerSlot::present
          items,    \* what the producers published and nobody took
          made,     \* per producer, how many items it published
          prod,     \* per producer: "idle", "swap", "wake", "call"
          cons,     \* the consumer: "look", "reset", "again", "poll", "parked?", "asleep"
          called    \* the task's waker was called since it went to sleep

eventVars == <<set, slot, present, items, made, prod, cons, called>>

EventTypeOK ==
    /\ set \in BOOLEAN /\ slot \in BOOLEAN /\ present \in BOOLEAN /\ called \in BOOLEAN
    /\ items \in Nat /\ made \in [Producers -> 0 .. MaxItems]
    /\ prod \in [Producers -> {"idle", "swap", "wake", "call"}]
    /\ cons \in {"look", "reset", "again", "poll", "park", "check", "asleep"}

EventInit ==
         /\ set = FALSE /\ slot = FALSE /\ present = FALSE /\ called = FALSE
         /\ items = 0 /\ made = [p \in Producers |-> 0]
         /\ prod = [p \in Producers |-> "idle"] /\ cons = "look"

-----------------------------------------------------------------------------
(* Producers. *)

Publish(p) ==
    /\ prod[p] = "idle" /\ made[p] < MaxItems
    /\ items' = items + 1
    /\ made' = [made EXCEPT ![p] = @ + 1]
    /\ prod' = [prod EXCEPT ![p] = "swap"]
    /\ UNCHANGED <<set, slot, present, cons, called>>

\* AsyncEvent::set: only the call that raises the flag wakes.
Set(p) ==
    /\ prod[p] = "swap"
    /\ set' = TRUE
    /\ prod' = [prod EXCEPT ![p] = IF set THEN "idle" ELSE "wake"]
    /\ UNCHANGED <<slot, present, items, made, cons, called>>

\* WakerSlot::wake: the locked take, then the waker is called outside.
WakeParked(p) ==
    /\ prod[p] = "wake"
    /\ slot' = FALSE
    /\ present' = IF slot THEN FALSE ELSE present
    /\ prod' = [prod EXCEPT ![p] = IF slot THEN "call" ELSE "idle"]
    /\ UNCHANGED <<set, items, made, cons, called>>

CallWaker(p) ==
    /\ prod[p] = "call"
    /\ called' = TRUE
    /\ prod' = [prod EXCEPT ![p] = "idle"]
    /\ UNCHANGED <<set, slot, present, items, made, cons>>

-----------------------------------------------------------------------------
(* The consumer. *)

\* Both looks at the shared state: with something there it is all taken
\* (and the loop starts over), otherwise the loop goes on.
Look ==
    /\ cons \in {"look", "again"}
    /\ items' = 0
    /\ cons' = IF items > 0 THEN "look" ELSE IF cons = "look" THEN "reset" ELSE "poll"
    /\ UNCHANGED <<set, slot, present, made, prod, called>>

Reset ==
    /\ cons = "reset"
    /\ set' = FALSE
    /\ cons' = "again"
    /\ UNCHANGED <<slot, present, items, made, prod, called>>

\* A poll that parks and does not look again.
PollFlagOnce ==
    /\ cons \in {"poll", "check"}
    /\ IF set /\ cons = "poll" THEN cons' = "look" /\ slot' = FALSE /\ present' = (present /\ ~slot)
       ELSE cons' = (IF cons = "poll" THEN "park" ELSE "asleep") /\ UNCHANGED <<slot, present>>
    /\ UNCHANGED <<set, items, made, prod, called>>

\* WaitEvent::poll: the flag, then park, then the flag again.  Ready drops
\* the registration (Parked::drop, WakerSlot::clear_if).
PollFlag ==
    /\ cons \in {"poll", "check"}
    /\ IF set THEN cons' = "look" /\ slot' = FALSE /\ present' = (present /\ ~slot)
              ELSE cons' = (IF cons = "poll" THEN "park" ELSE "asleep") /\ UNCHANGED <<slot, present>>
    /\ UNCHANGED <<set, items, made, prod, called>>

Park ==
    /\ cons = "park"
    /\ slot' = TRUE /\ present' = TRUE
    /\ cons' = "check"
    /\ UNCHANGED <<set, items, made, prod, called>>

\* The executor polls a woken task again.
Repoll ==
    /\ cons = "asleep" /\ called
    /\ called' = FALSE
    /\ cons' = "poll"
    /\ UNCHANGED <<set, slot, present, items, made, prod>>

\* The future is dropped: exactly its own registration goes, and the task
\* comes back to the loop later.
Cancel ==
    /\ cons = "asleep"
    /\ slot' = FALSE /\ present' = (present /\ ~slot)
    /\ cons' = "look"
    /\ UNCHANGED <<set, items, made, prod, called>>

Consumer == Look \/ Reset \/ PollFlag \/ Park \/ Repoll
Producer(p) == Publish(p) \/ Set(p) \/ WakeParked(p) \/ CallWaker(p)
EventNext == Consumer \/ Cancel \/ \E p \in Producers : Producer(p)

\* Every worker keeps running its task; nothing has to be published or
\* cancelled.
EventSpec == /\ EventInit /\ [][EventNext]_eventVars /\ WF_eventVars(Consumer)
             /\ \A p \in Producers : WF_eventVars(Set(p) \/ WakeParked(p) \/ CallWaker(p))

-----------------------------------------------------------------------------
\* A consumer that sleeps with something published has been woken, or a
\* producer is still on its way to wake it: set() returning early because
\* the flag was already raised never loses the wakeup (event.rs:56-61).
NoLostWake ==
    cons = "asleep" /\ items > 0 =>
        called \/ \E p \in Producers : prod[p] # "idle" /\ (prod[p] # "wake" \/ slot)

\* The gate producers read without the lock never says "nobody" while a
\* waker is parked (waker_slot.rs:26-28).
GateIsSlot == present = slot

\* The event wakes whom it has to.
EventExact == NoLostWake /\ GateIsSlot

\* Whatever is published is eventually taken.
ItemsAreTaken == items > 0 ~> items = 0

-----------------------------------------------------------------------------
(***************************************************************************)
(* The two cells that are written once and read everywhere, of             *)
(* crates/runtime/worker: PerWorker<T> (lib.rs), a table allocated by      *)
(* whoever gets there first, and InitOnce<T> (once.rs), a flag and a value.*)
(* Threads call init, ensure_init, get and try_get at any time; the steps  *)
(* are the single loads and stores.                                        *)
(***************************************************************************)
CONSTANTS Threads, Calls   \* calls each thread makes
Null == "null"                  \* an unwritten value
NoThread == "nobody"
ASSUME CellAssumption == Calls \in Nat /\ NoThread \notin Threads

VARIABLES slots, len,   \* PerWorker: the pointer (the allocation's owner) and len
          tables,       \* tables allocated and not freed, with how far they are filled
          flag, value,  \* InitOnce
          th            \* per thread: pc, own (its table), got, left
onceVars == <<slots, len, tables, flag, value, th>>

Fresh == [pc |-> "idle", got |-> Null, left |-> Calls]
OnceInit == /\ slots = NoThread /\ len = 0 /\ tables = {} /\ flag = FALSE /\ value = Null
            /\ th = [t \in Threads |-> Fresh]

At(t, pc) == th[t].pc = pc
Go(t, pc) == th' = [th EXCEPT ![t].pc = pc]
Call(t) == At(t, "idle") /\ th[t].left > 0
Becomes(t, pc) == th' = [th EXCEPT ![t] = [pc |-> pc, got |-> Null, left |-> @.left - 1]]
Keeps(t, pc, got) == th' = [th EXCEPT ![t] = [pc |-> pc, got |-> got, left |-> @.left]]

(***************************************************************************)
(* PerWorker.                                                              *)
(***************************************************************************)
\* ensure_init / init: the pointer is null, so allocate and fill a table.
TableInit(t) == /\ Call(t)
                /\ Becomes(t, IF slots = NoThread THEN "filled" ELSE "idle")
                /\ tables' = IF slots = NoThread THEN tables \cup {t} ELSE tables
                /\ UNCHANGED <<slots, len, flag, value>>
TableLen(t) == /\ At(t, "filled") /\ len' = 1 /\ Go(t, "publish")
               /\ UNCHANGED <<slots, tables, flag, value>>
\* A store in place of the exchange.
TablePublishStore(t) == /\ At(t, "publish") /\ Go(t, "idle") /\ slots' = t
                        /\ UNCHANGED <<len, tables, flag, value>>

\* The exchange: the loser drops what it built.
TablePublish(t) == /\ At(t, "publish") /\ Go(t, "idle")
                   /\ IF slots = NoThread THEN slots' = t /\ UNCHANGED tables
                      ELSE tables' = tables \ {t} /\ UNCHANGED slots
                   /\ UNCHANGED <<len, flag, value>>
\* is_initialized and at(): the reference lives as long as the program.
TableRead(t) == /\ Call(t) /\ slots # NoThread
                /\ th' = [th EXCEPT ![t] = [pc |-> "holds", got |-> slots, left |-> @.left - 1]]
                /\ UNCHANGED <<slots, len, tables, flag, value>>

(***************************************************************************)
(* InitOnce.  init claims the flag, then writes the value, then stores the *)
(* flag again.                                                             *)
(***************************************************************************)
OnceClaim(t) == /\ Call(t)
                /\ Becomes(t, IF flag THEN "panic" ELSE "write")
                /\ flag' = TRUE /\ UNCHANGED <<slots, len, tables, value>>
OnceWrite(t) == /\ At(t, "write") /\ value' = t /\ Go(t, "release")
                /\ UNCHANGED <<slots, len, tables, flag>>
OnceRelease(t) == /\ At(t, "release") /\ flag' = TRUE /\ Go(t, "idle")
                  /\ UNCHANGED <<slots, len, tables, value>>
\* get panics and try_get returns None before the flag is up.
OnceGet(t) == /\ Call(t) /\ flag /\ Becomes(t, "read")
              /\ UNCHANGED <<slots, len, tables, flag, value>>
OnceRead(t) == /\ At(t, "read")
               /\ Keeps(t, "has", value)
               /\ UNCHANGED <<slots, len, tables, flag, value>>
Done(t) == /\ th[t].pc \in {"holds", "has"}
           /\ Keeps(t, "idle", Null)
           /\ UNCHANGED <<slots, len, tables, flag, value>>

OnceNext == \E t \in Threads : \/ TableInit(t) \/ TableLen(t) \/ TablePublish(t) \/ TableRead(t)
                               \/ OnceClaim(t) \/ OnceWrite(t) \/ OnceRelease(t) \/ OnceGet(t) \/ OnceRead(t)
                               \/ Done(t)
OnceSpec == OnceInit /\ [][OnceNext]_onceVars

----------------------------------------------------------------------------
\* Whoever holds a reference into the table holds one into the table
\* everybody else uses, and it has not been freed: racing inits publish one
\* table and drop only their own (lib.rs:163-214).
OneTable == /\ slots # NoThread => slots \in tables /\ len = 1
            /\ \A t \in Threads : At(t, "holds") => th[t].got = slots
\* Exactly one initialiser wins, and its value stays (once.rs:164-193).
OneWinner == /\ Cardinality({t \in Threads : th[t].pc \in {"write", "release"}}) <= 1
             /\ \A t \in Threads : At(t, "write") => value = Null
\* Racing initialisers make one table and one value.
InitialisedOnce == OneTable /\ OneWinner
\* A table is never exchanged, a value never rewritten.
WrittenOnce == [][/\ slots # NoThread => slots' = slots
                  /\ value # Null => value' = value]_onceVars

\* (The test init_publishes_to_readers, once.rs:121-161.)  A reader that was
\* let in reads the value.
ReaderSeesValue == \A t \in Threads : At(t, "has") => th[t].got # Null
=============================================================================
