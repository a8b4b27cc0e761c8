---------------------------- MODULE MCDelivery -----------------------------
(***************************************************************************)
(* Frames and addresses on their way to whoever waits for them: the        *)
(* inboxes of the cores and the resolution of neighbours, each on an       *)
(* instance of its own.  A behaviour runs the part `part` names and        *)
(* leaves the other as it starts.                                          *)
(***************************************************************************)
EXTENDS RxInbox, Neighbours, TLC

VARIABLES part  \* the part that runs

MCVars == <<part, vars, arpVars>>

HomeOf == "t1" :> "c1" @@ "t2" :> "c2"

MCInit ==
  /\ part \in {"inbox", "neighbours"}
  /\ Init
  /\ ArpInit

MCNext ==
  /\ part' = part
  /\ \/ /\ part = "inbox" /\ Next
        /\ UNCHANGED arpVars
     \/ /\ part = "neighbours" /\ ArpNext
        /\ UNCHANGED vars

\* The fairness of the parts, as their modules state it.
MCSpec ==
  /\ MCInit /\ [][MCNext]_MCVars
  /\ \A i \in Inboxes : WF_vars(part = "inbox" /\ ConsumerStep(i))
  /\ \A t \in Tasks : SF_arpVars(part = "neighbours" /\ Runnable(t))
  /\ \A c \in Cores :
       /\ WF_arpVars(part = "neighbours" /\ PendingWake(c))
       /\ WF_arpVars(part = "neighbours" /\ (SpinHit(c) \/ SpinRetry(c)))

-----------------------------------------------------------------------------
\* A frame linked into an inbox is handed to the stack, and a resolution ends.
DeliveryEnds ==
  /\ part = "inbox" => InboxDrained
  /\ part = "neighbours" => ResolutionEnds
=============================================================================
