------------------------------ MODULE Approval ------------------------------
(***************************************************************************)
(* What the two-step mutation flow promises, with nothing of how it is     *)
(* done: a preview offers one operation of one tenant; an offer may lapse  *)
(* at any time; a later call may perform an operation only by using up the *)
(* offer of exactly that operation; an offer that was used never returns.  *)
(* MutationPipeline implements this module (see Offered and Performed      *)
(* there).                                                                 *)
(***************************************************************************)
CONSTANTS
    Requests,    \* tool calls; an offer is named after the call that previewed it
    Operations   \* what a call may do: a tenant, a tool and a payload

VARIABLES
    offered,     \* the offers that can still be used
    performed    \* who used which offer

vars == <<offered, performed>>

Offer == [id : Requests, op : Operations]
Deed  == [by : Requests, offer : Offer]

Init == offered = {} /\ performed = {}

\* A preview adds an offer under a name no other offer has or had.
Preview(o) ==
    /\ \A p \in offered : p.id # o.id
    /\ \A d \in performed : d.offer.id # o.id
    /\ offered' = offered \cup {o}
    /\ UNCHANGED performed

\* Time to live, clean-up and restarts take offers away.
Lapse(gone) ==
    /\ offered' = offered \ gone
    /\ UNCHANGED performed

\* Call r does what was offered, once.
Perform(r, o) ==
    /\ o \in offered
    /\ \A d \in performed : d.by # r
    /\ offered' = offered \ {o}
    /\ performed' = performed \cup {[by |-> r, offer |-> o]}

Next ==
    \/ \E o \in Offer : Preview(o)
    \/ \E gone \in SUBSET offered : Lapse(gone)
    \/ \E r \in Requests, o \in offered : Perform(r, o)

Spec == Init /\ [][Next]_vars

=============================================================================
