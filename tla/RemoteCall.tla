----------------------------- MODULE RemoteCall -----------------------------
(***************************************************************************)
(* What a caller of the Autodesk API may rely on when the request is a     *)
(* mutation that nobody declared safe to repeat: it takes effect at most   *)
(* once, and the answer never misleads about it.  Success means that it    *)
(* took effect, failure that it did not and will not; the caller may also  *)
(* be told that nobody knows, and then it may still take effect later.     *)
(* ApsClient implements this module.                                       *)
(***************************************************************************)
EXTENDS Naturals

CONSTANT Requests

VARIABLES
    effects,   \* how often each request took effect
    answer     \* what its caller was told

vars == <<effects, answer>>

Init ==
    /\ effects = [r \in Requests |-> 0]
    /\ answer = [r \in Requests |-> "none"]

TakeEffect(r) ==
    /\ effects[r] = 0 /\ answer[r] \in {"none", "unknown"}
    /\ effects' = [effects EXCEPT ![r] = 1]

\* A success whose body the client cannot read is "garbled": it did take effect.
Tell(r, a) ==
    /\ answer[r] = "none"
    /\ a \in {"success", "garbled"} => effects'[r] = 1
    /\ a = "failed" => effects'[r] = 0
    /\ answer' = [answer EXCEPT ![r] = a]

\* The effect and the answer may come in one step.
Next ==
    \E r \in Requests :
        /\ TakeEffect(r) \/ UNCHANGED effects
        /\ (\E a \in {"success", "garbled", "failed", "unknown"} : Tell(r, a)) \/ UNCHANGED answer

Spec == Init /\ [][Next]_vars
=============================================================================
