------------------------------ MODULE WriteOnce ------------------------------
(***************************************************************************)
(* What publishing an immutable file promises its caller: a name is bound  *)
(* to one value, all at once and only while it is unbound; a receipt is    *)
(* for the value that is bound; and a power loss may take back only names  *)
(* that nobody holds a receipt for.                                        *)
(***************************************************************************)
CONSTANTS Names, Values, None

VARIABLES
    bound,    \* [Names -> Values \cup {None}]
    acked     \* names for which a publisher holds a receipt

Init == bound = [n \in Names |-> None] /\ acked = {}

Bind(n, v) ==
    /\ bound[n] = None
    /\ bound' = [bound EXCEPT ![n] = v]
    /\ UNCHANGED acked

Acknowledge(n) ==
    /\ bound[n] # None
    /\ acked' = acked \cup {n}
    /\ UNCHANGED bound

Lose(lost) ==
    /\ lost \cap acked = {}
    /\ bound' = [n \in Names |-> IF n \in lost THEN None ELSE bound[n]]
    /\ UNCHANGED acked

Next ==
    \/ \E n \in Names, v \in Values : Bind(n, v)
    \/ \E n \in Names : Acknowledge(n)
    \/ \E lost \in SUBSET Names : Lose(lost)

Spec == Init /\ [][Next]_<<bound, acked>>
=============================================================================
