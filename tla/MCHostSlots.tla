----------------------------- MODULE MCHostSlots -----------------------------
(***************************************************************************)
(* Model-checking instances of HostSlots.                                  *)
(***************************************************************************)
EXTENDS HostSlots

Job(class, want, least, limit) ==
    [class |-> class, want |-> want, least |-> least, limit |-> limit]

FourCores == <<4, 3, 2, 1>>
SixCores == <<6, 5, 4, 3, 2, 1>>

\* A lender, a borrower that is demoted when it is overdue, and CI work.
MixedRequest ==
    [s |-> Job("shared", 3, 1, "none"), o |-> Job("ordinary", 1, 1, "demote"),
     b |-> Job("background", 2, 2, "none")]

\* A lender, a head that does not fit beside it, two small requests with a
\* limit (one may start before the head, both together would delay it), and
\* CI work.
QueueRequest ==
    [s |-> Job("shared", 3, 2, "none"), h |-> Job("ordinary", 3, 3, "none"),
     f |-> Job("ordinary", 1, 1, "flag"), g |-> Job("ordinary", 1, 1, "flag"),
     b |-> Job("background", 2, 2, "none")]
=============================================================================
