------------------------------ MODULE HostSlots ------------------------------
(***************************************************************************)
(* The core slots of a host (`python/tools/host_slots_v1.py`): untimed     *)
(* jobs queue for cores, run pinned to them, borrow and lend them, and     *)
(* make way for timed work that holds the host reservation.                *)
(*                                                                         *)
(* Every launcher is a process of its own.  All records are read and       *)
(* written under the admission mutex, so each `with Mutex()` block is one  *)
(* action (SlotMutex models the mutex).  The records of a dead launcher    *)
(* are removed by whoever reads them next, before anything is decided, so  *)
(* they go when it dies; its process tree dies with it, as a Windows job   *)
(* object sees to.                                                         *)
(*                                                                         *)
(* Not modelled: adopted workers, config edits while jobs are queued,      *)
(* unreadable files, launchers of older versions, and bounded-delay        *)
(* backfill (JobAssumption excludes the requests it applies to).           *)
(***************************************************************************)
EXTENDS Integers, Sequences, FiniteSets, SequencesExt

CONSTANTS
    CoreOrder,     \* config["cores"], in order of preference
    KeepFree,      \* config["keep_free"]
    CiFloor,       \* config["ci_floor"]
    Jobs,          \* one launcher each
    Request,       \* job -> [class, want, least, limit]
    TimedCores,    \* the sets of cores timed work may record or declare
    MaxReservations,
    OsMayFail,     \* affinity changes and suspensions may be incomplete
    MayDie,        \* launchers may be killed or give up
    None

Cores == ToSet(CoreOrder)
Budget == Len(CoreOrder) - KeepFree

ASSUME ConfigAssumption ==
    /\ CoreOrder \in Seq(Nat) /\ IsInjective(CoreOrder) /\ KeepFree \in 0 .. Len(CoreOrder) - 1
    /\ CiFloor \in 0 .. Len(CoreOrder) - KeepFree - 1
    /\ TimedCores \subseteq (SUBSET Cores) \ {{}}

\* What run() accepts.  A head that declares a limit, before a request whose
\* limit is enforced, is the only case of a bounded delay.
ASSUME JobAssumption ==
    /\ \A j \in Jobs :
        /\ Request[j].class \in {"ordinary", "background", "shared"}
        /\ Request[j].want \in
               1 .. Budget - (IF Request[j].class = "background" THEN 0 ELSE CiFloor)
        /\ Request[j].least \in 1 .. Request[j].want
        /\ Request[j].limit \in {"none", "flag", "demote", "kill"}
    /\ \A j, k \in Jobs : Request[j].limit \in {"demote", "kill"} /\ j # k => Request[k].limit = "none"

\* Claim records and process trees.
Claims == [id : Jobs, cores : SUBSET Cores, guaranteed : SUBSET Cores, shared : BOOLEAN,
           background : BOOLEAN, state : {"running", "suspended"}, backfill : Jobs \cup {None}]
Trees == [cores : SUBSET Cores, mask : SUBSET Cores, applied : BOOLEAN, stopped : BOOLEAN]

\* Where a head would start, and what it would wait for.
Starts == [cores : SUBSET Cores, handoffs : SUBSET (Cores \cup {None})]

ASSUME NoneAssumption ==
    None \notin Claims /\ None \notin TimedCores /\ None \notin Jobs /\ None \notin Starts

VARIABLES
    queue,     \* tickets, in the order of admission
    claim,     \* job -> its claim record, None without one
    at,        \* job -> "idle", "queued", "admitted", "running", "over", "gone"
    tree,      \* job -> its process tree: the cores meant, those it may be on,
               \*        whether the last change of them succeeded, stopped
    lock,      \* None, or the cores the reservation's lock blocks by itself
    declared,  \* None, or the cores of a live declaration
    timedAt,   \* "idle", "vacating" or "running"
    reservations

jobVars == <<queue, claim, at, tree>>
timedVars == <<lock, declared, timedAt, reservations>>
vars == <<queue, claim, at, tree, lock, declared, timedAt, reservations>>

\* A tree whose processes are all on these cores.
Pinned(cores) == [cores |-> cores, mask |-> cores, applied |-> TRUE, stopped |-> FALSE]
NoTree == Pinned({})

Init ==
    /\ queue = <<>>
    /\ claim = [j \in Jobs |-> None] /\ at = [j \in Jobs |-> "idle"]
    /\ tree = [j \in Jobs |-> NoTree]
    /\ lock = None /\ declared = None /\ timedAt = "idle" /\ reservations = 0

-----------------------------------------------------------------------------
(* What the records say.  A set of claims is a set of claim records.       *)

Background(j) == Request[j].class = "background"
Shared(j) == Request[j].class = "shared"
Wanted(j) == IF Shared(j) THEN Request[j].least ELSE Request[j].want

Live == {j \in Jobs : claim[j] # None}
Records(cl) == {cl[j] : j \in {k \in Jobs : cl[k] # None}}
Others(cl, j) == {c \in Records(cl) : c.id # j}

\* timed_state: a declaration, else the lock's cores, which are all the
\* cores when it records none.
Blocked == IF lock = None THEN {} ELSE IF declared # None THEN declared ELSE lock

Held(c) == IF c.shared THEN c.guaranteed ELSE c.cores
Lent(c) == c.cores \ Held(c)
AnyLent(cs) == UNION {Lent(c) : c \in cs}
Occupied(cs) == UNION {c.cores : c \in cs}

\* The first n of a set of cores, in an order of preference.
FirstOf(order, S, n) ==
    {order[i] : i \in {k \in DOMAIN order :
                          order[k] \in S /\ Cardinality({m \in 1 .. k - 1 : order[m] \in S}) < n}}

\* The CI floor are the last cores; background work tries them first, and
\* nobody else may take them.
OffFloor == SubSeq(CoreOrder, 1, Len(CoreOrder) - CiFloor)
Floor == SubSeq(CoreOrder, Len(CoreOrder) - CiFloor + 1, Len(CoreOrder))
Preference(ci) == IF ci THEN Floor \o OffFloor ELSE OffFloor

\* The cores of an order that are neither blocked nor used, up to keep_free.
Free(order, used) ==
    FirstOf(order, ToSet(order) \ (Blocked \cup used),
            Len(order) - KeepFree - Cardinality(used \cap ToSet(order)))

\* available: the cores a new claim may take.
Available(cs, background, ci) ==
    Free(Preference(ci), UNION {Held(c) : c \in {d \in cs : background \/ ~d.background}})

\* unclaimed: the cores a shared claim may grow onto.
Unclaimed(cs) == Free(OffFloor, Occupied(cs))

OverBudget(cs) == Cardinality(Occupied(cs)) - Budget
Lending(c) == c.shared /\ c.state # "suspended" /\ Lent(c) # {}

\* claim_conflicts: what a claim makes way for.
Yields(cl, me) ==
    \/ Blocked \cap Held(me) # {}
    \/ me.background /\ \E c \in Others(cl, me.id) : ~c.background /\ c.cores \cap me.cores # {}

\* Mutant: a suspended claim is waited for as well.
BackgroundBusy_EvenSuspended(cs, cores) ==
    \E c \in cs : (c.background \/ c.shared) /\ c.cores \cap cores # {}

\* background_busy: a claim that lends these cores has not left them.
BackgroundBusy(cs, cores) ==
    \E c \in cs : (c.background \/ c.shared) /\ c.cores \cap cores # {} /\ c.state # "suspended"

\* Mutant: nobody waits for the lenders to make room.
BudgetPending_Never(cl, j) == FALSE

\* budget_pending: lenders have to make room first.
BudgetPending(cl, j) == OverBudget(Records(cl)) > 0 /\ \E c \in Others(cl, j) : Lending(c)

\* give_back: the lent cores of `me` that have to go now; cl holds everyone's
\* published record.
GiveBack(cl, me) ==
    LET mine == Lent(me)
        taken == mine \cap (Blocked \cup UNION {Held(c) : c \in Others(cl, me.id)})
        excess == OverBudget(Others(cl, me.id) \cup {[me EXCEPT !.cores = @ \ taken]})
    IN  IF queue # <<>> THEN mine
        ELSE taken \cup FirstOf(Reverse(CoreOrder), mine \ taken, excess)

-----------------------------------------------------------------------------
(* The queue.                                                              *)

\* Ordinary tickets sort before background ones: the places of the tickets
\* that a new one comes after.
Ahead(j) == {i \in DOMAIN queue : Background(j) \/ ~Background(queue[i])}
Without(j) == RemoveFirst(queue, j)

\* run() up to its ticket.
Enqueue(j) ==
    /\ at[j] = "idle"
    /\ queue' = InsertAt(queue, Cardinality(Ahead(j)) + 1, j)
    /\ at' = [at EXCEPT ![j] = "queued"]
    /\ UNCHANGED <<claim, tree, timedVars>>

PlainRecord(j, cores, head) ==
    [id |-> j, cores |-> cores, guaranteed |-> cores, shared |-> Shared(j),
     background |-> Background(j), state |-> "running", backfill |-> head]

\* _claim_record.  A shared claim also starts on cores nobody has, if no
\* other request is queued.
ClaimRecord(j, cores, head) ==
    LET plain == PlainRecord(j, cores, head)
        extra == FirstOf(OffFloor, Unclaimed(Records(claim) \cup {plain}),
                         Request[j].want - Cardinality(cores))
    IN  IF Shared(j) /\ queue = <<j>> THEN [plain EXCEPT !.cores = @ \cup extra] ELSE plain

Admitted(j, cores, head) ==
    \E record \in {ClaimRecord(j, cores, head)} :
        /\ claim' = [claim EXCEPT ![j] = record]
        /\ tree' = [tree EXCEPT ![j] = Pinned(record.cores)]
        /\ queue' = Without(j)
        /\ at' = [at EXCEPT ![j] = "admitted"]
        /\ UNCHANGED timedVars

\* The head of the queue takes the first available cores.
Admit(j) ==
    /\ at[j] = "queued" /\ Head(queue) = j
    /\ \E room \in {Available(Records(claim), Background(j), Background(j))} :
        /\ Cardinality(room) >= Wanted(j)
        /\ Admitted(j, FirstOf(Preference(Background(j)), room, Wanted(j)), None)

\* _head_start: the cores a head would take, with what it would wait for.
HeadStart(cs, head) ==
    LET room == Available(cs, Background(head), Background(head))
        chosen == FirstOf(Preference(Background(head)), room, Wanted(head))
        borrowed == Occupied({c \in cs : c.background}) \cup AnyLent(cs)
        makesRoom == /\ \E c \in cs : Lending(c)
                     /\ Cardinality(Occupied(cs) \cup chosen) > Budget
    IN  IF Cardinality(room) < Wanted(head) THEN None
        ELSE [cores |-> chosen,
              handoffs |-> (chosen \cap borrowed) \cup (IF makesRoom THEN {None} ELSE {})]

\* Mutant: only the claims as they are now are considered.
BackfillCores_NowOnly(head, j) ==
    LET cs == Records(claim)
        room == Available(cs, TRUE, FALSE)
    IN  IF \/ Request[j].limit = "none" \/ Background(j) \/ Background(head) \/ lock # None
           \/ AnyLent(cs) # {} \/ HeadStart(cs, head) # None \/ Cardinality(room) < Wanted(j)
        THEN {} ELSE FirstOf(OffFloor, room, Wanted(j))

\* A start with backfills is as good as the one without them.
NotLater(with, without) ==
    without # None => with # None /\ with.handoffs \subseteq without.handoffs

\* In whatever order the claims end, the head starts as if no backfill, and
\* not this candidate for one, were there.
NoDelay(cs, head, candidate) ==
    \A rest \in SUBSET cs :
        NotLater(HeadStart(rest \cup {candidate}, head),
                 HeadStart({c \in rest : c.backfill = None}, head))

\* _backfill_cores: the cores `j` may take before `head` can, {} for none.
BackfillCores(head, j) ==
    LET cs == Records(claim)
        room == Available(cs, TRUE, FALSE)
        cores == FirstOf(OffFloor, room, Wanted(j))
    IN  IF \/ Request[j].limit = "none" \/ Background(j) \/ Background(head) \/ lock # None
           \/ Cardinality(cs) > 12 \/ AnyLent(cs) # {}
           \/ HeadStart(cs, head) # None \/ Cardinality(room) < Wanted(j)
           \/ ~NoDelay(cs, head, PlainRecord(j, cores, head))
        THEN {} ELSE cores

\* The ticket at this place behind the head may start before it.
Eligible(i) == BackfillCores(Head(queue), queue[i]) # {}

\* backfill_admission: only the first eligible ticket behind the head.
Backfill(j) ==
    \E i \in 2 .. Len(queue) :
        /\ queue[i] = j
        /\ Eligible(i) /\ \A k \in 2 .. i - 1 : ~Eligible(k)
        /\ Admitted(j, BackfillCores(Head(queue), j), Head(queue))

-----------------------------------------------------------------------------
(* Runners.  `ok` says whether the operating system applied a change of    *)
(* affinity, `full` whether a suspension reached every process.            *)

Outcomes == IF OsMayFail THEN BOOLEAN ELSE {TRUE}

\* Tree.set_cores: when it fails, parts of the tree may have either mask.
SetCores(t, cores, ok) ==
    IF ok THEN [t EXCEPT !.cores = cores, !.mask = cores, !.applied = TRUE]
    ELSE [t EXCEPT !.mask = @ \cup cores, !.applied = FALSE]

\* Mutant: the narrower record is published before the tree is narrowed, and
\* a failure of that is not seen.
Narrowed_PublishFirst(c, t, back, ok) ==
    [ok |-> TRUE, record |-> [c EXCEPT !.cores = t.cores \ back], tree |-> SetCores(t, t.cores \ back, ok)]

\* _share_step of a shared claim: its record and tree afterwards, and whether
\* they are settled.  After a failure the intended cores are applied again;
\* then the tree is narrowed, and only then is the narrower record published.
Narrowed(c, t, back, ok) ==
    LET steady == IF t.applied THEN t ELSE SetCores(t, t.cores, ok)
        narrow == IF back = {} \/ ~steady.applied THEN steady
                  ELSE SetCores(steady, steady.cores \ back, ok)
    IN  IF narrow.applied
        THEN [ok |-> TRUE, record |-> [c EXCEPT !.cores = narrow.cores], tree |-> narrow]
        ELSE [ok |-> FALSE, record |-> c, tree |-> narrow]

ShareSteps(cl, c, t) ==
    IF ~c.shared THEN {[ok |-> TRUE, record |-> c, tree |-> t]}
    ELSE {Narrowed(c, t, back, ok) : back \in {GiveBack(cl, [c EXCEPT !.cores = t.cores])},
                                     ok \in Outcomes}

\* With grow=True: while nobody is queued a claim publishes a wider record
\* and widens its tree.  When widening fails and going back succeeds nothing
\* has changed; otherwise the claim is not settled.
Growths(cl, s) ==
    LET most == Request[s.record.id].want - Cardinality(s.tree.cores)
        extra == FirstOf(OffFloor, Unclaimed(Others(cl, s.record.id) \cup {s.record}), most)
    IN  {s} \cup
        {[ok |-> ok, record |-> [s.record EXCEPT !.cores = wider], tree |-> SetCores(s.tree, wider, ok)] :
            wider \in {s.tree.cores \cup extra} \ {s.tree.cores}, ok \in Outcomes}

\* A poll before the command is started: start it, or be recorded suspended.
MayStart(cl, j, t) ==
    /\ ~Yields(cl, cl[j])
    /\ ~BackgroundBusy(Others(cl, j), t.cores)
    /\ ~BudgetPending(cl, j)

TryStart(j) ==
    /\ at[j] = "admitted"
    /\ \E s \in ShareSteps(claim, claim[j], tree[j]) :
       \E may \in {s.ok /\ MayStart([claim EXCEPT ![j] = s.record], j, s.tree)} :
        /\ claim' = [claim EXCEPT ![j] =
                         [s.record EXCEPT !.state = IF may THEN "running" ELSE "suspended"]]
        /\ tree' = [tree EXCEPT ![j] = s.tree]
        /\ at' = [at EXCEPT ![j] = IF may THEN "running" ELSE "admitted"]
    /\ UNCHANGED <<queue, timedVars>>

\* _overdue_step with --on-overdue demote: background work from now on.  A
\* shared claim narrows to its guarantee first, and tries again if it cannot.
Demotions(j) ==
    LET c == claim[j]
        overdue == [c EXCEPT !.cores = Held(c), !.shared = FALSE, !.background = TRUE]
    IN  IF Request[j].limit # "demote" \/ c.background THEN {}
        ELSE IF ~c.shared THEN {[record |-> overdue, tree |-> tree[j]]}
        ELSE {[record |-> IF ok THEN overdue ELSE c, tree |-> SetCores(tree[j], Held(c), ok)] :
                  ok \in Outcomes}

\* A poll of a running claim: demote when due, narrow, suspend or resume,
\* publish the state, and perhaps grow.
Poll(j) ==
    /\ at[j] = "running"
    /\ \E d \in {[record |-> claim[j], tree |-> tree[j]]} \cup Demotions(j) :
       \E s \in ShareSteps(claim, d.record, d.tree) :
       \E conflict \in {~s.ok \/ Yields(claim, s.record)} :
       \E g \in IF conflict \/ ~s.record.shared \/ queue # <<>> THEN {s} ELSE Growths(claim, s) :
       \E full \in Outcomes :
        LET stop == conflict \/ ~g.ok
            still == conflict /\ tree[j].stopped    \* without a conflict the tree is resumed first
        IN  /\ claim' = [claim EXCEPT ![j] = [g.record EXCEPT !.state =
                   IF stop /\ (still \/ full) THEN "suspended" ELSE "running"]]
            /\ tree' = [tree EXCEPT ![j] = [g.tree EXCEPT !.stopped = stop /\ (still \/ full)]]
    /\ UNCHANGED <<queue, at, timedVars>>

\* The tree ends, or is killed when it is overdue (suspended or not), and the
\* claim is released under the mutex.
TreeEnds(j) ==
    /\ at[j] = "running" /\ (~tree[j].stopped \/ Request[j].limit = "kill")
    /\ at' = [at EXCEPT ![j] = "over"] /\ tree' = [tree EXCEPT ![j] = NoTree]
    /\ UNCHANGED <<queue, claim, timedVars>>

Release(j) ==
    /\ at[j] = "over"
    /\ at' = [at EXCEPT ![j] = "gone"] /\ claim' = [claim EXCEPT ![j] = None]
    /\ UNCHANGED <<queue, tree, timedVars>>

\* A launcher dies, its request times out, or the cores it waits for are not
\* vacated in time: its tree and its records go.
Dies(j) ==
    /\ MayDie /\ at[j] \in {"queued", "admitted", "running", "over"}
    /\ at' = [at EXCEPT ![j] = "gone"]
    /\ claim' = [claim EXCEPT ![j] = None] /\ tree' = [tree EXCEPT ![j] = NoTree]
    /\ queue' = Without(j)
    /\ UNCHANGED timedVars

-----------------------------------------------------------------------------
(* Timed work, inside a reservation of host_reservation_v1.py.             *)

Acquire(cores) ==
    /\ lock = None /\ reservations < MaxReservations
    /\ lock' = cores /\ reservations' = reservations + 1
    /\ UNCHANGED <<jobVars, declared, timedAt>>

ReleaseLock ==
    /\ lock # None /\ timedAt = "idle"
    /\ lock' = None
    /\ UNCHANGED <<jobVars, declared, timedAt, reservations>>

\* timed(): declare, wait until every claim on the cores is suspended, run.
Declare(cores) ==
    /\ lock # None /\ timedAt = "idle"
    /\ declared' = cores /\ timedAt' = "vacating"
    /\ UNCHANGED <<jobVars, lock, reservations>>

\* Mutant: a claim is on its guaranteed cores only.
Vacated_GuaranteeOnly ==
    /\ timedAt = "vacating"
    /\ \A c \in Records(claim) : Held(c) \cap declared = {} \/ c.state = "suspended"
    /\ timedAt' = "running"
    /\ UNCHANGED <<jobVars, lock, declared, reservations>>

Vacated ==
    /\ timedAt = "vacating"
    /\ \A c \in Records(claim) : c.cores \cap declared = {} \/ c.state = "suspended"
    /\ timedAt' = "running"
    /\ UNCHANGED <<jobVars, lock, declared, reservations>>

\* The timed tree ends or dies, or the wait for its cores is given up.
TimedEnds ==
    /\ timedAt # "idle"
    /\ declared' = None /\ timedAt' = "idle"
    /\ UNCHANGED <<jobVars, lock, reservations>>

-----------------------------------------------------------------------------
Launcher(j) == Release(j) \/ TreeEnds(j) \/ Poll(j) \/ TryStart(j) \/ Admit(j)

Done == (\A j \in Jobs : at[j] = "gone") /\ UNCHANGED vars

Next ==
    \/ \E j \in Jobs : Enqueue(j) \/ Backfill(j) \/ Launcher(j) \/ Dies(j)
    \/ \E cores \in TimedCores \cup {Cores} : Acquire(cores)
    \/ \E cores \in TimedCores : Declare(cores)
    \/ Vacated \/ TimedEnds \/ ReleaseLock
    \/ Done

Spec == Init /\ [][Next]_vars

\* A launcher that lives keeps polling, a command that is not suspended ends,
\* and so does every reservation.
FairSpec ==
    /\ Spec
    /\ \A j \in Jobs : WF_vars(Launcher(j))
    /\ WF_vars(TimedEnds) /\ WF_vars(ReleaseLock)

-----------------------------------------------------------------------------
(* Properties                                                              *)

\* The cores on which processes of a job can run now.
RunsOn(j) == IF at[j] = "running" /\ ~tree[j].stopped THEN tree[j].mask ELSE {}

\* Timed work never shares a core with untimed work: not with a claim that
\* lends, one that was suspended in part, or one admitted meanwhile.
TimedExclusive == timedAt = "running" => \A j \in Jobs : RunsOn(j) \cap declared = {}

\* Background claims yield to others only, so a claim that was demoted on a
\* core it had taken from background work shares it with that work from then
\* on: two background claims, one of them by demotion.
Demoted(j) == claim[j] # None /\ claim[j].background /\ ~Background(j)

SharedByDemotion(j, k) ==
    /\ Demoted(j) \/ Demoted(k)
    /\ \A i \in {j, k} : claim[i] # None /\ claim[i].background

\* No two claims run on one core: a borrower waits until the background claim
\* is suspended or the lender has narrowed, and neither comes back before it
\* is gone or demoted.
ClaimsExclusive ==
    \A j, k \in Jobs :
        j # k => RunsOn(j) \cap RunsOn(k) = {} \/ SharedByDemotion(j, k)

\* Ordinary and shared claims never run on more
\* cores than the budget, although a lender that grew while timed work kept
\* the preferred cores is still on others when a claim takes those.
BudgetKept ==
    Cardinality(UNION {RunsOn(j) : j \in {k \in Live : ~claim[k].background}}) <= Budget

\* A backfill does not delay the head it was admitted before: whenever the
\* head could start without the backfills, it can start with them and
\* without waiting for more hand-overs.  A backfill that was demoted yields
\* its cores like background work, which is a hand-over to wait for.
BackfillHarmless ==
    LET backfills == {j \in Live : claim[j].backfill = Head(queue)}
    IN  queue # <<>> /\ lock = None /\ backfills # {} /\ (\A j \in backfills : ~Demoted(j)) =>
            NotLater(HeadStart(Records(claim), Head(queue)),
                     HeadStart({c \in Records(claim) : c.backfill = None}, Head(queue)))

\* Every request is admitted, started and ended, and again and again none is
\* left: claims that wait for one another's cores, for the budget or for the
\* head of the queue never wait in a circle.
EveryJobEnds == []<>(\A j \in Jobs : at[j] \in {"idle", "gone"})
=============================================================================
