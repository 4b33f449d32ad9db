--------------------------- MODULE HostSlotsProofs ---------------------------
(***************************************************************************)
(* Proofs about HostSlots, for any cores, requests, timed work and number  *)
(* of reservations, with changes of affinity and suspensions that fail and *)
(* launchers that die.  The invariant relates what a claim publishes to    *)
(* what its process tree does: the tree is never on a core its record does *)
(* not name.  What a claim holds changes at admission only, so who may be  *)
(* on a core is decided by what is held, lent and waited for.              *)
(* Backfills are harmless to the head in every set of claims that may be   *)
(* left, which is what admission checks and what ending claims preserve.   *)
(***************************************************************************)
EXTENDS HostSlots, FiniteSetTheorems, WellFoundedInduction, TLAPS

-----------------------------------------------------------------------------
(* The inductive invariant.                                                *)

OffFloorCores == ToSet(OffFloor)

\* A record of job j: what is guaranteed is part of it, and only a shared
\* claim has more.
Sound(c, j) ==
    /\ c \in Claims /\ c.id = j
    /\ c.guaranteed \subseteq c.cores
    /\ ~c.shared => c.cores = c.guaranteed
    /\ c.background => ~c.shared
    /\ Background(j) => c.background
    /\ ~c.background => c.cores \subseteq OffFloorCores

\* The tree of a claim is on cores its record names, and on what the claim
\* is guaranteed at least.
Fits(c, t) ==
    /\ c.guaranteed \subseteq t.cores /\ t.cores \subseteq t.mask /\ t.mask \subseteq c.cores
    /\ t.applied => t.mask = t.cores
    /\ ~c.shared => t.applied

JobInv(j) ==
    /\ claim[j] # None <=> at[j] \in {"admitted", "running", "over"}
    /\ claim[j] # None => Sound(claim[j], j)
    /\ at[j] \in {"admitted", "running"} => Fits(claim[j], tree[j])
    /\ at[j] = "admitted" => ~tree[j].stopped
    /\ at[j] = "running" => (tree[j].stopped <=> claim[j].state = "suspended")

\* A job whose processes may run now.
Runs(j) == at[j] = "running" /\ claim[j].state # "suspended"

\* Two claims: what they hold may overlap only if one is background work, what
\* they lend never, and a claim that has started is left alone by the others.
PairInv(j, k) ==
    claim[j] # None /\ claim[k] # None =>
        /\ (~claim[j].background /\ ~claim[k].background) \/ (Background(j) /\ Background(k))
              => claim[j].guaranteed \cap claim[k].guaranteed = {}
        /\ (claim[j].cores \ claim[j].guaranteed) \cap (claim[k].cores \ claim[k].guaranteed) = {}
        /\ Runs(j) /\ at[k] = "running"
              => (claim[j].cores \ claim[j].guaranteed) \cap claim[k].guaranteed = {}
        /\ at[j] = "running" /\ ~claim[j].background /\ Runs(k) /\ claim[k].background
              => claim[j].guaranteed \cap claim[k].guaranteed = {}

TimedInv ==
    /\ timedAt # "idle" => lock # None /\ declared # None
    /\ TimedExclusive

\* What ordinary and shared claims hold, and what those that have started
\* occupy when the suspended ones are back on what they hold.
Reach(j) == IF Runs(j) THEN claim[j].cores ELSE claim[j].guaranteed
AllHeld == UNION {claim[j].guaranteed : j \in {k \in Jobs : claim[k] # None /\ ~claim[k].background}}
AllReach == UNION {Reach(j) : j \in {k \in Jobs : at[k] = "running" /\ ~claim[k].background}}

BudgetInv == Cardinality(AllHeld) <= Budget /\ Cardinality(AllReach) <= Budget

Places == {"idle", "queued", "admitted", "running", "over", "gone"}

TypeOK ==
    /\ claim \in [Jobs -> Claims \cup {None}]
    /\ at \in [Jobs -> Places]
    /\ tree \in [Jobs -> Trees]

IInv ==
    /\ TypeOK
    /\ \A j \in Jobs : JobInv(j)
    /\ \A j, k \in Jobs : j # k => PairInv(j, k)
    /\ TimedInv /\ BudgetInv

Has(q, j) == \E n \in 1 .. Len(q) : q[n] = j
Once(q) == \A m, n \in 1 .. Len(q) : q[m] = q[n] => m = n

\* A ticket for every queued request, once.
QueueInv ==
    /\ queue \in Seq(Jobs) /\ Once(queue) /\ at \in [Jobs -> Places]
    /\ \A j \in Jobs : at[j] = "queued" <=> Has(queue, j)

-----------------------------------------------------------------------------
(* The first cores of a set, in an order of preference.                    *)

\* A nonempty set of naturals has a least element.
LEMMA LeastNumber ==
    ASSUME NEW T, T \subseteq Nat, T # {}
    PROVE  \E n \in T : \A m \in T : n <= m
<1>1. \E n \in T : \A m \in T : ~(<<m, n>> \in OpToRel(<, Nat))
    BY NatLessThanWellFounded, WFMin
<1>2. \A m, n \in Nat : m < n => <<m, n>> \in OpToRel(<, Nat)
    BY DEF OpToRel
<1>3. \A m, n \in Nat : ~(m < n) => n <= m
    OBVIOUS
<1> QED
    BY <1>1, <1>2, <1>3

\* A nonempty set of positions has a last one.
LEMMA LastPosition ==
    ASSUME NEW n \in Nat, NEW T, T \subseteq 1 .. n, T # {}
    PROVE  \E k \in T : \A m \in T : m <= k
<1> DEFINE D == {n - m : m \in T}
<1>1. D \subseteq Nat /\ D # {}
    <2>1. \A m \in T : n - m \in Nat
        OBVIOUS
    <2> QED
        BY <2>1
<1>2. PICK d \in D : \A m \in D : d <= m
    BY <1>1, LeastNumber
<1>3. PICK k \in T : d = n - k
    OBVIOUS
<1>4. \A m \in T : n - k <= n - m
    BY <1>2, <1>3
<1>5. \A m \in T : m <= k
    <2> TAKE m \in T
    <2> m \in Int /\ k \in Int
        OBVIOUS
    <2> QED
        BY <1>4
<1> QED
    BY <1>5

\* The positions of an order whose cores are in a set, before position k.
Before(order, S, k) == {m \in 1 .. k - 1 : order[m] \in S}

\* The positions FirstOf takes.
Picked(order, S, n) == {k \in DOMAIN order : order[k] \in S /\ Cardinality(Before(order, S, k)) < n}

\* FirstOf is what is at the positions it takes.
LEMMA FirstOfIsPicked ==
    ASSUME NEW order, NEW S, NEW n
    PROVE  FirstOf(order, S, n) = {order[i] : i \in Picked(order, S, n)}
    BY DEF FirstOf, Picked, Before

\* Only cores of the set are taken.
LEMMA FirstOfWithin ==
    ASSUME NEW order, NEW S, NEW n
    PROVE  FirstOf(order, S, n) \subseteq S /\ FirstOf(order, S, n) \subseteq ToSet(order)
    BY DEF FirstOf, ToSet

\* Positions before k are finitely many.
LEMMA BeforeFinite ==
    ASSUME NEW order, NEW S, NEW k \in Nat
    PROVE  IsFiniteSet(Before(order, S, k)) /\ Cardinality(Before(order, S, k)) \in Nat
<1>1. IsFiniteSet(1 .. k - 1)
    BY FS_Interval
<1>2. Before(order, S, k) \subseteq 1 .. k - 1
    BY DEF Before
<1>3. IsFiniteSet(Before(order, S, k))
    BY <1>1, <1>2, FS_Subset
<1> QED
    BY <1>3, FS_CardinalityType

\* What is at finitely many positions is finite.
LEMMA ImageFinite ==
    ASSUME NEW order, NEW P, IsFiniteSet(P)
    PROVE  LET F == {order[i] : i \in P}
           IN  IsFiniteSet(F) /\ Cardinality(F) <= Cardinality(P)
<1> DEFINE F == {order[i] : i \in P}
           f == [i \in P |-> order[i]]
<1>1. f \in Surjection(P, F)
    BY DEF Surjection
<1> QED
    BY <1>1, FS_Surjection

\* At most n cores are taken, none if n is not positive.
LEMMA FirstOfAtMost ==
    ASSUME NEW E, NEW order \in Seq(E), NEW S, NEW n \in Int
    PROVE  LET F == FirstOf(order, S, n)
           IN  /\ IsFiniteSet(F) /\ Cardinality(F) \in Nat
               /\ n <= 0 => F = {}
               /\ n >= 0 => Cardinality(F) <= n
<1> DEFINE P == Picked(order, S, n)
           F == FirstOf(order, S, n)
<1>1. Len(order) \in Nat /\ DOMAIN order = 1 .. Len(order)
    OBVIOUS
<1>2. P \subseteq 1 .. Len(order)
    BY <1>1 DEF Picked
<1>3. IsFiniteSet(P)
    <2>1. IsFiniteSet(1 .. Len(order))
        BY <1>1, FS_Interval
    <2> QED
        BY <1>2, <2>1, FS_Subset
<1>4. F = {order[i] : i \in P}
    BY FirstOfIsPicked
<1>5. IsFiniteSet(F) /\ Cardinality(F) <= Cardinality(P)
    BY <1>3, <1>4, ImageFinite
<1>6. Cardinality(F) \in Nat /\ Cardinality(P) \in Nat
    BY <1>3, <1>5, FS_CardinalityType
<1>7. ASSUME P # {} PROVE n > 0 /\ Cardinality(P) <= n
    <2>1. PICK k \in P : \A m \in P : m <= k
        BY <1>1, <1>2, <1>7, LastPosition
    <2> DEFINE B == Before(order, S, k)
    <2>2. k \in Nat /\ k >= 1
        BY <1>1, <1>2
    <2>3. IsFiniteSet(B) /\ Cardinality(B) \in Nat
        BY <2>2, BeforeFinite
    <2>4. Cardinality(B) < n
        BY DEF Picked
    <2>5. P \subseteq B \cup {k}
        BY <1>1, <1>2, <2>1, <2>2 DEF Picked, Before
    <2>6. IsFiniteSet(B \cup {k}) /\ Cardinality(B \cup {k}) <= Cardinality(B) + 1
        <3>1. /\ IsFiniteSet(B \cup {k})
              /\ Cardinality(B \cup {k}) = IF k \in B THEN Cardinality(B) ELSE Cardinality(B) + 1
            BY <2>3, FS_AddElement
        <3> HIDE DEF B
        <3> QED
            BY <2>3, <3>1
    <2>7. Cardinality(P) <= Cardinality(B \cup {k})
        BY <2>5, <2>6, FS_Subset
    <2>8. Cardinality(B \cup {k}) \in Nat
        BY <2>6, FS_CardinalityType
    <2> QED
        BY <1>6, <2>3, <2>4, <2>6, <2>7, <2>8
<1>8. CASE P = {}
    <2>1. F = {}
        BY <1>4, <1>8
    <2> QED
        BY <1>5, <1>6, <2>1, FS_EmptySet
<1>9. CASE P # {}
    BY <1>5, <1>6, <1>7, <1>9
<1> QED
    BY <1>8, <1>9

\* All cores of the set are taken, or n at least.
LEMMA FirstOfAtLeast ==
    ASSUME NEW E, NEW order \in Seq(E), NEW S, S \subseteq ToSet(order), NEW n \in Int,
           \A a, b \in DOMAIN order : order[a] = order[b] => a = b
    PROVE  FirstOf(order, S, n) = S \/ Cardinality(FirstOf(order, S, n)) >= n
<1> DEFINE P == Picked(order, S, n)
           F == FirstOf(order, S, n)
           Late == {k \in DOMAIN order : order[k] \in S /\ ~(Cardinality(Before(order, S, k)) < n)}
<1>1. Len(order) \in Nat /\ DOMAIN order = 1 .. Len(order)
    OBVIOUS
<1>2. P \subseteq 1 .. Len(order)
    BY <1>1 DEF Picked
<1>3. IsFiniteSet(P)
    <2>1. IsFiniteSet(1 .. Len(order))
        BY <1>1, FS_Interval
    <2> QED
        BY <1>2, <2>1, FS_Subset
<1>4. F = {order[i] : i \in P}
    BY FirstOfIsPicked
<1>5. CASE Late = {}
    <2>1. S \subseteq F
        <3> SUFFICES ASSUME NEW c \in S PROVE c \in F
            OBVIOUS
        <3>1. PICK i \in DOMAIN order : order[i] = c
            BY DEF ToSet
        <3>2. i \in P
            BY <1>5, <3>1 DEF Picked
        <3> QED
            BY <1>4, <3>1, <3>2
    <2> QED
        BY <2>1, FirstOfWithin
<1>6. CASE Late # {}
    <2>1. Late \subseteq Nat
        BY <1>1
    <2>2. PICK k \in Late : \A m \in Late : k <= m
        BY <1>6, <2>1, LeastNumber
    <2> DEFINE B == Before(order, S, k)
    <2>3. k \in 1 .. Len(order)
        BY <1>1
    <2>4. B \subseteq P
        <3> SUFFICES ASSUME NEW m \in 1 .. k - 1, order[m] \in S PROVE m \in P
            BY DEF Before
        <3>1. m \in DOMAIN order /\ m < k
            BY <1>1, <2>3
        <3>2. m \notin Late
            BY <2>2, <2>3, <3>1
        <3> QED
            BY <3>1, <3>2 DEF Picked
    <2>5. Cardinality(B) \in Nat
        BY <2>3, BeforeFinite
    <2>6. Cardinality(B) >= n
        BY <2>5
    <2>7. Cardinality(B) <= Cardinality(P)
        BY <1>3, <2>4, FS_Subset
    <2>8. Cardinality(P) = Cardinality(F)
        <3> DEFINE f == [i \in P |-> order[i]]
        <3>1. P \subseteq DOMAIN order
            BY DEF Picked
        <3>2. f \in Bijection(P, F)
            BY <1>4, <3>1 DEF Bijection, Injection, Surjection, IsInjective
        <3> QED
            BY <1>3, <3>2, FS_Bijection DEF ExistsBijection
    <2>9. Cardinality(P) \in Nat
        BY <1>3, FS_CardinalityType
    <2> QED
        BY <2>5, <2>6, <2>7, <2>8, <2>9
<1> QED
    BY <1>5, <1>6

-----------------------------------------------------------------------------
(* The configured cores.                                                   *)

\* The elements of two sequences, one after the other.
LEMMA Joined ==
    ASSUME NEW s \in Seq(Nat), NEW t \in Seq(Nat)
    PROVE  ToSet(s \o t) \subseteq ToSet(s) \cup ToSet(t)
<1> SUFFICES ASSUME NEW i \in DOMAIN (s \o t) PROVE (s \o t)[i] \in ToSet(s) \cup ToSet(t)
    BY DEF ToSet
<1>1. /\ Len(s) \in Nat /\ Len(t) \in Nat /\ i \in 1 .. Len(s) + Len(t)
      /\ DOMAIN s = 1 .. Len(s) /\ DOMAIN t = 1 .. Len(t)
    OBVIOUS
<1>2. (s \o t)[i] = IF i <= Len(s) THEN s[i] ELSE t[i - Len(s)]
    OBVIOUS
<1>3. i <= Len(s) => i \in DOMAIN s
    BY <1>1
<1>4. ~(i <= Len(s)) => i - Len(s) \in DOMAIN t
    BY <1>1
<1> QED
    BY <1>2, <1>3, <1>4 DEF ToSet

\* The cores are finitely many; the orders of preference list cores.
LEMMA CoreFacts ==
    /\ Len(CoreOrder) \in Nat /\ KeepFree \in Nat /\ CiFloor \in Nat
    /\ Budget \in Nat /\ DOMAIN CoreOrder = 1 .. Len(CoreOrder)
    /\ IsFiniteSet(Cores)
    /\ OffFloor \in Seq(Nat) /\ Len(OffFloor) = Len(CoreOrder) - CiFloor
    /\ OffFloorCores \subseteq Cores
    /\ \A ci \in BOOLEAN : ToSet(Preference(ci)) \subseteq Cores
    /\ Preference(FALSE) = OffFloor
<1>1. /\ CoreOrder \in Seq(Nat) /\ Len(CoreOrder) \in Nat /\ KeepFree \in Nat /\ CiFloor \in Nat
      /\ KeepFree <= Len(CoreOrder) - 1 /\ CiFloor <= Len(CoreOrder) - KeepFree - 1
      /\ DOMAIN CoreOrder = 1 .. Len(CoreOrder)
    BY ConfigAssumption
<1>2. Budget \in Nat
    BY <1>1 DEF Budget
<1>3. IsFiniteSet(Cores)
    <2>1. IsFiniteSet(1 .. Len(CoreOrder))
        BY <1>1, FS_Interval
    <2>2. IsFiniteSet(DOMAIN CoreOrder)
        BY <1>1, <2>1
    <2>3. Cores = {CoreOrder[i] : i \in DOMAIN CoreOrder}
        BY DEF Cores, ToSet
    <2> QED
        BY <2>2, <2>3, ImageFinite
<1>n. PICK n \in Nat : n = Len(CoreOrder)
    BY <1>1
<1>m. PICK m \in Nat : m = n - CiFloor
    <2>1. n - CiFloor \in Nat
        BY <1>1, <1>n
    <2> QED
        BY <2>1
<1>a. /\ OffFloor = [i \in 1 .. m |-> CoreOrder[i]]
      /\ OffFloor \in Seq(Nat) /\ Len(OffFloor) = m /\ DOMAIN OffFloor = 1 .. m
    <2>1. OffFloor = SubSeq(CoreOrder, 1, m)
        BY <1>n, <1>m DEF OffFloor
    <2>2. m <= n /\ 1 .. m \subseteq 1 .. n
        BY <1>1, <1>n, <1>m
    <2>3. \A i \in 1 .. m : CoreOrder[i] \in Nat
        BY <1>1, <1>n, <2>2
    <2> QED
        BY <1>1, <1>n, <2>1, <2>2, <2>3
<1>b. \A i \in 1 .. m : OffFloor[i] = CoreOrder[i] /\ i \in DOMAIN CoreOrder
    BY <1>1, <1>n, <1>m, <1>a
<1>4. OffFloor \in Seq(Nat) /\ Len(OffFloor) = Len(CoreOrder) - CiFloor
    BY <1>n, <1>m, <1>a
<1>5. /\ Floor \in Seq(Nat) /\ Len(Floor) = CiFloor
      /\ DOMAIN Floor = 1 .. CiFloor
      /\ \A i \in 1 .. CiFloor : Floor[i] = CoreOrder[m + i] /\ m + i \in DOMAIN CoreOrder
    <2>1. PICK c \in Nat : c = CiFloor
        BY <1>1
    <2>2. m + c = n /\ \A i \in 1 .. c : m + i \in 1 .. n
        BY <1>1, <1>n, <1>m, <2>1
    <2>3. PICK f : f = SubSeq(CoreOrder, m + 1, m + c)
        OBVIOUS
    <2>4. Floor = f
        BY <1>1, <1>n, <1>m, <2>1, <2>2, <2>3 DEF Floor
    <2>5. \A i \in 1 .. c : CoreOrder[m + i] \in Nat
        BY <1>1, <1>n, <2>2
    <2>6. f = [i \in 1 .. c |-> CoreOrder[m + i]]
        BY <1>1, <1>n, <2>2, <2>3
    <2>7. f \in Seq(Nat) /\ Len(f) = c /\ DOMAIN f = 1 .. c
        BY <2>5, <2>6
    <2>8. \A i \in 1 .. c : f[i] = CoreOrder[m + i]
        BY <2>6
    <2> QED
        BY <1>1, <1>n, <2>1, <2>2, <2>4, <2>7, <2>8
<1>6. OffFloorCores \subseteq Cores
    BY <1>a, <1>b DEF OffFloorCores, Cores, ToSet
<1>7. \A i \in 1 .. CiFloor : Floor[i] \in Cores
    BY <1>5 DEF Cores, ToSet
<1>8. ToSet(Floor \o OffFloor) \subseteq Cores
    <2>1. ToSet(Floor) \subseteq Cores
        BY <1>5, <1>7 DEF ToSet
    <2> QED
        BY <1>4, <1>5, <1>6, <2>1, Joined DEF OffFloorCores
<1> QED
    BY <1>1, <1>2, <1>3, <1>4, <1>6, <1>8 DEF Preference, OffFloorCores

\* Free cores are neither blocked nor used.
LEMMA FreeWithin ==
    ASSUME NEW order, NEW used
    PROVE  Free(order, used) \subseteq ToSet(order) \ (Blocked \cup used)
<1> DEFINE S == ToSet(order) \ (Blocked \cup used)
           n == Len(order) - KeepFree - Cardinality(used \cap ToSet(order))
<1>1. FirstOf(order, S, n) \subseteq S
    BY FirstOfWithin
<1> QED
    BY <1>1 DEF Free

\* Free cores off the floor, with the used ones there, keep to the budget.
LEMMA FreeKeepsBudget ==
    ASSUME NEW used, Free(OffFloor, used) # {}
    PROVE  /\ IsFiniteSet(Free(OffFloor, used) \cup (used \cap OffFloorCores))
           /\ Cardinality(Free(OffFloor, used) \cup (used \cap OffFloorCores)) <= Budget
<1> DEFINE U == used \cap OffFloorCores
           S == OffFloorCores \ (Blocked \cup used)
           n == Len(OffFloor) - KeepFree - Cardinality(U)
           F == FirstOf(OffFloor, S, n)
<1>1. /\ IsFiniteSet(Cores) /\ OffFloorCores \subseteq Cores /\ OffFloor \in Seq(Nat)
      /\ Len(OffFloor) = Len(CoreOrder) - CiFloor
      /\ Len(CoreOrder) \in Nat /\ KeepFree \in Nat /\ CiFloor \in Nat
    BY CoreFacts
<1>2. IsFiniteSet(U) /\ Cardinality(U) \in Nat
    <2>1. U \subseteq Cores
        BY <1>1
    <2>2. IsFiniteSet(U)
        BY <1>1, <2>1, FS_Subset
    <2> QED
        BY <2>2, FS_CardinalityType
<1>3. n \in Int
    BY <1>1, <1>2
<1>4. Free(OffFloor, used) = F
    BY DEF Free, OffFloorCores
<1>5. /\ IsFiniteSet(F) /\ Cardinality(F) \in Nat
      /\ n <= 0 => F = {}
      /\ n >= 0 => Cardinality(F) <= n
    <2> HIDE DEF n, S
    <2> QED
        BY <1>1, <1>3, FirstOfAtMost
<1>6. n > 0 /\ Cardinality(F) <= n
    <2>1. ~(n <= 0)
        BY <1>4, <1>5
    <2> QED
        BY <1>3, <1>5, <2>1
<1>7. /\ IsFiniteSet(F \cup U)
      /\ Cardinality(F \cup U) = Cardinality(F) + Cardinality(U) - Cardinality(F \cap U)
    BY <1>2, <1>5, FS_Union
<1>8. F \cap U = {}
    BY FirstOfWithin
<1>9. Cardinality(F \cap U) = 0
    BY <1>8, FS_EmptySet
<1>10. Cardinality(F \cup U) <= Len(OffFloor) - KeepFree
    <2> HIDE DEF F, U, S
    <2> QED
        BY <1>1, <1>2, <1>3, <1>5, <1>6, <1>7, <1>9
<1> QED
    BY <1>1, <1>4, <1>7, <1>10, FS_CardinalityType DEF Budget

\* A set within a bounded finite set is bounded.
LEMMA Smaller ==
    ASSUME NEW S, NEW T, IsFiniteSet(T), S \subseteq T, Cardinality(T) <= Budget
    PROVE  Cardinality(S) <= Budget
<1>1. IsFiniteSet(S) /\ Cardinality(S) <= Cardinality(T)
    BY FS_Subset
<1>2. Cardinality(S) \in Nat /\ Cardinality(T) \in Nat
    BY <1>1, FS_CardinalityType
<1> QED
    BY <1>1, <1>2, CoreFacts

-----------------------------------------------------------------------------
(* Claims and what they make of the invariant.                             *)

\* A claim holds what it is guaranteed and lends the rest.
LEMMA HeldIsGuaranteed ==
    ASSUME NEW c, NEW j, Sound(c, j)
    PROVE  Held(c) = c.guaranteed /\ Lent(c) = c.cores \ c.guaranteed
    BY DEF Sound, Held, Lent

\* The other claims are those of the other jobs.
LEMMA OthersAre ==
    ASSUME \A k \in Jobs : JobInv(k), NEW j \in Jobs
    PROVE  /\ \A k \in Jobs \ {j} : claim[k] # None => claim[k] \in Others(claim, j)
           /\ \A d \in Others(claim, j) : \E k \in Jobs \ {j} : claim[k] # None /\ d = claim[k]
<1>1. \A k \in Jobs : claim[k] # None => claim[k].id = k
    BY DEF JobInv, Sound
<1> QED
    BY <1>1 DEF Others, Records

\* So they are after an update of one's own claim.
LEMMA OthersOfUpdate ==
    ASSUME TypeOK, \A k \in Jobs : JobInv(k), NEW j \in Jobs, NEW r, r # None, r.id = j
    PROVE  /\ Others([claim EXCEPT ![j] = r], j) = Others(claim, j)
           /\ Records([claim EXCEPT ![j] = r]) = Others(claim, j) \cup {r}
<1> DEFINE cl == [claim EXCEPT ![j] = r]
<1>1. cl[j] = r /\ \A k \in Jobs \ {j} : cl[k] = claim[k]
    BY DEF TypeOK
<1>2. \A k \in Jobs : claim[k] # None => claim[k].id = k
    BY DEF JobInv, Sound
<1> HIDE DEF cl
<1>3. Others(cl, j) = {claim[k] : k \in {i \in Jobs \ {j} : claim[i] # None}}
    BY <1>1, <1>2 DEF Others, Records
<1>4. Others(claim, j) = {claim[k] : k \in {i \in Jobs \ {j} : claim[i] # None}}
    BY <1>2 DEF Others, Records
<1>5. Records(cl) = {claim[k] : k \in {i \in Jobs \ {j} : claim[i] # None}} \cup {r}
    BY <1>1 DEF Records
<1> QED
    BY <1>3, <1>4, <1>5 DEF cl

\* What is held and what is reached are finite sets of cores.
LEMMA FiniteReach ==
    ASSUME TypeOK, \A j \in Jobs : JobInv(j)
    PROVE  /\ AllHeld \subseteq OffFloorCores /\ IsFiniteSet(AllHeld)
           /\ AllReach \subseteq OffFloorCores /\ IsFiniteSet(AllReach)
<1>1. AllHeld \subseteq OffFloorCores
    BY DEF AllHeld, JobInv, Sound
<1>2. AllReach \subseteq OffFloorCores
    <2> SUFFICES ASSUME NEW j \in Jobs, at[j] = "running", ~claim[j].background
                 PROVE  Reach(j) \subseteq OffFloorCores
        BY DEF AllReach
    <2>1. JobInv(j) /\ claim[j] # None
        BY DEF JobInv
    <2> QED
        BY <2>1 DEF JobInv, Sound, Reach
<1>3. IsFiniteSet(OffFloorCores)
    BY CoreFacts, FS_Subset
<1> QED
    BY <1>1, <1>2, <1>3, FS_Subset

\* A step of one job keeps the invariant if it does so for that job.
LEMMA OneJob ==
    ASSUME IInv, NEW j \in Jobs, NEW c \in Claims \cup {None}, NEW a \in Places, NEW t \in Trees,
           claim' = [claim EXCEPT ![j] = c], at' = [at EXCEPT ![j] = a],
           tree' = [tree EXCEPT ![j] = t], UNCHANGED timedVars,
           JobInv(j)', \A k \in Jobs \ {j} : PairInv(j, k)' /\ PairInv(k, j)',
           timedAt = "running" /\ a = "running" /\ ~t.stopped => t.mask \cap declared = {},
           BudgetInv'
    PROVE  IInv'
<1>1. TypeOK'
    BY DEF IInv, TypeOK, Places
<1>2. \A k \in Jobs \ {j} : claim'[k] = claim[k] /\ at'[k] = at[k] /\ tree'[k] = tree[k]
    BY DEF IInv, TypeOK
<1>3. at'[j] = a /\ tree'[j] = t
    BY DEF IInv, TypeOK
<1>4. ASSUME NEW k \in Jobs PROVE JobInv(k)'
    <2>1. CASE k = j
        BY <2>1
    <2>2. CASE k # j
        BY <1>2, <2>2 DEF IInv, JobInv
    <2> QED
        BY <2>1, <2>2
<1>5. ASSUME NEW i \in Jobs, NEW k \in Jobs, i # k PROVE PairInv(i, k)'
    <2>1. CASE i = j \/ k = j
        BY <1>5, <2>1
    <2>2. CASE i # j /\ k # j
        BY <1>2, <1>5, <2>2 DEF IInv, PairInv, Runs
    <2> QED
        BY <2>1, <2>2
<1>6. TimedInv'
    <2>1. UNCHANGED <<lock, declared, timedAt>>
        BY DEF timedVars
    <2>2. ASSUME timedAt = "running", NEW k \in Jobs PROVE RunsOn(k)' \cap declared = {}
        <3>1. CASE k = j
            BY <1>3, <2>2, <3>1 DEF RunsOn
        <3>2. CASE k # j
            BY <1>2, <2>2, <3>2 DEF RunsOn, IInv, TimedInv, TimedExclusive
        <3> QED
            BY <3>1, <3>2
    <2> QED
        BY <2>1, <2>2 DEF IInv, TimedInv, TimedExclusive
<1> QED
    BY <1>1, <1>4, <1>5, <1>6 DEF IInv

-----------------------------------------------------------------------------
(* A claim that leaves, or is updated by its runner.                       *)

\* A job that queues, ends, releases or dies runs nothing and takes nothing.
LEMMA LeavingKeeps ==
    ASSUME IInv, NEW j \in Jobs, NEW c, NEW a \in {"queued", "over", "gone"}, NEW t \in Trees,
           claim' = [claim EXCEPT ![j] = c], at' = [at EXCEPT ![j] = a],
           tree' = [tree EXCEPT ![j] = t], UNCHANGED timedVars,
           a = "over" => at[j] = "running" /\ c = claim[j],
           a # "over" => c = None
    PROVE  IInv'
<1>1. \A k \in Jobs \ {j} : claim'[k] = claim[k] /\ at'[k] = at[k] /\ tree'[k] = tree[k]
    BY DEF IInv, TypeOK
<1>2. claim'[j] = c /\ at'[j] = a /\ tree'[j] = t
    BY DEF IInv, TypeOK
<1>3. c \in Claims \cup {None} /\ a \in Places
    BY DEF IInv, TypeOK, Places
<1>4. JobInv(j) /\ (claim[j] # None => claim[j] \in Claims)
    BY DEF IInv, TypeOK
<1>5. JobInv(j)'
    BY <1>2, <1>4 DEF JobInv
<1>6. ASSUME NEW k \in Jobs \ {j} PROVE PairInv(j, k)' /\ PairInv(k, j)'
    <2>1. PairInv(j, k) /\ PairInv(k, j)
        BY DEF IInv
    <2>2. claim'[k] = claim[k] /\ at'[k] = at[k]
        BY <1>1
    <2> QED
        BY <1>2, <2>1, <2>2 DEF PairInv, Runs
<1>7. BudgetInv'
    <2>1. /\ IsFiniteSet(AllHeld) /\ Cardinality(AllHeld) <= Budget
          /\ IsFiniteSet(AllReach) /\ Cardinality(AllReach) <= Budget
        BY FiniteReach DEF IInv, BudgetInv
    <2>2. AllHeld' \subseteq AllHeld
        BY <1>1, <1>2 DEF AllHeld
    <2>3. AllReach' \subseteq AllReach
        <3> SUFFICES ASSUME NEW k \in Jobs, at'[k] = "running", ~claim'[k].background
                     PROVE  Reach(k)' \subseteq AllReach
            BY DEF AllReach
        <3>1. k # j
            BY <1>2
        <3> QED
            BY <1>1, <3>1 DEF AllReach, Reach, Runs
    <2> QED
        BY <2>1, <2>2, <2>3, Smaller DEF BudgetInv
<1> QED
    BY <1>2, <1>3, <1>5, <1>6, <1>7, OneJob

\* What a poll makes of a claim is no wider than before, or clear of what
\* everyone else holds, of timed work, and of started claims it yields to.
Wider(j, c, t) ==
    ~(Runs(j) /\ c.cores \subseteq claim[j].cores /\ t.mask \subseteq tree[j].mask)

Clear(j, c, t) ==
    /\ t.mask \cap Blocked = {}
    /\ \A k \in Jobs \ {j} : claim[k] # None =>
          /\ (c.cores \ c.guaranteed) \cap claim[k].guaranteed = {}
          /\ c.background /\ at[k] = "running" /\ ~claim[k].background
                => c.guaranteed \cap claim[k].guaranteed = {}

\* A claim that starts finds its own cores left by those that lend them.
Vacant(j, c) ==
    \A k \in Jobs \ {j} : Runs(k) =>
        /\ (claim[k].cores \ claim[k].guaranteed) \cap c.guaranteed = {}
        /\ claim[k].background /\ ~c.background => c.guaranteed \cap claim[k].guaranteed = {}

\* A poll keeps the invariant under these conditions and within the budget.
LEMMA UpdateKeeps ==
    ASSUME IInv, NEW j \in Jobs, at[j] \in {"admitted", "running"},
           NEW c \in Claims, NEW a \in {"admitted", "running"}, NEW t \in Trees,
           claim' = [claim EXCEPT ![j] = c], at' = [at EXCEPT ![j] = a],
           tree' = [tree EXCEPT ![j] = t], UNCHANGED timedVars,
           Sound(c, j), Fits(c, t), c.guaranteed = claim[j].guaranteed,
           claim[j].background => c.background, at[j] = "running" => a = "running",
           a = "admitted" => ~t.stopped, a = "running" => (t.stopped <=> c.state = "suspended"),
           \A k \in Jobs \ {j} : claim[k] # None =>
               (c.cores \ c.guaranteed) \cap (claim[k].cores \ claim[k].guaranteed) = {},
           a = "running" /\ c.state # "suspended" /\ Wider(j, c, t) => Clear(j, c, t),
           a # at[j] => Vacant(j, c),
           Cardinality(AllReach') <= Budget
    PROVE  IInv'
<1>1. \A k \in Jobs \ {j} : claim'[k] = claim[k] /\ at'[k] = at[k] /\ tree'[k] = tree[k]
    BY DEF IInv, TypeOK
<1>2. claim'[j] = c /\ at'[j] = a /\ tree'[j] = t
    BY DEF IInv, TypeOK
<1>3. c # None /\ claim[j] # None /\ JobInv(j) /\ a \in Places
    BY NoneAssumption DEF IInv, JobInv, Places
<1>4. JobInv(j)'
    BY <1>2, <1>3 DEF JobInv
<1>5. ASSUME NEW k \in Jobs \ {j} PROVE PairInv(j, k)' /\ PairInv(k, j)'
    <2> SUFFICES ASSUME claim[k] # None PROVE PairInv(j, k)' /\ PairInv(k, j)'
        BY <1>1 DEF PairInv
    <2>1. PairInv(j, k) /\ PairInv(k, j)
        BY DEF IInv
    <2>2. claim'[k] = claim[k] /\ at'[k] = at[k] /\ (Runs(k)' <=> Runs(k))
        BY <1>1 DEF Runs
    <2>3. Runs(j)' <=> a = "running" /\ c.state # "suspended"
        BY <1>2 DEF Runs
    <2>4. at[j] = "running" /\ Runs(k)
             => (claim[k].cores \ claim[k].guaranteed) \cap claim[j].guaranteed = {}
        BY <1>3, <2>1 DEF PairInv
    <2>5. Runs(j) /\ at[k] = "running"
             => (claim[j].cores \ claim[j].guaranteed) \cap claim[k].guaranteed = {}
        BY <1>3, <2>1 DEF PairInv
    <2>6. (~claim[j].background /\ ~claim[k].background) \/ (Background(j) /\ Background(k))
             => claim[j].guaranteed \cap claim[k].guaranteed = {}
        BY <1>3, <2>1 DEF PairInv
    <2>7. at[k] = "running" /\ ~claim[k].background /\ Runs(j) /\ claim[j].background
             => claim[k].guaranteed \cap claim[j].guaranteed = {}
        BY <1>3, <2>1 DEF PairInv
    <2>8. at[j] = "running" /\ ~claim[j].background /\ Runs(k) /\ claim[k].background
             => claim[j].guaranteed \cap claim[k].guaranteed = {}
        BY <1>3, <2>1 DEF PairInv
    <2>9. (c.cores \ c.guaranteed) \cap (claim[k].cores \ claim[k].guaranteed) = {}
        OBVIOUS
    <2>10. Runs(j)' /\ at[k] = "running" => (c.cores \ c.guaranteed) \cap claim[k].guaranteed = {}
        BY <2>3, <2>5 DEF Wider, Clear
    <2>11. Runs(k) /\ a = "running" => (claim[k].cores \ claim[k].guaranteed) \cap c.guaranteed = {}
        BY <2>4 DEF Vacant
    <2>12. a = "running" /\ ~c.background /\ Runs(k) /\ claim[k].background
              => c.guaranteed \cap claim[k].guaranteed = {}
        BY <2>8 DEF Vacant
    <2>13. at[k] = "running" /\ ~claim[k].background /\ Runs(j)' /\ c.background
              => c.guaranteed \cap claim[k].guaranteed = {}
        BY <2>3, <2>6, <2>7 DEF Wider, Clear
    <2>14. PairInv(j, k)'
        BY <1>2, <2>2, <2>6, <2>9, <2>10, <2>12 DEF PairInv
    <2>15. PairInv(k, j)'
        BY <1>2, <2>2, <2>6, <2>9, <2>11, <2>13 DEF PairInv
    <2> QED
        BY <2>14, <2>15
<1>6. ASSUME timedAt = "running", a = "running", ~t.stopped PROVE t.mask \cap declared = {}
    <2>1. Blocked = declared
        BY <1>6 DEF IInv, TimedInv, Blocked
    <2>2. CASE Wider(j, c, t)
        BY <1>6, <2>1, <2>2 DEF Clear
    <2>3. CASE ~Wider(j, c, t)
        <3>1. Runs(j) /\ t.mask \subseteq tree[j].mask
            BY <2>3 DEF Wider
        <3>2. RunsOn(j) = tree[j].mask
            BY <1>3, <3>1 DEF Runs, RunsOn, JobInv
        <3>3. RunsOn(j) \cap declared = {}
            BY <1>6 DEF IInv, TimedInv, TimedExclusive
        <3> QED
            BY <3>1, <3>2, <3>3
    <2> QED
        BY <2>2, <2>3
<1>7. BudgetInv'
    <2>1. IsFiniteSet(AllHeld) /\ Cardinality(AllHeld) <= Budget
        BY FiniteReach DEF IInv, BudgetInv
    <2>2. AllHeld' \subseteq AllHeld
        <3> SUFFICES ASSUME NEW k \in Jobs, claim'[k] # None, ~claim'[k].background
                     PROVE  claim'[k].guaranteed \subseteq AllHeld
            BY DEF AllHeld
        <3>1. claim[k] # None /\ ~claim[k].background /\ claim'[k].guaranteed = claim[k].guaranteed
            BY <1>1, <1>2, <1>3
        <3> QED
            BY <3>1 DEF AllHeld
    <2>3. Cardinality(AllHeld') <= Budget
        BY <2>1, <2>2, Smaller
    <2> QED
        BY <2>3 DEF BudgetInv, Budget
<1> QED
    BY <1>3, <1>4, <1>5, <1>6, <1>7, OneJob

-----------------------------------------------------------------------------
(* Admission.                                                              *)

\* The record of a new claim on these cores.
Fresh(r, j, cores) ==
    /\ r \in Claims /\ r.id = j /\ r.guaranteed = cores
    /\ (r.background <=> Background(j)) /\ (r.shared <=> Shared(j)) /\ r.state = "running"
    /\ cores \subseteq r.cores
    /\ ~r.shared => r.cores = cores
    /\ r.cores \ cores \subseteq OffFloorCores
    /\ \A k \in Jobs : claim[k] # None => (r.cores \ cores) \cap claim[k].cores = {}

\* A new claim is guaranteed the cores chosen for it; what it has beyond them
\* no other claim is on.
LEMMA NewClaim ==
    ASSUME NEW j \in Jobs, NEW cores \in SUBSET Cores, NEW head \in Jobs \cup {None},
           NEW r, r = ClaimRecord(j, cores, head)
    PROVE  Fresh(r, j, cores)
<1> USE DEF Fresh
<1> DEFINE plain == PlainRecord(j, cores, head)
           U == Unclaimed(Records(claim) \cup {plain})
           extra == FirstOf(OffFloor, U, Request[j].want - Cardinality(cores))
<1>1. /\ plain \in Claims /\ plain.id = j /\ plain.cores = cores /\ plain.guaranteed = cores
      /\ (plain.background <=> Background(j)) /\ (plain.shared <=> Shared(j)) /\ plain.state = "running"
    BY DEF PlainRecord, Claims, Background, Shared
<1>2. r = IF Shared(j) /\ queue = <<j>> THEN [plain EXCEPT !.cores = @ \cup extra] ELSE plain
    BY DEF ClaimRecord
<1>3. extra \subseteq U
    BY FirstOfWithin
<1>4. U \subseteq OffFloorCores \ (Blocked \cup Occupied(Records(claim) \cup {plain}))
    BY FreeWithin DEF Unclaimed, OffFloorCores
<1>5. \A k \in Jobs : claim[k] # None => U \cap claim[k].cores = {}
    <2> SUFFICES ASSUME NEW k \in Jobs, claim[k] # None
                 PROVE  claim[k].cores \subseteq Occupied(Records(claim) \cup {plain})
        BY <1>4
    <2>1. claim[k] \in Records(claim)
        BY DEF Records
    <2> QED
        BY <2>1 DEF Occupied
<1>6. extra \subseteq OffFloorCores /\ extra \in SUBSET Cores
    BY <1>3, <1>4, CoreFacts
<1> HIDE DEF plain, U, extra
<1>7. CASE Shared(j) /\ queue = <<j>>
    <2>1. r = [plain EXCEPT !.cores = cores \cup extra]
        BY <1>1, <1>2, <1>7
    <2>2. r \in Claims /\ r.cores = cores \cup extra /\ r.id = j /\ r.guaranteed = cores
        BY ONLY <1>1, <1>6, <2>1, cores \in SUBSET Cores DEF Claims
    <2>3. (r.background <=> Background(j)) /\ (r.shared <=> Shared(j)) /\ r.state = "running"
        BY ONLY <1>1, <1>6, <2>1 DEF Claims
    <2> QED
        BY <1>3, <1>5, <1>6, <1>7, <2>2, <2>3
<1>8. CASE ~(Shared(j) /\ queue = <<j>>)
    <2>1. r = plain
        BY <1>2, <1>8
    <2> QED
        BY <1>1, <2>1
<1> QED
    BY <1>7, <1>8

\* An admission keeps the invariant when the chosen cores are held by nobody
\* that counts and keep to the budget.
LEMMA AdmittedKeeps ==
    ASSUME IInv, NEW j \in Jobs, at[j] = "queued", NEW cores \in SUBSET Cores,
           NEW head \in Jobs \cup {None}, Admitted(j, cores, head),
           \A k \in Jobs : claim[k] # None /\ (Background(j) \/ ~claim[k].background)
               => cores \cap claim[k].guaranteed = {},
           ~Background(j) => cores \subseteq OffFloorCores /\ Cardinality(AllHeld \cup cores) <= Budget
    PROVE  IInv'
<1>0. PICK r : r = ClaimRecord(j, cores, head)
    OBVIOUS
<1> DEFINE t == Pinned(r.cores)
<1>1. /\ claim' = [claim EXCEPT ![j] = r] /\ at' = [at EXCEPT ![j] = "admitted"]
      /\ tree' = [tree EXCEPT ![j] = t] /\ UNCHANGED timedVars
    BY <1>0 DEF Admitted
<1>2. /\ r \in Claims /\ r.id = j /\ r.guaranteed = cores
      /\ (r.background <=> Background(j)) /\ (r.shared <=> Shared(j)) /\ r.state = "running"
      /\ cores \subseteq r.cores
      /\ ~r.shared => r.cores = cores
      /\ r.cores \ cores \subseteq OffFloorCores
      /\ \A k \in Jobs : claim[k] # None => (r.cores \ cores) \cap claim[k].cores = {}
    <2>1. Fresh(r, j, cores)
        BY <1>0, NewClaim
    <2> QED
        BY <2>1 DEF Fresh
<1>3. r.cores \in SUBSET Cores /\ r # None
    BY <1>2, NoneAssumption DEF Claims
<1>5. t \in Trees /\ t.cores = r.cores /\ t.mask = r.cores /\ t.applied /\ ~t.stopped
    BY <1>3 DEF Trees, Pinned
<1> HIDE DEF t
<1>6. \A k \in Jobs \ {j} : claim'[k] = claim[k] /\ at'[k] = at[k]
    BY <1>1 DEF IInv, TypeOK
<1>7. claim'[j] = r /\ at'[j] = "admitted" /\ tree'[j] = t /\ claim[j] = None
    BY <1>1 DEF IInv, TypeOK, JobInv
<1>8. JobInv(j)'
    <2>1. Background(j) => ~Shared(j)
        BY DEF Background, Shared
    <2>2. Sound(r, j)
        BY <1>2, <2>1 DEF Sound
    <2>3. Fits(r, t)
        BY <1>2, <1>5 DEF Fits
    <2> QED
        BY <1>3, <1>5, <1>7, <2>2, <2>3 DEF JobInv
<1>9. ASSUME NEW k \in Jobs \ {j} PROVE PairInv(j, k)' /\ PairInv(k, j)'
    <2> SUFFICES ASSUME claim[k] # None PROVE PairInv(j, k)' /\ PairInv(k, j)'
        BY <1>6 DEF PairInv
    <2>1. Sound(claim[k], k)
        BY DEF IInv, JobInv
    <2>2. Background(j) \/ ~claim[k].background => cores \cap claim[k].guaranteed = {}
        OBVIOUS
    <2>3. (r.cores \ r.guaranteed) \cap (claim[k].cores \ claim[k].guaranteed) = {}
        BY <1>2
    <2>4. claim'[k] = claim[k] /\ ~Runs(j)' /\ at'[j] # "running"
        BY <1>6, <1>7 DEF Runs
    <2> QED
        BY <1>2, <1>7, <2>1, <2>2, <2>3, <2>4 DEF PairInv, Sound
<1>10. BudgetInv'
    <2>1. /\ IsFiniteSet(AllHeld) /\ Cardinality(AllHeld) <= Budget
          /\ IsFiniteSet(AllReach) /\ Cardinality(AllReach) <= Budget
        BY FiniteReach DEF IInv, BudgetInv
    <2>2. IsFiniteSet(cores)
        BY CoreFacts, FS_Subset
    <2>3. IsFiniteSet(AllHeld \cup cores)
        BY <2>1, <2>2, FS_Union
    <2>4. AllHeld' \subseteq IF Background(j) THEN AllHeld ELSE AllHeld \cup cores
        <3> SUFFICES ASSUME NEW k \in Jobs, claim'[k] # None, ~claim'[k].background
                     PROVE  claim'[k].guaranteed \subseteq
                                IF Background(j) THEN AllHeld ELSE AllHeld \cup cores
            BY DEF AllHeld
        <3>1. CASE k = j
            BY <1>2, <1>7, <3>1
        <3>2. CASE k # j
            BY <1>6, <3>2 DEF AllHeld
        <3> QED
            BY <3>1, <3>2
    <2>5. Cardinality(AllHeld') <= Budget
        BY <2>1, <2>3, <2>4, Smaller
    <2>6. AllReach' \subseteq AllReach
        <3> SUFFICES ASSUME NEW k \in Jobs, at'[k] = "running", ~claim'[k].background
                     PROVE  Reach(k)' \subseteq AllReach
            BY DEF AllReach
        <3>1. k # j
            BY <1>7
        <3> QED
            BY <1>6, <3>1 DEF AllReach, Reach, Runs
    <2>7. Cardinality(AllReach') <= Budget
        BY <2>1, <2>6, Smaller
    <2> QED
        BY <2>5, <2>7 DEF BudgetInv, Budget
<1> QED
    BY <1>1, <1>2, <1>5, <1>8, <1>9, <1>10, OneJob DEF Places

\* Cores a request of a class may be given.
Grantable(cores, b, ci) ==
    /\ cores \in SUBSET Cores
    /\ \A k \in Jobs : claim[k] # None /\ (b \/ ~claim[k].background)
          => cores \cap claim[k].guaranteed = {}
    /\ ~ci => cores \subseteq OffFloorCores /\ Cardinality(AllHeld \cup cores) <= Budget

\* The cores available to a request meet these conditions.
LEMMA AvailableCores ==
    ASSUME IInv, NEW b \in BOOLEAN, NEW ci \in BOOLEAN, ci => b,
           NEW n, NEW cores, cores = FirstOf(Preference(ci), Available(Records(claim), b, ci), n)
    PROVE  Grantable(cores, b, ci)
<1> DEFINE used == UNION {Held(c) : c \in {d \in Records(claim) : b \/ ~d.background}}
           A == Available(Records(claim), b, ci)
<1>1. A = Free(Preference(ci), used)
    BY DEF Available
<1>2. cores \subseteq A
    BY FirstOfWithin
<1>3. A \subseteq ToSet(Preference(ci)) \ (Blocked \cup used)
    BY <1>1, FreeWithin
<1>4. \A k \in Jobs : claim[k] # None /\ (b \/ ~claim[k].background) => claim[k].guaranteed \subseteq used
    <2> SUFFICES ASSUME NEW k \in Jobs, claim[k] # None, b \/ ~claim[k].background
                 PROVE  claim[k].guaranteed \subseteq used
        OBVIOUS
    <2>1. claim[k] \in {d \in Records(claim) : b \/ ~d.background}
        BY DEF Records
    <2>2. Held(claim[k]) = claim[k].guaranteed
        BY HeldIsGuaranteed DEF IInv, JobInv
    <2> QED
        BY <2>1, <2>2
<1> HIDE DEF used, A
<1>5. cores \in SUBSET Cores
    BY <1>2, <1>3, CoreFacts
<1>6. ASSUME ~ci PROVE cores \subseteq OffFloorCores /\ Cardinality(AllHeld \cup cores) <= Budget
    <2>1. Preference(ci) = OffFloor
        BY <1>6, CoreFacts
    <2>2. cores \subseteq OffFloorCores
        BY <1>2, <1>3, <2>1 DEF OffFloorCores
    <2>3. AllHeld \subseteq used /\ AllHeld \subseteq OffFloorCores
        BY <1>4, FiniteReach DEF AllHeld, IInv
    <2>4. CASE cores = {}
        BY <2>2, <2>4 DEF IInv, BudgetInv
    <2>5. CASE cores # {}
        <3>1. /\ IsFiniteSet(A \cup (used \cap OffFloorCores))
              /\ Cardinality(A \cup (used \cap OffFloorCores)) <= Budget
            BY <1>1, <1>2, <2>1, <2>5, FreeKeepsBudget
        <3>2. AllHeld \cup cores \subseteq A \cup (used \cap OffFloorCores)
            BY <1>2, <2>3
        <3>3. Cardinality(AllHeld \cup cores) <= Budget
            BY <3>1, <3>2, Smaller
        <3> QED
            BY <2>2, <3>3
    <2> QED
        BY <2>4, <2>5
<1> QED
    BY <1>2, <1>3, <1>4, <1>5, <1>6 DEF Grantable

\* The head of the queue is admitted.
LEMMA AdmitKeeps ==
    ASSUME IInv, NEW j \in Jobs, Admit(j)
    PROVE  IInv'
<1> DEFINE b == Background(j)
           cores == FirstOf(Preference(b), Available(Records(claim), b, b), Wanted(j))
<1>1. at[j] = "queued" /\ Admitted(j, cores, None)
    BY DEF Admit
<1>2. b \in BOOLEAN
    BY DEF Background
<1>3. /\ cores \in SUBSET Cores
      /\ \A k \in Jobs : claim[k] # None /\ (b \/ ~claim[k].background)
            => cores \cap claim[k].guaranteed = {}
      /\ ~b => cores \subseteq OffFloorCores /\ Cardinality(AllHeld \cup cores) <= Budget
    <2>1. Grantable(cores, b, b)
        BY <1>2, AvailableCores
    <2> QED
        BY <2>1 DEF Grantable
<1> HIDE DEF cores
<1> QED
    BY <1>1, <1>3, AdmittedKeeps

\* A request behind the head is admitted before it.
LEMMA BackfillKeeps ==
    ASSUME IInv, QueueInv, NEW j \in Jobs, Backfill(j)
    PROVE  IInv'
<1>1. PICK head \in Jobs : at[j] = "queued" /\ Admitted(j, BackfillCores(head, j), head)
    <2>1. PICK i \in 2 .. Len(queue) :
             queue[i] = j /\ Admitted(j, BackfillCores(Head(queue), j), Head(queue))
        BY DEF Backfill
    <2>2. Head(queue) \in Jobs /\ i \in 1 .. Len(queue)
        BY DEF QueueInv
    <2>3. at[j] = "queued"
        BY <2>1, <2>2 DEF QueueInv, Has
    <2> QED
        BY <2>1, <2>2, <2>3
<1> DEFINE chosen == FirstOf(OffFloor, Available(Records(claim), TRUE, FALSE), Wanted(j))
           cores == BackfillCores(head, j)
<1>2. cores = {} \/ (cores = chosen /\ ~Background(j))
    BY DEF BackfillCores
<1>3. chosen = FirstOf(Preference(FALSE), Available(Records(claim), TRUE, FALSE), Wanted(j))
    BY CoreFacts
<1> HIDE DEF chosen, cores
<1>4. /\ chosen \in SUBSET Cores
      /\ \A k \in Jobs : claim[k] # None => chosen \cap claim[k].guaranteed = {}
      /\ chosen \subseteq OffFloorCores /\ Cardinality(AllHeld \cup chosen) <= Budget
    <2>1. Grantable(chosen, TRUE, FALSE)
        BY <1>3, AvailableCores
    <2> QED
        BY <2>1 DEF Grantable
<1>5. CASE cores = {}
    <2>1. AllHeld \cup cores = AllHeld
        BY <1>5
    <2>2. Cardinality(AllHeld) <= Budget
        BY DEF IInv, BudgetInv
    <2> QED
        BY <1>1, <1>5, <2>1, <2>2, AdmittedKeeps DEF cores
<1>6. CASE cores = chosen
    BY <1>1, <1>4, <1>6, AdmittedKeeps DEF cores
<1> QED
    BY <1>2, <1>5, <1>6

-----------------------------------------------------------------------------
(* What a shared claim gives back.                                         *)

\* The cores of other claims.
OthersOn(j) == Occupied(Others(claim, j))

\* Occupied cores of a set of claims with one more.
LEMMA OccupiedJoin ==
    ASSUME NEW cs, NEW r
    PROVE  Occupied(cs \cup {r}) = Occupied(cs) \cup r.cores
    BY DEF Occupied

\* Others are on cores of the host only.
LEMMA OthersOnCores ==
    ASSUME TypeOK, \A k \in Jobs : JobInv(k), NEW j \in Jobs
    PROVE  /\ OthersOn(j) \subseteq Cores /\ IsFiniteSet(OthersOn(j))
           /\ \A k \in Jobs \ {j} : claim[k] # None => claim[k].cores \subseteq OthersOn(j)
<1>1. \A d \in Others(claim, j) : d.cores \subseteq Cores
    BY OthersAre DEF TypeOK, Claims
<1>2. OthersOn(j) \subseteq Cores
    BY <1>1 DEF OthersOn, Occupied
<1>3. IsFiniteSet(OthersOn(j))
    BY <1>2, CoreFacts, FS_Subset
<1>4. \A k \in Jobs \ {j} : claim[k] # None => claim[k].cores \subseteq OthersOn(j)
    BY OthersAre DEF OthersOn, Occupied
<1> QED
    BY <1>2, <1>3, <1>4

\* The last cores of the order count as many as they are.
LEMMA Reversed ==
    /\ Reverse(CoreOrder) \in Seq(Nat) /\ ToSet(Reverse(CoreOrder)) = Cores
    /\ \A a, b \in DOMAIN Reverse(CoreOrder) : Reverse(CoreOrder)[a] = Reverse(CoreOrder)[b] => a = b
<1>1. /\ CoreOrder \in Seq(Nat) /\ Len(CoreOrder) \in Nat /\ DOMAIN CoreOrder = 1 .. Len(CoreOrder)
      /\ \A a, b \in DOMAIN CoreOrder : CoreOrder[a] = CoreOrder[b] => a = b
    BY ConfigAssumption DEF IsInjective
<1>n. PICK n \in Nat : n = Len(CoreOrder)
    BY <1>1
<1>r. PICK rev : rev = Reverse(CoreOrder)
    OBVIOUS
<1>2. rev = [i \in 1 .. n |-> CoreOrder[n - i + 1]]
    BY <1>n, <1>r DEF Reverse
<1>3. \A i \in 1 .. n : n - i + 1 \in 1 .. n /\ n - (n - i + 1) + 1 = i
    OBVIOUS
<1>4. \A i \in 1 .. n : CoreOrder[i] \in Nat
    BY <1>1, <1>n
<1>5. rev \in Seq(Nat) /\ DOMAIN rev = 1 .. n
    <2>1. rev \in [1 .. n -> Nat]
        BY <1>2, <1>3, <1>4
    <2> QED
        BY <2>1
<1>6. \A i \in 1 .. n : rev[i] = CoreOrder[n - i + 1] /\ rev[n - i + 1] = CoreOrder[i]
    BY <1>2, <1>3
<1>7. ToSet(rev) \subseteq Cores
    BY <1>1, <1>n, <1>3, <1>5, <1>6 DEF ToSet, Cores
<1>8. Cores \subseteq ToSet(rev)
    BY <1>1, <1>n, <1>3, <1>5, <1>6 DEF ToSet, Cores
<1>9. ASSUME NEW a \in 1 .. n, NEW b \in 1 .. n, rev[a] = rev[b] PROVE a = b
    <2>1. CoreOrder[n - a + 1] = CoreOrder[n - b + 1]
        BY <1>6, <1>9
    <2>2. n - a + 1 = n - b + 1
        BY <1>1, <1>n, <1>3, <2>1
    <2> QED
        BY <2>2
<1> QED
    BY <1>r, <1>5, <1>7, <1>8, <1>9

\* What is kept of the lent cores is on no blocked core and on nothing another
\* claim holds, and within the budget; what is given back was lent.
Returned(j, cores, back) ==
    LET g == claim[j].guaranteed
    IN  /\ back \subseteq cores \ g
        /\ ((cores \ g) \ back) \cap Blocked = {}
        /\ \A k \in Jobs \ {j} : claim[k] # None => ((cores \ g) \ back) \cap claim[k].guaranteed = {}
        /\ cores \ g \subseteq back \/ Cardinality(OthersOn(j) \cup (cores \ back)) <= Budget

\* give_back returns that.
LEMMA GivenBack ==
    ASSUME IInv, NEW j \in Jobs, claim[j] # None, claim[j].shared,
           NEW cores, cores \subseteq claim[j].cores, claim[j].guaranteed \subseteq cores,
           NEW me, me = [claim[j] EXCEPT !.cores = cores]
    PROVE  Returned(j, cores, GiveBack(claim, me))
<1> DEFINE g == claim[j].guaranteed
           mine == cores \ g
           held == UNION {Held(d) : d \in Others(claim, j)}
           taken == mine \cap (Blocked \cup held)
           after == [me EXCEPT !.cores = @ \ taken]
           excess == OverBudget(Others(claim, j) \cup {after})
           F == FirstOf(Reverse(CoreOrder), mine \ taken, excess)
           back == GiveBack(claim, me)
<1>1. claim[j] \in Claims /\ claim[j].id = j /\ cores \in SUBSET Cores
    BY DEF IInv, TypeOK, JobInv, Sound, Claims
<1>2. me.id = j /\ me.shared /\ me.guaranteed = g /\ me.cores = cores
    BY ONLY <1>1, claim[j].shared, me = [claim[j] EXCEPT !.cores = cores] DEF Claims
<1>3. after.cores = cores \ taken
    <2>1. me \in Claims
        BY ONLY <1>1, me = [claim[j] EXCEPT !.cores = cores] DEF Claims
    <2> HIDE DEF taken
    <2> QED
        BY ONLY <1>2, <2>1 DEF Claims
<1>4. Lent(me) = mine
    BY <1>2 DEF Lent, Held
<1>5. back = IF queue # <<>> THEN mine ELSE taken \cup F
    BY <1>2, <1>4 DEF GiveBack
<1>6. F \subseteq mine \ taken
    BY FirstOfWithin
<1>7. back \subseteq mine /\ taken \subseteq back
    BY <1>5, <1>6
<1>8. ASSUME NEW k \in Jobs \ {j}, claim[k] # None PROVE claim[k].guaranteed \subseteq held
    <2>1. claim[k] \in Others(claim, j)
        BY <1>8, OthersAre DEF IInv
    <2>2. Held(claim[k]) = claim[k].guaranteed
        BY <1>8, HeldIsGuaranteed DEF IInv, JobInv
    <2> QED
        BY <2>1, <2>2
<1>9. (mine \ back) \cap Blocked = {}
    BY <1>7
<1>10. \A k \in Jobs \ {j} : claim[k] # None => (mine \ back) \cap claim[k].guaranteed = {}
    BY <1>7, <1>8
<1>11. mine \subseteq back \/ Cardinality(OthersOn(j) \cup (cores \ back)) <= Budget
    <2> DEFINE O == OthersOn(j) \cup (cores \ taken)
               N == OthersOn(j) \cup (cores \ back)
    <2>1. CASE queue # <<>>
        BY <1>5, <2>1
    <2>2. CASE queue = <<>>
        <3>1. back = taken \cup F
            BY <1>5, <2>2
        <3>2. excess = Cardinality(O) - Budget
            BY <1>3, OccupiedJoin DEF OverBudget, OthersOn
        <3>3. O \subseteq Cores /\ IsFiniteSet(O)
            <4>1. O \subseteq Cores
                BY <1>1, OthersOnCores DEF IInv
            <4> QED
                BY <4>1, CoreFacts, FS_Subset
        <3>4. Cardinality(O) \in Nat /\ Budget \in Nat
            BY <3>3, CoreFacts, FS_CardinalityType
        <3>5. excess \in Int
            <4> HIDE DEF excess, O
            <4> QED
                BY <3>2, <3>4
        <3>6. mine \ taken \subseteq Cores
            BY <1>1
        <3>7. F = mine \ taken \/ Cardinality(F) >= excess
            <4> HIDE DEF mine, taken, excess
            <4> QED
                BY <3>5, <3>6, Reversed, FirstOfAtLeast
        <3>8. IsFiniteSet(F) /\ Cardinality(F) \in Nat
            <4> HIDE DEF mine, taken, excess
            <4> QED
                BY <3>5, Reversed, FirstOfAtMost
        <3>9. F \cap OthersOn(j) = {}
            <4> HIDE DEF F, held
            <4> SUFFICES ASSUME NEW d \in Others(claim, j) PROVE F \cap d.cores = {}
                BY DEF OthersOn, Occupied
            <4>1. PICK k \in Jobs \ {j} : claim[k] # None /\ d = claim[k]
                BY OthersAre DEF IInv
            <4>2. (claim[j].cores \ g) \cap (claim[k].cores \ claim[k].guaranteed) = {}
                BY <4>1 DEF IInv, PairInv
            <4>3. claim[k].guaranteed \subseteq held
                BY <1>8, <4>1
            <4> QED
                BY <1>6, <4>1, <4>2, <4>3
        <3>10. N = O \ F
            <4> HIDE DEF F, held
            <4> QED
                BY <1>6, <3>1, <3>9
        <3>11. O \cap F = F
            <4> HIDE DEF F, held
            <4> QED
                BY <1>6
        <3>12. IsFiniteSet(O \ F) /\ Cardinality(O \ F) = Cardinality(O) - Cardinality(O \cap F)
            BY <3>3, FS_Difference
        <3>13. CASE F = mine \ taken
            BY <1>7, <3>1, <3>13
        <3>14. CASE Cardinality(F) >= excess
            <4> HIDE DEF F, O, N, excess
            <4>1. Cardinality(N) = Cardinality(O) - Cardinality(F)
                BY <3>10, <3>11, <3>12
            <4>2. Cardinality(N) <= Budget
                BY <3>2, <3>4, <3>8, <3>14, <4>1
            <4> QED
                BY <4>2 DEF N
        <3> QED
            BY <3>7, <3>13, <3>14
    <2> QED
        BY <2>1, <2>2
<1> QED
    BY <1>7, <1>9, <1>10, <1>11 DEF Returned

-----------------------------------------------------------------------------
(* What a runner does to its tree and its record.                          *)

\* A change of affinity, applied or not.
LEMMA SetCoresEffect ==
    ASSUME NEW t \in Trees, NEW cores \in SUBSET Cores, NEW ok \in BOOLEAN,
           NEW u, u = SetCores(t, cores, ok)
    PROVE  /\ u \in Trees /\ (u.stopped <=> t.stopped)
           /\ ok => u.cores = cores /\ u.mask = cores /\ u.applied
           /\ ~ok => u.cores = t.cores /\ u.mask = t.mask \cup cores /\ ~u.applied
<1>1. CASE ok
    <2>1. u = [t EXCEPT !.cores = cores, !.mask = cores, !.applied = TRUE]
        BY <1>1 DEF SetCores
    <2> QED
        BY <1>1, <2>1 DEF Trees
<1>2. CASE ~ok
    <2>1. u = [t EXCEPT !.mask = @ \cup cores, !.applied = FALSE]
        BY <1>2 DEF SetCores
    <2> QED
        BY <1>2, <2>1 DEF Trees
<1> QED
    BY <1>1, <1>2

\* What a claim lends is off the blocked cores, off what others hold, and
\* within the budget.
Kept(j, r) ==
    /\ (r.cores \ r.guaranteed) \cap Blocked = {}
    /\ \A k \in Jobs \ {j} : claim[k] # None => (r.cores \ r.guaranteed) \cap claim[k].guaranteed = {}
    /\ r.cores = r.guaranteed \/ Cardinality(OthersOn(j) \cup r.cores) <= Budget

\* After a share step s from record c and tree t nothing is wider, and once it
\* is settled the record names the cores of the tree.
Stepped(j, c, t, s) ==
    /\ s.ok \in BOOLEAN /\ s.record \in Claims /\ s.tree \in Trees
    /\ Sound(s.record, j) /\ Fits(s.record, s.tree)
    /\ s.record.guaranteed = c.guaranteed
    /\ (s.record.background <=> c.background) /\ (s.record.shared <=> c.shared)
    /\ s.record.backfill = c.backfill
    /\ s.record.cores \subseteq c.cores /\ s.tree.mask \subseteq t.mask
    /\ (s.tree.stopped <=> t.stopped)
    /\ s.ok => s.tree.applied /\ s.record.cores = s.tree.cores /\ Kept(j, s.record)

\* The tree u of a shared claim that was to be narrowed.
NarrowedTo(u, t, back) ==
    /\ u \in Trees /\ (u.stopped <=> t.stopped)
    /\ u.mask \subseteq t.mask /\ u.cores \subseteq u.mask
    /\ u.applied => u.cores = t.cores \ back /\ u.mask = u.cores
    /\ ~u.applied => u.cores = t.cores

\* The tree of a shared claim after its affinity was applied again and
\* narrowed: settled on what is left, or wherever it was.
LEMMA NarrowedTree ==
    ASSUME NEW t \in Trees, t.cores \subseteq t.mask, t.applied => t.mask = t.cores,
           NEW back \in SUBSET Cores, NEW ok \in BOOLEAN, NEW steady, NEW narrow,
           steady = (IF t.applied THEN t ELSE SetCores(t, t.cores, ok)),
           narrow = (IF back = {} \/ ~steady.applied THEN steady
                     ELSE SetCores(steady, steady.cores \ back, ok))
    PROVE  NarrowedTo(narrow, t, back)
<1> USE DEF NarrowedTo
<1>1. t.cores \in SUBSET Cores /\ t.mask \in SUBSET Cores /\ t.applied \in BOOLEAN
    BY DEF Trees
<1>2. /\ steady \in Trees /\ (steady.stopped <=> t.stopped)
      /\ steady.cores = t.cores /\ steady.mask \subseteq t.mask /\ steady.cores \subseteq steady.mask
      /\ steady.applied => steady.mask = steady.cores
    <2>1. CASE t.applied
        BY <2>1
    <2>2. CASE ~t.applied
        <3>1. steady = SetCores(t, t.cores, ok)
            BY <2>2
        <3>2. /\ steady \in Trees /\ (steady.stopped <=> t.stopped)
              /\ ok => steady.cores = t.cores /\ steady.mask = t.cores /\ steady.applied
              /\ ~ok => steady.cores = t.cores /\ steady.mask = t.mask \cup t.cores /\ ~steady.applied
            BY <1>1, <3>1, SetCoresEffect
        <3> QED
            BY <1>1, <3>2
    <2> QED
        BY <2>1, <2>2
<1>3. CASE back = {} \/ ~steady.applied
    <2>1. narrow = steady
        BY <1>3
    <2> QED
        BY <1>2, <1>3, <2>1
<1>4. CASE ~(back = {} \/ ~steady.applied)
    <2>1. narrow = SetCores(steady, steady.cores \ back, ok)
        BY <1>4
    <2>2. steady.cores \ back \in SUBSET Cores
        BY <1>1, <1>2
    <2>3. /\ narrow \in Trees /\ (narrow.stopped <=> steady.stopped)
          /\ ok => narrow.cores = steady.cores \ back /\ narrow.mask = steady.cores \ back /\ narrow.applied
          /\ ~ok => narrow.cores = steady.cores /\ narrow.mask = steady.mask \cup (steady.cores \ back)
                    /\ ~narrow.applied
        BY <1>2, <2>1, <2>2, SetCoresEffect
    <2> QED
        BY <1>2, <2>3
<1> QED
    BY <1>3, <1>4

\* A share step does that.
LEMMA ShareStep ==
    ASSUME IInv, NEW j \in Jobs, claim[j] # None, NEW c \in Claims, NEW t \in Trees,
           Sound(c, j), Fits(c, t), c.shared => c = claim[j], NEW s \in ShareSteps(claim, c, t)
    PROVE  Stepped(j, c, t, s)
<1>1. CASE ~c.shared
    <2>1. s = [ok |-> TRUE, record |-> c, tree |-> t]
        BY <1>1 DEF ShareSteps
    <2>2. s.ok = TRUE /\ s.record = c /\ s.tree = t
        BY <2>1
    <2>3. c.cores = c.guaranteed /\ t.applied /\ t.cores = c.cores
        BY <1>1 DEF Sound, Fits
    <2>4. Kept(j, c)
        BY <2>3 DEF Kept
    <2> QED
        BY <2>2, <2>3, <2>4 DEF Stepped
<1>2. CASE c.shared
    <2>1. c = claim[j] /\ c.guaranteed \subseteq t.cores /\ t.cores \subseteq t.mask /\ t.mask \subseteq c.cores
          /\ (t.applied => t.mask = t.cores)
        BY <1>2 DEF Fits
    <2>2. PICK me : me = [c EXCEPT !.cores = t.cores]
        OBVIOUS
    <2>3. PICK back : back = GiveBack(claim, me)
        OBVIOUS
    <2>4. PICK ok \in Outcomes : s = Narrowed(c, t, back, ok)
        BY <1>2, <2>2, <2>3 DEF ShareSteps
    <2>5. ok \in BOOLEAN
        BY DEF Outcomes
    <2>6. Returned(j, t.cores, back)
        BY <1>2, <2>1, <2>2, <2>3, GivenBack
    <2>7. /\ back \subseteq t.cores \ c.guaranteed
          /\ ((t.cores \ c.guaranteed) \ back) \cap Blocked = {}
          /\ \A k \in Jobs \ {j} : claim[k] # None
                => ((t.cores \ c.guaranteed) \ back) \cap claim[k].guaranteed = {}
          /\ t.cores \ c.guaranteed \subseteq back \/ Cardinality(OthersOn(j) \cup (t.cores \ back)) <= Budget
        BY <2>1, <2>6 DEF Returned
    <2>8. t.cores \in SUBSET Cores /\ back \in SUBSET Cores
        BY <2>7 DEF Trees
    <2>9. PICK steady : steady = IF t.applied THEN t ELSE SetCores(t, t.cores, ok)
        OBVIOUS
    <2>10. PICK narrow : narrow = IF back = {} \/ ~steady.applied THEN steady
                                  ELSE SetCores(steady, steady.cores \ back, ok)
        OBVIOUS
    <2>11. /\ narrow \in Trees /\ (narrow.stopped <=> t.stopped)
           /\ narrow.mask \subseteq t.mask /\ narrow.cores \subseteq narrow.mask
           /\ narrow.applied => narrow.cores = t.cores \ back /\ narrow.mask = narrow.cores
           /\ ~narrow.applied => narrow.cores = t.cores
        <3>1. NarrowedTo(narrow, t, back)
            BY <2>1, <2>5, <2>8, <2>9, <2>10, NarrowedTree
        <3> QED
            BY <3>1 DEF NarrowedTo
    <2>12. s = IF narrow.applied
               THEN [ok |-> TRUE, record |-> [c EXCEPT !.cores = narrow.cores], tree |-> narrow]
               ELSE [ok |-> FALSE, record |-> c, tree |-> narrow]
        BY <2>4, <2>9, <2>10 DEF Narrowed
    <2>13. CASE narrow.applied
        <3>1. PICK r : r = [c EXCEPT !.cores = narrow.cores]
            OBVIOUS
        <3>2. s.ok = TRUE /\ s.record = r /\ s.tree = narrow
            BY <2>12, <2>13, <3>1
        <3>3. narrow.cores \in SUBSET Cores
            BY <2>11 DEF Trees
        <3>4. /\ r \in Claims /\ r.cores = narrow.cores /\ r.id = c.id /\ r.guaranteed = c.guaranteed
              /\ r.shared = c.shared /\ r.background = c.background /\ r.backfill = c.backfill
            BY ONLY <3>1, <3>3, c \in Claims DEF Claims
        <3>5. r.cores = t.cores \ back /\ r.guaranteed \subseteq r.cores /\ r.cores \subseteq c.cores
            BY <2>1, <2>7, <2>11, <2>13, <3>4
        <3>6. Sound(r, j)
            BY <1>2, <3>4, <3>5 DEF Sound
        <3>7. Fits(r, narrow)
            BY <1>2, <2>11, <2>13, <3>4, <3>5 DEF Fits
        <3>8. Kept(j, r)
            <4>1. r.cores \ r.guaranteed = (t.cores \ c.guaranteed) \ back
                BY <3>4, <3>5
            <4>2. t.cores \ c.guaranteed \subseteq back => r.cores = r.guaranteed
                BY <3>4, <3>5
            <4> QED
                BY <2>7, <3>5, <4>1, <4>2 DEF Kept
        <3> QED
            BY <2>11, <2>13, <3>2, <3>4, <3>5, <3>6, <3>7, <3>8 DEF Stepped
    <2>14. CASE ~narrow.applied
        <3>1. s.ok = FALSE /\ s.record = c /\ s.tree = narrow
            BY <2>12, <2>14
        <3>2. Fits(c, narrow)
            BY <1>2, <2>1, <2>11, <2>14 DEF Fits
        <3> QED
            BY <2>11, <3>1, <3>2 DEF Stepped
    <2> QED
        BY <2>13, <2>14
<1> QED
    BY <1>1, <1>2

\* What a settled share step s grows to: cores nobody is on, within the
\* budget.  The tree may be on all of them, whether or not the change succeeded.
Grown(j, s, g) ==
    /\ g.ok \in BOOLEAN /\ g.record \in Claims /\ g.tree \in Trees
    /\ Sound(g.record, j) /\ Fits(g.record, g.tree)
    /\ g.record.guaranteed = s.record.guaranteed /\ g.record.backfill = s.record.backfill
    /\ (g.record.background <=> s.record.background) /\ (g.tree.stopped <=> s.tree.stopped)
    /\ s.record.cores \subseteq g.record.cores
    /\ (g.record.cores \ s.record.cores) \cap Blocked = {}
    /\ \A k \in Jobs \ {j} : claim[k] # None => (g.record.cores \ s.record.cores) \cap claim[k].cores = {}
    /\ Cardinality((OthersOn(j) \cap OffFloorCores) \cup g.record.cores) <= Budget

\* A claim grows that way or not at all.
LEMMA Growth ==
    ASSUME IInv, NEW j \in Jobs, NEW c, NEW t, NEW s, Stepped(j, c, t, s), s.ok, s.record.shared,
           NEW g \in Growths(claim, s), g # s
    PROVE  Grown(j, s, g)
<1> DEFINE r == s.record
           most == Request[r.id].want - Cardinality(s.tree.cores)
           U == Unclaimed(Others(claim, r.id) \cup {r})
           extra == FirstOf(OffFloor, U, most)
           wider == s.tree.cores \cup extra
<1>1. /\ r \in Claims /\ s.tree \in Trees /\ Sound(r, j) /\ Fits(r, s.tree) /\ r.id = j
      /\ s.tree.applied /\ r.cores = s.tree.cores /\ s.tree.mask = s.tree.cores
    BY DEF Stepped, Sound, Fits
<1>2. ~r.background /\ r.cores \subseteq OffFloorCores /\ r.guaranteed \subseteq r.cores
    BY <1>1 DEF Sound
<1>3. extra \subseteq U
    BY FirstOfWithin
<1>4. U = Free(OffFloor, OthersOn(j) \cup r.cores)
    BY <1>1, OccupiedJoin DEF Unclaimed, OthersOn
<1>5. U \subseteq OffFloorCores \ (Blocked \cup OthersOn(j) \cup r.cores)
    BY <1>4, FreeWithin DEF OffFloorCores
<1>6. PICK ok \in Outcomes :
         /\ g = [ok |-> ok, record |-> [r EXCEPT !.cores = wider], tree |-> SetCores(s.tree, wider, ok)]
         /\ wider # s.tree.cores
    <2>1. Growths(claim, s) = {s} \cup
             {[ok |-> o, record |-> [r EXCEPT !.cores = w], tree |-> SetCores(s.tree, w, o)] :
                 w \in {wider} \ {s.tree.cores}, o \in Outcomes}
        BY DEF Growths
    <2> HIDE DEF wider, r
    <2>2. PICK w \in {wider} \ {s.tree.cores}, o \in Outcomes :
             g = [ok |-> o, record |-> [r EXCEPT !.cores = w], tree |-> SetCores(s.tree, w, o)]
        BY <2>1
    <2> QED
        BY <2>2
<1>7. ok \in BOOLEAN
    BY DEF Outcomes
<1>8. extra # {} /\ U # {} /\ wider = r.cores \cup extra
    BY <1>1, <1>3, <1>6
<1>9. wider \subseteq OffFloorCores /\ wider \in SUBSET Cores
    BY <1>2, <1>3, <1>5, <1>8, CoreFacts
<1>10. Cardinality((OthersOn(j) \cap OffFloorCores) \cup wider) <= Budget
    <2> DEFINE used == OthersOn(j) \cup r.cores
    <2>1. /\ IsFiniteSet(U \cup (used \cap OffFloorCores))
          /\ Cardinality(U \cup (used \cap OffFloorCores)) <= Budget
        <3> HIDE DEF U, used
        <3>1. U = Free(OffFloor, used)
            BY <1>4 DEF used
        <3> QED
            BY <1>8, <3>1, FreeKeepsBudget
    <2>2. (OthersOn(j) \cap OffFloorCores) \cup wider \subseteq U \cup (used \cap OffFloorCores)
        <3> HIDE DEF U, wider
        <3> QED
            BY <1>2, <1>3, <1>8
    <2> HIDE DEF U, used, wider
    <2> QED
        BY <2>1, <2>2, Smaller
<1> HIDE DEF U, extra, wider, most
<1>11. PICK w : w = [r EXCEPT !.cores = wider]
    OBVIOUS
<1>12. PICK u : u = SetCores(s.tree, wider, ok)
    OBVIOUS
<1>13. g.ok = ok /\ g.record = w /\ g.tree = u
    BY <1>6, <1>11, <1>12
<1>14. /\ w \in Claims /\ w.cores = wider /\ w.id = r.id /\ w.guaranteed = r.guaranteed
       /\ w.shared = r.shared /\ w.background = r.background /\ w.backfill = r.backfill
    <2> HIDE DEF r
    <2> QED
        BY ONLY <1>1, <1>9, <1>11 DEF Claims
<1>15. /\ u \in Trees /\ (u.stopped <=> s.tree.stopped)
       /\ ok => u.cores = wider /\ u.mask = wider /\ u.applied
       /\ ~ok => u.cores = s.tree.cores /\ u.mask = s.tree.mask \cup wider /\ ~u.applied
    BY <1>1, <1>7, <1>9, <1>12, SetCoresEffect
<1>16. Sound(w, j)
    BY <1>1, <1>2, <1>8, <1>9, <1>14 DEF Sound
<1>17. Fits(w, u)
    BY <1>1, <1>2, <1>8, <1>14, <1>15 DEF Fits
<1>18. (w.cores \ r.cores) \cap Blocked = {} /\ (w.cores \ r.cores) \cap OthersOn(j) = {}
    BY <1>3, <1>5, <1>8, <1>14
<1>19. \A k \in Jobs \ {j} : claim[k] # None => (w.cores \ r.cores) \cap claim[k].cores = {}
    BY <1>18, OthersOnCores DEF IInv
<1>20. r.cores \subseteq w.cores
    BY <1>8, <1>14
<1> HIDE DEF r
<1> QED
    BY <1>7, <1>10, <1>13, <1>14, <1>15, <1>16, <1>17, <1>18, <1>19, <1>20 DEF Grown, r

-----------------------------------------------------------------------------
(* A claim that starts, and one that is polled.                            *)

\* Recording the state of a claim, or stopping its tree, changes nothing else.
LEMMA StateRecorded ==
    ASSUME NEW c \in Claims, NEW j, Sound(c, j), NEW st \in {"running", "suspended"},
           NEW r, r = [c EXCEPT !.state = st]
    PROVE  /\ r \in Claims /\ Sound(r, j) /\ r.state = st
           /\ r.cores = c.cores /\ r.guaranteed = c.guaranteed /\ r.backfill = c.backfill
           /\ (r.background <=> c.background) /\ (r.shared <=> c.shared)
<1>1. /\ r \in Claims /\ r.state = st /\ r.id = c.id
      /\ r.cores = c.cores /\ r.guaranteed = c.guaranteed
      /\ r.background = c.background /\ r.shared = c.shared /\ r.backfill = c.backfill
    BY ONLY c \in Claims, st \in {"running", "suspended"}, r = [c EXCEPT !.state = st] DEF Claims
<1> QED
    BY <1>1 DEF Sound

LEMMA TreeStopped ==
    ASSUME NEW t \in Trees, NEW b \in BOOLEAN, NEW u, u = [t EXCEPT !.stopped = b]
    PROVE  /\ u \in Trees /\ (u.stopped <=> b)
           /\ u.cores = t.cores /\ u.mask = t.mask /\ (u.applied <=> t.applied)
    BY DEF Trees

\* Started claims reach no more than their cores; if the claim of one job
\* reaches no more than before, neither do all.
LEMMA ReachBound ==
    ASSUME IInv, NEW j \in Jobs, NEW c, Sound(c, j), NEW a \in Places,
           claim' = [claim EXCEPT ![j] = c], at' = [at EXCEPT ![j] = a]
    PROVE  /\ AllReach' \subseteq OthersOn(j) \cup c.cores
           /\ AllReach' \subseteq OffFloorCores
           /\ (a = "running" /\ ~c.background =>
                   at[j] = "running" /\ ~claim[j].background /\ Reach(j)' \subseteq Reach(j))
                 => AllReach' \subseteq AllReach
<1>1. claim'[j] = c /\ at'[j] = a /\ \A k \in Jobs \ {j} : claim'[k] = claim[k] /\ at'[k] = at[k]
    BY DEF IInv, TypeOK
<1>2. ASSUME NEW k \in Jobs \ {j}, at[k] = "running", ~claim[k].background
      PROVE  /\ Reach(k)' = Reach(k) /\ Reach(k) \subseteq OthersOn(j)
             /\ Reach(k) \subseteq OffFloorCores /\ Reach(k) \subseteq AllReach
    <2>1. Reach(k)' = Reach(k)
        BY <1>1 DEF Reach, Runs
    <2>2. claim[k] # None /\ Sound(claim[k], k)
        BY <1>2 DEF IInv, JobInv
    <2>3. claim[k].cores \subseteq OthersOn(j)
        BY <2>2, OthersOnCores DEF IInv
    <2>4. Reach(k) \subseteq claim[k].cores /\ claim[k].cores \subseteq OffFloorCores
        BY <1>2, <2>2 DEF Reach, Sound
    <2>5. Reach(k) \subseteq AllReach
        BY <1>2 DEF AllReach
    <2> QED
        BY <2>1, <2>3, <2>4, <2>5
<1>3. Reach(j)' \subseteq c.cores /\ (~c.background => c.cores \subseteq OffFloorCores)
    BY <1>1 DEF Reach, Sound
<1>4. ASSUME NEW k \in Jobs, at'[k] = "running", ~claim'[k].background
      PROVE  Reach(k)' \subseteq OthersOn(j) \cup c.cores /\ Reach(k)' \subseteq OffFloorCores
    <2>1. CASE k = j
        BY <1>1, <1>3, <1>4, <2>1
    <2>2. CASE k # j
        BY <1>1, <1>2, <1>4, <2>2
    <2> QED
        BY <2>1, <2>2
<1>5. ASSUME a = "running" /\ ~c.background =>
                 at[j] = "running" /\ ~claim[j].background /\ Reach(j)' \subseteq Reach(j),
             NEW k \in Jobs, at'[k] = "running", ~claim'[k].background
      PROVE  Reach(k)' \subseteq AllReach
    <2>1. CASE k = j
        <3>1. at[j] = "running" /\ ~claim[j].background /\ Reach(j)' \subseteq Reach(j)
            BY <1>1, <1>5, <2>1
        <3>2. Reach(j) \subseteq AllReach
            BY <3>1 DEF AllReach
        <3> QED
            BY <2>1, <3>1, <3>2
    <2>2. CASE k # j
        BY <1>1, <1>2, <1>5, <2>2
    <2> QED
        BY <2>1, <2>2
<1>6. AllReach' = UNION {Reach(k)' : k \in {i \in Jobs : at'[i] = "running" /\ ~claim'[i].background}}
    BY DEF AllReach
<1> QED
    BY <1>4, <1>5, <1>6

\* A settled claim that yields to nobody is clear.
LEMMA SettledClear ==
    ASSUME IInv, NEW j \in Jobs, NEW c, NEW t, NEW s, Stepped(j, c, t, s), s.ok,
           NEW cl, Others(cl, j) = Others(claim, j), ~Yields(cl, s.record)
    PROVE  Clear(j, s.record, s.tree)
<1> DEFINE r == s.record
<1>1. /\ Sound(r, j) /\ Kept(j, r) /\ s.tree.mask = r.cores /\ r.id = j
    BY DEF Stepped, Fits, Sound
<1>2. Held(r) = r.guaranteed
    BY <1>1, HeldIsGuaranteed
<1>3. Blocked \cap r.guaranteed = {}
    BY <1>2 DEF Yields
<1>4. s.tree.mask \cap Blocked = {}
    BY <1>1, <1>3 DEF Kept
<1>5. ASSUME NEW k \in Jobs \ {j}, claim[k] # None, r.background, ~claim[k].background
      PROVE  r.guaranteed \cap claim[k].guaranteed = {}
    <2>1. claim[k] \in Others(cl, r.id)
        BY <1>1, <1>5, OthersAre DEF IInv
    <2>2. claim[k].cores \cap r.cores = {}
        BY <1>5, <2>1 DEF Yields
    <2>3. claim[k].guaranteed \subseteq claim[k].cores
        BY <1>5 DEF IInv, JobInv, Sound
    <2> QED
        BY <1>1, <2>2, <2>3 DEF Sound
<1> QED
    BY <1>1, <1>4, <1>5 DEF Clear, Kept

\* A claim that may start finds its cores vacant.
LEMMA StartVacant ==
    ASSUME IInv, NEW j \in Jobs, NEW c, NEW cores, c.guaranteed \subseteq cores,
           ~BackgroundBusy(Others(claim, j), cores)
    PROVE  Vacant(j, c)
<1> SUFFICES ASSUME NEW k \in Jobs \ {j}, Runs(k)
             PROVE  /\ (claim[k].cores \ claim[k].guaranteed) \cap c.guaranteed = {}
                    /\ claim[k].background => c.guaranteed \cap claim[k].guaranteed = {}
    BY DEF Vacant
<1>1. claim[k] # None /\ Sound(claim[k], k) /\ claim[k].state # "suspended"
    BY DEF IInv, JobInv, Runs
<1>2. claim[k] \in Others(claim, j)
    BY <1>1, OthersAre DEF IInv
<1>3. claim[k].background \/ claim[k].shared => claim[k].cores \cap cores = {}
    BY <1>1, <1>2 DEF BackgroundBusy
<1> QED
    BY <1>1, <1>3 DEF Sound

\* A claim that may start stays within the budget: all claims do, or no other
\* claim lends and it keeps to what it holds.
LEMMA StartBudget ==
    ASSUME IInv, NEW j \in Jobs, claim[j] # None, NEW r \in Claims, Sound(r, j), Kept(j, r),
           r.guaranteed = claim[j].guaranteed, claim[j].background => r.background,
           ~BudgetPending([claim EXCEPT ![j] = r], j),
           NEW c, Sound(c, j), c.cores = r.cores, c.guaranteed = r.guaranteed,
           c.background <=> r.background,
           claim' = [claim EXCEPT ![j] = c], at' = [at EXCEPT ![j] = "running"]
    PROVE  Cardinality(AllReach') <= Budget
<1>1. r # None /\ r.id = j
    BY NoneAssumption DEF Sound
<1>2. /\ Others([claim EXCEPT ![j] = r], j) = Others(claim, j)
      /\ Records([claim EXCEPT ![j] = r]) = Others(claim, j) \cup {r}
    BY <1>1, OthersOfUpdate DEF IInv
<1>3. AllReach' \subseteq OthersOn(j) \cup r.cores
    BY ReachBound DEF Places
<1>4. IsFiniteSet(OthersOn(j) \cup r.cores)
    <2>1. OthersOn(j) \cup r.cores \subseteq Cores
        BY OthersOnCores DEF IInv, Claims
    <2> QED
        BY <2>1, CoreFacts, FS_Subset
<1>5. CASE Cardinality(OthersOn(j) \cup r.cores) <= Budget
    BY <1>3, <1>4, <1>5, Smaller
<1>6. CASE ~(Cardinality(OthersOn(j) \cup r.cores) <= Budget)
    <2>1. OverBudget(Records([claim EXCEPT ![j] = r])) = Cardinality(OthersOn(j) \cup r.cores) - Budget
        BY <1>2, OccupiedJoin DEF OverBudget, OthersOn
    <2>2. OverBudget(Records([claim EXCEPT ![j] = r])) > 0
        <3>1. Cardinality(OthersOn(j) \cup r.cores) \in Nat /\ Budget \in Nat
            BY <1>4, CoreFacts, FS_CardinalityType
        <3> QED
            BY <1>6, <2>1, <3>1
    <2>3. \A d \in Others(claim, j) : ~Lending(d)
        BY <1>2, <2>2 DEF BudgetPending
    <2>4. r.cores = r.guaranteed
        BY <1>6 DEF Kept
    <2>5. AllReach' \subseteq AllHeld
        <3>1. claim'[j] = c /\ \A k \in Jobs \ {j} : claim'[k] = claim[k] /\ at'[k] = at[k]
            BY DEF IInv, TypeOK
        <3> SUFFICES ASSUME NEW k \in Jobs, at'[k] = "running", ~claim'[k].background
                     PROVE  Reach(k)' \subseteq AllHeld
            BY DEF AllReach
        <3>2. CASE k = j
            <4>1. Reach(j)' \subseteq claim[j].guaranteed
                BY <2>4, <3>1 DEF Reach
            <4>2. ~claim[j].background
                BY <3>1, <3>2
            <4> QED
                BY <3>2, <4>1, <4>2 DEF AllHeld
        <3>3. CASE k # j
            <4>1. claim[k] # None /\ Sound(claim[k], k) /\ ~claim[k].background /\ Reach(k)' = Reach(k)
                BY <3>1, <3>3 DEF IInv, JobInv, Reach, Runs
            <4>2. claim[k] \in Others(claim, j)
                BY <3>3, <4>1, OthersAre DEF IInv
            <4>3. ~Lending(claim[k])
                BY <2>3, <4>2
            <4>4. Lent(claim[k]) = claim[k].cores \ claim[k].guaranteed
                BY <4>1, HeldIsGuaranteed
            <4>5. Reach(k) \subseteq claim[k].guaranteed
                BY <4>1, <4>3, <4>4 DEF Lending, Reach, Runs, Sound
            <4> QED
                BY <4>1, <4>5 DEF AllHeld
        <3> QED
            BY <3>2, <3>3
    <2> QED
        BY <2>5, FiniteReach, Smaller DEF IInv, BudgetInv
<1> QED
    BY <1>5, <1>6

\* What a launcher's step makes of its record c: nothing more is guaranteed,
\* only a demotion changes the class, and nothing grows while others wait.
Renewed(j, c, r) ==
    /\ r # None /\ r.guaranteed = c.guaranteed /\ r.backfill = c.backfill
    /\ c.background => r.background
    /\ r.background => c.background \/ Request[j].limit = "demote"
    /\ queue # <<>> => r.cores \subseteq c.cores

\* A claim starts, or is recorded suspended.
LEMMA TryStartKeeps ==
    ASSUME IInv, NEW j \in Jobs, TryStart(j)
    PROVE  IInv' /\ Renewed(j, claim[j], claim'[j]) /\ claim' = [claim EXCEPT ![j] = claim'[j]]
<1>0. PICK s \in ShareSteps(claim, claim[j], tree[j]) :
         \E may \in {s.ok /\ MayStart([claim EXCEPT ![j] = s.record], j, s.tree)} :
             /\ claim' = [claim EXCEPT ![j] =
                              [s.record EXCEPT !.state = IF may THEN "running" ELSE "suspended"]]
             /\ tree' = [tree EXCEPT ![j] = s.tree]
             /\ at' = [at EXCEPT ![j] = IF may THEN "running" ELSE "admitted"]
    BY DEF TryStart
<1>1. PICK may \in {s.ok /\ MayStart([claim EXCEPT ![j] = s.record], j, s.tree)} :
         /\ claim' = [claim EXCEPT ![j] =
                          [s.record EXCEPT !.state = IF may THEN "running" ELSE "suspended"]]
         /\ tree' = [tree EXCEPT ![j] = s.tree]
         /\ at' = [at EXCEPT ![j] = IF may THEN "running" ELSE "admitted"]
    BY <1>0
<1>2. at[j] = "admitted" /\ UNCHANGED timedVars
    BY DEF TryStart
<1>3. /\ claim[j] # None /\ claim[j] \in Claims /\ Sound(claim[j], j)
      /\ tree[j] \in Trees /\ Fits(claim[j], tree[j]) /\ ~tree[j].stopped
    BY <1>2 DEF IInv, TypeOK, JobInv
<1>4. Stepped(j, claim[j], tree[j], s)
    BY <1>3, ShareStep
<1>5. /\ s.ok \in BOOLEAN /\ s.record \in Claims /\ s.tree \in Trees
      /\ Sound(s.record, j) /\ Fits(s.record, s.tree)
      /\ s.record.guaranteed = claim[j].guaranteed
      /\ (s.record.background <=> claim[j].background) /\ s.record.backfill = claim[j].backfill
      /\ s.record.cores \subseteq claim[j].cores /\ ~s.tree.stopped
      /\ s.ok => Kept(j, s.record)
    BY <1>3, <1>4 DEF Stepped
<1>6. PICK st \in {"running", "suspended"} : st = IF may THEN "running" ELSE "suspended"
    OBVIOUS
<1>7. PICK a \in {"admitted", "running"} : a = IF may THEN "running" ELSE "admitted"
    OBVIOUS
<1>8. PICK c : c = [s.record EXCEPT !.state = st]
    OBVIOUS
<1>9. /\ c \in Claims /\ Sound(c, j) /\ c.state = st
      /\ c.cores = s.record.cores /\ c.guaranteed = s.record.guaranteed
      /\ c.backfill = s.record.backfill
      /\ (c.background <=> s.record.background) /\ (c.shared <=> s.record.shared)
    BY <1>5, <1>8, StateRecorded
<1>10. claim' = [claim EXCEPT ![j] = c] /\ at' = [at EXCEPT ![j] = a] /\ tree' = [tree EXCEPT ![j] = s.tree]
    BY <1>1, <1>6, <1>7, <1>8
<1>11. Fits(c, s.tree)
    BY <1>5, <1>9 DEF Fits
<1>12. \A k \in Jobs \ {j} : claim[k] # None =>
           (c.cores \ c.guaranteed) \cap (claim[k].cores \ claim[k].guaranteed) = {}
    BY <1>3, <1>5, <1>9 DEF IInv, PairInv
<1>13. ASSUME may
       PROVE  Clear(j, c, s.tree) /\ Vacant(j, c) /\ Cardinality(AllReach') <= Budget
    <2> DEFINE cl == [claim EXCEPT ![j] = s.record]
    <2>1. s.ok /\ MayStart(cl, j, s.tree)
        BY <1>1, <1>13
    <2>2. cl[j] = s.record
        BY DEF IInv, TypeOK
    <2>3. Others(cl, j) = Others(claim, j)
        <3>1. s.record # None /\ s.record.id = j
            BY <1>5, NoneAssumption DEF Sound
        <3> QED
            BY <3>1, OthersOfUpdate DEF IInv
    <2>4. ~Yields(cl, s.record) /\ ~BackgroundBusy(Others(claim, j), s.tree.cores) /\ ~BudgetPending(cl, j)
        BY <2>1, <2>2, <2>3 DEF MayStart
    <2>5. Clear(j, s.record, s.tree)
        <3> HIDE DEF cl
        <3> QED
            BY <1>4, <2>1, <2>3, <2>4, SettledClear
    <2>6. Clear(j, c, s.tree)
        BY <1>9, <2>5 DEF Clear
    <2>7. Vacant(j, c)
        <3>1. c.guaranteed \subseteq s.tree.cores
            BY <1>11 DEF Fits
        <3> QED
            BY <2>4, <3>1, StartVacant
    <2>8. Cardinality(AllReach') <= Budget
        <3>1. at' = [at EXCEPT ![j] = "running"]
            BY <1>7, <1>10, <1>13
        <3> QED
            BY <1>3, <1>5, <1>9, <1>10, <2>1, <2>4, <3>1, StartBudget
    <2> QED
        BY <2>6, <2>7, <2>8
<1>14. ASSUME may PROVE IInv'
    <2>1. a = "running" /\ c.state = "running"
        BY <1>6, <1>7, <1>9, <1>14
    <2> QED
        BY <1>2, <1>3, <1>5, <1>9, <1>10, <1>11, <1>12, <1>13, <1>14, <2>1, UpdateKeeps
<1>15. ASSUME ~may PROVE IInv'
    <2>1. a = "admitted" /\ a \in Places
        BY <1>7, <1>15 DEF Places
    <2>2. AllReach' \subseteq AllReach
        BY <1>9, <1>10, <2>1, ReachBound
    <2>3. Cardinality(AllReach') <= Budget
        BY <2>2, FiniteReach, Smaller DEF IInv, BudgetInv
    <2> QED
        BY <1>2, <1>3, <1>5, <1>9, <1>10, <1>11, <1>12, <2>1, <2>3, UpdateKeeps
<1>16. Renewed(j, claim[j], c) /\ claim'[j] = c
    <2>1. c # None
        BY <1>9, NoneAssumption
    <2>2. claim'[j] = c
        BY <1>10 DEF IInv, TypeOK
    <2> QED
        BY <1>5, <1>9, <2>1, <2>2 DEF Renewed
<1> QED
    BY <1>10, <1>14, <1>15, <1>16

\* The record and the tree a poll goes on with: as they were, or demoted.
Due(j, d) ==
    /\ d.record \in Claims /\ d.tree \in Trees /\ Sound(d.record, j) /\ Fits(d.record, d.tree)
    /\ d.record.guaranteed = claim[j].guaranteed
    /\ claim[j].background => d.record.background
    /\ d.record.background => claim[j].background \/ Request[j].limit = "demote"
    /\ d.record.backfill = claim[j].backfill
    /\ d.record.cores \subseteq claim[j].cores /\ d.tree.mask \subseteq tree[j].mask
    /\ (d.tree.stopped <=> tree[j].stopped)
    /\ d.record.shared => d.record = claim[j]

\* A demotion leaves the claim what it is guaranteed, or everything as it was
\* when the tree cannot be narrowed.
LEMMA DemotionDue ==
    ASSUME IInv, NEW j \in Jobs, at[j] = "running",
           NEW d \in {[record |-> claim[j], tree |-> tree[j]]} \cup Demotions(j)
    PROVE  Due(j, d)
<1> DEFINE c == claim[j]
<1>1. c \in Claims /\ Sound(c, j) /\ tree[j] \in Trees /\ Fits(c, tree[j])
    BY DEF IInv, TypeOK, JobInv
<1>2. Held(c) = c.guaranteed /\ c.guaranteed \in SUBSET Cores
    BY <1>1, HeldIsGuaranteed DEF Claims
<1>3. PICK o : o = [c EXCEPT !.cores = Held(c), !.shared = FALSE, !.background = TRUE]
    OBVIOUS
<1> HIDE DEF c
<1>4. /\ o \in Claims /\ o.id = c.id /\ o.cores = c.guaranteed /\ o.guaranteed = c.guaranteed
      /\ ~o.shared /\ o.background /\ o.backfill = c.backfill
    BY ONLY <1>1, <1>2, <1>3 DEF Claims
<1>5. Sound(o, j) /\ o.cores \subseteq c.cores
    BY <1>1, <1>4 DEF Sound
<1>0. d \in Demotions(j) => Request[j].limit = "demote"
    BY DEF Demotions
<1>6. CASE d = [record |-> c, tree |-> tree[j]]
    <2>1. d.record = c /\ d.tree = tree[j]
        BY <1>6
    <2> QED
        BY <1>1, <2>1 DEF Due, c
<1>7. CASE d \in Demotions(j) /\ ~c.shared
    <2>1. d = [record |-> o, tree |-> tree[j]]
        BY <1>3, <1>7 DEF Demotions, c
    <2>2. d.record = o /\ d.tree = tree[j]
        BY <2>1
    <2>3. Fits(o, tree[j])
        BY <1>1, <1>4, <1>7 DEF Fits, Sound
    <2> QED
        BY <1>1, <1>4, <1>5, <1>0, <1>7, <2>2, <2>3 DEF Due, c
<1>8. CASE d \in Demotions(j) /\ c.shared
    <2>1. PICK ok \in Outcomes :
             d = [record |-> IF ok THEN o ELSE c, tree |-> SetCores(tree[j], Held(c), ok)]
        BY <1>3, <1>8 DEF Demotions, c
    <2>2. PICK u : u = SetCores(tree[j], Held(c), ok)
        OBVIOUS
    <2>3. ok \in BOOLEAN
        BY DEF Outcomes
    <2>4. /\ u \in Trees /\ (u.stopped <=> tree[j].stopped)
          /\ ok => u.cores = c.guaranteed /\ u.mask = c.guaranteed /\ u.applied
          /\ ~ok => u.cores = tree[j].cores /\ u.mask = tree[j].mask \cup c.guaranteed /\ ~u.applied
        BY <1>1, <1>2, <2>2, <2>3, SetCoresEffect
    <2>5. c.guaranteed \subseteq tree[j].cores /\ tree[j].cores \subseteq tree[j].mask
          /\ tree[j].mask \subseteq c.cores
        BY <1>1 DEF Fits
    <2>6. CASE ok
        <3>1. d.record = o /\ d.tree = u
            BY <2>1, <2>2, <2>6
        <3>2. Fits(o, u)
            BY <1>4, <2>4, <2>6 DEF Fits
        <3> QED
            BY <1>4, <1>5, <1>8, <1>0, <2>4, <2>5, <2>6, <3>1, <3>2 DEF Due, c
    <2>7. CASE ~ok
        <3>1. d.record = c /\ d.tree = u
            BY <2>1, <2>2, <2>7
        <3>2. Fits(c, u)
            BY <1>8, <2>4, <2>5, <2>7 DEF Fits
        <3> QED
            BY <1>1, <2>4, <2>5, <2>7, <3>1, <3>2 DEF Due, c
    <2> QED
        BY <2>6, <2>7
<1> QED
    BY <1>6, <1>7, <1>8 DEF c

\* The outcome of a poll: record r and tree t keep the invariant, whether
\* the claim is suspended from now on or not.
Polled(j, r, t, stop) ==
    /\ r \in Claims /\ t \in Trees /\ Sound(r, j) /\ Fits(r, t)
    /\ r.guaranteed = claim[j].guaranteed
    /\ claim[j].background => r.background
    /\ \A k \in Jobs \ {j} : claim[k] # None =>
          (r.cores \ r.guaranteed) \cap (claim[k].cores \ claim[k].guaranteed) = {}
    /\ ~stop /\ Wider(j, r, t) => Clear(j, r, t)
    /\ \/ stop \/ ~Wider(j, r, t) \/ r.cores = r.guaranteed
       \/ Cardinality(OthersOn(j) \cup r.cores) <= Budget
       \/ Cardinality((OthersOn(j) \cap OffFloorCores) \cup r.cores) <= Budget

\* Such a poll keeps the invariant.
LEMMA PolledKeeps ==
    ASSUME IInv, NEW j \in Jobs, at[j] = "running", NEW r, NEW t, NEW stop \in BOOLEAN,
           Polled(j, r, t, stop),
           claim' = [claim EXCEPT ![j] =
                         [r EXCEPT !.state = IF stop THEN "suspended" ELSE "running"]],
           tree' = [tree EXCEPT ![j] = [t EXCEPT !.stopped = stop]],
           UNCHANGED <<at, timedVars>>
    PROVE  IInv'
<1>1. /\ r \in Claims /\ t \in Trees /\ Sound(r, j) /\ Fits(r, t)
      /\ r.guaranteed = claim[j].guaranteed /\ (claim[j].background => r.background)
      /\ \A k \in Jobs \ {j} : claim[k] # None =>
            (r.cores \ r.guaranteed) \cap (claim[k].cores \ claim[k].guaranteed) = {}
      /\ ~stop /\ Wider(j, r, t) => Clear(j, r, t)
    BY DEF Polled
<1>2. PICK st \in {"running", "suspended"} : st = IF stop THEN "suspended" ELSE "running"
    OBVIOUS
<1>3. PICK c : c = [r EXCEPT !.state = st]
    OBVIOUS
<1>4. PICK u : u = [t EXCEPT !.stopped = stop]
    OBVIOUS
<1>5. /\ c \in Claims /\ Sound(c, j) /\ c.state = st
      /\ c.cores = r.cores /\ c.guaranteed = r.guaranteed
      /\ (c.background <=> r.background) /\ (c.shared <=> r.shared)
    BY <1>1, <1>3, StateRecorded
<1>6. /\ u \in Trees /\ (u.stopped <=> stop)
      /\ u.cores = t.cores /\ u.mask = t.mask /\ (u.applied <=> t.applied)
    BY <1>1, <1>4, TreeStopped
<1>7. /\ claim' = [claim EXCEPT ![j] = c] /\ tree' = [tree EXCEPT ![j] = u]
      /\ at' = [at EXCEPT ![j] = "running"] /\ UNCHANGED timedVars
    BY <1>2, <1>3, <1>4 DEF IInv, TypeOK
<1>8. Fits(c, u)
    BY <1>1, <1>5, <1>6 DEF Fits
<1>9. c.state = "suspended" <=> stop
    BY <1>2, <1>5
<1>10. Wider(j, c, u) <=> Wider(j, r, t)
    BY <1>5, <1>6 DEF Wider
<1>11. c.state # "suspended" /\ Wider(j, c, u) => Clear(j, c, u)
    BY <1>1, <1>5, <1>6, <1>9, <1>10 DEF Clear
<1>12. claim'[j] = c /\ at'[j] = "running" /\ claim[j] # None /\ "running" \in Places
    BY <1>7 DEF IInv, TypeOK, JobInv, Places
<1>13. /\ AllReach' \subseteq OthersOn(j) \cup c.cores
       /\ AllReach' \subseteq OffFloorCores
       /\ (~c.background => ~claim[j].background /\ Reach(j)' \subseteq Reach(j))
             => AllReach' \subseteq AllReach
    <2>1. PICK a \in Places : a = "running"
        BY <1>12
    <2>2. at' = [at EXCEPT ![j] = a]
        BY <1>7, <2>1
    <2>3. /\ AllReach' \subseteq OthersOn(j) \cup c.cores
          /\ AllReach' \subseteq OffFloorCores
          /\ (a = "running" /\ ~c.background =>
                  at[j] = "running" /\ ~claim[j].background /\ Reach(j)' \subseteq Reach(j))
                => AllReach' \subseteq AllReach
        BY <1>5, <1>7, <2>2, ReachBound, ZenonT(40)
    <2> QED
        BY <2>3
<1>14. Cardinality(AllReach') <= Budget
    <2>1. CASE stop \/ ~Wider(j, r, t) \/ r.cores = r.guaranteed
        <3>1. claim[j].guaranteed \subseteq claim[j].cores
            BY <1>12 DEF IInv, JobInv, Sound
        <3>2. (stop => Reach(j)' = c.guaranteed) /\ (~stop => Reach(j)' = c.cores)
            <4>1. CASE stop
                BY <1>9, <1>12, <4>1 DEF Reach, Runs
            <4>2. CASE ~stop
                BY <1>9, <1>12, <4>2 DEF Reach, Runs
            <4> QED
                BY <4>1, <4>2
        <3>3. Reach(j)' \subseteq Reach(j)
            BY <1>1, <1>5, <2>1, <3>1, <3>2 DEF Reach, Wider
        <3>4. AllReach' \subseteq AllReach
            BY <1>1, <1>5, <1>13, <3>3
        <3> QED
            BY <3>4, FiniteReach, Smaller DEF IInv, BudgetInv
    <2>2. OthersOn(j) \subseteq Cores /\ c.cores \subseteq Cores
        BY <1>5, OthersOnCores DEF IInv, Claims
    <2>3. CASE Cardinality(OthersOn(j) \cup r.cores) <= Budget
        <3>1. IsFiniteSet(OthersOn(j) \cup r.cores)
            BY <1>5, <2>2, CoreFacts, FS_Subset
        <3> QED
            BY <1>5, <1>13, <2>3, <3>1, Smaller
    <2>4. CASE Cardinality((OthersOn(j) \cap OffFloorCores) \cup r.cores) <= Budget
        <3>1. IsFiniteSet((OthersOn(j) \cap OffFloorCores) \cup r.cores)
            BY <1>5, <2>2, CoreFacts, FS_Subset
        <3>2. AllReach' \subseteq (OthersOn(j) \cap OffFloorCores) \cup r.cores
            BY <1>5, <1>13
        <3> QED
            BY <2>4, <3>1, <3>2, Smaller
    <2> QED
        BY <2>1, <2>3, <2>4 DEF Polled
<1> QED
    BY <1>1, <1>5, <1>6, <1>7, <1>8, <1>9, <1>11, <1>14, UpdateKeeps, ZenonT(40)

\* A running claim is polled.
LEMMA PollKeeps ==
    ASSUME IInv, NEW j \in Jobs, Poll(j)
    PROVE  IInv' /\ Renewed(j, claim[j], claim'[j]) /\ claim' = [claim EXCEPT ![j] = claim'[j]]
<1> DEFINE Halt(conflict, g, full) ==
               (conflict \/ ~g.ok) /\ ((conflict /\ tree[j].stopped) \/ full)
           Outcome(conflict, g, full) ==
               /\ claim' = [claim EXCEPT ![j] = [g.record EXCEPT !.state =
                                IF Halt(conflict, g, full) THEN "suspended" ELSE "running"]]
               /\ tree' = [tree EXCEPT ![j] = [g.tree EXCEPT !.stopped = Halt(conflict, g, full)]]
<1>0. at[j] = "running" /\ UNCHANGED <<at, timedVars>>
    BY DEF Poll
<1>a. PICK d \in {[record |-> claim[j], tree |-> tree[j]]} \cup Demotions(j) :
         \E s \in ShareSteps(claim, d.record, d.tree) :
         \E conflict \in {~s.ok \/ Yields(claim, s.record)} :
         \E g \in IF conflict \/ ~s.record.shared \/ queue # <<>> THEN {s} ELSE Growths(claim, s) :
         \E full \in Outcomes : Outcome(conflict, g, full)
    BY DEF Poll
<1>b. PICK s \in ShareSteps(claim, d.record, d.tree) :
         \E conflict \in {~s.ok \/ Yields(claim, s.record)} :
         \E g \in IF conflict \/ ~s.record.shared \/ queue # <<>> THEN {s} ELSE Growths(claim, s) :
         \E full \in Outcomes : Outcome(conflict, g, full)
    BY <1>a
<1> HIDE DEF Outcome
<1>c. PICK conflict \in {~s.ok \/ Yields(claim, s.record)} :
         \E g \in IF conflict \/ ~s.record.shared \/ queue # <<>> THEN {s} ELSE Growths(claim, s) :
         \E full \in Outcomes : Outcome(conflict, g, full)
    BY <1>b
<1>d. PICK g \in IF conflict \/ ~s.record.shared \/ queue # <<>> THEN {s} ELSE Growths(claim, s) :
         \E full \in Outcomes : Outcome(conflict, g, full)
    BY <1>c
<1>e. PICK full \in Outcomes : Outcome(conflict, g, full)
    BY <1>d
<1>1. PICK stop \in BOOLEAN : stop = Halt(conflict, g, full)
    OBVIOUS
<1>2. /\ claim[j] # None /\ claim[j] \in Claims /\ Sound(claim[j], j)
      /\ (tree[j].stopped <=> claim[j].state = "suspended")
    BY <1>0 DEF IInv, TypeOK, JobInv
<1>3. Due(j, d)
    BY <1>0, DemotionDue
<1>4. Stepped(j, d.record, d.tree, s)
    <2>1. /\ d.record \in Claims /\ d.tree \in Trees /\ Sound(d.record, j) /\ Fits(d.record, d.tree)
          /\ d.record.shared => d.record = claim[j]
        BY <1>3 DEF Due
    <2> QED
        BY <1>2, <2>1, ShareStep
<1>5. /\ s.ok \in BOOLEAN /\ s.record \in Claims /\ s.tree \in Trees
      /\ Sound(s.record, j) /\ Fits(s.record, s.tree)
      /\ s.record.guaranteed = claim[j].guaranteed
      /\ (claim[j].background => s.record.background)
      /\ s.record.cores \subseteq claim[j].cores /\ s.tree.mask \subseteq tree[j].mask
      /\ (s.ok => Kept(j, s.record))
    BY <1>3, <1>4 DEF Due, Stepped
<1>6. \A k \in Jobs \ {j} : claim[k] # None =>
          (s.record.cores \ s.record.guaranteed) \cap (claim[k].cores \ claim[k].guaranteed) = {}
    BY <1>2, <1>5 DEF IInv, PairInv
<1>7. ASSUME conflict PROVE Polled(j, g.record, g.tree, stop)
    <2>1. g = s
        BY <1>7
    <2>2. ~stop => Runs(j)
        BY <1>0, <1>1, <1>2, <1>7 DEF Runs
    <2>3. ~stop => ~Wider(j, s.record, s.tree)
        BY <1>5, <2>2 DEF Wider
    <2> QED
        BY <1>5, <1>6, <2>1, <2>3 DEF Polled
<1>8. ASSUME ~conflict
      PROVE  s.ok /\ Clear(j, s.record, s.tree) /\ Kept(j, s.record)
    <2>1. s.ok /\ ~Yields(claim, s.record)
        BY <1>8
    <2>2. Clear(j, s.record, s.tree)
        BY <1>4, <2>1, SettledClear
    <2> QED
        BY <1>5, <2>1, <2>2
<1>9. ASSUME ~conflict, g = s PROVE Polled(j, g.record, g.tree, stop)
    BY <1>5, <1>6, <1>8, <1>9 DEF Polled, Kept
<1>10. ASSUME ~conflict, g # s PROVE Polled(j, g.record, g.tree, stop)
    <2>1. s.record.shared /\ g \in Growths(claim, s)
        BY <1>10
    <2>2. Grown(j, s, g)
        BY <1>4, <1>8, <1>10, <2>1, Growth
    <2>3. /\ g.record \in Claims /\ g.tree \in Trees
          /\ Sound(g.record, j) /\ Fits(g.record, g.tree)
          /\ g.record.guaranteed = s.record.guaranteed
          /\ (g.record.background <=> s.record.background)
          /\ s.record.cores \subseteq g.record.cores
          /\ (g.record.cores \ s.record.cores) \cap Blocked = {}
          /\ \A k \in Jobs \ {j} : claim[k] # None
                => (g.record.cores \ s.record.cores) \cap claim[k].cores = {}
          /\ Cardinality((OthersOn(j) \cap OffFloorCores) \cup g.record.cores) <= Budget
        BY <2>2 DEF Grown
    <2>4. ~g.record.background /\ g.tree.mask \subseteq g.record.cores
        BY <1>5, <2>1, <2>3 DEF Sound, Fits
    <2>5. \A k \in Jobs \ {j} : claim[k] # None =>
              (g.record.cores \ g.record.guaranteed) \cap (claim[k].cores \ claim[k].guaranteed) = {}
        BY <1>6, <2>3
    <2>6. s.record.cores \cap Blocked = {}
        <3>1. s.tree.mask = s.record.cores
            BY <1>4, <1>8, <1>10 DEF Stepped, Fits
        <3> QED
            BY <1>8, <1>10, <3>1 DEF Clear
    <2>7. \A k \in Jobs \ {j} : claim[k] # None =>
              (g.record.cores \ g.record.guaranteed) \cap claim[k].guaranteed = {}
        <3> SUFFICES ASSUME NEW k \in Jobs \ {j}, claim[k] # None
                     PROVE  (g.record.cores \ g.record.guaranteed) \cap claim[k].guaranteed = {}
            OBVIOUS
        <3>1. claim[k].guaranteed \subseteq claim[k].cores
            BY DEF IInv, JobInv, Sound
        <3>2. (s.record.cores \ s.record.guaranteed) \cap claim[k].guaranteed = {}
            BY <1>8, <1>10 DEF Kept
        <3>3. (g.record.cores \ s.record.cores) \cap claim[k].cores = {}
            BY <2>3
        <3> QED
            BY <2>3, <3>1, <3>2, <3>3
    <2>8. Clear(j, g.record, g.tree)
        BY <2>3, <2>4, <2>6, <2>7 DEF Clear
    <2> QED
        BY <1>5, <2>3, <2>5, <2>8 DEF Polled
<1>11. Polled(j, g.record, g.tree, stop)
    BY <1>7, <1>9, <1>10
<1>12. /\ claim' = [claim EXCEPT ![j] =
                        [g.record EXCEPT !.state = IF stop THEN "suspended" ELSE "running"]]
       /\ tree' = [tree EXCEPT ![j] = [g.tree EXCEPT !.stopped = stop]]
    BY <1>1, <1>e DEF Outcome
<1>13. PICK r, t : r = g.record /\ t = g.tree
    OBVIOUS
<1>14. /\ Polled(j, r, t, stop)
       /\ claim' = [claim EXCEPT ![j] =
                        [r EXCEPT !.state = IF stop THEN "suspended" ELSE "running"]]
       /\ tree' = [tree EXCEPT ![j] = [t EXCEPT !.stopped = stop]]
    BY <1>11, <1>12, <1>13
<1>15. IInv'
    BY <1>0, <1>14, PolledKeeps
<1>16. PICK st \in {"running", "suspended"} : st = IF stop THEN "suspended" ELSE "running"
    OBVIOUS
<1>17. PICK c : c = [r EXCEPT !.state = st]
    OBVIOUS
<1>18. /\ c \in Claims /\ c.cores = r.cores /\ c.guaranteed = r.guaranteed /\ c.backfill = r.backfill
       /\ (c.background <=> r.background)
    <2>1. r \in Claims /\ Sound(r, j)
        BY <1>14 DEF Polled
    <2> QED
        BY <1>17, <2>1, StateRecorded
<1>19. claim' = [claim EXCEPT ![j] = c] /\ claim'[j] = c /\ c # None
    <2>1. claim' = [claim EXCEPT ![j] = c]
        BY <1>14, <1>16, <1>17
    <2> QED
        BY <1>18, <2>1, NoneAssumption DEF IInv, TypeOK
<1>20. /\ s.record.backfill = claim[j].backfill
       /\ s.record.background => claim[j].background \/ Request[j].limit = "demote"
    BY <1>3, <1>4 DEF Due, Stepped
<1>21. /\ r.guaranteed = claim[j].guaranteed /\ r.backfill = claim[j].backfill
       /\ (r.background <=> s.record.background)
       /\ queue # <<>> => r.cores \subseteq claim[j].cores
    <2>1. CASE g = s
        BY <1>5, <1>13, <1>20, <2>1
    <2>2. CASE g # s
        <3>1. ~conflict /\ s.record.shared /\ queue = <<>> /\ g \in Growths(claim, s)
            BY <2>2
        <3>2. Grown(j, s, g)
            BY <1>4, <1>8, <2>2, <3>1, Growth
        <3> QED
            BY <1>5, <1>13, <1>20, <3>1, <3>2 DEF Grown
    <2> QED
        BY <2>1, <2>2
<1>22. Renewed(j, claim[j], c)
    BY <1>5, <1>18, <1>19, <1>20, <1>21 DEF Renewed
<1> QED
    BY <1>15, <1>19, <1>22

-----------------------------------------------------------------------------
(* The steps of jobs that run nothing, and of timed work.                  *)

\* Queuing, the end of a tree, release and death.
LEMMA IdleStepKeeps ==
    ASSUME IInv, NEW j \in Jobs, Enqueue(j) \/ TreeEnds(j) \/ Release(j) \/ Dies(j)
    PROVE  IInv'
<1>1. /\ claim = [claim EXCEPT ![j] = claim[j]] /\ tree = [tree EXCEPT ![j] = tree[j]]
      /\ tree[j] \in Trees /\ NoTree \in Trees
    BY DEF IInv, TypeOK, NoTree, Pinned, Trees
<1>2. CASE Enqueue(j)
    <2>1. claim[j] = None
        BY <1>2 DEF IInv, JobInv, Enqueue
    <2> QED
        BY <1>1, <1>2, <2>1, LeavingKeeps DEF Enqueue
<1>3. CASE TreeEnds(j)
    BY <1>1, <1>3, LeavingKeeps DEF TreeEnds
<1>4. CASE Release(j)
    BY <1>1, <1>4, LeavingKeeps DEF Release
<1>5. CASE Dies(j)
    BY <1>1, <1>5, LeavingKeeps DEF Dies
<1> QED
    BY <1>2, <1>3, <1>4, <1>5

\* Timed work changes no job.
LEMMA JobsKept ==
    ASSUME IInv, UNCHANGED jobVars, TimedInv'
    PROVE  IInv'
<1>1. UNCHANGED <<claim, at, tree>>
    BY DEF jobVars
<1>2. TypeOK'
    BY <1>1 DEF IInv, TypeOK
<1>3. \A j \in Jobs : JobInv(j)'
    BY <1>1 DEF IInv, JobInv
<1>4. \A j, k \in Jobs : j # k => PairInv(j, k)'
    BY <1>1 DEF IInv, PairInv, Runs
<1>5. AllHeld' = AllHeld /\ AllReach' = AllReach
    BY <1>1 DEF AllHeld, AllReach, Reach, Runs
<1>6. BudgetInv'
    BY <1>5 DEF IInv, BudgetInv, Budget
<1> QED
    BY <1>2, <1>3, <1>4, <1>6 DEF IInv

\* Timed work starts on cores every claim has left.
LEMMA VacatedExclusive ==
    ASSUME IInv, Vacated
    PROVE  \A j \in Jobs : RunsOn(j) \cap declared = {}
<1> SUFFICES ASSUME NEW j \in Jobs, at[j] = "running", ~tree[j].stopped
             PROVE  tree[j].mask \cap declared = {}
    BY DEF RunsOn
<1>1. claim[j] # None /\ tree[j].mask \subseteq claim[j].cores /\ claim[j].state # "suspended"
    BY DEF IInv, JobInv, Fits
<1>2. claim[j] \in Records(claim)
    BY <1>1 DEF Records
<1>3. claim[j].cores \cap declared = {}
    BY <1>1, <1>2 DEF Vacated
<1> QED
    BY <1>1, <1>3

\* The steps of timed work.
LEMMA TimedStepKeeps ==
    ASSUME IInv,
           \/ \E cores \in TimedCores \cup {Cores} : Acquire(cores)
           \/ \E cores \in TimedCores : Declare(cores)
           \/ Vacated \/ TimedEnds \/ ReleaseLock
    PROVE  IInv'
<1>0. timedAt # "idle" => lock # None /\ declared # None
    BY DEF IInv, TimedInv
<1>1. CASE \E cores \in TimedCores \cup {Cores} : Acquire(cores)
    <2>1. timedAt' = "idle" /\ UNCHANGED jobVars
        BY <1>0, <1>1 DEF Acquire
    <2>2. TimedInv'
        BY <2>1 DEF TimedInv, TimedExclusive
    <2> QED
        BY <2>1, <2>2, JobsKept
<1>2. CASE \E cores \in TimedCores : Declare(cores)
    <2>1. timedAt' = "vacating" /\ lock' # None /\ declared' # None /\ UNCHANGED jobVars
        BY <1>2, NoneAssumption DEF Declare
    <2>2. TimedInv'
        BY <2>1 DEF TimedInv, TimedExclusive
    <2> QED
        BY <2>1, <2>2, JobsKept
<1>3. CASE Vacated
    <2>1. /\ timedAt = "vacating" /\ UNCHANGED <<claim, at, tree>>
          /\ UNCHANGED jobVars /\ UNCHANGED <<lock, declared>>
        BY <1>3 DEF Vacated, jobVars
    <2>2. \A j \in Jobs : RunsOn(j)' \cap declared' = {}
        BY <1>3, <2>1, VacatedExclusive DEF RunsOn
    <2>3. TimedInv'
        BY <1>0, <2>1, <2>2 DEF TimedInv, TimedExclusive
    <2> QED
        BY <2>1, <2>3, JobsKept
<1>4. CASE TimedEnds \/ ReleaseLock
    <2>1. timedAt' = "idle" /\ UNCHANGED jobVars
        BY <1>4 DEF TimedEnds, ReleaseLock
    <2>2. TimedInv'
        BY <2>1 DEF TimedInv, TimedExclusive
    <2> QED
        BY <2>1, <2>2, JobsKept
<1> QED
    BY <1>1, <1>2, <1>3, <1>4

-----------------------------------------------------------------------------
(* The queue.                                                              *)

\* Sequence w is a followed by b.
IsJoin(w, a, b) ==
    /\ w \in Seq(Jobs) /\ Len(w) = Len(a) + Len(b)
    /\ \A i \in 1 .. Len(a) : w[i] = a[i]
    /\ \A i \in Len(a) + 1 .. Len(a) + Len(b) : w[i] = b[i - Len(a)]

\* One sequence after another.
LEMMA Concatenated ==
    ASSUME NEW a \in Seq(Jobs), NEW b \in Seq(Jobs)
    PROVE  IsJoin(a \o b, a, b)
    BY DEF IsJoin

\* A ticket is withdrawn: the others stay, and so does the first one.
LEMMA Removed ==
    ASSUME NEW q \in Seq(Jobs), Once(q), NEW j \in Jobs, NEW w, w = RemoveFirst(q, j)
    PROVE  /\ w \in Seq(Jobs) /\ Once(w)
           /\ \A k \in Jobs : Has(w, k) <=> Has(q, k) /\ k # j
           /\ q # <<>> /\ q[1] # j => w # <<>> /\ w[1] = q[1]
<1>1. CASE ~Has(q, j)
    <2>1. w = q
        BY <1>1 DEF RemoveFirst, Has
    <2> QED
        BY <1>1, <2>1
<1>2. CASE Has(q, j)
    <2>1. PICK m \in 1 .. Len(q) : q[m] = j
        BY <1>2 DEF Has
    <2>2. {i \in 1 .. Len(q) : q[i] = j} = {m}
        BY <2>1 DEF Once
    <2>3. Min({m}) = m
        BY DEF Min
    <2>4. w = SubSeq(q, 1, m - 1) \o SubSeq(q, m + 1, Len(q))
        <3>1. w = RemoveAt(q, SelectInSeq(q, LAMBDA v : v = j))
            BY <1>2 DEF RemoveFirst, Has
        <3>2. SelectInSeq(q, LAMBDA v : v = j) = m
            BY <2>2, <2>3 DEF SelectInSeq
        <3> QED
            BY <3>1, <3>2 DEF RemoveAt
    <2>5. /\ w \in Seq(Jobs) /\ Len(w) = Len(q) - 1
          /\ \A n \in 1 .. Len(q) - 1 : w[n] = IF n < m THEN q[n] ELSE q[n + 1]
        <3>1. PICK a : a = SubSeq(q, 1, m - 1)
            OBVIOUS
        <3>2. PICK b : b = SubSeq(q, m + 1, Len(q))
            OBVIOUS
        <3>3. a \in Seq(Jobs) /\ Len(a) = m - 1 /\ \A n \in 1 .. m - 1 : a[n] = q[n]
            BY <3>1
        <3>4. b \in Seq(Jobs) /\ Len(b) = Len(q) - m /\ \A n \in 1 .. Len(q) - m : b[n] = q[m + n]
            BY <3>2
        <3>5. w = a \o b
            BY <2>4, <3>1, <3>2
        <3>6. /\ w \in Seq(Jobs) /\ Len(w) = Len(q) - 1
              /\ \A n \in 1 .. Len(q) - 1 : w[n] = IF n < m THEN a[n] ELSE b[n - (m - 1)]
            <4>1. IsJoin(w, a, b)
                BY <3>3, <3>4, <3>5, Concatenated
            <4>2. /\ Len(w) = Len(q) - 1
                  /\ \A i \in 1 .. m - 1 : w[i] = a[i]
                  /\ \A i \in m .. Len(q) - 1 : w[i] = b[i - (m - 1)]
                BY <3>3, <3>4, <4>1 DEF IsJoin
            <4> QED
                BY <4>1, <4>2 DEF IsJoin
        <3>7. \A n \in 1 .. Len(q) - 1 : ~(n < m) =>
                  n - (m - 1) \in 1 .. Len(q) - m /\ m + (n - (m - 1)) = n + 1
            OBVIOUS
        <3> QED
            BY <3>3, <3>4, <3>6, <3>7
    <2>6. Once(w)
        BY <2>5 DEF Once
    <2>7. ASSUME NEW k \in Jobs PROVE Has(w, k) <=> Has(q, k) /\ k # j
        <3>1. ASSUME NEW n \in 1 .. Len(q), q[n] = k, k # j PROVE Has(w, k)
            <4>1. CASE n < m
                <5>1. n \in 1 .. Len(w) /\ w[n] = k
                    BY <2>5, <3>1, <4>1
                <5> QED
                    BY <5>1 DEF Has
            <4>2. CASE n > m
                <5>1. n - 1 \in 1 .. Len(w) /\ w[n - 1] = q[n - 1 + 1] /\ n - 1 + 1 = n
                    BY <2>5, <4>2
                <5> QED
                    BY <3>1, <5>1 DEF Has
            <4>3. n # m
                BY <2>1, <3>1
            <4> QED
                BY <4>1, <4>2, <4>3
        <3>2. ASSUME NEW n \in 1 .. Len(w), w[n] = k PROVE Has(q, k) /\ k # j
            <4>1. CASE n < m
                <5>1. n \in 1 .. Len(q) /\ q[n] = k /\ n # m
                    BY <2>5, <3>2, <4>1
                <5> QED
                    BY <2>1, <5>1 DEF Has, Once
            <4>2. CASE ~(n < m)
                <5>1. n + 1 \in 1 .. Len(q) /\ q[n + 1] = k /\ n + 1 # m
                    BY <2>5, <3>2, <4>2
                <5> QED
                    BY <2>1, <5>1 DEF Has, Once
            <4> QED
                BY <4>1, <4>2
        <3> QED
            BY <3>1, <3>2 DEF Has
    <2>8. ASSUME q # <<>>, q[1] # j PROVE w # <<>> /\ w[1] = q[1]
        <3>1. m > 1
            BY <2>1, <2>8
        <3>2. 1 \in 1 .. Len(w) /\ w[1] = q[1]
            BY <2>5, <3>1
        <3> QED
            BY <3>2
    <2> QED
        BY <2>5, <2>6, <2>7, <2>8
<1> QED
    BY <1>1, <1>2

\* A new ticket comes in behind the first n.
LEMMA Inserted ==
    ASSUME NEW q \in Seq(Jobs), Once(q), NEW j \in Jobs, ~Has(q, j),
           NEW n \in 0 .. Len(q), NEW w, w = InsertAt(q, n + 1, j)
    PROVE  /\ w \in Seq(Jobs) /\ Once(w)
           /\ \A k \in Jobs : Has(w, k) <=> Has(q, k) \/ k = j
           /\ n > 0 => w # <<>> /\ w[1] = q[1]
<1>1. w = (SubSeq(q, 1, n) \o <<j>>) \o SubSeq(q, n + 1, Len(q))
    <2>1. PICK m : m = n + 1
        OBVIOUS
    <2>2. m - 1 = n
        BY <2>1
    <2>3. w = (SubSeq(q, 1, m - 1) \o <<j>>) \o SubSeq(q, m, Len(q))
        BY ONLY <2>1, w = InsertAt(q, n + 1, j), Zenon DEF InsertAt
    <2> QED
        BY ONLY <2>1, <2>2, <2>3, Zenon
<1>2. /\ w \in Seq(Jobs) /\ Len(w) = Len(q) + 1
      /\ \A i \in 1 .. n : w[i] = q[i]
      /\ w[n + 1] = j
      /\ \A i \in n + 2 .. Len(q) + 1 : w[i] = q[i - 1]
    <2>1. PICK a : a = SubSeq(q, 1, n)
        OBVIOUS
    <2>2. PICK b : b = SubSeq(q, n + 1, Len(q))
        OBVIOUS
    <2>3. PICK c : c = a \o <<j>>
        OBVIOUS
    <2>4. a \in Seq(Jobs) /\ Len(a) = n /\ \A i \in 1 .. n : a[i] = q[i]
        BY <2>1
    <2>5. b \in Seq(Jobs) /\ Len(b) = Len(q) - n /\ \A i \in 1 .. Len(q) - n : b[i] = q[n + i]
        BY <2>2
    <2>6. c \in Seq(Jobs) /\ Len(c) = n + 1 /\ c[n + 1] = j /\ \A i \in 1 .. n : c[i] = q[i]
        BY <2>3, <2>4
    <2>7. w = c \o b
        BY <1>1, <2>1, <2>2, <2>3
    <2>8. /\ w \in Seq(Jobs) /\ Len(w) = Len(q) + 1
          /\ \A i \in 1 .. n + 1 : w[i] = c[i]
          /\ \A i \in n + 2 .. Len(q) + 1 : w[i] = b[i - (n + 1)]
        <3>1. IsJoin(w, c, b)
            BY <2>5, <2>6, <2>7, Concatenated
        <3>2. Len(c) + Len(b) = Len(q) + 1 /\ Len(c) + 1 = n + 2
            BY <2>5, <2>6
        <3> QED
            BY <2>6, <3>1, <3>2 DEF IsJoin
    <2>9. \A i \in n + 2 .. Len(q) + 1 :
              i - (n + 1) \in 1 .. Len(q) - n /\ n + (i - (n + 1)) = i - 1
        OBVIOUS
    <2> QED
        BY <2>5, <2>6, <2>8, <2>9
<1>3. \A i \in 1 .. Len(q) : q[i] # j
    BY DEF Has
<1>4. Once(w)
    <2> SUFFICES ASSUME NEW a \in 1 .. Len(w), NEW b \in 1 .. Len(w), w[a] = w[b] PROVE a = b
        BY DEF Once
    <2> DEFINE Old(i) == IF i <= n THEN i ELSE i - 1
    <2>1. \A i \in 1 .. Len(w) : i # n + 1 => Old(i) \in 1 .. Len(q) /\ w[i] = q[Old(i)]
        BY <1>2
    <2>2. \A i \in 1 .. Len(w) : i # n + 1 => w[i] # j
        BY <1>3, <2>1
    <2>3. CASE a = n + 1 \/ b = n + 1
        BY <1>2, <2>2, <2>3
    <2>4. CASE a # n + 1 /\ b # n + 1
        <3>1. q[Old(a)] = q[Old(b)] /\ Old(a) \in 1 .. Len(q) /\ Old(b) \in 1 .. Len(q)
            BY <2>1, <2>4
        <3>2. Old(a) = Old(b)
            BY <3>1 DEF Once
        <3> QED
            BY <2>4, <3>2
    <2> QED
        BY <2>3, <2>4
<1>5. ASSUME NEW k \in Jobs PROVE Has(w, k) <=> Has(q, k) \/ k = j
    <2>1. ASSUME NEW i \in 1 .. Len(q), q[i] = k PROVE Has(w, k)
        <3>1. CASE i <= n
            <4>1. i \in 1 .. Len(w) /\ w[i] = k
                BY <1>2, <2>1, <3>1
            <4> QED
                BY <4>1 DEF Has
        <3>2. CASE i > n
            <4>1. i + 1 \in 1 .. Len(w) /\ w[i + 1] = q[i + 1 - 1] /\ i + 1 - 1 = i
                BY <1>2, <3>2
            <4> QED
                BY <2>1, <4>1 DEF Has
        <3> QED
            BY <3>1, <3>2
    <2>2. Has(w, j)
        <3>1. n + 1 \in 1 .. Len(w)
            BY <1>2
        <3> QED
            BY <1>2, <3>1 DEF Has
    <2>3. ASSUME NEW i \in 1 .. Len(w), w[i] = k, k # j PROVE Has(q, k)
        <3>1. CASE i <= n
            <4>1. i \in 1 .. Len(q) /\ q[i] = k
                BY <1>2, <2>3, <3>1
            <4> QED
                BY <4>1 DEF Has
        <3>2. CASE i > n
            <4>1. i - 1 \in 1 .. Len(q) /\ q[i - 1] = k
                BY <1>2, <2>3, <3>2
            <4> QED
                BY <4>1 DEF Has
        <3> QED
            BY <3>1, <3>2
    <2> QED
        BY <2>1, <2>2, <2>3 DEF Has
<1>6. ASSUME n > 0 PROVE w # <<>> /\ w[1] = q[1]
    <2>1. 1 \in 1 .. n /\ 1 \in 1 .. Len(w)
        BY <1>2, <1>6
    <2> QED
        BY <1>2, <2>1
<1> QED
    BY <1>2, <1>4, <1>5, <1>6

\* Nobody queues at first.
LEMMA InitQueue == Init => QueueInv
<1> SUFFICES ASSUME Init PROVE QueueInv
    OBVIOUS
<1>1. queue = <<>> /\ queue \in Seq(Jobs) /\ Len(queue) = 0
    BY DEF Init
<1>2. \A j \in Jobs : at[j] = "idle" /\ ~Has(queue, j)
    BY <1>1 DEF Init, Has
<1>3. Once(queue)
    BY <1>1 DEF Once
<1>4. at \in [Jobs -> Places]
    BY DEF Init, Places
<1> QED
    BY <1>1, <1>2, <1>3, <1>4 DEF QueueInv

\* A request enters the queue where it belongs, behind the head if that is
\* an ordinary request.
LEMMA EnqueueQueue ==
    ASSUME QueueInv, NEW j \in Jobs, Enqueue(j)
    PROVE  /\ QueueInv'
           /\ queue # <<>> /\ ~Background(queue[1]) => queue' # <<>> /\ queue'[1] = queue[1]
<1>1. queue \in Seq(Jobs) /\ Once(queue) /\ Len(queue) \in Nat /\ DOMAIN queue = 1 .. Len(queue)
    BY DEF QueueInv
<1>2. at[j] = "idle" /\ ~Has(queue, j) /\ at' = [at EXCEPT ![j] = "queued"] /\ at \in [Jobs -> Places]
    BY DEF QueueInv, Enqueue
<1>3. PICK n : n = Cardinality(Ahead(j))
    OBVIOUS
<1>4. Ahead(j) \subseteq 1 .. Len(queue)
    BY <1>1 DEF Ahead
<1>5. IsFiniteSet(Ahead(j)) /\ n \in 0 .. Len(queue)
    <2>1. IsFiniteSet(1 .. Len(queue)) /\ Cardinality(1 .. Len(queue)) = Len(queue)
        <3>1. PICK k \in Nat : k = Len(queue)
            BY <1>1
        <3>2. IsFiniteSet(1 .. k) /\ Cardinality(1 .. k) = IF 1 > k THEN 0 ELSE k - 1 + 1
            BY FS_Interval
        <3>3. Cardinality(1 .. k) = k
            BY <3>2
        <3> QED
            BY <3>1, <3>2, <3>3
    <2>2. IsFiniteSet(Ahead(j)) /\ n <= Len(queue)
        BY <1>3, <1>4, <2>1, FS_Subset
    <2>3. n \in Nat
        BY <1>3, <2>2, FS_CardinalityType
    <2> QED
        BY <1>1, <2>2, <2>3
<1>6. queue' = InsertAt(queue, n + 1, j)
    BY <1>3 DEF Enqueue
<1>7. /\ queue' \in Seq(Jobs) /\ Once(queue')
      /\ \A k \in Jobs : Has(queue', k) <=> Has(queue, k) \/ k = j
      /\ n > 0 => queue' # <<>> /\ queue'[1] = queue[1]
    BY <1>1, <1>2, <1>5, <1>6, Inserted
<1>8. at' \in [Jobs -> Places] /\ \A k \in Jobs : at'[k] = IF k = j THEN "queued" ELSE at[k]
    BY <1>2 DEF Places
<1>9. \A k \in Jobs : at'[k] = "queued" <=> Has(queue', k)
    BY <1>7, <1>8 DEF QueueInv
<1>10. ASSUME queue # <<>>, ~Background(queue[1]) PROVE n > 0
    <2>1. 1 \in DOMAIN queue
        BY <1>1, <1>10
    <2>2. 1 \in Ahead(j)
        BY <1>10, <2>1 DEF Ahead
    <2>3. n # 0
        BY <1>3, <1>5, <2>2, FS_EmptySet
    <2> QED
        BY <1>5, <2>3
<1>11. QueueInv'
    BY <1>7, <1>8, <1>9 DEF QueueInv, Has, Once
<1> QED
    BY <1>7, <1>10, <1>11

\* A request leaves the queue: the head stays the head.
LEMMA LeavesQueue ==
    ASSUME QueueInv, NEW j \in Jobs, queue' = Without(j), NEW p \in Places, p # "queued",
           at' = [at EXCEPT ![j] = p]
    PROVE  /\ QueueInv'
           /\ queue # <<>> /\ queue[1] # j => queue' # <<>> /\ queue'[1] = queue[1]
<1>1. queue \in Seq(Jobs) /\ Once(queue) /\ at \in [Jobs -> Places]
    BY DEF QueueInv
<1>2. /\ queue' \in Seq(Jobs) /\ Once(queue')
      /\ \A k \in Jobs : Has(queue', k) <=> Has(queue, k) /\ k # j
      /\ queue # <<>> /\ queue[1] # j => queue' # <<>> /\ queue'[1] = queue[1]
    BY <1>1, Removed DEF Without
<1>3. at' \in [Jobs -> Places] /\ \A k \in Jobs : at'[k] = IF k = j THEN p ELSE at[k]
    BY <1>1
<1>4. \A k \in Jobs : at'[k] = "queued" <=> Has(queue', k)
    BY <1>2, <1>3 DEF QueueInv
<1>5. QueueInv'
    BY <1>2, <1>3, <1>4 DEF QueueInv, Has, Once
<1> QED
    BY <1>2, <1>5

\* A step of a launcher that is not queued leaves the queue alone.
LEMMA StaysQueue ==
    ASSUME QueueInv, NEW j \in Jobs, queue' = queue, at[j] # "queued",
           NEW p \in Places, p # "queued", at' = [at EXCEPT ![j] = p]
    PROVE  QueueInv'
<1>1. at' \in [Jobs -> Places] /\ \A k \in Jobs : at'[k] = IF k = j THEN p ELSE at[k]
    BY DEF QueueInv
<1>2. \A k \in Jobs : at'[k] = "queued" <=> Has(queue', k)
    BY <1>1 DEF QueueInv
<1> QED
    BY <1>1, <1>2 DEF QueueInv, Has, Once

\* Every step keeps the tickets those of the queued requests.
LEMMA NextQueue == QueueInv /\ [Next]_vars => QueueInv'
<1> SUFFICES ASSUME QueueInv, [Next]_vars PROVE QueueInv'
    OBVIOUS
<1>1. ASSUME NEW j \in Jobs, Enqueue(j) PROVE QueueInv'
    BY <1>1, EnqueueQueue
<1>2. ASSUME NEW j \in Jobs, Admit(j) \/ Backfill(j) PROVE QueueInv'
    <2>1. queue' = Without(j) /\ at' = [at EXCEPT ![j] = "admitted"]
        BY <1>2 DEF Admit, Backfill, Admitted
    <2> QED
        BY <2>1, LeavesQueue DEF Places
<1>3. ASSUME NEW j \in Jobs, Dies(j) PROVE QueueInv'
    <2>1. queue' = Without(j) /\ at' = [at EXCEPT ![j] = "gone"]
        BY <1>3 DEF Dies
    <2> QED
        BY <2>1, LeavesQueue DEF Places
<1>4. ASSUME NEW j \in Jobs, TryStart(j) PROVE QueueInv'
    <2>1. PICK may : at' = [at EXCEPT ![j] = IF may THEN "running" ELSE "admitted"]
        BY <1>4 DEF TryStart
    <2>2. queue' = queue /\ at[j] = "admitted"
        BY <1>4 DEF TryStart
    <2>3. CASE may
        BY <2>1, <2>2, <2>3, StaysQueue DEF Places
    <2>4. CASE ~may
        BY <2>1, <2>2, <2>4, StaysQueue DEF Places
    <2> QED
        BY <2>3, <2>4
<1>5. ASSUME NEW j \in Jobs, TreeEnds(j) PROVE QueueInv'
    <2>1. queue' = queue /\ at[j] = "running" /\ at' = [at EXCEPT ![j] = "over"]
        BY <1>5 DEF TreeEnds
    <2> QED
        BY <2>1, StaysQueue DEF Places
<1>6. ASSUME NEW j \in Jobs, Release(j) PROVE QueueInv'
    <2>1. queue' = queue /\ at[j] = "over" /\ at' = [at EXCEPT ![j] = "gone"]
        BY <1>6 DEF Release
    <2> QED
        BY <2>1, StaysQueue DEF Places
<1>7. ASSUME UNCHANGED <<queue, at>> PROVE QueueInv'
    BY <1>7 DEF QueueInv, Has, Once
<1>8. ASSUME NEW j \in Jobs, Poll(j) PROVE UNCHANGED <<queue, at>>
    BY <1>8 DEF Poll
<1>9. ASSUME \/ \E cores \in TimedCores \cup {Cores} : Acquire(cores)
             \/ \E cores \in TimedCores : Declare(cores)
             \/ Vacated \/ TimedEnds \/ ReleaseLock \/ UNCHANGED vars
      PROVE  UNCHANGED <<queue, at>>
    BY <1>9 DEF Acquire, Declare, Vacated, TimedEnds, ReleaseLock, jobVars, vars
<1> QED
    BY <1>1, <1>2, <1>3, <1>4, <1>5, <1>6, <1>7, <1>8, <1>9 DEF Next, Launcher, Done

-----------------------------------------------------------------------------
(* Backfills.                                                              *)

\* What a head would find and take if only the claims of the jobs in J were
\* left and none of them lent a core.
UsedBy(cl, J) == UNION {cl[j].guaranteed : j \in {k \in J : ~cl[k].background}}
BorrowedFrom(cl, J) == UNION {cl[j].guaranteed : j \in {k \in J : cl[k].background}}
RoomBeside(cl, J) ==
    FirstOf(OffFloor, OffFloorCores \ UsedBy(cl, J),
            Len(OffFloor) - KeepFree - Cardinality(UsedBy(cl, J) \cap OffFloorCores))
Startable(cl, J, h) == Cardinality(RoomBeside(cl, J)) >= Wanted(h)
Handed(cl, J, h) == FirstOf(OffFloor, RoomBeside(cl, J), Wanted(h)) \cap BorrowedFrom(cl, J)

Plain(cl, J) == {j \in J : cl[j].backfill = None}

\* The backfills among the jobs in J do not delay head h.
Harmless(cl, J, h) ==
    Startable(cl, Plain(cl, J), h) =>
        Startable(cl, J, h) /\ Handed(cl, J, h) \subseteq Handed(cl, Plain(cl, J), h)

BackfilledFor(h) == {j \in Live : claim[j].backfill = h}

\* No order in which the claims end makes the backfills for h delay it.
HarmlessFor(h) ==
    \A J \in SUBSET Live :
        (\A j \in J : ~Demoted(j)) /\ J \cap BackfilledFor(h) # {} => Harmless(claim, J, h)

\* Where a claim came from.
OriginInv(j) ==
    claim[j] # None =>
        /\ Demoted(j) => Request[j].limit = "demote"
        /\ claim[j].backfill # None => Request[j].limit # "none" /\ at[claim[j].backfill] # "idle"

\* A request that others were admitted before is the head until it is no
\* longer queued, and nothing is lent meanwhile.
HeadInv(h) ==
    at[h] = "queued" /\ BackfilledFor(h) # {} =>
        /\ queue[1] = h /\ ~Background(h)
        /\ \A j \in Live : claim[j].cores = claim[j].guaranteed
        /\ HarmlessFor(h)

BackfillInv == \A j \in Jobs : OriginInv(j) /\ HeadInv(j)

\* The claims of the jobs in J are sound and lend nothing.
Unlent(cl, J) ==
    \A j \in J : cl[j] \in Claims /\ Sound(cl[j], j) /\ cl[j].cores = cl[j].guaranteed

\* Then a head's start is what these operators say.
LEMMA HeadStartOf ==
    ASSUME lock = None, NEW h \in Jobs, ~Background(h), NEW J, NEW cl, Unlent(cl, J),
           NEW cs, cs = {cl[j] : j \in J}
    PROVE  /\ HeadStart(cs, h) # None <=> Startable(cl, J, h)
           /\ Startable(cl, J, h) => HeadStart(cs, h).handoffs = Handed(cl, J, h)
<1> DEFINE room == Available(cs, Background(h), Background(h))
           chosen == FirstOf(Preference(Background(h)), room, Wanted(h))
           borrowed == Occupied({c \in cs : c.background}) \cup AnyLent(cs)
           makesRoom == /\ \E c \in cs : Lending(c)
                        /\ Cardinality(Occupied(cs) \cup chosen) > Budget
           used == UNION {Held(c) : c \in {d \in cs : Background(h) \/ ~d.background}}
<1>1. \A c \in cs : \E j \in J : c = cl[j] /\ Held(c) = c.guaranteed /\ Lent(c) = {} /\ c.cores = c.guaranteed
    <2> SUFFICES ASSUME NEW j \in J
                 PROVE  /\ Held(cl[j]) = cl[j].guaranteed /\ Lent(cl[j]) = {}
                        /\ cl[j].cores = cl[j].guaranteed
        OBVIOUS
    <2>1. Sound(cl[j], j) /\ cl[j].cores = cl[j].guaranteed
        BY DEF Unlent
    <2> QED
        BY <2>1, HeldIsGuaranteed
<1>2. Background(h) = FALSE /\ Preference(Background(h)) = OffFloor
    <2>1. Background(h) = FALSE
        BY DEF Background
    <2> QED
        BY <2>1, CoreFacts
<1>3. used = UsedBy(cl, J)
    <2>1. used \subseteq UsedBy(cl, J)
        <3> SUFFICES ASSUME NEW c \in cs, ~c.background PROVE Held(c) \subseteq UsedBy(cl, J)
            BY <1>2
        <3>1. PICK j \in J : c = cl[j] /\ Held(c) = c.guaranteed
            BY <1>1
        <3> QED
            BY <3>1 DEF UsedBy
    <2>2. UsedBy(cl, J) \subseteq used
        <3> SUFFICES ASSUME NEW j \in J, ~cl[j].background PROVE cl[j].guaranteed \subseteq used
            BY DEF UsedBy
        <3>1. cl[j] \in cs /\ Held(cl[j]) = cl[j].guaranteed
            BY <1>1
        <3> QED
            BY <3>1
    <2> QED
        BY <2>1, <2>2
<1>4. room = RoomBeside(cl, J)
    <2>1. Blocked = {}
        BY DEF Blocked
    <2>2. room = Free(OffFloor, used)
        BY <1>2 DEF Available
    <2> HIDE DEF room, used
    <2>3. room = FirstOf(OffFloor, OffFloorCores \ ({} \cup used),
                         Len(OffFloor) - KeepFree - Cardinality(used \cap OffFloorCores))
        BY <2>1, <2>2 DEF Free, OffFloorCores
    <2>4. {} \cup used = used
        OBVIOUS
    <2> QED
        BY <1>3, <2>3, <2>4 DEF RoomBeside
<1>5. AnyLent(cs) = {}
    BY <1>1 DEF AnyLent
<1>6. borrowed = BorrowedFrom(cl, J)
    <2>1. Occupied({c \in cs : c.background}) \subseteq BorrowedFrom(cl, J)
        <3> SUFFICES ASSUME NEW c \in cs, c.background PROVE c.cores \subseteq BorrowedFrom(cl, J)
            BY DEF Occupied
        <3>1. PICK j \in J : c = cl[j] /\ c.cores = c.guaranteed
            BY <1>1
        <3> QED
            BY <3>1 DEF BorrowedFrom
    <2>2. BorrowedFrom(cl, J) \subseteq Occupied({c \in cs : c.background})
        <3> SUFFICES ASSUME NEW j \in J, cl[j].background
                     PROVE  cl[j].guaranteed \subseteq Occupied({c \in cs : c.background})
            BY DEF BorrowedFrom
        <3>1. cl[j] \in {c \in cs : c.background} /\ cl[j].cores = cl[j].guaranteed
            BY <1>1
        <3> QED
            BY <3>1 DEF Occupied
    <2> QED
        BY <1>5, <2>1, <2>2
<1>7. ~makesRoom
    BY <1>1 DEF Lending
<1>8. chosen = FirstOf(OffFloor, RoomBeside(cl, J), Wanted(h))
    BY <1>2, <1>4
<1>9. PICK z : z = [cores |-> chosen,
                    handoffs |-> (chosen \cap borrowed) \cup (IF makesRoom THEN {None} ELSE {})]
    OBVIOUS
<1>10. HeadStart(cs, h) = IF Cardinality(room) < Wanted(h) THEN None ELSE z
    BY <1>9 DEF HeadStart
<1> HIDE DEF room, chosen, borrowed, makesRoom, used
<1>11. z.cores = chosen /\ z.handoffs = Handed(cl, J, h)
    BY <1>6, <1>7, <1>8, <1>9 DEF Handed
<1>12. chosen \subseteq Cores
    BY <1>8, FirstOfWithin, CoreFacts DEF OffFloorCores
<1>13. z \in Starts
    <2>1. z.handoffs \subseteq Cores
        BY <1>8, <1>11, <1>12 DEF Handed
    <2>2. z = [cores |-> chosen, handoffs |-> z.handoffs]
        BY <1>9
    <2> QED
        BY <1>12, <2>1, <2>2 DEF Starts
<1>14. z # None
    BY <1>13, NoneAssumption
<1>15. Cardinality(room) < Wanted(h) <=> ~Startable(cl, J, h)
    <2>1. IsFiniteSet(room)
        <3>1. room \subseteq Cores
            BY <1>4, FirstOfWithin, CoreFacts DEF RoomBeside, OffFloorCores
        <3> QED
            BY <3>1, CoreFacts, FS_Subset
    <2>2. Cardinality(room) \in Nat
        BY <2>1, FS_CardinalityType
    <2>3. Wanted(h) \in Int
        BY JobAssumption, CoreFacts DEF Wanted
    <2> QED
        BY <1>4, <2>2, <2>3 DEF Startable
<1> QED
    BY <1>10, <1>11, <1>14, <1>15

\* Whether backfills are harmless depends on what is guaranteed, to which
\* class, and on who was admitted as a backfill.
LEMMA HarmlessAlike ==
    ASSUME NEW J, NEW cl, NEW cm, NEW h,
           \A j \in J : /\ cm[j].guaranteed = cl[j].guaranteed /\ cm[j].backfill = cl[j].backfill
                        /\ cm[j].background <=> cl[j].background
    PROVE  Harmless(cl, J, h) => Harmless(cm, J, h)
<1>1. Plain(cm, J) = Plain(cl, J)
    BY DEF Plain
<1>2. Plain(cl, J) \subseteq J
    BY DEF Plain
<1>3. ASSUME NEW K, K \subseteq J
      PROVE  UsedBy(cm, K) = UsedBy(cl, K) /\ BorrowedFrom(cm, K) = BorrowedFrom(cl, K)
    <2>1. \A j \in K : cm[j].guaranteed = cl[j].guaranteed /\ (cm[j].background <=> cl[j].background)
        BY <1>3
    <2>2. UsedBy(cm, K) = UsedBy(cl, K)
        BY <2>1 DEF UsedBy
    <2>3. BorrowedFrom(cm, K) = BorrowedFrom(cl, K)
        BY <2>1 DEF BorrowedFrom
    <2> QED
        BY <2>2, <2>3
<1>4. ASSUME NEW K, K \subseteq J
      PROVE  (Startable(cm, K, h) <=> Startable(cl, K, h)) /\ Handed(cm, K, h) = Handed(cl, K, h)
    BY <1>3, <1>4 DEF Startable, Handed, RoomBeside
<1> QED
    BY <1>1, <1>2, <1>4 DEF Harmless

\* A step in which claims only end or are renewed.
Subsides ==
    \A k \in Jobs : claim'[k] = None \/ (claim[k] # None /\ Renewed(k, claim[k], claim'[k]))

\* Where claims came from does not change in such a step.
LEMMA OriginKept ==
    ASSUME IInv, BackfillInv, Subsides, NEW j \in Jobs, \A k \in Jobs : at[k] # "idle" => at'[k] # "idle"
    PROVE  OriginInv(j)'
<1> SUFFICES ASSUME claim'[j] # None
             PROVE  /\ Demoted(j)' => Request[j].limit = "demote"
                    /\ claim'[j].backfill # None
                          => Request[j].limit # "none" /\ at'[claim'[j].backfill] # "idle"
    BY DEF OriginInv
<1>1. /\ claim[j] # None /\ claim'[j].backfill = claim[j].backfill
      /\ claim'[j].background => claim[j].background \/ Request[j].limit = "demote"
    BY DEF Subsides, Renewed
<1>2. /\ Demoted(j) => Request[j].limit = "demote"
      /\ claim[j].backfill # None => Request[j].limit # "none" /\ at[claim[j].backfill] # "idle"
    BY <1>1 DEF BackfillInv, OriginInv
<1>3. claim[j].backfill \in Jobs \cup {None}
    <2>1. claim[j] \in Claims
        BY <1>1 DEF IInv, TypeOK
    <2> QED
        BY <2>1 DEF Claims
<1>4. Demoted(j)' => Request[j].limit = "demote"
    BY <1>1, <1>2 DEF Demoted
<1> QED
    BY <1>1, <1>2, <1>3, <1>4

\* The head that others were admitted before is not delayed by such a step.
LEMMA HeadKept ==
    ASSUME IInv, IInv', QueueInv, BackfillInv, Subsides, NEW h \in Jobs,
           at'[h] = "queued" /\ BackfilledFor(h) # {} => at[h] = "queued",
           at'[h] = "queued" /\ queue[1] = h /\ ~Background(h) => queue'[1] = h
    PROVE  HeadInv(h)'
<1> SUFFICES ASSUME at'[h] = "queued", BackfilledFor(h)' # {}
             PROVE  /\ queue'[1] = h /\ ~Background(h)
                    /\ \A j \in Live' : claim'[j].cores = claim'[j].guaranteed
                    /\ HarmlessFor(h)'
    BY DEF HeadInv
<1>1. ASSUME NEW j \in Live'
      PROVE  j \in Jobs /\ j \in Live /\ Renewed(j, claim[j], claim'[j])
    BY DEF Live, Subsides
<1>2. BackfilledFor(h)' \subseteq BackfilledFor(h)
    BY <1>1 DEF BackfilledFor, Renewed
<1>3. /\ queue[1] = h /\ ~Background(h) /\ queue # <<>>
      /\ \A j \in Live : claim[j].cores = claim[j].guaranteed
      /\ HarmlessFor(h)
    <2>1. at[h] = "queued" /\ BackfilledFor(h) # {}
        BY <1>2
    <2>2. queue # <<>>
        BY <2>1 DEF QueueInv, Has
    <2> QED
        BY <2>1, <2>2 DEF BackfillInv, HeadInv
<1>4. ASSUME NEW j \in Live' PROVE claim'[j].cores = claim'[j].guaranteed
    <2>1. claim'[j].cores \subseteq claim[j].cores /\ claim'[j].guaranteed = claim[j].guaranteed
        BY <1>1, <1>3 DEF Renewed
    <2>2. claim'[j].guaranteed \subseteq claim'[j].cores
        BY <1>1 DEF IInv, JobInv, Sound, Live
    <2> QED
        BY <1>1, <1>3, <2>1, <2>2
<1>5. HarmlessFor(h)'
    <2> SUFFICES ASSUME NEW J \in SUBSET Live', \A j \in J : ~Demoted(j)',
                        J \cap BackfilledFor(h)' # {}
                 PROVE  Harmless(claim', J, h)
        BY DEF HarmlessFor
    <2>1. J \in SUBSET Live /\ J \cap BackfilledFor(h) # {}
        BY <1>1, <1>2
    <2>2. ASSUME NEW j \in J
          PROVE  /\ claim'[j].guaranteed = claim[j].guaranteed /\ claim'[j].backfill = claim[j].backfill
                 /\ claim'[j].background <=> claim[j].background
                 /\ ~Demoted(j)
        <3>1. j \in Jobs /\ claim[j] # None /\ claim'[j] # None /\ Renewed(j, claim[j], claim'[j])
            BY <1>1 DEF Live
        <3>2. Background(j) => claim[j].background
            BY <3>1 DEF IInv, JobInv, Sound
        <3>3. ~(claim'[j].background /\ ~Background(j))
            BY <3>1 DEF Demoted
        <3> QED
            BY <3>1, <3>2, <3>3 DEF Renewed, Demoted
    <2>3. Harmless(claim, J, h)
        BY <1>3, <2>1, <2>2 DEF HarmlessFor
    <2> QED
        BY <2>2, <2>3, HarmlessAlike
<1> QED
    BY <1>3, <1>4, <1>5

\* A claim is as good as itself.
LEMMA RenewedAsIs ==
    ASSUME NEW k, NEW c, c # None
    PROVE  Renewed(k, c, c)
    BY DEF Renewed

\* The steps of launchers that admit nobody.
LEMMA SubsidingStep ==
    ASSUME IInv, IInv', QueueInv, BackfillInv, NEW i \in Jobs,
           Enqueue(i) \/ TreeEnds(i) \/ Release(i) \/ Dies(i) \/ TryStart(i) \/ Poll(i)
    PROVE  BackfillInv'
<1>0. claim \in [Jobs -> Claims \cup {None}] /\ at \in [Jobs -> Places]
    BY DEF IInv, TypeOK
<1>1. Subsides
    <2>1. ASSUME NEW k \in Jobs, claim'[k] = claim[k]
          PROVE  claim'[k] = None \/ (claim[k] # None /\ Renewed(k, claim[k], claim'[k]))
        BY <2>1, RenewedAsIs
    <2>2. CASE Enqueue(i) \/ TreeEnds(i)
        BY <2>1, <2>2 DEF Subsides, Enqueue, TreeEnds
    <2>3. CASE Release(i) \/ Dies(i)
        <3>1. claim' = [claim EXCEPT ![i] = None]
            BY <2>3 DEF Release, Dies
        <3> QED
            BY <1>0, <2>1, <3>1 DEF Subsides
    <2>4. CASE TryStart(i) \/ Poll(i)
        <3>1. Renewed(i, claim[i], claim'[i]) /\ claim' = [claim EXCEPT ![i] = claim'[i]]
            BY <2>4, TryStartKeeps, PollKeeps
        <3>2. claim[i] # None
            BY <2>4 DEF TryStart, Poll, IInv, JobInv
        <3>3. \A k \in Jobs \ {i} : claim'[k] = claim[k]
            BY <1>0, <3>1
        <3> QED
            BY <2>1, <3>1, <3>2, <3>3 DEF Subsides
    <2> QED
        BY <2>2, <2>3, <2>4
<1>2. PICK p \in Places \ {"idle"} : at' = [at EXCEPT ![i] = p] /\ (p = "queued" => at[i] = "idle")
    <2>1. ASSUME TryStart(i)
          PROVE  at' = [at EXCEPT ![i] = "running"] \/ at' = [at EXCEPT ![i] = "admitted"]
        <3>1. PICK may : at' = [at EXCEPT ![i] = IF may THEN "running" ELSE "admitted"]
            BY <2>1 DEF TryStart
        <3> QED
            BY <3>1
    <2>2. ASSUME Poll(i) PROVE at' = [at EXCEPT ![i] = "running"]
        BY <1>0, <2>2 DEF Poll
    <2> QED
        BY <2>1, <2>2 DEF Enqueue, TreeEnds, Release, Dies, Places
<1>3. \A k \in Jobs : at'[k] = IF k = i THEN p ELSE at[k]
    BY <1>0, <1>2
<1>4. ASSUME NEW j \in Jobs PROVE OriginInv(j)'
    BY <1>1, <1>3, OriginKept
<1>5. ASSUME NEW h \in Jobs PROVE HeadInv(h)'
    <2>1. ASSUME at'[h] = "queued", BackfilledFor(h) # {} PROVE at[h] = "queued"
        <3>1. PICK j \in Jobs : claim[j] # None /\ claim[j].backfill = h
            BY <2>1 DEF BackfilledFor, Live
        <3>2. at[h] # "idle"
            BY <3>1, NoneAssumption DEF BackfillInv, OriginInv
        <3> QED
            BY <1>2, <1>3, <2>1, <3>2
    <2>2. ASSUME at'[h] = "queued", queue[1] = h, ~Background(h), at[h] = "queued" PROVE queue'[1] = h
        <3>1. queue # <<>>
            BY <2>2 DEF QueueInv, Has
        <3>2. CASE Enqueue(i)
            BY <2>2, <3>1, <3>2, EnqueueQueue
        <3>3. CASE Dies(i)
            <4>1. queue' = Without(i) /\ at' = [at EXCEPT ![i] = "gone"] /\ "gone" \in Places
                BY <3>3 DEF Dies, Places
            <4>2. i # h
                BY <1>0, <2>2, <4>1
            <4> QED
                BY <2>2, <3>1, <4>1, <4>2, LeavesQueue
        <3>4. CASE TreeEnds(i) \/ Release(i) \/ TryStart(i) \/ Poll(i)
            BY <2>2, <3>4 DEF TreeEnds, Release, TryStart, Poll
        <3> QED
            BY <3>2, <3>3, <3>4
    <2>3. CASE BackfilledFor(h) = {}
        <3>1. BackfilledFor(h)' = {}
            BY <1>1, <2>3 DEF BackfilledFor, Live, Subsides, Renewed
        <3> QED
            BY <3>1 DEF HeadInv
    <2>4. CASE at'[h] = "queued" /\ BackfilledFor(h) # {}
        BY <1>1, <2>1, <2>2, <2>4, HeadKept
    <2>5. CASE at'[h] # "queued"
        BY <2>5 DEF HeadInv
    <2> QED
        BY <2>3, <2>4, <2>5
<1> QED
    BY <1>4, <1>5 DEF BackfillInv

\* The head is admitted: no request is waiting that others were admitted
\* before, for only the head can be.
LEMMA AdmitBackfills ==
    ASSUME IInv, IInv', QueueInv, BackfillInv, NEW i \in Jobs, Admit(i)
    PROVE  BackfillInv'
<1>0. claim \in [Jobs -> Claims \cup {None}] /\ at \in [Jobs -> Places]
    BY DEF IInv, TypeOK
<1>1. PICK cores : Admitted(i, cores, None)
    BY DEF Admit
<1>2. PICK r : r = ClaimRecord(i, cores, None)
    OBVIOUS
<1>3. /\ claim' = [claim EXCEPT ![i] = r] /\ at' = [at EXCEPT ![i] = "admitted"]
      /\ at[i] = "queued" /\ Head(queue) = i
    BY <1>1, <1>2 DEF Admitted, Admit
<1>4. r.backfill = None /\ (r.background <=> Background(i))
    <2>1. PICK plain : plain = PlainRecord(i, cores, None)
        OBVIOUS
    <2>2. r = plain \/ \E w : r = [plain EXCEPT !.cores = w]
        BY <1>2, <2>1 DEF ClaimRecord
    <2>3. r.backfill = plain.backfill /\ r.background = plain.background
        <3>1. CASE r = plain
            BY <3>1
        <3>2. CASE \E w : r = [plain EXCEPT !.cores = w]
            BY <2>1, <3>2 DEF PlainRecord
        <3> QED
            BY <2>2, <3>1, <3>2
    <2>4. plain.backfill = None /\ plain.background = Background(i)
        BY <2>1 DEF PlainRecord
    <2> QED
        BY <2>3, <2>4
<1>5. /\ \A k \in Jobs \ {i} : claim'[k] = claim[k] /\ at'[k] = at[k]
      /\ claim'[i] = r /\ at'[i] = "admitted"
    BY <1>0, <1>3
<1>6. ASSUME NEW j \in Jobs PROVE OriginInv(j)'
    <2>1. CASE j = i
        BY <1>4, <1>5, <2>1 DEF OriginInv, Demoted
    <2>2. CASE j # i
        <3>1. claim'[j] = claim[j] /\ (Demoted(j)' <=> Demoted(j))
            BY <1>5, <2>2 DEF Demoted
        <3>2. claim[j] # None /\ claim[j].backfill # None => claim[j].backfill \in Jobs
            BY <1>0 DEF Claims
        <3>3. \A k \in Jobs : at[k] # "idle" => at'[k] # "idle"
            BY <1>5
        <3> QED
            BY <3>1, <3>2, <3>3 DEF BackfillInv, OriginInv
    <2> QED
        BY <2>1, <2>2
<1>7. ASSUME NEW h \in Jobs PROVE HeadInv(h)'
    <2> SUFFICES ASSUME at'[h] = "queued", BackfilledFor(h)' # {} PROVE FALSE
        BY DEF HeadInv
    <2>1. h # i /\ at[h] = "queued"
        BY <1>5
    <2>2. BackfilledFor(h) # {}
        BY <1>4, <1>5, NoneAssumption DEF BackfilledFor, Live
    <2>3. queue[1] = h
        BY <2>1, <2>2 DEF BackfillInv, HeadInv
    <2> QED
        BY <1>3, <2>1, <2>3 DEF QueueInv
<1> QED
    BY <1>6, <1>7 DEF BackfillInv

\* What backfill_admission found out before it admits i ahead of head h.
LEMMA BackfillFound ==
    ASSUME IInv, QueueInv, NEW i \in Jobs, Backfill(i)
    PROVE  \E h \in Jobs, cores \in SUBSET Cores :
              /\ h # i /\ queue # <<>> /\ queue[1] = h /\ at[h] = "queued" /\ at[i] = "queued"
              /\ Request[i].limit # "none" /\ ~Background(i) /\ ~Background(h) /\ lock = None
              /\ AnyLent(Records(claim)) = {}
              /\ NoDelay(Records(claim), h, PlainRecord(i, cores, h))
              /\ claim' = [claim EXCEPT ![i] = PlainRecord(i, cores, h)]
              /\ queue' = Without(i) /\ at' = [at EXCEPT ![i] = "admitted"]
<1>1. PICK n \in 2 .. Len(queue) :
         queue[n] = i /\ Eligible(n) /\ Admitted(i, BackfillCores(Head(queue), i), Head(queue))
    BY DEF Backfill
<1>2. PICK h : h = Head(queue)
    OBVIOUS
<1>3. queue \in Seq(Jobs) /\ Len(queue) \in Nat /\ Len(queue) >= 2 /\ queue # <<>> /\ h = queue[1] /\ h \in Jobs
    BY <1>1, <1>2 DEF QueueInv
<1>4. h # i
    <2>1. 1 \in 1 .. Len(queue) /\ n \in 1 .. Len(queue) /\ n # 1
        BY <1>1, <1>3
    <2> QED
        BY <1>1, <1>3, <2>1 DEF QueueInv, Once
<1>5. at[h] = "queued" /\ at[i] = "queued"
    <2>1. 1 \in 1 .. Len(queue) /\ n \in 1 .. Len(queue)
        BY <1>1, <1>3
    <2>2. Has(queue, h) /\ Has(queue, i)
        BY <1>1, <1>3, <2>1 DEF Has
    <2> QED
        BY <1>3, <2>2 DEF QueueInv
<1>6. PICK cores : cores = FirstOf(OffFloor, Available(Records(claim), TRUE, FALSE), Wanted(i))
    OBVIOUS
<1>7. BackfillCores(h, i) # {}
    BY <1>1, <1>2 DEF Eligible
<1>8. /\ BackfillCores(h, i) = cores
      /\ Request[i].limit # "none" /\ ~Background(i) /\ ~Background(h) /\ lock = None
      /\ AnyLent(Records(claim)) = {}
      /\ NoDelay(Records(claim), h, PlainRecord(i, cores, h))
    BY <1>6, <1>7 DEF BackfillCores
<1>9. cores \in SUBSET Cores
    BY <1>6, FirstOfWithin, CoreFacts DEF OffFloorCores
<1>10. queue # <<i>>
    BY <1>3, <1>4
<1>11. ClaimRecord(i, cores, h) = PlainRecord(i, cores, h)
    BY <1>10 DEF ClaimRecord
<1>12. /\ claim' = [claim EXCEPT ![i] = PlainRecord(i, cores, h)]
       /\ queue' = Without(i) /\ at' = [at EXCEPT ![i] = "admitted"]
    <2>1. Admitted(i, cores, h)
        BY <1>1, <1>2, <1>8
    <2> QED
        BY <1>11, <2>1 DEF Admitted
<1> QED
    BY <1>3, <1>4, <1>5, <1>8, <1>9, <1>12

\* A request is admitted before the head: the check over all sets of claims
\* that may be left covers the sets with this backfill, and the earlier
\* checks those without it.
LEMMA BackfillBackfills ==
    ASSUME IInv, IInv', QueueInv, BackfillInv, NEW i \in Jobs, Backfill(i)
    PROVE  BackfillInv'
<1>0. claim \in [Jobs -> Claims \cup {None}] /\ at \in [Jobs -> Places]
    BY DEF IInv, TypeOK
<1>1. PICK h \in Jobs, cores \in SUBSET Cores :
         /\ h # i /\ queue # <<>> /\ queue[1] = h /\ at[h] = "queued" /\ at[i] = "queued"
         /\ Request[i].limit # "none" /\ ~Background(i) /\ ~Background(h) /\ lock = None
         /\ AnyLent(Records(claim)) = {}
         /\ NoDelay(Records(claim), h, PlainRecord(i, cores, h))
         /\ claim' = [claim EXCEPT ![i] = PlainRecord(i, cores, h)]
         /\ queue' = Without(i) /\ at' = [at EXCEPT ![i] = "admitted"]
    BY BackfillFound
<1>2. PICK r : r = PlainRecord(i, cores, h)
    OBVIOUS
<1>3. /\ r.cores = cores /\ r.guaranteed = cores /\ r.backfill = h /\ (r.background <=> Background(i))
    BY <1>2 DEF PlainRecord
<1>4. /\ \A k \in Jobs \ {i} : claim'[k] = claim[k] /\ at'[k] = at[k]
      /\ claim'[i] = r /\ at'[i] = "admitted" /\ claim[i] = None
    <2>1. claim[i] = None
        BY <1>1 DEF IInv, JobInv
    <2> QED
        BY <1>0, <1>1, <1>2, <2>1
<1>5. \A k \in Live' : k # i => k \in Live /\ claim'[k] = claim[k]
    BY <1>4 DEF Live
<1>6. ASSUME NEW j \in Jobs PROVE OriginInv(j)'
    <2>1. CASE j = i
        BY <1>1, <1>3, <1>4, <2>1 DEF OriginInv, Demoted
    <2>2. CASE j # i
        <3>1. claim'[j] = claim[j] /\ (Demoted(j)' <=> Demoted(j))
            BY <1>4, <2>2 DEF Demoted
        <3>2. claim[j] # None /\ claim[j].backfill # None => claim[j].backfill \in Jobs
            BY <1>0 DEF Claims
        <3>3. \A k \in Jobs : at[k] # "idle" => at'[k] # "idle"
            BY <1>4
        <3> QED
            BY <3>1, <3>2, <3>3 DEF BackfillInv, OriginInv
    <2> QED
        BY <2>1, <2>2
<1>7. queue'[1] = h
    <2>1. "admitted" \in Places
        BY DEF Places
    <2> QED
        BY <1>1, <2>1, LeavesQueue
<1>8. ASSUME NEW j \in Live' PROVE claim'[j].cores = claim'[j].guaranteed
    <2>1. CASE j = i
        BY <1>3, <1>4, <2>1
    <2>2. CASE j # i
        <3>1. j \in Jobs /\ claim[j] # None /\ claim'[j] = claim[j] /\ claim[j] \in Records(claim)
            BY <1>5, <2>2 DEF Live, Records
        <3>2. Lent(claim[j]) = {}
            BY <1>1, <3>1 DEF AnyLent
        <3>3. Lent(claim[j]) = claim[j].cores \ claim[j].guaranteed /\ claim[j].guaranteed \subseteq claim[j].cores
            <4>1. Sound(claim[j], j)
                BY <3>1 DEF IInv, JobInv
            <4>2. PICK c : c = claim[j]
                OBVIOUS
            <4>3. Lent(c) = c.cores \ c.guaranteed
                BY <4>1, <4>2, HeldIsGuaranteed
            <4> QED
                BY <4>1, <4>2, <4>3 DEF Sound
        <3>4. claim[j].cores = claim[j].guaranteed
            BY ONLY <3>2, <3>3
        <3> QED
            BY <3>1, <3>4
    <2> QED
        BY <2>1, <2>2
<1>9. ASSUME NEW J \in SUBSET Live', i \in J PROVE Harmless(claim', J, h)
    <2> DEFINE rest == {claim'[j] : j \in J \ {i}}
    <2>1. rest \subseteq Records(claim)
        BY <1>5 DEF Live, Records
    <2>2. rest \cup {r} = {claim'[j] : j \in J}
        BY <1>4, <1>9
    <2>3. {c \in rest : c.backfill = None} = {claim'[j] : j \in Plain(claim', J)}
        <3>1. i \notin Plain(claim', J)
            BY <1>3, <1>4, NoneAssumption DEF Plain
        <3> QED
            BY <3>1 DEF Plain
    <2>4. Unlent(claim', J) /\ Unlent(claim', Plain(claim', J))
        <3>1. ASSUME NEW j \in J PROVE claim'[j] \in Claims /\ Sound(claim'[j], j)
            <4>1. j \in Jobs /\ claim'[j] # None
                BY DEF Live
            <4> QED
                BY <4>1 DEF IInv, JobInv, Sound
        <3> QED
            BY <1>8, <3>1 DEF Unlent, Plain
    <2>5. NotLater(HeadStart(rest \cup {r}, h), HeadStart({c \in rest : c.backfill = None}, h))
        BY <1>1, <1>2, <2>1 DEF NoDelay
    <2>6. PICK with : with = rest \cup {r}
        OBVIOUS
    <2>7. PICK without : without = {c \in rest : c.backfill = None}
        OBVIOUS
    <2>8. NotLater(HeadStart(with, h), HeadStart(without, h))
        BY <2>5, <2>6, <2>7
    <2>9. /\ HeadStart(with, h) # None <=> Startable(claim', J, h)
          /\ Startable(claim', J, h) => HeadStart(with, h).handoffs = Handed(claim', J, h)
        <3>1. PICK cl : cl = claim'
            OBVIOUS
        <3>2. with = {cl[j] : j \in J} /\ Unlent(cl, J)
            BY <2>2, <2>4, <2>6, <3>1
        <3>3. /\ HeadStart(with, h) # None <=> Startable(cl, J, h)
              /\ Startable(cl, J, h) => HeadStart(with, h).handoffs = Handed(cl, J, h)
            BY ONLY <1>1, <3>2, h \in Jobs, HeadStartOf
        <3> QED
            BY <3>1, <3>3
    <2>10. /\ HeadStart(without, h) # None <=> Startable(claim', Plain(claim', J), h)
           /\ Startable(claim', Plain(claim', J), h)
                 => HeadStart(without, h).handoffs = Handed(claim', Plain(claim', J), h)
        <3>1. PICK cl, K : cl = claim' /\ K = Plain(claim', J)
            OBVIOUS
        <3>2. without = {cl[j] : j \in K} /\ Unlent(cl, K)
            BY <2>3, <2>4, <2>7, <3>1
        <3>3. /\ HeadStart(without, h) # None <=> Startable(cl, K, h)
              /\ Startable(cl, K, h) => HeadStart(without, h).handoffs = Handed(cl, K, h)
            BY ONLY <1>1, <3>2, h \in Jobs, HeadStartOf
        <3> QED
            BY <3>1, <3>3
    <2> QED
        BY <2>8, <2>9, <2>10 DEF NotLater, Harmless
<1>10. ASSUME NEW J \in SUBSET Live', i \notin J, \A j \in J : ~Demoted(j)', J \cap BackfilledFor(h)' # {}
       PROVE  Harmless(claim', J, h)
    <2>1. ASSUME NEW j \in J PROVE j \in Live /\ claim'[j] = claim[j] /\ ~Demoted(j)
        BY <1>5, <1>10 DEF Demoted
    <2>2. J \cap BackfilledFor(h) # {}
        BY <1>10, <2>1 DEF BackfilledFor
    <2>3. HarmlessFor(h)
        BY <1>1, <2>2 DEF BackfillInv, HeadInv
    <2>4. Harmless(claim, J, h)
        BY <2>1, <2>2, <2>3 DEF HarmlessFor
    <2> QED
        BY <2>1, <2>4, HarmlessAlike
<1>11. HeadInv(h)'
    BY <1>1, <1>7, <1>8, <1>9, <1>10 DEF HeadInv, HarmlessFor
<1>12. ASSUME NEW k \in Jobs, k # h PROVE HeadInv(k)'
    <2> SUFFICES ASSUME at'[k] = "queued", BackfilledFor(k)' # {} PROVE FALSE
        BY DEF HeadInv
    <2>1. k # i /\ at[k] = "queued"
        BY <1>4
    <2>2. BackfilledFor(k) # {}
        BY <1>3, <1>4, <1>5, <1>12 DEF BackfilledFor
    <2>3. queue[1] = k
        BY <2>1, <2>2 DEF BackfillInv, HeadInv
    <2> QED
        BY <1>1, <1>12, <2>3
<1> QED
    BY <1>6, <1>11, <1>12 DEF BackfillInv

\* Every step preserves what is known of backfills.
LEMMA NextBackfills == IInv /\ IInv' /\ QueueInv /\ BackfillInv /\ [Next]_vars => BackfillInv'
<1> SUFFICES ASSUME IInv, IInv', QueueInv, BackfillInv, [Next]_vars PROVE BackfillInv'
    OBVIOUS
<1>1. ASSUME NEW i \in Jobs,
             Enqueue(i) \/ TreeEnds(i) \/ Release(i) \/ Dies(i) \/ TryStart(i) \/ Poll(i)
      PROVE  BackfillInv'
    BY <1>1, SubsidingStep
<1>2. ASSUME NEW i \in Jobs, Admit(i) PROVE BackfillInv'
    BY <1>2, AdmitBackfills
<1>3. ASSUME NEW i \in Jobs, Backfill(i) PROVE BackfillInv'
    BY <1>3, BackfillBackfills
<1>4. ASSUME UNCHANGED <<queue, claim, at>> PROVE BackfillInv'
    BY <1>4 DEF BackfillInv, OriginInv, HeadInv, HarmlessFor, BackfilledFor, Demoted, Live
<1>5. ASSUME \/ \E cores \in TimedCores \cup {Cores} : Acquire(cores)
             \/ \E cores \in TimedCores : Declare(cores)
             \/ Vacated \/ TimedEnds \/ ReleaseLock \/ UNCHANGED vars
      PROVE  UNCHANGED <<queue, claim, at>>
    BY <1>5 DEF Acquire, Declare, Vacated, TimedEnds, ReleaseLock, jobVars, vars
<1> QED
    BY <1>1, <1>2, <1>3, <1>4, <1>5 DEF Next, Launcher, Done

-----------------------------------------------------------------------------
(* Theorems.                                                               *)

\* An idle host satisfies the invariant.
LEMMA InitIInv == Init => IInv
<1> SUFFICES ASSUME Init PROVE IInv
    OBVIOUS
<1>1. NoTree \in Trees
    BY DEF NoTree, Pinned, Trees
<1>2. TypeOK
    BY <1>1 DEF Init, TypeOK, Places
<1>3. \A j \in Jobs : claim[j] = None /\ at[j] = "idle"
    BY DEF Init
<1>4. \A j \in Jobs : JobInv(j)
    BY <1>3 DEF JobInv
<1>5. \A j, k \in Jobs : j # k => PairInv(j, k)
    BY <1>3 DEF PairInv
<1>6. TimedInv
    BY DEF Init, TimedInv, TimedExclusive
<1>7. AllHeld = {} /\ AllReach = {}
    BY <1>3 DEF AllHeld, AllReach
<1>8. BudgetInv
    BY <1>7, CoreFacts, FS_EmptySet DEF BudgetInv
<1> QED
    BY <1>2, <1>4, <1>5, <1>6, <1>8 DEF IInv

\* Every step preserves the invariant.
LEMMA NextIInv == IInv /\ QueueInv /\ [Next]_vars => IInv'
<1> SUFFICES ASSUME IInv, QueueInv, [Next]_vars PROVE IInv'
    OBVIOUS
<1>1. ASSUME NEW j \in Jobs, Enqueue(j) \/ TreeEnds(j) \/ Release(j) \/ Dies(j) PROVE IInv'
    BY <1>1, IdleStepKeeps
<1>2. ASSUME NEW j \in Jobs, Admit(j) PROVE IInv'
    BY <1>2, AdmitKeeps
<1>3. ASSUME NEW j \in Jobs, Backfill(j) PROVE IInv'
    BY <1>3, BackfillKeeps
<1>4. ASSUME NEW j \in Jobs, TryStart(j) PROVE IInv'
    BY <1>4, TryStartKeeps
<1>5. ASSUME NEW j \in Jobs, Poll(j) PROVE IInv'
    BY <1>5, PollKeeps
<1>6. CASE \/ \E cores \in TimedCores \cup {Cores} : Acquire(cores)
           \/ \E cores \in TimedCores : Declare(cores)
           \/ Vacated \/ TimedEnds \/ ReleaseLock
    BY <1>6, TimedStepKeeps
<1>7. CASE UNCHANGED vars
    <2>1. UNCHANGED jobVars /\ UNCHANGED <<at, tree, lock, declared, timedAt>>
        BY <1>7 DEF vars, jobVars
    <2>2. TimedInv'
        BY <2>1 DEF IInv, TimedInv, TimedExclusive, RunsOn
    <2> QED
        BY <2>1, <2>2, JobsKept
<1> QED
    BY <1>1, <1>2, <1>3, <1>4, <1>5, <1>6, <1>7 DEF Next, Launcher, Done

\* There is one ticket for every request that waits, and none for others,
\* however requests enter, are admitted, overtake one another and die.
THEOREM QueueKept == Spec => []QueueInv
<1> QED
    BY InitQueue, NextQueue, PTL DEF Spec

\* The tree of every claim stays on cores its record names, and what claims
\* hold, lend and reach stays apart and within the budget, whatever the runners,
\* the operating system and timed work do.
THEOREM Inductive == Spec => []IInv
<1> QED
    BY InitIInv, NextIInv, QueueKept, PTL DEF Spec

\* Timed work never shares a core with a process of an untimed job.
THEOREM TimedExclusiveHolds == Spec => []TimedExclusive
<1>1. IInv => TimedExclusive
    BY DEF IInv, TimedInv
<1> QED
    BY <1>1, Inductive, PTL

\* No two claims run on one core, but for background work on cores a demoted
\* claim had taken.
THEOREM ClaimsExclusiveHolds == Spec => []ClaimsExclusive
<1>1. ASSUME IInv PROVE ClaimsExclusive
    <2> SUFFICES ASSUME NEW j \in Jobs, NEW k \in Jobs, j # k,
                        RunsOn(j) \cap RunsOn(k) # {}
                 PROVE  SharedByDemotion(j, k)
        BY DEF ClaimsExclusive
    <2>1. ASSUME NEW i \in {j, k}
          PROVE  /\ at[i] = "running" /\ Runs(i) /\ claim[i] # None /\ Sound(claim[i], i)
                 /\ RunsOn(i) \subseteq claim[i].cores
        BY <1>1 DEF RunsOn, Runs, IInv, JobInv, Fits
    <2>2. PairInv(j, k) /\ PairInv(k, j)
        BY <1>1 DEF IInv
    <2>3. claim[j].cores \cap claim[k].cores # {}
        BY <2>1
    <2>4. /\ (claim[j].cores \ claim[j].guaranteed) \cap (claim[k].cores \ claim[k].guaranteed) = {}
          /\ (claim[j].cores \ claim[j].guaranteed) \cap claim[k].guaranteed = {}
          /\ (claim[k].cores \ claim[k].guaranteed) \cap claim[j].guaranteed = {}
        BY <2>1, <2>2 DEF PairInv
    <2>5. claim[j].guaranteed \cap claim[k].guaranteed # {}
        BY <2>3, <2>4
    <2>6. claim[j].background /\ claim[k].background /\ ~(Background(j) /\ Background(k))
        BY <2>1, <2>2, <2>5 DEF PairInv
    <2> QED
        BY <2>1, <2>6 DEF SharedByDemotion, Demoted
<1> QED
    BY <1>1, Inductive, PTL

\* Ordinary and shared claims never run on more cores than the budget.
THEOREM BudgetKeptHolds == Spec => []BudgetKept
<1>1. ASSUME IInv PROVE BudgetKept
    <2> DEFINE R == UNION {RunsOn(j) : j \in {k \in Live : ~claim[k].background}}
    <2>1. R \subseteq AllReach
        <3> SUFFICES ASSUME NEW j \in Live, ~claim[j].background PROVE RunsOn(j) \subseteq AllReach
            OBVIOUS
        <3>1. CASE at[j] = "running" /\ ~tree[j].stopped
            <4>1. j \in Jobs /\ Runs(j) /\ RunsOn(j) = tree[j].mask /\ tree[j].mask \subseteq claim[j].cores
                BY <1>1, <3>1 DEF Live, RunsOn, Runs, IInv, JobInv, Fits
            <4>2. claim[j].cores \subseteq AllReach
                BY <3>1, <4>1 DEF AllReach, Reach
            <4> QED
                BY <4>1, <4>2
        <3>2. CASE ~(at[j] = "running" /\ ~tree[j].stopped)
            BY <3>2 DEF RunsOn
        <3> QED
            BY <3>1, <3>2
    <2>2. Cardinality(R) <= Budget
        BY <1>1, <2>1, FiniteReach, Smaller DEF IInv, BudgetInv
    <2> QED
        BY <2>2 DEF BudgetKept
<1> QED
    BY <1>1, Inductive, PTL

\* Whoever is admitted before the head, in whatever order the claims end from
\* then on, the head starts as early as if no backfill had been admitted and
\* waits for no more hand-overs, unless a backfill was demoted meanwhile.
THEOREM BackfillHarmlessHolds == Spec => []BackfillHarmless
<1>1. Init => BackfillInv
    BY DEF Init, BackfillInv, OriginInv, HeadInv
<1>2. Spec => []BackfillInv
    BY <1>1, NextBackfills, Inductive, QueueKept, PTL DEF Spec
<1>3. ASSUME IInv, QueueInv, BackfillInv PROVE BackfillHarmless
    <2> DEFINE h == Head(queue)
    <2> SUFFICES ASSUME queue # <<>>, lock = None, BackfilledFor(h) # {},
                        \A j \in BackfilledFor(h) : ~Demoted(j)
                 PROVE  NotLater(HeadStart(Records(claim), h),
                                 HeadStart({c \in Records(claim) : c.backfill = None}, h))
        BY DEF BackfillHarmless, BackfilledFor
    <2>1. h \in Jobs /\ queue[1] = h /\ Len(queue) \in Nat /\ 1 \in 1 .. Len(queue)
        BY <1>3 DEF QueueInv
    <2> HIDE DEF h
    <2>2. at[h] = "queued"
        BY <1>3, <2>1 DEF QueueInv, Has
    <2>3. ~Background(h) /\ HarmlessFor(h) /\ \A j \in Live : claim[j].cores = claim[j].guaranteed
        BY <1>3, <2>1, <2>2 DEF BackfillInv, HeadInv
    <2>4. \A j \in Live : ~Demoted(j)
        <3> SUFFICES ASSUME NEW k \in Live, Demoted(k) PROVE FALSE
            OBVIOUS
        <3>1. PICK b \in BackfilledFor(h) : TRUE
            OBVIOUS
        <3>2. k \in Jobs /\ b \in Jobs /\ k # b /\ claim[k] # None /\ claim[b] # None /\ claim[b].backfill = h
            BY DEF Live, BackfilledFor
        <3>3. Request[k].limit = "demote" /\ Request[b].limit # "none"
            BY <1>3, <2>1, <3>2, NoneAssumption DEF BackfillInv, OriginInv
        <3> QED
            BY <3>2, <3>3, JobAssumption
    <2>5. Harmless(claim, Live, h)
        BY <2>3, <2>4 DEF HarmlessFor, BackfilledFor
    <2>6. Unlent(claim, Live) /\ Unlent(claim, Plain(claim, Live))
        <3>1. \A j \in Live : claim[j] \in Claims /\ Sound(claim[j], j)
            BY <1>3 DEF IInv, JobInv, Sound, Live
        <3> QED
            BY <2>3, <3>1 DEF Unlent, Plain
    <2>7. PICK with : with = Records(claim)
        OBVIOUS
    <2>8. PICK without : without = {c \in Records(claim) : c.backfill = None}
        OBVIOUS
    <2>9. with = {claim[j] : j \in Live} /\ without = {claim[j] : j \in Plain(claim, Live)}
        BY <2>7, <2>8 DEF Records, Live, Plain
    <2>10. /\ HeadStart(with, h) # None <=> Startable(claim, Live, h)
           /\ Startable(claim, Live, h) => HeadStart(with, h).handoffs = Handed(claim, Live, h)
        BY <2>1, <2>3, <2>6, <2>9, HeadStartOf
    <2>11. /\ HeadStart(without, h) # None <=> Startable(claim, Plain(claim, Live), h)
           /\ Startable(claim, Plain(claim, Live), h)
                 => HeadStart(without, h).handoffs = Handed(claim, Plain(claim, Live), h)
        BY <2>1, <2>3, <2>6, <2>9, HeadStartOf
    <2>12. NotLater(HeadStart(with, h), HeadStart(without, h))
        BY <2>5, <2>10, <2>11 DEF NotLater, Harmless
    <2> QED
        BY <2>7, <2>8, <2>12
<1> QED
    BY <1>2, <1>3, Inductive, QueueKept, PTL
=============================================================================
