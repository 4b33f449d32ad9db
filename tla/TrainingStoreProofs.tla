------------------------- MODULE TrainingStoreProofs -------------------------
(***************************************************************************)
(* Proofs about TrainingStore, for any number of trainers, launches and    *)
(* deaths, any target, cadence and number of finals.  The inductive        *)
(* invariant ties what a trainer under the lock is doing to what the disk  *)
(* holds: the candidate is at or one beyond the pointer, the finals beyond *)
(* the pointer are all of one candidate, and while a spoiled final lies    *)
(* below the pointer no walk succeeds, so every publication is counted.    *)
(***************************************************************************)
EXTENDS TrainingStore, TLAPS

Holds == {"dirs", "files", "move", "verify"}
Writing == {"files", "move"}

\* Where a trainer stands that has bootstrapped the directory.
Booted == {"genesis", "resume", "train", "publish", "files", "move", "verify", "validate"}

\* The candidate is the pointer's generation or the one after it.
Ahead(l) ==
    \/ disk.latest = None /\ l = <<>>
    \/ disk.latest # None /\ l = disk.latest
    \/ disk.latest # None /\ \E o \in Outcomes : l = Append(disk.latest, o)

TrainerInv(t) ==
    LET me == tr[t]
    IN /\ me.pc \in Holds => lock = t
       /\ me.pc \in Booted => disk.dirs = DirCount
       /\ me.session => me.parent \in Lineages
       /\ me.pc \in {"train", "publish"} =>
             /\ me.parent \in Lineages /\ Len(me.parent) < Target /\ me.windows < Cadence
       /\ me.pc = "publish" => \E o \in Outcomes : me.cand = Append(me.parent, o)
       /\ me.pc \in Writing =>
             /\ me.cand \in Lineages /\ Ahead(me.cand)
             /\ me.i > 0 => disk.run
             /\ ~damaged => PartialOf(disk, me.cand)
             /\ ~damaged /\ me.pc = "move" /\ me.i = FinalsPer + 1 =>
                   Exact(disk, Len(me.cand), me.cand)
       /\ me.pc = "verify" => me.cand \in Lineages /\ disk.latest = me.cand

\* What is on the disk, whoever spoils finals.
DiskInv ==
    /\ disk.run \/ disk.stage # None => disk.dirs = DirCount
    /\ ~disk.run =>
          /\ disk.latest = None /\ disk.stage \in {None, RunFile}
          /\ \A f \in Generations \X Ordinals : disk.finals[f] = None

\* The finals of an unspoiled store.
StoreInv ==
    ~damaged =>
        /\ disk.latest = None =>
              \A g \in Generations, k \in Ordinals :
                  disk.finals[<<g, k>>] # None => g = 0 /\ disk.finals[<<g, k>>] = <<>>
        /\ disk.latest # None =>
              /\ \A g \in 0..Len(disk.latest) : Exact(disk, g, disk.latest)
              /\ \A g \in Len(disk.latest) + 2 .. Target : Present(disk, g) = {}
              /\ Len(disk.latest) < Target =>
                    \E o \in Outcomes : PartialOf(disk, Append(disk.latest, o))

\* A spoiled final lies at or below the generation after the pointer's.
SpoiltAt(g) == \E k \in Ordinals : disk.finals[<<g, k>>] = Damaged
Buried == disk.latest # None /\ \E g \in 0..Len(disk.latest) : SpoiltAt(g)
DamageInv ==
    damaged =>
        /\ disk.latest = None => SpoiltAt(0)
        /\ disk.latest # None /\ ~Buried =>
              Len(disk.latest) < Target /\ SpoiltAt(Len(disk.latest) + 1)

\* Publications begun since then.
SinceInv(t) ==
    LET me == tr[t]
    IN /\ ~damaged => me.since = 0
       /\ damaged /\ Buried => me.since <= me.windows
       /\ damaged /\ ~Buried =>
             /\ me.since <= 1
             /\ me.since = 1 =>
                   /\ disk.latest # None
                   /\ me.pc \in {"files", "move", "verify", "resume", "train", "publish", "validate"}
                   /\ me.pc \in Writing => me.cand = disk.latest
                   /\ me.pc \in {"resume", "train"} => me.parent = disk.latest
                   /\ me.pc = "publish" => Len(me.cand) = Len(disk.latest) + 1
                   /\ \A u \in Trainers : tr[u].pc \in Writing => tr[u].cand = disk.latest

IInv == /\ TypeOK /\ DiskInv /\ StoreInv /\ DamageInv /\ ReceiptsHold
        /\ \A t \in Trainers : TrainerInv(t) /\ SinceInv(t)

------------------------------------------------------------------------------
(* Lineages are sequences of outcomes.                                     *)

\* A lineage is a sequence of outcomes no longer than the target.
LEMMA LineageSeq ==
    ASSUME NEW l \in Lineages
    PROVE  l \in Seq(Outcomes) /\ Len(l) \in Generations /\ l \in [1..Len(l) -> Outcomes]
<1>1. PICK g \in Generations : l \in [1..g -> Outcomes]
    BY DEF Lineages
<1>2. g \in Nat
    BY <1>1, StoreAssumption DEF Generations
<1> QED
    BY <1>1, <1>2

\* Every sequence of outcomes no longer than the target is a lineage.
LEMMA SeqLineage ==
    ASSUME NEW l \in Seq(Outcomes), Len(l) <= Target
    PROVE  l \in Lineages
<1>1. l \in [1..Len(l) -> Outcomes] /\ Len(l) \in Generations
    BY StoreAssumption DEF Generations
<1> QED
    BY <1>1 DEF Lineages

\* The empty lineage, genesis.
LEMMA Genesis == <<>> \in Lineages /\ Len(<<>>) = 0
<1>1. <<>> \in Seq(Outcomes) /\ Len(<<>>) = 0 /\ 0 <= Target
    BY StoreAssumption
<1>2. <<>> \in Lineages
    BY <1>1, SeqLineage
<1> QED
    BY <1>1, <1>2

\* One more window on a lineage below the target.
LEMMA Longer ==
    ASSUME NEW l \in Lineages, NEW o \in Outcomes, Len(l) < Target
    PROVE  /\ Append(l, o) \in Lineages
           /\ Len(Append(l, o)) = Len(l) + 1
           /\ Append(l, o) # l
<1>1. l \in Seq(Outcomes) /\ Len(l) \in Nat
    BY LineageSeq
<1>2. Append(l, o) \in Seq(Outcomes) /\ Len(Append(l, o)) = Len(l) + 1
    BY <1>1
<1>3. Len(Append(l, o)) <= Target /\ Len(Append(l, o)) # Len(l)
    BY <1>1, <1>2, StoreAssumption
<1>4. Append(l, o) \in Lineages
    BY <1>2, <1>3, SeqLineage
<1> QED
    BY <1>2, <1>3, <1>4

\* The prefix at a lineage's own length is the lineage.
LEMMA PrefixSelf ==
    ASSUME NEW l \in Lineages
    PROVE  Prefix(l, Len(l)) = l
<1>1. l \in Seq(Outcomes)
    BY LineageSeq
<1> QED
    BY <1>1 DEF Prefix

\* Prefixes up to the old length survive another window.
LEMMA PrefixLonger ==
    ASSUME NEW l \in Lineages, NEW o \in Outcomes, NEW g \in 0..Len(l)
    PROVE  Prefix(Append(l, o), g) = Prefix(l, g)
<1>1. l \in Seq(Outcomes) /\ Len(l) \in Nat
    BY LineageSeq
<1> QED
    BY <1>1 DEF Prefix

\* A prefix stays a prefix.
LEMMA PrefixOrder ==
    ASSUME NEW l \in Lineages
    PROVE  /\ IsPrefix(l, l)
           /\ \A m \in Lineages, o \in Outcomes : IsPrefix(l, m) => IsPrefix(l, Append(m, o))
<1>1. l \in Seq(Outcomes) /\ Len(l) \in Nat
    BY LineageSeq
<1>2. IsPrefix(l, l)
    BY <1>1 DEF IsPrefix
<1>3. ASSUME NEW m \in Lineages, NEW o \in Outcomes, IsPrefix(l, m)
      PROVE  IsPrefix(l, Append(m, o))
    <2>1. m \in Seq(Outcomes) /\ Len(m) \in Nat
        BY LineageSeq
    <2> QED
        BY <1>1, <1>3, <2>1 DEF IsPrefix
<1> QED
    BY <1>2, <1>3

\* A lineage is neither None nor what a foreign writer leaves.
LEMMA Values ==
    /\ None \notin Lineages /\ Damaged \notin Lineages /\ Damaged # None
    /\ None \notin Trainers
    /\ None # RunFile /\ None # LatestFile /\ RunFile # LatestFile
    /\ RunFile \notin Generations \X Ordinals /\ LatestFile \notin Generations \X Ordinals
    /\ None \notin Generations \X Ordinals
<1>1. RunFile \in Generations \X (0..FinalsPer + 1) /\ LatestFile \in Generations \X (0..FinalsPer + 1)
    BY StoreAssumption DEF RunFile, LatestFile, Generations
<1>2. Generations \X Ordinals \subseteq Generations \X (0..FinalsPer + 1)
    BY StoreAssumption DEF Ordinals
<1>3. RunFile # LatestFile /\ RunFile \notin Generations \X Ordinals /\ LatestFile \notin Generations \X Ordinals
    BY StoreAssumption DEF RunFile, LatestFile, Ordinals
<1> QED
    BY <1>1, <1>2, <1>3, StoreAssumption

------------------------------------------------------------------------------
(* A step of one trainer that leaves the pointer and the finals alone.     *)

\* What a trainer that did not step still knows, when the step kept the
\* directories, run.json, the pointer and the finals, and the lock was free or
\* the stepping trainer's if it changed hands.
LEMMA OthersKeep ==
    ASSUME IInv, NEW t \in Trainers, NEW u \in Trainers \ {t}, NEW r \in TrainerStates,
           tr' = [tr EXCEPT ![t] = r],
           lock' = lock \/ lock \in {None, t},
           disk'.latest = disk.latest, disk'.finals = disk.finals, damaged' = damaged,
           disk.dirs = DirCount => disk'.dirs = DirCount,
           disk.run => disk'.run,
           r.pc \in Writing =>
               \/ tr[t].pc \in Writing /\ r.cand = tr[t].cand
               \/ damaged /\ ~Buried => r.cand = disk.latest
    PROVE  TrainerInv(u)' /\ SinceInv(u)'
<1>1. tr'[u] = tr[u] /\ tr'[t] = r /\ \A v \in Trainers \ {t} : tr'[v] = tr[v]
    BY DEF IInv, TypeOK
<1>2. TrainerInv(u) /\ SinceInv(u) /\ u # None
    BY Values DEF IInv
<1>3. Buried' = Buried
    BY DEF Buried, SpoiltAt
<1>4. TrainerInv(u)'
    <2>2. PartialOf(disk, tr[u].cand)' = PartialOf(disk, tr[u].cand)
        BY <1>1 DEF PartialOf
    <2>3. Exact(disk, Len(tr[u].cand), tr[u].cand)' = Exact(disk, Len(tr[u].cand), tr[u].cand)
        BY <1>1 DEF Exact
    <2>4. Ahead(tr[u].cand)' = Ahead(tr[u].cand)
        BY <1>1 DEF Ahead
    <2>5. tr[u].pc \in Holds => lock' = u
        BY <1>2 DEF TrainerInv
    <2> QED
        BY <1>1, <1>2, <2>2, <2>3, <2>4, <2>5 DEF TrainerInv
<1>5. SinceInv(u)'
    <2>1. ASSUME damaged, ~Buried, tr[u].since = 1
          PROVE  \A v \in Trainers : tr'[v].pc \in Writing => tr'[v].cand = disk.latest
        BY <2>1, <1>1, <1>2 DEF SinceInv
    <2> QED
        BY <1>1, <1>2, <1>3, <2>1 DEF SinceInv
<1> QED
    BY <1>4, <1>5

\* Then the invariant is kept when the stepping trainer's part is.
LEMMA Keep ==
    ASSUME IInv, NEW t \in Trainers, NEW r \in TrainerStates,
           tr' = [tr EXCEPT ![t] = r],
           lock' \in Trainers \cup {None}, lock' = lock \/ lock \in {None, t},
           disk' \in DiskStates,
           disk'.latest = disk.latest, disk'.finals = disk.finals, damaged' = damaged,
           disk.dirs = DirCount => disk'.dirs = DirCount,
           disk.run => disk'.run,
           DiskInv', ReceiptsHold',
           receipts' \subseteq Lineages,
           launches' \in 0..MaxLaunches, crashes' \in 0..MaxCrashes,
           r.pc \in Writing =>
               \/ tr[t].pc \in Writing /\ r.cand = tr[t].cand
               \/ damaged /\ ~Buried => r.cand = disk.latest,
           TrainerInv(t)', SinceInv(t)'
    PROVE  IInv'
<1>1. TypeOK'
    BY DEF IInv, TypeOK
<1>2. \A u \in Trainers : TrainerInv(u)' /\ SinceInv(u)'
    BY OthersKeep
<1>3. StoreInv'
    <2>1. StoreInv
        BY DEF IInv
    <2>2. \A l, g : Exact(disk', g, l) = Exact(disk, g, l)
        BY DEF Exact
    <2>3. \A l : PartialOf(disk', l) = PartialOf(disk, l)
        BY DEF PartialOf
    <2>4. \A g : Present(disk', g) = Present(disk, g)
        BY DEF Present
    <2> QED
        BY <2>1, <2>2, <2>3, <2>4 DEF StoreInv
<1>4. DamageInv'
    <2>1. DamageInv
        BY DEF IInv
    <2> QED
        BY <2>1 DEF DamageInv, Buried, SpoiltAt
<1> QED
    BY <1>1, <1>2, <1>3, <1>4 DEF IInv

------------------------------------------------------------------------------
(* One lemma per action.                                                   *)

\* The state of a process that is not running.
LEMMA OffState ==
    /\ Off \in TrainerStates
    /\ Off.pc = "off" /\ Off.since = 0 /\ ~Off.session
    /\ \A pc \in PCs : LET r == [Off EXCEPT !.pc = pc]
                       IN r \in TrainerStates /\ r.pc = pc /\ r.since = 0 /\ ~r.session
<1>1. 0 \in 0..Cadence /\ 0 \in 0..FinalsPer + 1
    BY StoreAssumption
<1>2. Off \in TrainerStates /\ Off.pc = "off" /\ Off.since = 0 /\ ~Off.session
    BY <1>1 DEF TrainerStates, Off, PCs
<1>3. ASSUME NEW pc \in PCs
      PROVE  LET r == [Off EXCEPT !.pc = pc]
             IN r \in TrainerStates /\ r.pc = pc /\ r.since = 0 /\ ~r.session
    BY <1>2 DEF TrainerStates
<1> QED
    BY <1>2, <1>3

\* A process that ends, or that starts over, keeps nothing; its lock goes.
LEMMA EndsKeep ==
    ASSUME IInv, NEW t \in Trainers, NEW r \in TrainerStates,
           r.pc \in {"off", "failed", "done", "scan"}, r.since = 0, ~r.session,
           tr' = [tr EXCEPT ![t] = r],
           lock' = lock \/ lock' = IF lock = t THEN None ELSE lock,
           UNCHANGED <<disk, receipts, damaged>>,
           launches' \in 0..MaxLaunches, crashes' \in 0..MaxCrashes
    PROVE  IInv'
<1>1. tr'[t] = r /\ r.windows \in Nat
    BY StoreAssumption DEF IInv, TypeOK, TrainerStates
<1>2. TrainerInv(t)'
    BY <1>1 DEF TrainerInv, Holds, Booted, Writing
<1>3. SinceInv(t)'
    BY <1>1 DEF SinceInv
<1>4. /\ lock' \in Trainers \cup {None} /\ (lock' = lock \/ lock \in {None, t})
      /\ disk' \in DiskStates /\ receipts' \subseteq Lineages
    BY DEF IInv, TypeOK
<1>5. DiskInv' /\ ReceiptsHold'
    BY DEF IInv, DiskInv, ReceiptsHold
<1>6. r.pc \notin Writing
    BY DEF Writing
<1> QED
    BY <1>2, <1>3, <1>4, <1>5, <1>6, Keep

\* A call that fails.
LEMMA FailKeeps ==
    ASSUME IInv, NEW t \in Trainers, Fail(t), UNCHANGED Ghosts
    PROVE  IInv'
<1>1. launches \in 0..MaxLaunches /\ crashes \in 0..MaxCrashes
    BY DEF IInv, TypeOK
<1> QED
    BY <1>1, EndsKeep, OffState DEF Fail, Set, Ghosts, PCs

\* Launching a process.
LEMMA LaunchKeeps ==
    ASSUME IInv, NEW t \in Trainers, Launch(t)
    PROVE  IInv'
<1>1. launches' \in 0..MaxLaunches /\ crashes \in 0..MaxCrashes
    BY StoreAssumption DEF IInv, TypeOK, Launch
<1> QED
    BY <1>1, EndsKeep, OffState DEF Launch, Set, PCs

\* A process dies.
LEMMA DieKeeps ==
    ASSUME IInv, NEW t \in Trainers, Die(t)
    PROVE  IInv'
<1>1. launches \in 0..MaxLaunches /\ crashes' \in 0..MaxCrashes
    BY StoreAssumption DEF IInv, TypeOK, Die
<1> QED
    BY <1>1, EndsKeep, OffState DEF Die, Set

\* The final validation.
LEMMA ValidateKeeps ==
    ASSUME IInv, NEW t \in Trainers, Validate(t)
    PROVE  IInv'
<1>1. launches \in 0..MaxLaunches /\ crashes \in 0..MaxCrashes
    BY DEF IInv, TypeOK
<1>2. CASE Fail(t)
    BY <1>2, FailKeeps DEF Validate
<1>3. CASE Set(t, [Off EXCEPT !.pc = "done"]) /\ UNCHANGED <<disk, lock>>
    BY <1>1, <1>3, EndsKeep, OffState DEF Validate, Set, Ghosts, PCs
<1> QED
    BY <1>2, <1>3 DEF Validate

\* A step of a trainer, described by its fields, that changes neither the disk
\* nor the receipts; what is left to show is the trainer's own part.
LEMMA OwnKeep ==
    ASSUME IInv, NEW t \in Trainers, NEW r \in TrainerStates,
           Set(t, r), UNCHANGED <<disk, Ghosts>>,
           lock' \in Trainers \cup {None}, lock' = lock \/ lock \in {None, t},
           r.pc \in Writing => tr[t].pc \in Writing /\ r.cand = tr[t].cand,
           tr'[t] = r => TrainerInv(t)' /\ SinceInv(t)'
    PROVE  IInv'
<1>1. tr'[t] = r
    BY DEF IInv, TypeOK, Set
<1>2. DiskInv' /\ ReceiptsHold'
    BY DEF IInv, DiskInv, ReceiptsHold, Ghosts
<1>3. /\ disk' \in DiskStates /\ receipts' \subseteq Lineages
      /\ launches' \in 0..MaxLaunches /\ crashes' \in 0..MaxCrashes
    BY DEF IInv, TypeOK, Ghosts
<1> QED
    BY <1>1, <1>2, <1>3, Keep DEF Set, Ghosts

\* The inventory before the lock.
LEMMA BootScanKeeps ==
    ASSUME IInv, NEW t \in Trainers, BootScan(t)
    PROVE  IInv'
<1>1. CASE Fail(t)
    BY <1>1, FailKeeps DEF BootScan
<1>2. CASE Set(t, [tr[t] EXCEPT !.pc = "boot", !.seen = disk.run]) /\ UNCHANGED <<disk, lock>>
    <2> DEFINE r == [tr[t] EXCEPT !.pc = "boot", !.seen = disk.run]
    <2>1. /\ r \in TrainerStates /\ r.pc = "boot" /\ r.since = tr[t].since /\ r.windows = tr[t].windows
          /\ r.session = tr[t].session /\ r.parent = tr[t].parent /\ TrainerInv(t)
          /\ tr[t].pc = "scan"
        <3>1. tr[t].pc = "scan" /\ TrainerInv(t)
            BY DEF BootScan, IInv
        <3>2. tr[t] \in TrainerStates /\ disk.run \in BOOLEAN
            BY DEF IInv, TypeOK, DiskStates
        <3> QED
            BY <3>1, <3>2 DEF TrainerStates, PCs
    <2>2. SinceInv(t)
        BY DEF IInv
    <2>3. ASSUME tr'[t] = r PROVE TrainerInv(t)' /\ SinceInv(t)'
        <3>1. TrainerInv(t)'
            BY <2>1, <2>3 DEF TrainerInv, Holds, Booted, Writing
        <3>2. SinceInv(t)'
            BY <1>2, <2>1, <2>2, <2>3 DEF SinceInv, BootScan, Ghosts, Buried, SpoiltAt
        <3> QED BY <3>1, <3>2
    <2>4. lock' \in Trainers \cup {None} /\ lock' = lock /\ r.pc \notin Writing
        BY <1>2, <2>1 DEF IInv, TypeOK, Writing
    <2> HIDE DEF r
    <2> QED
        BY <1>2, <2>1, <2>3, <2>4, OwnKeep DEF r, BootScan
<1> QED
    BY <1>1, <1>2 DEF BootScan

\* The lock and the rescan.
LEMMA BootLockKeeps ==
    ASSUME IInv, NEW t \in Trainers, BootLock(t)
    PROVE  IInv'
<1>1. CASE Fail(t)
    BY <1>1, FailKeeps DEF BootLock
<1>2. CASE lock = None /\ lock' = t /\ Set(t, [tr[t] EXCEPT !.pc = "dirs"]) /\ UNCHANGED disk
    <2> DEFINE r == [tr[t] EXCEPT !.pc = "dirs"]
    <2>1. /\ r \in TrainerStates /\ r.pc = "dirs" /\ r.since = tr[t].since /\ r.windows = tr[t].windows
          /\ r.session = tr[t].session /\ r.parent = tr[t].parent /\ TrainerInv(t)
          /\ tr[t].pc = "boot"
        BY DEF BootLock, IInv, TypeOK, TrainerStates, PCs
    <2>2. SinceInv(t)
        BY DEF IInv
    <2>3. ASSUME tr'[t] = r PROVE TrainerInv(t)' /\ SinceInv(t)'
        <3>1. TrainerInv(t)'
            BY <1>2, <2>1, <2>3 DEF TrainerInv, Holds, Booted, Writing
        <3>2. SinceInv(t)'
            BY <1>2, <2>1, <2>2, <2>3 DEF SinceInv, BootLock, Ghosts, Buried, SpoiltAt
        <3> QED BY <3>1, <3>2
    <2>4. lock' \in Trainers \cup {None} /\ lock \in {None, t} /\ r.pc \notin Writing
        BY <1>2, <2>1 DEF IInv, TypeOK, Writing
    <2> HIDE DEF r
    <2> QED
        BY <1>2, <2>1, <2>3, <2>4, OwnKeep DEF r, BootLock
<1> QED
    BY <1>1, <1>2 DEF BootLock

\* A directory of the root.
LEMMA MakeDirectoryKeeps ==
    ASSUME IInv, NEW t \in Trainers, MakeDirectory(t)
    PROVE  IInv'
<1>1. /\ tr[t].pc = "dirs" /\ disk.dirs < DirCount
      /\ disk' = [disk EXCEPT !.dirs = @ + 1]
      /\ UNCHANGED <<lock, tr, receipts, damaged, launches, crashes>>
    BY DEF MakeDirectory, Ghosts
<1>2. /\ disk' \in DiskStates /\ disk'.latest = disk.latest /\ disk'.finals = disk.finals
      /\ disk'.run = disk.run /\ disk'.stage = disk.stage /\ disk.dirs # DirCount
    BY <1>1, StoreAssumption DEF IInv, TypeOK, DiskStates
<1>3. tr' = [tr EXCEPT ![t] = tr[t]] /\ tr[t] \in TrainerStates
    BY <1>1 DEF IInv, TypeOK
<1>4. DiskInv'
    BY <1>1, <1>2 DEF IInv, DiskInv
<1>5. TrainerInv(t)'
    BY <1>1, <1>2 DEF IInv, TrainerInv, Holds, Booted, Writing
<1>6. SinceInv(t)'
    <2>1. Buried' <=> Buried
        BY <1>2 DEF Buried, SpoiltAt
    <2>2. SinceInv(t)
        BY DEF IInv
    <2> QED
        BY <1>1, <1>2, <2>1, <2>2 DEF SinceInv
<1>7. ReceiptsHold' /\ lock' \in Trainers \cup {None} /\ receipts' \subseteq Lineages
      /\ launches' \in 0..MaxLaunches /\ crashes' \in 0..MaxCrashes
    BY <1>1, <1>2 DEF IInv, TypeOK, ReceiptsHold
<1> QED
    BY <1>1, <1>2, <1>3, <1>4, <1>5, <1>6, <1>7, Keep DEF Writing

\* The bootstrap ends.
LEMMA BootEndKeeps ==
    ASSUME IInv, NEW t \in Trainers, BootEnd(t)
    PROVE  IInv'
<1> DEFINE r == [tr[t] EXCEPT !.pc = IF disk.latest = None THEN "genesis" ELSE "resume"]
<1>1. /\ tr[t].pc = "dirs" /\ disk.dirs = DirCount
      /\ disk' = [disk EXCEPT !.stage = IF @ = RunFile /\ ~disk.run THEN None ELSE @]
      /\ lock' = None /\ tr' = [tr EXCEPT ![t] = r]
      /\ UNCHANGED <<receipts, damaged, launches, crashes>>
    BY DEF BootEnd, Ghosts, Set
<1>2. /\ disk' \in DiskStates /\ disk'.latest = disk.latest /\ disk'.finals = disk.finals
      /\ disk'.run = disk.run /\ disk'.stage \in {None, disk.stage} /\ disk'.dirs = disk.dirs
    BY <1>1 DEF IInv, TypeOK, DiskStates
<1>3. /\ r \in TrainerStates /\ r.pc \in {"genesis", "resume"} /\ r.since = tr[t].since
      /\ r.windows = tr[t].windows /\ tr'[t] = r
      /\ r.session = tr[t].session /\ r.parent = tr[t].parent /\ TrainerInv(t)
    BY <1>1 DEF IInv, TypeOK, TrainerStates, PCs
<1>4. DiskInv'
    BY <1>1, <1>2 DEF IInv, DiskInv
<1>5. TrainerInv(t)' /\ lock = t /\ r.pc \notin Writing
    BY <1>1, <1>2, <1>3 DEF IInv, TrainerInv, Holds, Writing
<1>6. SinceInv(t)'
    <2>1. SinceInv(t) /\ Buried' = Buried
        BY <1>2 DEF IInv, Buried, SpoiltAt
    <2> QED
        BY <1>1, <1>3, <2>1 DEF SinceInv
<1>7. ReceiptsHold' /\ receipts' \subseteq Lineages
      /\ launches' \in 0..MaxLaunches /\ crashes' \in 0..MaxCrashes
    BY <1>1, <1>2 DEF IInv, TypeOK, ReceiptsHold
<1> HIDE DEF r
<1> QED
    BY <1>1, <1>2, <1>3, <1>4, <1>5, <1>6, <1>7, Keep

\* Training a window.
LEMMA TrainKeeps ==
    ASSUME IInv, NEW t \in Trainers, Train(t)
    PROVE  IInv'
<1>1. PICK o \in Outcomes :
          Set(t, [tr[t] EXCEPT !.pc = "publish", !.cand = Append(tr[t].parent, o)])
    BY DEF Train
<1> DEFINE r == [tr[t] EXCEPT !.pc = "publish", !.cand = Append(tr[t].parent, o)]
<1>2. tr[t].pc = "train" /\ UNCHANGED <<disk, lock, Ghosts>> /\ TrainerInv(t) /\ SinceInv(t)
    BY DEF Train, IInv
<1>3. tr[t].parent \in Lineages /\ Len(tr[t].parent) < Target /\ tr[t].windows < Cadence
      /\ disk.dirs = DirCount
    BY <1>2 DEF TrainerInv, Booted
<1>4. Append(tr[t].parent, o) \in Lineages /\ Len(Append(tr[t].parent, o)) = Len(tr[t].parent) + 1
    BY <1>3, Longer
<1>5. /\ r \in TrainerStates /\ r.pc = "publish" /\ r.cand = Append(tr[t].parent, o)
      /\ r.since = tr[t].since /\ r.windows = tr[t].windows /\ r.parent = tr[t].parent
      /\ r.session = tr[t].session
    BY <1>4 DEF IInv, TypeOK, TrainerStates, PCs
<1>6. ASSUME tr'[t] = r PROVE TrainerInv(t)' /\ SinceInv(t)'
    <2> HIDE DEF r
    <2>1. TrainerInv(t)'
        BY <1>2, <1>3, <1>5, <1>6 DEF TrainerInv, Holds, Booted, Writing
    <2>2. Buried' = Buried /\ damaged' = damaged
        BY <1>2 DEF Buried, SpoiltAt, Ghosts
    <2>3. \A u \in Trainers : u # t => tr'[u] = tr[u]
        BY <1>1 DEF IInv, TypeOK, Set
    <2>4. SinceInv(t)'
        BY <1>2, <1>4, <1>5, <1>6, <2>2, <2>3 DEF SinceInv, Writing
    <2> QED
        BY <2>1, <2>4
<1>7. lock' = lock /\ lock \in Trainers \cup {None} /\ r.pc \notin Writing
    BY <1>2, <1>5 DEF IInv, TypeOK, Writing
<1> HIDE DEF r
<1> QED
    BY <1>1, <1>2, <1>5, <1>6, <1>7, OwnKeep DEF r

\* A prefix of a lineage is a lineage, and not what a foreign writer leaves.
LEMMA PrefixLineage ==
    ASSUME NEW l \in Lineages, NEW g \in 0..Len(l)
    PROVE  Prefix(l, g) \in Lineages /\ Prefix(l, g) # Damaged
<1>1. l \in Seq(Outcomes) /\ Len(l) \in Nat /\ Len(l) <= Target
    BY LineageSeq, StoreAssumption DEF Generations
<1>2. Prefix(l, g) \in Seq(Outcomes) /\ Len(Prefix(l, g)) = g
    BY <1>1 DEF Prefix
<1>3. Prefix(l, g) \in Lineages
    BY <1>1, <1>2, SeqLineage, StoreAssumption
<1> QED
    BY <1>3, Values

\* No walk of the store gets past a spoiled final at or below the pointer.
LEMMA WalkNotices ==
    ASSUME IInv, Walk(disk)
    PROVE  ~Buried
<1>1. disk.latest \in Lineages
    BY DEF IInv, TypeOK, DiskStates, Walk
<1> SUFFICES ASSUME NEW g \in 0..Len(disk.latest), NEW k \in Ordinals,
                    disk.finals[<<g, k>>] = Damaged
             PROVE  FALSE
    BY DEF Buried, SpoiltAt
<1>2. disk.finals[<<g, k>>] = Prefix(disk.latest, g)
    BY DEF Walk, Exact
<1> QED
    BY <1>1, <1>2, PrefixLineage

\* Nor does a candidate pass for the generation that holds one.
LEMMA PartialNotices ==
    ASSUME NEW l \in Lineages, PartialOf(disk, l)
    PROVE  ~SpoiltAt(Len(l))
    BY Values DEF PartialOf, SpoiltAt

\* Resuming: the tip probe or the walk.
LEMMA ResumeKeeps ==
    ASSUME IInv, NEW t \in Trainers, Resume(t)
    PROVE  IInv'
<1> DEFINE me == tr[t]
           probe == SessionFresh(t) /\ TipCurrent(disk, me.parent)
           r == [me EXCEPT
                      !.pc = IF Len(disk.latest) = Target THEN "validate" ELSE "train",
                      !.parent = disk.latest, !.session = FALSE,
                      !.windows = IF probe THEN @ ELSE 0]
<1>1. CASE Fail(t)
    BY <1>1, FailKeeps DEF Resume
<1>2. CASE /\ lock = None /\ (probe \/ Walk(disk)) /\ Set(t, r)
           /\ disk' = [disk EXCEPT !.stage = IF probe THEN @ ELSE None]
           /\ UNCHANGED lock
    <2>1. me.pc = "resume" /\ TrainerInv(t) /\ SinceInv(t) /\ disk.dirs = DirCount
          /\ UNCHANGED <<receipts, damaged, launches, crashes>> /\ me \in TrainerStates
        BY DEF Resume, IInv, TrainerInv, Booted, Ghosts, TypeOK
    <2>2. disk.latest \in Lineages /\ Len(disk.latest) \in 0..Target
        <3>1. disk.latest \in Lineages
            <4>1. CASE Walk(disk)
                BY <4>1 DEF IInv, TypeOK, DiskStates, Walk
            <4>2. CASE probe
                <5>1. disk.latest = me.parent /\ me.session
                    BY <4>2 DEF TipCurrent, SessionFresh
                <5>2. me.parent # None
                    BY <5>1, <2>1, Values DEF TrainerInv
                <5> QED BY <5>1, <5>2 DEF IInv, TypeOK, DiskStates
            <4> QED BY <1>2, <4>1, <4>2
        <3> QED BY <3>1, LineageSeq DEF Generations
    <2>3. /\ disk' \in DiskStates /\ disk'.latest = disk.latest /\ disk'.finals = disk.finals
          /\ disk'.run = disk.run /\ disk'.stage \in {None, disk.stage} /\ disk'.dirs = disk.dirs
        BY <1>2 DEF IInv, TypeOK, DiskStates
    <2>4. r.windows = (IF probe THEN me.windows ELSE 0) /\ r.windows \in 0..Cadence /\ r.windows < Cadence
        BY <2>1, StoreAssumption DEF SessionFresh, TrainerStates
    <2>5. /\ r \in TrainerStates /\ r.since = me.since /\ r.parent = disk.latest /\ r.cand = me.cand /\ ~r.session
          /\ r.pc \in {"validate", "train"} /\ (r.pc = "train" => Len(disk.latest) # Target)
        BY <2>1, <2>2, <2>4 DEF TrainerStates, PCs
    <2> HIDE DEF r
    <2>6. tr'[t] = r /\ \A u \in Trainers \ {t} : tr'[u] = tr[u]
        BY <1>2 DEF IInv, TypeOK, Set
    <2>7. DiskInv'
        BY <2>3 DEF IInv, DiskInv
    <2>8. TrainerInv(t)' /\ r.pc \notin Writing
        BY <2>1, <2>2, <2>3, <2>4, <2>5, <2>6, StoreAssumption DEF TrainerInv, Holds, Writing
    <2>9. SinceInv(t)'
        <3>1. Buried' = Buried
            BY <2>3 DEF Buried, SpoiltAt
        <3>2. Buried => probe
            BY <1>2, WalkNotices
        <3>3. Buried => r.windows = me.windows
            BY <3>2, <2>4
        <3> HIDE DEF probe
        <3> QED
            BY <2>1, <2>3, <2>5, <2>6, <2>8, <3>1, <3>3 DEF SinceInv, Writing
    <2>10. ReceiptsHold' /\ receipts' \subseteq Lineages /\ lock' \in Trainers \cup {None}
           /\ launches' \in 0..MaxLaunches /\ crashes' \in 0..MaxCrashes
        BY <1>2, <2>1, <2>3 DEF IInv, TypeOK, ReceiptsHold
    <2> QED
        BY <1>2, <2>1, <2>3, <2>5, <2>7, <2>8, <2>9, <2>10, Keep DEF Set
<1> QED
    BY <1>1, <1>2 DEF Resume

\* Nobody writes while the lock is free.
LEMMA NobodyWrites ==
    ASSUME IInv, lock = None
    PROVE  \A u \in Trainers : tr[u].pc \notin Holds /\ tr[u].pc \notin Writing
    BY Values DEF IInv, TrainerInv, Holds, Writing

\* What the authority check of a publication establishes of its candidate.
LEMMA AuthorityHolds ==
    ASSUME IInv, NEW t \in Trainers, NEW c,
           \/ tr[t].pc = "genesis" /\ GenesisAuthority(disk) /\ c = <<>>
           \/ /\ tr[t].pc = "publish" /\ TrainedAuthority(disk, tr[t].parent, tr[t].cand)
              /\ c = tr[t].cand
    PROVE  /\ c \in Lineages /\ Ahead(c) /\ PartialOf(disk, c)
           /\ Buried => tr[t].pc = "publish" /\ TipCurrent(disk, tr[t].parent)
<1>1. TrainerInv(t) /\ DiskInv /\ disk \in DiskStates
    BY DEF IInv, TypeOK
<1>2. CASE tr[t].pc = "genesis" /\ GenesisAuthority(disk) /\ c = <<>>
    <2>1. c \in Lineages /\ Len(c) = 0
        BY <1>2, Genesis
    <2>2. PartialOf(disk, c)
        <3>1. CASE disk.run
            BY <1>2, <3>1 DEF GenesisAuthority
        <3>2. CASE ~disk.run
            BY <1>1, <2>1, <3>2, StoreAssumption DEF DiskInv, PartialOf, Generations
        <3> QED BY <3>1, <3>2
    <2>3. disk.latest # None => disk.run /\ Walk(disk) /\ disk.latest = <<>>
        BY <1>1, <1>2 DEF GenesisAuthority, DiskInv
    <2>4. Ahead(c)
        BY <1>2, <2>3 DEF Ahead
    <2>5. ~Buried
        BY <2>3, WalkNotices DEF Buried
    <2> QED
        BY <2>1, <2>2, <2>4, <2>5
<1>3. CASE /\ tr[t].pc = "publish" /\ TrainedAuthority(disk, tr[t].parent, tr[t].cand)
           /\ c = tr[t].cand
    <2>1. PICK o \in Outcomes : c = Append(tr[t].parent, o)
        BY <1>1, <1>3 DEF TrainerInv
    <2>2. tr[t].parent \in Lineages /\ Len(tr[t].parent) < Target
        BY <1>1, <1>3 DEF TrainerInv
    <2>3. c \in Lineages
        BY <2>1, <2>2, Longer
    <2>4. PartialOf(disk, c) /\ disk.latest \in {tr[t].parent, c}
          /\ (TipCurrent(disk, tr[t].parent) \/ Walk(disk))
        BY <1>3 DEF TrainedAuthority, TipCurrent
    <2>5. Ahead(c)
        BY <2>1, <2>2, <2>3, <2>4, Values DEF Ahead
    <2> QED
        BY <1>3, <2>3, <2>4, <2>5, WalkNotices
<1> QED
    BY <1>2, <1>3

\* Over a spoiled final beyond the pointer only the pointer's own generation
\* is published again, and by a trainer that has not begun one since.
LEMMA BeyondThePointer ==
    ASSUME IInv, NEW t \in Trainers, NEW c, damaged, ~Buried,
           tr[t].pc \in {"genesis", "publish"}, tr[t].pc = "publish" => c = tr[t].cand,
           c \in Lineages, Ahead(c), PartialOf(disk, c)
    PROVE  disk.latest # None /\ c = disk.latest /\ tr[t].since = 0
<1>1. DamageInv /\ SinceInv(t) /\ ~SpoiltAt(Len(c)) /\ disk \in DiskStates
    BY PartialNotices DEF IInv, TypeOK
<1>2. disk.latest # None
    BY <1>1, Genesis DEF DamageInv, Ahead
<1>3. disk.latest \in Lineages /\ Len(disk.latest) < Target /\ SpoiltAt(Len(disk.latest) + 1)
    BY <1>1, <1>2 DEF DamageInv, DiskStates
<1>4. c = disk.latest
    BY <1>1, <1>2, <1>3, Longer DEF Ahead
<1>5. Len(c) \in Nat /\ tr[t].since \in Nat
    BY LineageSeq DEF IInv, TypeOK, TrainerStates
<1>6. tr[t].since = 0
    BY <1>1, <1>4, <1>5 DEF SinceInv
<1> QED
    BY <1>2, <1>4, <1>6

\* A publication begins.
LEMMA PublishBeginKeeps ==
    ASSUME IInv, NEW t \in Trainers, PublishBegin(t)
    PROVE  IInv'
<1> DEFINE me == tr[t]
           genesis == me.pc = "genesis"
           authority == IF genesis THEN GenesisAuthority(disk)
                        ELSE TrainedAuthority(disk, me.parent, me.cand)
           shortcut == ~genesis /\ TipCurrent(disk, me.parent)
           c == IF genesis THEN <<>> ELSE me.cand
           r == [me EXCEPT !.pc = "files", !.i = 0,
                      !.cand = IF genesis THEN <<>> ELSE @,
                      !.windows = IF shortcut THEN @ + 1 ELSE 0,
                      !.since = IF damaged THEN @ + 1 ELSE 0]
<1>1. CASE Fail(t)
    BY <1>1, FailKeeps DEF PublishBegin
<1>2. CASE /\ lock = None /\ authority /\ lock' = t
           /\ disk' = [disk EXCEPT !.stage = None] /\ Set(t, r)
    <2>1. me.pc \in {"genesis", "publish"} /\ TrainerInv(t) /\ SinceInv(t) /\ disk.dirs = DirCount
          /\ UNCHANGED <<receipts, damaged, launches, crashes>> /\ me \in TrainerStates
        BY DEF PublishBegin, IInv, TrainerInv, Booted, Ghosts, TypeOK
    <2>2. c \in Lineages /\ Ahead(c) /\ PartialOf(disk, c) /\ (Buried => shortcut)
        BY <1>2, <2>1, AuthorityHolds
    <2>3. damaged /\ ~Buried => disk.latest # None /\ c = disk.latest /\ me.since = 0
        BY <2>1, <2>2, BeyondThePointer
    <2>4. /\ disk' \in DiskStates /\ disk'.latest = disk.latest /\ disk'.finals = disk.finals
          /\ disk'.run = disk.run /\ disk'.stage = None /\ disk'.dirs = disk.dirs
        BY <1>2 DEF IInv, TypeOK, DiskStates
    <2>5. /\ shortcut => me.windows < Cadence
          /\ (IF shortcut THEN me.windows + 1 ELSE 0) \in 0..Cadence
          /\ me.windows \in Nat /\ me.since \in Nat /\ 0 \in 0..FinalsPer + 1
          /\ (IF damaged THEN me.since + 1 ELSE 0) \in Nat
        BY <2>1, StoreAssumption, SMTT(40) DEF TrainerInv, TrainerStates
    <2> HIDE DEF shortcut
    <2>6. /\ r \in TrainerStates /\ r.pc = "files" /\ r.i = 0 /\ r.cand = c
          /\ r.windows = (IF shortcut THEN me.windows + 1 ELSE 0)
          /\ r.since = (IF damaged THEN me.since + 1 ELSE 0)
          /\ r.session = me.session /\ r.parent = me.parent
        BY <2>1, <2>2, <2>5 DEF TrainerStates, PCs
    <2> HIDE DEF r, c
    <2>7. tr'[t] = r /\ \A u \in Trainers \ {t} : tr'[u] = tr[u]
        BY <1>2 DEF IInv, TypeOK, Set
    <2>8. DiskInv'
        BY <2>4 DEF IInv, DiskInv
    <2>9. TrainerInv(t)'
        <3>1. Ahead(tr[t].cand)'
            BY <2>2, <2>4, <2>6, <2>7 DEF Ahead
        <3>2. PartialOf(disk, tr[t].cand)'
            BY <2>2, <2>4, <2>6, <2>7 DEF PartialOf
        <3> QED
            BY <1>2, <2>1, <2>2, <2>4, <2>6, <2>7, <3>1, <3>2, StoreAssumption DEF TrainerInv, Holds, Writing
    <2>10. SinceInv(t)'
        <3>1. Buried' = Buried
            BY <2>4 DEF Buried, SpoiltAt
        <3>2. \A u \in Trainers : tr'[u].pc \in Writing => u = t
            BY <1>2, <2>7, NobodyWrites
        <3> QED
            BY <2>1, <2>2, <2>3, <2>4, <2>5, <2>6, <2>7, <3>1, <3>2 DEF SinceInv, Writing
    <2>11. ReceiptsHold' /\ receipts' \subseteq Lineages
           /\ launches' \in 0..MaxLaunches /\ crashes' \in 0..MaxCrashes
        BY <2>1, <2>4 DEF IInv, TypeOK, ReceiptsHold
    <2> QED
        BY <1>2, <2>1, <2>3, <2>4, <2>6, <2>8, <2>9, <2>10, <2>11, Keep DEF Set
<1> QED
    BY <1>1, <1>2 DEF PublishBegin

\* The file a writing trainer is at: run.json, a final of its candidate, or the
\* pointer, which alone is never found in place.
LEMMA Files ==
    ASSUME IInv, NEW t \in Trainers, tr[t].pc \in Writing
    PROVE  /\ tr[t].cand \in Lineages /\ tr[t].i \in 0..FinalsPer + 1
           /\ \/ tr[t].i = 0 /\ FileAt(t) = RunFile /\ Exists(t) = disk.run
              \/ tr[t].i = FinalsPer + 1 /\ FileAt(t) = LatestFile /\ ~Exists(t)
              \/ /\ tr[t].i \in Ordinals /\ FileAt(t) = <<Len(tr[t].cand), tr[t].i>>
                 /\ FileAt(t) \in Generations \X Ordinals
                 /\ Exists(t) = (disk.finals[FileAt(t)] # None)
<1>1. tr[t].cand \in Lineages /\ tr[t].i \in 0..FinalsPer + 1
    BY DEF IInv, TypeOK, TrainerStates, TrainerInv
<1>2. CASE tr[t].i = 0
    <2>1. FileAt(t) = RunFile
        BY <1>2, StoreAssumption DEF FileAt
    <2>2. Exists(t) = disk.run
        BY <2>1, Values DEF Exists
    <2> QED
        BY <1>1, <1>2, <2>1, <2>2
<1>3. CASE tr[t].i = FinalsPer + 1
    <2>1. tr[t].i # 0
        BY <1>3, StoreAssumption
    <2>2. FileAt(t) = LatestFile
        BY <1>3, <2>1 DEF FileAt
    <2>3. ~Exists(t)
        BY <2>2, Values DEF Exists
    <2> QED
        BY <1>1, <1>3, <2>2, <2>3
<1>4. CASE tr[t].i # 0 /\ tr[t].i # FinalsPer + 1
    <2>1. tr[t].i \in Ordinals /\ Len(tr[t].cand) \in Generations
        BY <1>1, <1>4, LineageSeq, StoreAssumption DEF Ordinals
    <2>2. FileAt(t) = <<Len(tr[t].cand), tr[t].i>>
        BY <1>4 DEF FileAt
    <2>3. FileAt(t) \in Generations \X Ordinals
        BY <2>1, <2>2
    <2>4. Exists(t) = (disk.finals[FileAt(t)] # None)
        BY <2>3, Values DEF Exists
    <2> QED
        BY <1>1, <2>1, <2>2, <2>3, <2>4
<1> QED
    BY <1>2, <1>3, <1>4

\* A file already in place is accepted.
LEMMA ResumeFileKeeps ==
    ASSUME IInv, NEW t \in Trainers, ResumeFile(t)
    PROVE  IInv'
<1>1. CASE Fail(t)
    BY <1>1, FailKeeps DEF ResumeFile
<1>2. CASE Set(t, [tr[t] EXCEPT !.i = @ + 1]) /\ UNCHANGED <<disk, lock>>
    <2> DEFINE r == [tr[t] EXCEPT !.i = @ + 1]
    <2>1. tr[t].pc = "files" /\ Exists(t) /\ UNCHANGED <<disk, lock, receipts, damaged, launches, crashes>>
          /\ TrainerInv(t) /\ SinceInv(t) /\ tr[t] \in TrainerStates /\ DiskInv
        BY <1>2 DEF ResumeFile, IInv, TypeOK, Ghosts
    <2>2. tr[t].i + 1 \in 0..FinalsPer + 1 /\ disk.run
        <3>1. tr[t].i \in 0..FinalsPer + 1 /\ tr[t].i # FinalsPer + 1
            BY <2>1, Files, StoreAssumption DEF Writing, Ordinals
        <3>2. disk.run
            BY <2>1, Files DEF Writing, DiskInv
        <3> QED
            BY <3>1, <3>2, StoreAssumption
    <2>3. /\ r \in TrainerStates /\ r.pc = "files" /\ r.cand = tr[t].cand /\ r.since = tr[t].since
          /\ r.windows = tr[t].windows /\ r.session = tr[t].session /\ r.parent = tr[t].parent
        BY <2>1, <2>2 DEF TrainerStates
    <2> HIDE DEF r
    <2>4. tr'[t] = r /\ \A u \in Trainers \ {t} : tr'[u] = tr[u]
        BY <1>2 DEF IInv, TypeOK, Set, r
    <2>5. TrainerInv(t)'
        <3>1. Ahead(tr[t].cand)' = Ahead(tr[t].cand)
            BY <2>1, <2>3, <2>4 DEF Ahead
        <3>2. PartialOf(disk, tr[t].cand)' = PartialOf(disk, tr[t].cand)
            BY <2>1, <2>3, <2>4 DEF PartialOf
        <3> QED
            BY <2>1, <2>2, <2>3, <2>4, <3>1, <3>2 DEF TrainerInv, Holds, Writing, Booted
    <2>6. SinceInv(t)'
        <3>1. Buried' = Buried
            BY <2>1 DEF Buried, SpoiltAt
        <3> QED
            BY <2>1, <2>3, <2>4, <3>1 DEF SinceInv, Writing
    <2>7. lock' = lock /\ lock' \in Trainers \cup {None} /\ UNCHANGED <<disk, Ghosts>>
          /\ tr[t].pc \in Writing
        BY <2>1 DEF IInv, TypeOK, Ghosts, Writing
    <2> QED
        BY <1>2, <2>3, <2>5, <2>6, <2>7, OwnKeep DEF r
<1> QED
    BY <1>1, <1>2 DEF ResumeFile

\* A file is staged.
LEMMA StageFileKeeps ==
    ASSUME IInv, NEW t \in Trainers, StageFile(t)
    PROVE  IInv'
<1>1. CASE Fail(t)
    BY <1>1, FailKeeps DEF StageFile
<1>2. CASE /\ FileAt(t) = LatestFile => Revalidates(t)
           /\ disk' = [disk EXCEPT !.stage = FileAt(t)]
           /\ Set(t, [tr[t] EXCEPT !.pc = "move"]) /\ UNCHANGED lock
    <2> DEFINE r == [tr[t] EXCEPT !.pc = "move"]
    <2>1. tr[t].pc = "files" /\ UNCHANGED <<lock, receipts, damaged, launches, crashes>>
          /\ TrainerInv(t) /\ SinceInv(t) /\ tr[t] \in TrainerStates /\ DiskInv /\ tr[t].pc \in Writing
        BY <1>2 DEF StageFile, IInv, TypeOK, Ghosts, Writing
    <2>2. /\ FileAt(t) \in {RunFile, LatestFile} \cup (Generations \X Ordinals)
          /\ disk.run \/ FileAt(t) = RunFile
          /\ tr[t].i = FinalsPer + 1 => FileAt(t) = LatestFile
        BY <2>1, Files, StoreAssumption DEF Ordinals, TrainerInv
    <2>3. /\ disk' \in DiskStates /\ disk'.latest = disk.latest /\ disk'.finals = disk.finals
          /\ disk'.run = disk.run /\ disk'.stage = FileAt(t) /\ disk'.dirs = disk.dirs
        BY <1>2, <2>2 DEF IInv, TypeOK, DiskStates
    <2>4. /\ r \in TrainerStates /\ r.pc = "move" /\ r.cand = tr[t].cand /\ r.since = tr[t].since
          /\ r.windows = tr[t].windows /\ r.session = tr[t].session /\ r.parent = tr[t].parent
          /\ r.i = tr[t].i
        BY <2>1 DEF TrainerStates, PCs
    <2> HIDE DEF r
    <2>5. tr'[t] = r /\ \A u \in Trainers \ {t} : tr'[u] = tr[u]
        BY <1>2 DEF IInv, TypeOK, Set, r
    <2>6. disk.dirs = DirCount
        BY <2>1 DEF TrainerInv, Booted
    <2>7. DiskInv'
        BY <2>1, <2>2, <2>3, <2>6 DEF DiskInv
    <2>8. TrainerInv(t)'
        <3>1. Ahead(tr[t].cand)' = Ahead(tr[t].cand)
            BY <2>3, <2>4, <2>5 DEF Ahead
        <3>2. PartialOf(disk, tr[t].cand)' = PartialOf(disk, tr[t].cand)
            BY <2>3, <2>4, <2>5 DEF PartialOf
        <3>3. tr[t].i = FinalsPer + 1 => Exact(disk, Len(tr[t].cand), tr[t].cand)'
            BY <1>2, <2>2, <2>3, <2>4, <2>5 DEF Revalidates, Exact
        <3> QED
            BY <2>1, <2>3, <2>4, <2>5, <3>1, <3>2, <3>3 DEF TrainerInv, Holds, Writing, Booted
    <2>9. SinceInv(t)'
        <3>1. Buried' = Buried
            BY <2>3 DEF Buried, SpoiltAt
        <3> QED
            BY <2>1, <2>3, <2>4, <2>5, <3>1 DEF SinceInv, Writing
    <2>10. ReceiptsHold' /\ receipts' \subseteq Lineages /\ lock' \in Trainers \cup {None}
           /\ launches' \in 0..MaxLaunches /\ crashes' \in 0..MaxCrashes
        BY <2>1, <2>3 DEF IInv, TypeOK, ReceiptsHold
    <2> QED
        BY <1>2, <2>1, <2>3, <2>4, <2>7, <2>8, <2>9, <2>10, Keep DEF Set, r
<1> QED
    BY <1>1, <1>2 DEF StageFile

\* The publication is read back and acknowledged.
LEMMA VerifyKeeps ==
    ASSUME IInv, NEW t \in Trainers, Verify(t)
    PROVE  IInv'
<1> DEFINE me == tr[t]
           r == [me EXCEPT !.pc = "resume", !.parent = me.cand,
                           !.cand = None, !.session = Len(me.cand) > 0]
<1>1. CASE Fail(t) /\ UNCHANGED Ghosts
    BY <1>1, FailKeeps
<1>2. CASE /\ Revalidates(t) /\ disk.latest = me.cand
           /\ receipts' = receipts \cup {me.cand}
           /\ lock' = None /\ Set(t, r)
           /\ UNCHANGED <<disk, damaged, launches, crashes>>
    <2>1. me.pc = "verify" /\ TrainerInv(t) /\ SinceInv(t) /\ me \in TrainerStates
        BY DEF Verify, IInv, TypeOK
    <2>2. me.cand \in Lineages /\ lock = t /\ disk.dirs = DirCount /\ (Len(me.cand) > 0) \in BOOLEAN
        BY <2>1 DEF TrainerInv, Holds, Booted
    <2>3. /\ r \in TrainerStates /\ r.pc = "resume" /\ r.since = me.since
          /\ r.windows = me.windows /\ r.parent = me.cand
        BY <2>1, <2>2 DEF TrainerStates, PCs
    <2> HIDE DEF r
    <2>4. tr'[t] = r /\ \A u \in Trainers \ {t} : tr'[u] = tr[u]
        BY <1>2 DEF IInv, TypeOK, Set
    <2>5. TrainerInv(t)' /\ r.pc \notin Writing
        BY <1>2, <2>2, <2>3, <2>4 DEF TrainerInv, Holds, Writing, Booted
    <2>6. SinceInv(t)'
        <3>1. Buried' = Buried
            BY <1>2 DEF Buried, SpoiltAt
        <3> QED
            BY <1>2, <2>1, <2>3, <2>4, <2>5, <3>1 DEF SinceInv, Writing
    <2>7. ReceiptsHold'
        BY <1>2, <2>2, PrefixOrder, Values DEF IInv, ReceiptsHold
    <2>8. DiskInv' /\ receipts' \subseteq Lineages /\ disk' \in DiskStates
          /\ launches' \in 0..MaxLaunches /\ crashes' \in 0..MaxCrashes
        BY <1>2, <2>2 DEF IInv, TypeOK, DiskInv
    <2> QED
        BY <1>2, <2>2, <2>3, <2>5, <2>6, <2>7, <2>8, Keep DEF Set
<1> QED
    BY <1>1, <1>2 DEF Verify

\* While t has the lock, the others depend on the directories alone.
LEMMA OthersIdle ==
    ASSUME IInv, NEW t \in Trainers, lock = t, NEW u \in Trainers \ {t},
           tr'[u] = tr[u], disk'.dirs = disk.dirs
    PROVE  TrainerInv(u)'
<1>1. TrainerInv(u) /\ tr[u].pc \notin Holds
    BY DEF IInv, TrainerInv
<1> QED
    BY <1>1 DEF TrainerInv, Holds, Writing

\* The move of run.json.
LEMMA MoveRunKeeps ==
    ASSUME IInv, NEW t \in Trainers, tr[t].pc = "move", tr[t].i = 0,
           disk' = [disk EXCEPT !.stage = None, !.run = TRUE],
           Set(t, [tr[t] EXCEPT !.pc = "files", !.i = 1]),
           UNCHANGED <<lock, Ghosts>>
    PROVE  IInv'
<1> DEFINE r == [tr[t] EXCEPT !.pc = "files", !.i = 1]
<1>1. TrainerInv(t) /\ SinceInv(t) /\ tr[t] \in TrainerStates /\ DiskInv /\ tr[t].pc \in Writing
      /\ UNCHANGED <<receipts, damaged, launches, crashes>>
    BY DEF IInv, TypeOK, Ghosts, Writing
<1>2. /\ disk' \in DiskStates /\ disk'.latest = disk.latest /\ disk'.finals = disk.finals
      /\ disk'.run /\ disk'.stage = None /\ disk'.dirs = disk.dirs
    BY DEF IInv, TypeOK, DiskStates
<1>3. /\ r \in TrainerStates /\ r.pc = "files" /\ r.cand = tr[t].cand /\ r.since = tr[t].since
      /\ r.windows = tr[t].windows /\ r.session = tr[t].session /\ r.parent = tr[t].parent
    <2>1. 1 \in 0..FinalsPer + 1
        BY StoreAssumption
    <2> QED
        BY <1>1, <2>1 DEF TrainerStates, PCs
<1> HIDE DEF r
<1>4. tr'[t] = r /\ \A u \in Trainers \ {t} : tr'[u] = tr[u]
    BY DEF IInv, TypeOK, Set, r
<1>5. disk.dirs = DirCount
    BY <1>1 DEF TrainerInv, Booted, Writing
<1>6. DiskInv'
    BY <1>1, <1>2, <1>5 DEF DiskInv
<1>7. TrainerInv(t)'
    <2>1. Ahead(tr[t].cand)' = Ahead(tr[t].cand)
        BY <1>2, <1>3, <1>4 DEF Ahead
    <2>2. PartialOf(disk, tr[t].cand)' = PartialOf(disk, tr[t].cand)
        BY <1>2, <1>3, <1>4 DEF PartialOf
    <2> QED
        BY <1>1, <1>2, <1>3, <1>4, <1>5, <2>1, <2>2 DEF TrainerInv, Holds, Writing
<1>8. SinceInv(t)'
    <2>1. Buried' = Buried
        BY <1>2 DEF Buried, SpoiltAt
    <2> QED
        BY <1>1, <1>2, <1>3, <1>4, <2>1 DEF SinceInv, Writing
<1>9. ReceiptsHold' /\ receipts' \subseteq Lineages /\ lock' = lock /\ lock' \in Trainers \cup {None}
       /\ launches' \in 0..MaxLaunches /\ crashes' \in 0..MaxCrashes
    BY <1>1, <1>2 DEF IInv, TypeOK, ReceiptsHold
<1> QED
    BY <1>1, <1>2, <1>3, <1>6, <1>7, <1>8, <1>9, Keep DEF Set, r

\* The move of a final of the candidate.
LEMMA MoveFinalKeeps ==
    ASSUME IInv, NEW t \in Trainers, tr[t].pc = "move", NEW f \in Generations \X Ordinals,
           f = <<Len(tr[t].cand), tr[t].i>>, tr[t].i \in Ordinals, disk.finals[f] = None,
           disk' = [disk EXCEPT !.stage = None, !.finals[f] = tr[t].cand],
           Set(t, [tr[t] EXCEPT !.pc = "files", !.i = @ + 1]),
           UNCHANGED <<lock, Ghosts>>
    PROVE  IInv'
<1> DEFINE r == [tr[t] EXCEPT !.pc = "files", !.i = @ + 1]
           c == tr[t].cand
<1>1. /\ TrainerInv(t) /\ SinceInv(t) /\ tr[t] \in TrainerStates /\ DiskInv /\ StoreInv /\ DamageInv
      /\ disk \in DiskStates
      /\ UNCHANGED <<receipts, damaged, launches, crashes>>
    BY DEF IInv, TypeOK, Ghosts
<1>2. /\ c \in Lineages /\ Ahead(c) /\ disk.run /\ lock = t /\ disk.dirs = DirCount
      /\ (~damaged => PartialOf(disk, c)) /\ Len(c) \in Generations
    BY <1>1, LineageSeq, StoreAssumption DEF TrainerInv, Writing, Holds, Booted, Ordinals
<1>3. /\ disk' \in DiskStates /\ disk'.latest = disk.latest
      /\ disk'.run /\ disk'.stage = None /\ disk'.dirs = disk.dirs
      /\ disk'.finals = [disk.finals EXCEPT ![f] = c]
    BY <1>1, <1>2 DEF DiskStates
<1>4. /\ disk'.finals[f] = c
      /\ \A e \in Generations \X Ordinals : e # f => disk'.finals[e] = disk.finals[e]
    BY <1>1, <1>3 DEF DiskStates
<1>5. /\ r \in TrainerStates /\ r.pc = "files" /\ r.cand = c /\ r.since = tr[t].since
      /\ r.windows = tr[t].windows /\ r.session = tr[t].session /\ r.parent = tr[t].parent
    <2>1. PICK i \in Int : i = tr[t].i /\ i + 1 \in 0..FinalsPer + 1
        BY StoreAssumption, SMTT(30) DEF Ordinals
    <2>2. tr[t].i + 1 \in 0..FinalsPer + 1
        BY <2>1
    <2> QED
        BY <1>1, <2>2 DEF TrainerStates, PCs
<1> HIDE DEF r
<1>6. tr'[t] = r /\ \A u \in Trainers \ {t} : tr'[u] = tr[u]
    BY DEF IInv, TypeOK, Set, r
<1>7. TypeOK'
    BY <1>1, <1>3, <1>5 DEF IInv, TypeOK, Set, r
<1>8. DiskInv' /\ ReceiptsHold'
    BY <1>1, <1>2, <1>3 DEF IInv, DiskInv, ReceiptsHold
<1>9. ASSUME ~damaged PROVE PartialOf(disk', c)
    BY <1>2, <1>4, <1>9 DEF PartialOf
<1>10. \A g \in Generations : SpoiltAt(g)' = SpoiltAt(g)
    <2>1. c # Damaged /\ disk.finals[f] # Damaged
        BY <1>2, Values
    <2>2. \A e \in Generations \X Ordinals : (disk'.finals[e] = Damaged) <=> (disk.finals[e] = Damaged)
        BY <1>4, <2>1
    <2>3. \A g \in Generations, k \in Ordinals :
              (disk'.finals[<<g, k>>] = Damaged) <=> (disk.finals[<<g, k>>] = Damaged)
        BY <2>2
    <2> QED
        BY <2>3 DEF SpoiltAt
<1>11. disk.latest # None => disk.latest \in Lineages /\ Len(disk.latest) \in Generations
    BY <1>1, LineageSeq DEF DiskStates
<1>12. Buried' = Buried
    BY <1>3, <1>10, <1>11, StoreAssumption, SMTT(40) DEF Buried, Generations
<1>13. DamageInv'
    <2>1. 0 \in Generations /\ (Len(disk.latest) \in Generations /\ Len(disk.latest) < Target
                                  => Len(disk.latest) + 1 \in Generations)
        BY StoreAssumption DEF Generations
    <2> QED
        BY <1>1, <1>3, <1>10, <1>11, <1>12, <2>1 DEF DamageInv
<1>14. StoreInv'
    <2> SUFFICES ASSUME ~damaged PROVE StoreInv'
        BY <1>1 DEF StoreInv
    <2>1. CASE disk.latest = None
        <3>1. c = <<>> /\ Len(c) = 0
            BY <1>2, <2>1, Genesis DEF Ahead
        <3>2. ASSUME NEW g \in Generations, NEW k \in Ordinals, disk'.finals[<<g, k>>] # None
              PROVE  g = 0 /\ disk'.finals[<<g, k>>] = <<>>
            BY <1>1, <1>4, <2>1, <3>1, <3>2 DEF StoreInv
        <3> QED
            BY <1>1, <1>3, <2>1, <3>2 DEF StoreInv
    <2>2. CASE disk.latest # None
        <3>1. disk.latest \in Lineages /\ Len(disk.latest) \in Generations
            BY <1>11, <2>2
        <3>2. c # disk.latest
            <4>1. Exact(disk, Len(disk.latest), disk.latest)
                BY <1>1, <2>2, <3>1, StoreAssumption DEF StoreInv, Generations
            <4>2. c = disk.latest => disk.finals[f] = c
                BY <3>1, <4>1, PrefixSelf DEF Exact
            <4> QED
                BY <1>2, <4>2, Values
        <3>3. PICK o \in Outcomes : c = Append(disk.latest, o)
            BY <1>2, <2>2, <3>2 DEF Ahead
        <3>4. Len(c) = Len(disk.latest) + 1
            BY <3>1, <3>3, LineageSeq
        <3>5. ASSUME NEW g \in 0..Len(disk.latest) PROVE Exact(disk', g, disk.latest)
            <4>1. g \in Generations /\ g # Len(c)
                BY <3>1, <3>4, StoreAssumption DEF Generations
            <4>2. Exact(disk, g, disk.latest)
                BY <1>1, <2>2 DEF StoreInv
            <4> QED
                BY <1>4, <4>1, <4>2 DEF Exact
        <3>6. ASSUME NEW g \in Len(disk.latest) + 2 .. Target PROVE Present(disk', g) = {}
            <4>1. g \in Generations /\ g # Len(c)
                BY <3>1, <3>4, StoreAssumption DEF Generations
            <4>2. Present(disk, g) = {}
                BY <1>1, <2>2 DEF StoreInv
            <4> QED
                BY <1>4, <4>1, <4>2 DEF Present
        <3>7. PartialOf(disk', Append(disk.latest, o))
            BY <1>9, <3>3
        <3> QED
            BY <1>1, <1>3, <2>2, <3>5, <3>6, <3>7 DEF StoreInv
    <2> QED
        BY <2>1, <2>2
<1>15. TrainerInv(t)'
    <2>1. Ahead(tr[t].cand)' = Ahead(tr[t].cand)
        BY <1>3, <1>5, <1>6, SMTT(30) DEF Ahead
    <2>2. ~damaged => PartialOf(disk, tr[t].cand)'
        BY <1>5, <1>6, <1>9
    <2> QED
        BY <1>1, <1>2, <1>3, <1>5, <1>6, <2>1, <2>2 DEF TrainerInv, Holds, Writing
<1>16. \A u \in Trainers : SinceInv(u)'
    <2>1. \A u \in Trainers : SinceInv(u)
        BY DEF IInv
    <2>2. \A v \in Trainers : tr'[v].pc \in Writing => tr[v].pc \in Writing /\ tr'[v].cand = tr[v].cand
        BY <1>5, <1>6 DEF Writing
    <2>3. TAKE u \in Trainers
    <2>4. /\ tr'[u].since = tr[u].since /\ tr'[u].windows = tr[u].windows
          /\ tr'[u].parent = tr[u].parent /\ tr'[u].cand = tr[u].cand
          /\ tr'[u].pc = tr[u].pc \/ (tr[u].pc = "move" /\ tr'[u].pc = "files")
        BY <1>5, <1>6
    <2> QED
        BY <1>1, <1>3, <1>12, <2>1, <2>2, <2>4 DEF SinceInv, Writing
<1>17. \A u \in Trainers : TrainerInv(u)'
    BY <1>2, <1>3, <1>6, <1>15, OthersIdle
<1> QED
    BY <1>7, <1>8, <1>13, <1>14, <1>16, <1>17 DEF IInv

\* The move of the pointer to the candidate.
LEMMA MoveLatestKeeps ==
    ASSUME IInv, NEW t \in Trainers, tr[t].pc = "move", tr[t].i = FinalsPer + 1,
           disk' = [disk EXCEPT !.stage = None, !.latest = tr[t].cand],
           Set(t, [tr[t] EXCEPT !.pc = "verify", !.i = 0]),
           UNCHANGED <<lock, Ghosts>>
    PROVE  IInv'
<1> DEFINE r == [tr[t] EXCEPT !.pc = "verify", !.i = 0]
           c == tr[t].cand
           old == disk.latest
<1>1. /\ TrainerInv(t) /\ SinceInv(t) /\ tr[t] \in TrainerStates /\ DiskInv /\ StoreInv /\ DamageInv
      /\ disk \in DiskStates
      /\ UNCHANGED <<receipts, damaged, launches, crashes>>
    BY DEF IInv, TypeOK, Ghosts
<1>2. /\ c \in Lineages /\ Ahead(c) /\ disk.run /\ lock = t /\ disk.dirs = DirCount
      /\ (~damaged => Exact(disk, Len(c), c)) /\ Len(c) \in Nat /\ Len(c) <= Target /\ c # None
    BY <1>1, LineageSeq, StoreAssumption, Values
       DEF TrainerInv, Writing, Holds, Booted, Generations
<1>3. /\ disk' \in DiskStates /\ disk'.latest = c /\ disk'.finals = disk.finals
      /\ disk'.run /\ disk'.stage = None /\ disk'.dirs = disk.dirs
    BY <1>1, <1>2 DEF DiskStates
<1>4. /\ r \in TrainerStates /\ r.pc = "verify" /\ r.cand = c /\ r.since = tr[t].since
      /\ r.windows = tr[t].windows /\ r.session = tr[t].session /\ r.parent = tr[t].parent
    <2>1. 0 \in 0..FinalsPer + 1
        BY StoreAssumption
    <2> QED
        BY <1>1, <2>1 DEF TrainerStates, PCs
<1> HIDE DEF r
<1>5. tr'[t] = r /\ \A u \in Trainers \ {t} : tr'[u] = tr[u]
    BY DEF IInv, TypeOK, Set, r
<1>6. TypeOK'
    BY <1>1, <1>3, <1>4 DEF IInv, TypeOK, Set, r
<1>7. DiskInv'
    BY <1>1, <1>2, <1>3 DEF DiskInv
<1>8. \/ old = None /\ c = <<>> /\ Len(c) = 0
      \/ old \in Lineages /\ old # None /\ c = old
      \/ /\ old \in Lineages /\ old # None /\ Len(old) \in Nat /\ Len(c) = Len(old) + 1
         /\ \E o \in Outcomes : c = Append(old, o)
    BY <1>1, <1>2, Genesis, LineageSeq DEF Ahead, DiskStates
<1>9. ReceiptsHold'
    <2> SUFFICES ASSUME NEW l \in receipts PROVE IsPrefix(l, c)
        BY <1>1, <1>2, <1>3 DEF ReceiptsHold
    <2>1. l \in Lineages /\ old # None /\ IsPrefix(l, old)
        BY DEF IInv, TypeOK, ReceiptsHold
    <2> QED
        BY <1>8, <2>1, PrefixOrder
<1>10. ASSUME ~damaged, NEW g \in 0..Len(c) PROVE Exact(disk, g, c)
    <2>1. CASE old = None /\ Len(c) = 0
        BY <1>2, <1>10, <2>1
    <2>2. CASE old # None /\ c = old
        BY <1>1, <1>10, <2>2 DEF StoreInv
    <2>3. ASSUME old \in Lineages, old # None, Len(old) \in Nat, Len(c) = Len(old) + 1,
                 NEW o \in Outcomes, c = Append(old, o)
          PROVE  Exact(disk, g, c)
        <3>1. CASE g = Len(c)
            BY <1>2, <1>10, <3>1
        <3>2. CASE g # Len(c)
            <4>1. g \in 0..Len(old)
                BY <2>3, <3>2
            <4>2. Exact(disk, g, old)
                BY <1>1, <1>10, <2>3, <4>1 DEF StoreInv
            <4>3. Prefix(c, g) = Prefix(old, g)
                BY <2>3, <4>1, PrefixLonger
            <4> QED
                BY <4>2, <4>3 DEF Exact
        <3> QED BY <3>1, <3>2
    <2> QED
        BY <1>8, <2>1, <2>2, <2>3
<1>11. ASSUME ~damaged, NEW g \in Len(c) + 2 .. Target PROVE Present(disk, g) = {}
    <2>1. CASE old = None /\ Len(c) = 0
        <3>1. g \in Generations /\ g # 0
            BY <1>2, <2>1, StoreAssumption DEF Generations
        <3> QED
            BY <1>1, <1>11, <2>1, <3>1 DEF StoreInv, Present
    <2>2. CASE old # None /\ c = old
        BY <1>1, <1>11, <2>2 DEF StoreInv
    <2>3. CASE old # None /\ Len(old) \in Nat /\ Len(c) = Len(old) + 1
        <3>1. g \in Len(old) + 2 .. Target
            BY <2>3, StoreAssumption
        <3> QED
            BY <1>1, <1>11, <2>3, <3>1 DEF StoreInv
    <2> QED
        BY <1>8, <2>1, <2>2, <2>3
<1>12. ASSUME ~damaged, Len(c) < Target PROVE \E o \in Outcomes : PartialOf(disk, Append(c, o))
    <2>1. CASE old # None /\ c = old
        BY <1>1, <1>12, <2>1 DEF StoreInv
    <2>2. CASE \A k \in Ordinals : disk.finals[<<Len(c) + 1, k>>] = None
        <3>1. PICK o \in Outcomes : TRUE
            BY StoreAssumption
        <3>2. Len(Append(c, o)) = Len(c) + 1
            BY <1>2, <1>12, Longer
        <3>3. PartialOf(disk, Append(c, o))
            BY <2>2, <3>2 DEF PartialOf
        <3> QED
            BY <3>3
    <2>3. CASE old = None /\ Len(c) = 0
        <3>1. Len(c) + 1 \in Generations /\ Len(c) + 1 # 0
            BY <1>12, <2>3, StoreAssumption DEF Generations
        <3>2. \A k \in Ordinals : disk.finals[<<Len(c) + 1, k>>] = None
            BY <1>1, <1>12, <2>3, <3>1 DEF StoreInv
        <3> QED
            BY <2>2, <3>2
    <2>4. CASE old # None /\ Len(old) \in Nat /\ Len(c) = Len(old) + 1
        <3>1. Len(c) + 1 \in Len(old) + 2 .. Target
            BY <1>12, <2>4, StoreAssumption
        <3>2. \A k \in Ordinals : disk.finals[<<Len(c) + 1, k>>] = None
            BY <1>1, <1>12, <2>4, <3>1 DEF StoreInv, Present
        <3> QED
            BY <2>2, <3>2
    <2> QED
        BY <1>8, <2>1, <2>3, <2>4
<1>13. StoreInv'
    <2>1. \A g, l : Exact(disk', g, l) = Exact(disk, g, l)
        BY <1>3 DEF Exact
    <2>2. \A l : PartialOf(disk', l) = PartialOf(disk, l)
        BY <1>3 DEF PartialOf
    <2>3. \A g : Present(disk', g) = Present(disk, g)
        BY <1>3 DEF Present
    <2> QED
        BY <1>1, <1>2, <1>3, <1>10, <1>11, <1>12, <2>1, <2>2, <2>3 DEF StoreInv
<1>14. /\ c = old => Buried' = Buried
       /\ damaged /\ c # old => Buried'
    <2>1. \A g : SpoiltAt(g)' = SpoiltAt(g)
        BY <1>3 DEF SpoiltAt
    <2>2. Buried' = \E g \in 0..Len(c) : SpoiltAt(g)
        BY <1>2, <1>3, <2>1 DEF Buried
    <2>3. c = old => Buried' = Buried
        BY <1>2, <2>2 DEF Buried
    <2>4. ASSUME damaged, c # old PROVE Buried'
        <3>1. CASE old = None /\ Len(c) = 0
            BY <1>1, <2>2, <2>4, <3>1 DEF DamageInv
        <3>2. CASE old # None /\ Len(old) \in Nat /\ Len(c) = Len(old) + 1
            <4>1. CASE Buried
                <5>1. PICK g \in 0..Len(old) : SpoiltAt(g)
                    BY <4>1 DEF Buried
                <5>2. g \in 0..Len(c)
                    BY <3>2, <5>1
                <5> QED
                    BY <2>2, <5>1, <5>2
            <4>2. CASE ~Buried
                <5>1. SpoiltAt(Len(c)) /\ Len(c) \in 0..Len(c)
                    BY <1>1, <2>4, <3>2, <4>2 DEF DamageInv
                <5> QED
                    BY <2>2, <5>1
            <4> QED BY <4>1, <4>2
        <3> QED
            BY <1>8, <2>4, <3>1, <3>2
    <2> QED
        BY <2>3, <2>4
<1>15. DamageInv'
    <2>1. \A g : SpoiltAt(g)' = SpoiltAt(g)
        BY <1>3 DEF SpoiltAt
    <2> QED
        BY <1>1, <1>2, <1>3, <1>14, <2>1 DEF DamageInv
<1>16. TrainerInv(t)'
    BY <1>1, <1>2, <1>3, <1>4, <1>5 DEF TrainerInv, Holds, Writing
<1>17. \A u \in Trainers : TrainerInv(u)'
    BY <1>2, <1>3, <1>5, <1>16, OthersIdle
<1>18. \A u \in Trainers : SinceInv(u)'
    <2>1. \A u \in Trainers : SinceInv(u)
        BY DEF IInv
    <2>2. \A v \in Trainers : tr'[v].pc \in Writing => tr[v].pc \in Writing /\ tr'[v].cand = tr[v].cand
        BY <1>4, <1>5 DEF Writing
    <2>3. TAKE u \in Trainers
    <2>4. /\ tr'[u].since = tr[u].since /\ tr'[u].windows = tr[u].windows
          /\ tr'[u].parent = tr[u].parent /\ tr'[u].cand = tr[u].cand
          /\ tr'[u].pc = tr[u].pc \/ (tr[u].pc = "move" /\ tr'[u].pc = "verify")
          /\ tr[u].since \in Nat /\ tr[u].windows \in Nat
        BY <1>4, <1>5, StoreAssumption DEF IInv, TypeOK, TrainerStates
    <2>5. CASE c = old
        BY <1>1, <1>3, <1>14, <2>1, <2>2, <2>4, <2>5 DEF SinceInv, Writing
    <2>6. CASE c # old
        <3>1. damaged /\ ~Buried => tr[u].since = 0
            BY <2>1, <2>4, <2>6 DEF SinceInv, Writing
        <3> QED
            BY <1>1, <1>14, <2>1, <2>4, <2>6, <3>1 DEF SinceInv
    <2> QED BY <2>5, <2>6
<1> QED
    BY <1>6, <1>7, <1>9, <1>13, <1>15, <1>17, <1>18 DEF IInv

\* A stage takes its final name.
LEMMA MoveFileKeeps ==
    ASSUME IInv, NEW t \in Trainers, MoveFile(t)
    PROVE  IInv'
<1> DEFINE name == FileAt(t)
           d == [disk EXCEPT
                      !.stage = None,
                      !.run = @ \/ name = RunFile,
                      !.latest = IF name = LatestFile THEN tr[t].cand ELSE @,
                      !.finals = [f \in DOMAIN @ |-> IF f = name THEN tr[t].cand ELSE @[f]]]
           r == [tr[t] EXCEPT
                      !.pc = IF name = LatestFile THEN "verify" ELSE "files",
                      !.i = IF name = LatestFile THEN 0 ELSE @ + 1]
<1>1. CASE Fail(t)
    BY <1>1, FailKeeps DEF MoveFile
<1>2. CASE ~Exists(t) /\ disk' = d /\ Set(t, r) /\ UNCHANGED lock
    <2>1. tr[t].pc = "move" /\ tr[t].pc \in Writing /\ UNCHANGED <<lock, Ghosts>>
          /\ disk \in DiskStates /\ tr[t] \in TrainerStates
        BY <1>2 DEF MoveFile, Writing, IInv, TypeOK
    <2>2. DOMAIN disk.finals = Generations \X Ordinals
        BY <2>1 DEF DiskStates
    <2>3. CASE tr[t].i = 0 /\ name = RunFile
        <3>1. disk' = [disk EXCEPT !.stage = None, !.run = TRUE]
            <4>1. [f \in DOMAIN disk.finals |-> IF f = name THEN tr[t].cand ELSE disk.finals[f]] = disk.finals
                BY <2>1, <2>2, <2>3, Values DEF DiskStates
            <4> QED
                BY <1>2, <2>1, <2>3, <4>1, Values DEF DiskStates
        <3>2. Set(t, [tr[t] EXCEPT !.pc = "files", !.i = 1])
            BY <1>2, <2>3, Values DEF Set
        <3> QED
            BY <2>1, <2>3, <3>1, <3>2, MoveRunKeeps
    <2>4. CASE tr[t].i = FinalsPer + 1 /\ name = LatestFile
        <3>1. disk' = [disk EXCEPT !.stage = None, !.latest = tr[t].cand]
            <4>1. [f \in DOMAIN disk.finals |-> IF f = name THEN tr[t].cand ELSE disk.finals[f]] = disk.finals
                BY <2>1, <2>2, <2>4, Values DEF DiskStates
            <4>2. (disk.run \/ name = RunFile) = disk.run
                BY <2>1, <2>4, Values DEF DiskStates
            <4> QED
                BY <1>2, <2>1, <2>4, <4>1, <4>2, Values DEF DiskStates
        <3>2. Set(t, [tr[t] EXCEPT !.pc = "verify", !.i = 0])
            BY <1>2, <2>4 DEF Set
        <3> QED
            BY <2>1, <2>4, <3>1, <3>2, MoveLatestKeeps
    <2>5. CASE /\ tr[t].i \in Ordinals /\ name = <<Len(tr[t].cand), tr[t].i>>
               /\ name \in Generations \X Ordinals /\ Exists(t) = (disk.finals[name] # None)
        <3>1. disk' = [disk EXCEPT !.stage = None, !.finals[name] = tr[t].cand]
            <4>1. [f \in DOMAIN disk.finals |-> IF f = name THEN tr[t].cand ELSE disk.finals[f]]
                     = [disk.finals EXCEPT ![name] = tr[t].cand]
                BY <2>1, <2>2, <2>5 DEF DiskStates
            <4>2. (disk.run \/ name = RunFile) = disk.run /\ name # LatestFile
                BY <2>1, <2>5, Values DEF DiskStates
            <4> QED
                BY <1>2, <2>1, <4>1, <4>2 DEF DiskStates
        <3>2. Set(t, [tr[t] EXCEPT !.pc = "files", !.i = @ + 1])
            BY <1>2, <2>5, Values DEF Set
        <3>3. disk.finals[name] = None
            BY <1>2, <2>5
        <3> HIDE DEF name
        <3> QED
            BY <2>1, <2>5, <3>1, <3>2, <3>3, MoveFinalKeeps
    <2> QED
        BY <2>1, <2>3, <2>4, <2>5, Files
<1> QED
    BY <1>1, <1>2 DEF MoveFile

\* A foreign writer strikes, once.
LEMMA DamageKeeps ==
    ASSUME IInv, Damage
    PROVE  IInv'
<1>1. PICK g \in Generations, k \in Ordinals :
          disk.finals[<<g, k>>] # None /\ disk' = [disk EXCEPT !.finals[<<g, k>>] = Damaged]
    BY DEF Damage
<1>2. ~damaged /\ damaged' /\ UNCHANGED <<lock, tr, receipts, launches, crashes>> /\ damaged' = TRUE
    BY DEF Damage
<1>3. disk \in DiskStates /\ DiskInv /\ StoreInv
    BY DEF IInv, TypeOK
<1>4. /\ disk' \in DiskStates /\ disk'.latest = disk.latest /\ disk'.run = disk.run
      /\ disk'.stage = disk.stage /\ disk'.dirs = disk.dirs
      /\ disk'.finals[<<g, k>>] = Damaged
    BY <1>1, <1>3 DEF DiskStates
<1>5. TypeOK'
    BY <1>2, <1>4 DEF IInv, TypeOK
<1>6. disk.run /\ DiskInv'
    BY <1>1, <1>3, <1>4 DEF DiskInv
<1>7. StoreInv' /\ ReceiptsHold'
    BY <1>2, <1>4 DEF IInv, StoreInv, ReceiptsHold
<1>8. DamageInv'
    <2>1. SpoiltAt(g)'
        BY <1>4 DEF SpoiltAt
    <2>2. CASE disk.latest = None
        <3>1. g = 0
            BY <1>1, <1>2, <1>3, <2>2 DEF StoreInv
        <3> QED
            BY <1>4, <2>1, <2>2, <3>1 DEF DamageInv
    <2>3. CASE disk.latest # None
        <3>1. Len(disk.latest) \in Nat
            BY <1>3, <2>3, LineageSeq DEF DiskStates, Generations
        <3>2. g \notin Len(disk.latest) + 2 .. Target
            BY <1>1, <1>2, <1>3, <2>3 DEF StoreInv, Present
        <3>3. g <= Len(disk.latest) + 1 /\ g \in Nat /\ g <= Target
            BY <3>1, <3>2, StoreAssumption DEF Generations
        <3>4. CASE g \in 0..Len(disk.latest)
            BY <1>4, <2>1, <2>3, <3>4 DEF DamageInv, Buried
        <3>5. CASE g = Len(disk.latest) + 1
            BY <1>4, <2>1, <2>3, <3>1, <3>3, <3>5, StoreAssumption DEF DamageInv
        <3> QED
            BY <3>1, <3>3, <3>4, <3>5
    <2> QED BY <2>2, <2>3
<1>9. ASSUME NEW t \in Trainers PROVE TrainerInv(t)' /\ SinceInv(t)'
    <2>1. TrainerInv(t) /\ SinceInv(t) /\ tr[t].windows \in Nat
        BY StoreAssumption DEF IInv, TypeOK, TrainerStates
    <2>2. Ahead(tr[t].cand)' = Ahead(tr[t].cand)
        BY <1>2, <1>4 DEF Ahead
    <2>3. TrainerInv(t)'
        BY <1>2, <1>4, <2>1, <2>2 DEF TrainerInv
    <2>4. SinceInv(t)'
        BY <1>2, <2>1 DEF SinceInv
    <2> QED BY <2>3, <2>4
<1> QED
    BY <1>5, <1>6, <1>7, <1>8, <1>9 DEF IInv

------------------------------------------------------------------------------
(* Induction, and what follows.                                            *)

\* The initial state satisfies the invariant.
LEMMA InitIInv == Init => IInv
<1> SUFFICES ASSUME Init PROVE IInv
    OBVIOUS
<1>1. /\ disk.dirs = 0 /\ disk.run = FALSE /\ disk.latest = None /\ disk.stage = None
      /\ disk.finals = [f \in Generations \X Ordinals |-> None]
    BY DEF Init
<1>2. \A t \in Trainers : tr[t] = Off
    BY DEF Init
<1>3. TypeOK
    <2>1. disk \in DiskStates
        BY <1>1, StoreAssumption DEF Init, DiskStates
    <2>2. tr \in [Trainers -> TrainerStates]
        BY OffState DEF Init
    <2>3. launches \in 0..MaxLaunches /\ crashes \in 0..MaxCrashes
        BY StoreAssumption DEF Init
    <2> QED
        BY <2>1, <2>2, <2>3 DEF Init, TypeOK
<1>4. DiskInv
    BY <1>1 DEF DiskInv
<1>5. StoreInv
    BY <1>1 DEF StoreInv
<1>6. DamageInv /\ ReceiptsHold
    BY DEF Init, DamageInv, ReceiptsHold
<1>7. ASSUME NEW t \in Trainers PROVE TrainerInv(t) /\ SinceInv(t)
    <2>1. TrainerInv(t)
        BY <1>2, OffState DEF TrainerInv, Holds, Booted, Writing
    <2>2. SinceInv(t)
        BY <1>2, OffState DEF SinceInv, Init
    <2> QED BY <2>1, <2>2
<1> QED
    BY <1>3, <1>4, <1>5, <1>6, <1>7 DEF IInv

\* Every step keeps the invariant.
LEMMA NextIInv == IInv /\ [Next]_vars => IInv'
<1> SUFFICES ASSUME IInv, [Next]_vars PROVE IInv'
    OBVIOUS
<1>1. ASSUME NEW t \in Trainers, Launch(t) \/ Step(t) \/ Die(t) PROVE IInv'
    BY <1>1, LaunchKeeps, DieKeeps, BootScanKeeps, BootLockKeeps, MakeDirectoryKeeps,
       BootEndKeeps, ResumeKeeps, TrainKeeps, PublishBeginKeeps, ResumeFileKeeps,
       StageFileKeeps, MoveFileKeeps, VerifyKeeps, ValidateKeeps DEF Step
<1>2. CASE Damage
    BY <1>2, DamageKeeps
<1>3. CASE UNCHANGED vars
    <2> USE <1>3 DEF vars
    <2>1. TypeOK' /\ DiskInv' /\ ReceiptsHold'
        BY DEF IInv, TypeOK, DiskInv, ReceiptsHold
    <2>2. StoreInv'
        BY DEF IInv, StoreInv
    <2>3. Buried' = Buried /\ DamageInv'
        BY DEF IInv, DamageInv, Buried, SpoiltAt
    <2>4. ASSUME NEW t \in Trainers PROVE TrainerInv(t)' /\ SinceInv(t)'
        BY <2>3 DEF IInv, TrainerInv, SinceInv, Ahead
    <2> QED
        BY <2>1, <2>2, <2>3, <2>4 DEF IInv
<1> QED
    BY <1>1, <1>2, <1>3 DEF Next

\* The invariant holds always, and with it the types: what a trainer under the
\* lock is doing agrees with the disk in every reachable state.
THEOREM Inductive == Spec => []IInv
    BY InitIInv, NextIInv, PTL DEF Spec

\* What was acknowledged with a receipt stays in the pointer's history, however
\* many trainers work on stale state, die or meet spoiled finals.
THEOREM ReceiptsOutliveTrainers == Spec => []ReceiptsHold
<1>1. IInv => ReceiptsHold
    BY DEF IInv
<1> QED
    BY <1>1, Inductive, PTL

\* Wherever a trainer died, the next launch is admitted by the bootstrap and
\* then by genesis recovery or the walk, and the leftovers can be completed.
THEOREM EveryCrashRecovers == Spec => []CrashRecoverable
<1>1. ASSUME IInv, lock = None, ~damaged
      PROVE  /\ BootstrapAdmits(disk)
             /\ IF disk.latest = None THEN GenesisAuthority(disk) ELSE Walk(disk)
             /\ disk.latest # None /\ Len(disk.latest) < Target =>
                   \E o \in Outcomes : PartialOf(disk, Append(disk.latest, o))
    <2>1. DiskInv /\ StoreInv /\ disk \in DiskStates
        BY <1>1 DEF IInv, TypeOK
    <2>2. ~disk.run => \A g \in Generations : Present(disk, g) = {}
        BY <2>1 DEF DiskInv, Present
    <2>3. BootstrapAdmits(disk)
        BY <2>1, <2>2, Values DEF DiskInv, BootstrapAdmits
    <2>4. ASSUME disk.latest = None PROVE GenesisAuthority(disk)
        <3>1. \A g \in 1..Target : Present(disk, g) = {}
            BY <1>1, <2>1, <2>4, StoreAssumption DEF StoreInv, Present, Generations
        <3>2. PartialOf(disk, <<>>)
            BY <1>1, <2>1, <2>4, Genesis, StoreAssumption DEF StoreInv, PartialOf, Generations
        <3>3. 0 \in Generations
            BY StoreAssumption DEF Generations
        <3> QED
            BY <2>1, <2>2, <2>4, <3>1, <3>2, <3>3 DEF GenesisAuthority, DiskInv
    <2>5. ASSUME disk.latest # None PROVE Walk(disk)
        BY <1>1, <2>1, <2>5 DEF Walk, StoreInv, DiskInv
    <2>6. disk.latest # None /\ Len(disk.latest) < Target =>
              \E o \in Outcomes : PartialOf(disk, Append(disk.latest, o))
        BY <1>1, <2>1 DEF StoreInv
    <2> QED
        BY <2>3, <2>4, <2>5, <2>6
<1>2. IInv => CrashRecoverable
    BY <1>1 DEF CrashRecoverable
<1> QED
    BY <1>2, Inductive, PTL

\* A spoiled final, wherever it lies, is noticed before more than Cadence
\* further publications are begun on top of it.
THEOREM DamageIsNoticed == Spec => []DamageNoticed
<1>1. ASSUME IInv, NEW t \in Trainers PROVE tr[t].since <= Cadence
    <2>1. SinceInv(t) /\ tr[t].since \in Nat /\ tr[t].windows \in 0..Cadence
        BY <1>1 DEF IInv, TypeOK, TrainerStates
    <2> QED
        BY <2>1, StoreAssumption DEF SinceInv
<1>2. IInv => DamageNoticed
    BY <1>1 DEF DamageNoticed
<1> QED
    BY <1>2, Inductive, PTL
=============================================================================
