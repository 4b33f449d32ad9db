---------------------------- MODULE TrainingStore ----------------------------
(***************************************************************************)
(* The native training store and the science loop that fills it            *)
(* (mtg-kernel/src/native_training_store_*_v2.rs, native_science_loop_v1). *)
(* A store directory holds run.json, the immutable finals of one           *)
(* generation after another, and latest.json, the pointer that commits a   *)
(* generation.  A trainer bootstraps the directory, publishes genesis if   *)
(* no pointer exists, and then resumes, trains a window, and publishes the *)
(* next generation until the target.  All mutation is made under a         *)
(* nonblocking exclusive lock that is given up between the calls, so       *)
(* trainers started twice interleave; a trainer may die anywhere.          *)
(*                                                                         *)
(* A generation's files bind its whole history, so their content is the    *)
(* sequence of training outcomes up to it (its lineage); genesis is <<>>.  *)
(* One update per window: a generation's index is its lineage's length.    *)
(* A completed write-through move survives (see DurablePublication).       *)
(***************************************************************************)
EXTENDS Naturals, Sequences, SequencesExt

CONSTANTS
    Trainers,      \* processes running the science loop on this store
    Target,        \* requested_successful_updates
    FinalsPer,     \* immutable finals of a generation
    DirCount,      \* subdirectories of the root
    Cadence,       \* PERIODIC_FULL_WALK_CADENCE_WINDOWS_V1
    Outcomes,      \* what training one window may yield
    MaxLaunches,   \* how many processes are started
    MaxCrashes,    \* how many of them die
    MayDamage,     \* whether a foreign writer may spoil one final
    Damaged,       \* what a foreign writer leaves in place of a final's bytes
    None

Generations == 0..Target
Ordinals == 1..FinalsPer

Lineages == UNION {[1..g -> Outcomes] : g \in Generations}

\* The names of run.json and latest.json, beside <<generation, ordinal>>.
RunFile == <<0, 0>>
LatestFile == <<0, FinalsPer + 1>>

ASSUME StoreAssumption ==
    /\ Target \in Nat \ {0} /\ FinalsPer \in Nat \ {0} /\ DirCount \in Nat \ {0}
    /\ Cadence \in Nat \ {0} /\ MaxLaunches \in Nat /\ MaxCrashes \in Nat
    /\ MayDamage \in BOOLEAN /\ Outcomes # {}
    /\ None \notin Trainers \cup Lineages \cup (Generations \X (0..FinalsPer + 1))
    /\ Damaged \notin Lineages \cup {None}

VARIABLES
    disk,      \* the directory tree
    lock,      \* the trainer that holds the exclusive range lock, or None
    tr,        \* the trainers
    receipts,  \* lineages for which a persistence receipt was issued
    damaged,   \* whether a foreign writer has struck
    launches, crashes
    \* tr[t].since: publications t has begun since the foreign writer struck

vars == <<disk, lock, tr, receipts, damaged, launches, crashes>>

PCs == {"off", "scan", "boot", "dirs", "genesis", "resume", "train", "publish",
        "files", "move", "verify", "validate", "done", "failed"}

DiskStates ==
    [dirs : 0..DirCount, run : BOOLEAN,
     finals : [Generations \X Ordinals -> Lineages \cup {None, Damaged}],
     latest : Lineages \cup {None},
     stage : {None, RunFile, LatestFile} \cup (Generations \X Ordinals)]

TrainerStates ==
    [pc : PCs, seen : BOOLEAN, cand : Lineages \cup {None},
     parent : Lineages \cup {None}, session : BOOLEAN,
     windows : 0..Cadence, i : 0..FinalsPer + 1, since : Nat]

TypeOK ==
    /\ disk \in DiskStates
    /\ lock \in Trainers \cup {None}
    /\ tr \in [Trainers -> TrainerStates]
    /\ receipts \subseteq Lineages
    /\ damaged \in BOOLEAN
    /\ launches \in 0..MaxLaunches /\ crashes \in 0..MaxCrashes

Off == [pc |-> "off", seen |-> FALSE, cand |-> None, parent |-> None,
        session |-> FALSE, windows |-> 0, i |-> 0, since |-> 0]

Init ==
    /\ disk = [dirs |-> 0, run |-> FALSE, latest |-> None, stage |-> None,
               finals |-> [f \in Generations \X Ordinals |-> None]]
    /\ lock = None
    /\ tr = [t \in Trainers |-> Off]
    /\ receipts = {} /\ damaged = FALSE
    /\ launches = 0 /\ crashes = 0

------------------------------------------------------------------------------
(* What the checks of the code accept.                                     *)

Prefix(l, g) == SubSeq(l, 1, g)

Present(d, g) == {k \in Ordinals : d.finals[<<g, k>>] # None}

\* Generation g is complete and byte-exact for lineage l.
Exact(d, g, l) == \A k \in Ordinals : d.finals[<<g, k>>] = Prefix(l, g)

\* verify_preexisting_candidate_finals: finals already there are candidate's.
PartialOf(d, l) ==
    \A k \in Ordinals : d.finals[<<Len(l), k>>] \in {None, l}

\* classify_root and the emptiness of the directories before run.json exists.
BootstrapAdmits(d) ==
    /\ d.run \/ (d.latest = None /\ d.stage \in {None, RunFile})
    /\ d.run \/ \A g \in Generations : Present(d, g) = {}
    /\ d.run => d.dirs = DirCount
    /\ d.stage = RunFile => d.dirs = DirCount

\* walk_complete_store: every generation up to the pointer, and beyond it
\* finals of the next boundary only.
Walk(d) ==
    /\ d.run /\ d.latest # None
    /\ \A g \in 0..Len(d.latest) : Exact(d, g, d.latest)
    /\ \A g \in Len(d.latest) + 2 .. Target : Present(d, g) = {}

\* try_tip_shortcut and the tip proof of the publisher: the pointer and the
\* finals of its generation are still those of lineage l.
TipCurrent(d, l) == d.run /\ d.latest = l /\ Exact(d, Len(l), l)

\* require_current_publication_authority for genesis.
GenesisAuthority(d) ==
    /\ \A g \in 1..Target : Present(d, g) = {}
    /\ IF d.run
       THEN PartialOf(d, <<>>) /\ (d.latest # None => Walk(d) /\ d.latest = <<>>)
       ELSE d.latest = None /\ Present(d, 0) = {} /\ d.stage \in {None, RunFile}

\* Mutant: a retained tip proof is trusted without looking at the disk again.
TrainedAuthority_TrustsProof(d, parent, cand) == d.run /\ PartialOf(d, cand)

\* require_current_publication_authority for a candidate trained on `parent`:
\* the parent is current, or the candidate itself already is.
TrainedAuthority(d, parent, cand) ==
    /\ d.run /\ PartialOf(d, cand)
    /\ TipCurrent(d, parent) \/ (Walk(d) /\ d.latest \in {parent, cand})

------------------------------------------------------------------------------
(* Building blocks of the actions.                                         *)

Set(t, r) == tr' = [tr EXCEPT ![t] = r]

Ghosts == <<receipts, damaged, launches, crashes>>

\* The call returns an error and the process ends; its lock goes with it.  A
\* lock held by another trainer is such an error: nobody waits for it.
Fail(t) ==
    /\ Set(t, [Off EXCEPT !.pc = "failed"])
    /\ lock' = IF lock = t THEN None ELSE lock
    /\ UNCHANGED disk

------------------------------------------------------------------------------
(* bootstrap_native_training_store_v2.                                     *)

Launch(t) ==
    /\ tr[t].pc \in {"off", "failed"} /\ launches < MaxLaunches
    /\ launches' = launches + 1
    /\ Set(t, [Off EXCEPT !.pc = "scan"])
    /\ UNCHANGED <<disk, lock, receipts, damaged, crashes>>

\* The inventory before the lock is taken.
BootScan(t) ==
    /\ tr[t].pc = "scan"
    /\ IF BootstrapAdmits(disk)
       THEN /\ Set(t, [tr[t] EXCEPT !.pc = "boot", !.seen = disk.run])
            /\ UNCHANGED <<disk, lock>>
       ELSE Fail(t)
    /\ UNCHANGED Ghosts

\* The lock, and a rescan that must find the same state of run.json.
BootLock(t) ==
    /\ tr[t].pc = "boot"
    /\ IF lock = None /\ BootstrapAdmits(disk) /\ disk.run = tr[t].seen
       THEN /\ lock' = t
            /\ Set(t, [tr[t] EXCEPT !.pc = "dirs"])
            /\ UNCHANGED disk
       ELSE Fail(t)
    /\ UNCHANGED Ghosts

MakeDirectory(t) ==
    /\ tr[t].pc = "dirs" /\ disk.dirs < DirCount
    /\ disk' = [disk EXCEPT !.dirs = @ + 1]
    /\ UNCHANGED <<lock, tr>> /\ UNCHANGED Ghosts

\* An orphaned run stage is deleted, the lock released; whether genesis is
\* required is decided here, before the publisher has the lock again.
BootEnd(t) ==
    /\ tr[t].pc = "dirs" /\ disk.dirs = DirCount
    /\ disk' = [disk EXCEPT !.stage = IF @ = RunFile /\ ~disk.run THEN None ELSE @]
    /\ lock' = None
    /\ Set(t, [tr[t] EXCEPT !.pc = IF disk.latest = None THEN "genesis" ELSE "resume"])
    /\ UNCHANGED Ghosts

------------------------------------------------------------------------------
(* The loop: resume, train, publish.                                       *)

\* Mutant: the full walk is due one window late.
SessionFresh_Late(t) == tr[t].session /\ tr[t].windows <= Cadence

\* A session is retained and no full walk is due.
SessionFresh(t) == tr[t].session /\ tr[t].windows < Cadence

\* resume_native_training_store_with_session_v2: with a retained session that
\* is not due for a full walk the tip alone is probed; every other case, and a
\* probe that declines, walks the store.  Stages the walk found are deleted.
Resume(t) ==
    /\ tr[t].pc = "resume"
    /\ LET me == tr[t]
           probe == SessionFresh(t) /\ TipCurrent(disk, me.parent)
       IN IF lock = None /\ (probe \/ Walk(disk))
          THEN /\ Set(t, [me EXCEPT
                      !.pc = IF Len(disk.latest) = Target THEN "validate" ELSE "train",
                      !.parent = disk.latest, !.session = FALSE,
                      !.windows = IF probe THEN @ ELSE 0])
               /\ disk' = [disk EXCEPT !.stage = IF probe THEN @ ELSE None]
               /\ UNCHANGED lock
          ELSE Fail(t)
    /\ UNCHANGED Ghosts

\* prepare_segment_v2 on the reconstructed executor, without the lock.
Train(t) ==
    /\ tr[t].pc = "train"
    /\ \E o \in Outcomes :
          Set(t, [tr[t] EXCEPT !.pc = "publish", !.cand = Append(tr[t].parent, o)])
    /\ UNCHANGED <<disk, lock>> /\ UNCHANGED Ghosts

\* publish_generation_v2 up to the sweep: inventory, authority over the
\* current store, removal of abandoned stages.  `windows` counts the windows
\* since a full walk; a publication that walks resets it.
PublishBegin(t) ==
    /\ tr[t].pc \in {"genesis", "publish"}
    /\ LET me == tr[t]
           genesis == me.pc = "genesis"
           authority == IF genesis THEN GenesisAuthority(disk)
                        ELSE TrainedAuthority(disk, me.parent, me.cand)
           shortcut == ~genesis /\ TipCurrent(disk, me.parent)
       IN IF lock = None /\ authority
          THEN /\ lock' = t
               /\ disk' = [disk EXCEPT !.stage = None]
               /\ Set(t, [me EXCEPT !.pc = "files", !.i = 0,
                      !.cand = IF genesis THEN <<>> ELSE @,
                      !.windows = IF shortcut THEN @ + 1 ELSE 0,
                      !.since = IF damaged THEN @ + 1 ELSE 0])
          ELSE Fail(t)
    /\ UNCHANGED Ghosts

\* Mutant: the first final is published before run.json.
FileAt_FinalFirst(t) ==
    CASE tr[t].i = 0 -> <<Len(tr[t].cand), 1>>
      [] tr[t].i = 1 -> RunFile
      [] tr[t].i = FinalsPer + 1 -> LatestFile
      [] OTHER -> <<Len(tr[t].cand), tr[t].i>>

\* The file published at ordinal i: run.json, the finals, latest.json.
FileAt(t) ==
    CASE tr[t].i = 0 -> RunFile
      [] tr[t].i = FinalsPer + 1 -> LatestFile
      [] OTHER -> <<Len(tr[t].cand), tr[t].i>>

\* The immutable file at the ordinal exists; it does, exactly as it should be.
Exists(t) ==
    CASE FileAt(t) = RunFile -> disk.run
      [] FileAt(t) = LatestFile -> FALSE
      [] OTHER -> disk.finals[FileAt(t)] # None

Matches(t) == FileAt(t) = RunFile \/ disk.finals[FileAt(t)] = tr[t].cand

\* The candidate generation read back from disk, with no stage left anywhere.
Revalidates(t) == disk.stage = None /\ disk.run /\ Exact(disk, Len(tr[t].cand), tr[t].cand)

\* establish_run_authority and publish_or_resume_immutable on a file that is
\* there already: accepted if exact, corruption otherwise.
ResumeFile(t) ==
    /\ tr[t].pc = "files" /\ Exists(t)
    /\ IF Matches(t)
       THEN Set(t, [tr[t] EXCEPT !.i = @ + 1]) /\ UNCHANGED <<disk, lock>>
       ELSE Fail(t)
    /\ UNCHANGED Ghosts

\* The staging file is created new and written.  The pointer is staged only
\* after the whole generation has been read back.
StageFile(t) ==
    /\ tr[t].pc = "files" /\ ~Exists(t)
    /\ IF disk.stage = None /\ (FileAt(t) = LatestFile => Revalidates(t))
       THEN /\ disk' = [disk EXCEPT !.stage = FileAt(t)]
            /\ Set(t, [tr[t] EXCEPT !.pc = "move"])
            /\ UNCHANGED lock
       ELSE Fail(t)
    /\ UNCHANGED Ghosts

\* The stage takes the final name: without replacing for the immutable files,
\* replacing for the pointer.
MoveFile(t) ==
    /\ tr[t].pc = "move"
    /\ LET name == FileAt(t)
       IN IF disk.stage = name /\ ~Exists(t)
          THEN /\ disk' = [disk EXCEPT
                      !.stage = None,
                      !.run = @ \/ name = RunFile,
                      !.latest = IF name = LatestFile THEN tr[t].cand ELSE @,
                      !.finals = [f \in DOMAIN @ |-> IF f = name THEN tr[t].cand ELSE @[f]]]
               /\ Set(t, [tr[t] EXCEPT
                      !.pc = IF name = LatestFile THEN "verify" ELSE "files",
                      !.i = IF name = LatestFile THEN 0 ELSE @ + 1])
               /\ UNCHANGED lock
          ELSE Fail(t)
    /\ UNCHANGED Ghosts

\* revalidate_latest_and_referenced: only what is read back now sources the
\* receipt.  The lock is released and the session carried to the next window.
Verify(t) ==
    /\ tr[t].pc = "verify"
    /\ LET me == tr[t]
       IN IF Revalidates(t) /\ disk.latest = me.cand
          THEN /\ receipts' = receipts \cup {me.cand}
               /\ lock' = None
               /\ Set(t, [me EXCEPT !.pc = "resume", !.parent = me.cand,
                                    !.cand = None, !.session = Len(me.cand) > 0])
               /\ UNCHANGED <<disk, damaged, launches, crashes>>
          ELSE Fail(t) /\ UNCHANGED Ghosts

\* validate_native_training_store_v2 under the shared lock, after the target.
Validate(t) ==
    /\ tr[t].pc = "validate"
    /\ IF lock = None /\ Walk(disk) /\ Len(disk.latest) = Target
       THEN Set(t, [Off EXCEPT !.pc = "done"]) /\ UNCHANGED <<disk, lock>>
       ELSE Fail(t)
    /\ UNCHANGED Ghosts

------------------------------------------------------------------------------
(* Faults.                                                                 *)

Die(t) ==
    /\ tr[t].pc \notin {"off", "failed", "done"} /\ crashes < MaxCrashes
    /\ crashes' = crashes + 1
    /\ Set(t, Off)
    /\ lock' = IF lock = t THEN None ELSE lock
    /\ UNCHANGED <<disk, receipts, damaged, launches>>

\* Somebody else spoils a published final.
Damage ==
    /\ MayDamage /\ ~damaged
    /\ \E f \in Generations \X Ordinals :
          /\ disk.finals[f] # None
          /\ disk' = [disk EXCEPT !.finals[f] = Damaged]
    /\ damaged' = TRUE
    /\ UNCHANGED <<lock, tr, receipts, launches, crashes>>

Step(t) ==
    \/ BootScan(t) \/ BootLock(t) \/ MakeDirectory(t) \/ BootEnd(t)
    \/ Resume(t) \/ Train(t) \/ PublishBegin(t) \/ ResumeFile(t)
    \/ StageFile(t) \/ MoveFile(t) \/ Verify(t) \/ Validate(t)

Next ==
    \/ \E t \in Trainers : Launch(t) \/ Step(t) \/ Die(t)
    \/ Damage

Spec == Init /\ [][Next]_vars

------------------------------------------------------------------------------
(* Properties.                                                             *)

\* Whatever was acknowledged with a receipt stays: the pointer never goes back
\* or over to another history, however many trainers work on stale state.
ReceiptsHold ==
    \A l \in receipts : disk.latest # None /\ IsPrefix(l, disk.latest)

\* Wherever a trainer died, what it left is admitted by the next launch: by
\* the bootstrap, and then by genesis recovery or by the walk, with the finals
\* beyond the pointer all of one candidate that can be completed.
CrashRecoverable ==
    lock = None /\ ~damaged =>
        /\ BootstrapAdmits(disk)
        /\ IF disk.latest = None THEN GenesisAuthority(disk) ELSE Walk(disk)
        /\ disk.latest # None /\ Len(disk.latest) < Target =>
              \E o \in Outcomes : PartialOf(disk, Append(disk.latest, o))

\* A spoiled final, wherever it lies in the history, is noticed before more
\* than Cadence further publications are begun on top of it.
DamageNoticed == \A t \in Trainers : tr[t].since <= Cadence
=============================================================================
