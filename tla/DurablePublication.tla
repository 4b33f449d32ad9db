------------------------- MODULE DurablePublication -------------------------
(***************************************************************************)
(* Publication of files through a staging name: `publish_new_file_v1`      *)
(* (write, sync, verify, hard-link, sync the directory, remove the stage)  *)
(* and the move-based `publish_immutable_file_by_move_v2` and              *)
(* `replace_file_by_move_v2`, over one directory that loses what was not   *)
(* synced when the power fails.                                            *)
(*                                                                         *)
(* Publishers are threads or processes that share the directory and no     *)
(* lock.  Every system call is an action.  An I/O error, a refused check   *)
(* and the death of the process look the same from outside: the attempt    *)
(* stops where it is, runs no cleanup and returns no receipt (`Abort`).    *)
(* The directory is Unix's: `sync_parent_namespace_v1` really syncs it.    *)
(*                                                                         *)
(* Not modelled: a foreign process rewriting the directory (callers must   *)
(* own it exclusively, so revalidate_parent_v1 finds the parent it         *)
(* captured), and reuse of an inode number after its last link is gone.    *)
(***************************************************************************)
EXTENDS Naturals, Sequences, FiniteSets

CONSTANTS
    Writers,       \* concurrent publishers
    StageNames,    \* staging child names
    FinalNames,    \* final names published without replacement
    PointerNames,  \* final names published by replacement
    Values,        \* the caller's bytes
    None,          \* an absent directory entry
    Torn,          \* anything else a file may hold: empty, short, garbage
    MaxInodes,     \* bound on the staging files ever created
    MaxPowerLosses \* bound on the power failures

Finals == FinalNames \cup PointerNames
Names == StageNames \cup Finals
Inodes == 1..MaxInodes

ASSUME NameAssumption ==
    /\ StageNames \cap FinalNames = {} /\ StageNames \cap PointerNames = {}
    /\ FinalNames \cap PointerNames = {}
ASSUME ValueAssumption == None \notin Values /\ Torn \notin Values /\ None # Torn
ASSUME BoundAssumption == MaxInodes \in Nat /\ MaxPowerLosses \in Nat /\ None \notin Nat

Modes == {"link", "move", "replace"}
Targets(mode) == IF mode = "replace" THEN PointerNames ELSE FinalNames

VARIABLES
    dir,       \* the directory as processes see it: name -> inode or None
    maybe,     \* for each name, the entries a power failure may leave
    data,      \* bytes of each inode as processes see them
    synced,    \* inodes whose bytes are on disk
    nextInode, \* the next staging file's inode
    pub,       \* the publication each writer is in the middle of
    receipts,  \* ghost: publications that returned a receipt
    verified,  \* ghost: receipts that verification returned since the last boot
    moved,     \* ghost: inodes in the order they were published at each pointer
    losses     \* power failures so far

disk == <<dir, maybe, data, synced, nextInode>>
ghosts == <<receipts, verified, moved>>
vars == <<dir, maybe, data, synced, nextInode, pub, receipts, verified, moved,
          losses>>

NoAttempt == [pc |-> "idle", mode |-> "link", stage |-> None, final |-> None,
              bytes |-> None, inode |-> 0]

Init ==
    /\ dir = [n \in Names |-> None]
    /\ maybe = [n \in Names |-> {None}]
    /\ data = [i \in Inodes |-> Torn]
    /\ synced = {}
    /\ nextInode = 1
    /\ pub = [w \in Writers |-> NoAttempt]
    /\ receipts = {} /\ verified = {}
    /\ moved = [p \in PointerNames |-> <<>>]
    /\ losses = 0

-----------------------------------------------------------------------------
(* The directory.                                                          *)

\* One atomic namespace operation that gives the names in DOMAIN f the entries f.
SetEntries(f) ==
    /\ dir' = [n \in Names |-> IF n \in DOMAIN f THEN f[n] ELSE dir[n]]
    /\ maybe' = [n \in Names |-> IF n \in DOMAIN f THEN maybe[n] \cup {f[n]} ELSE maybe[n]]

\* sync_all on the directory handle: what is visible is what survives.
SyncDirectory == maybe' = [n \in Names |-> {dir[n]}]

-----------------------------------------------------------------------------
(* One publication, system call by system call.                            *)

At(w, pc) == pub[w].pc = pc
Goto(w, pc) == pub' = [pub EXCEPT ![w].pc = pc]

\* Mutant: create without create_new opens, and truncates, another's stage.
CreateStage_Truncates(w, mode, stage, final, bytes) ==
    /\ At(w, "idle")
    /\ nextInode <= MaxInodes
    /\ LET inode == IF dir[stage] = None THEN nextInode ELSE dir[stage]
       IN /\ SetEntries([n \in {stage} |-> inode])
          /\ data' = [data EXCEPT ![inode] = Torn]
          /\ synced' = synced \ {inode}
          /\ nextInode' = IF inode = nextInode THEN nextInode + 1 ELSE nextInode
          /\ pub' = [pub EXCEPT ![w] = [pc |-> "write", mode |-> mode, stage |-> stage,
                                        final |-> final, bytes |-> bytes,
                                        inode |-> inode]]
    /\ UNCHANGED <<ghosts, losses>>

\* The call: the caller's bytes are validated and the child names distinct,
\* and create_new refuses an existing stage, which is debris of another attempt.
CreateStage(w, mode, stage, final, bytes) ==
    /\ At(w, "idle")
    /\ nextInode <= MaxInodes
    /\ dir[stage] = None
    /\ SetEntries([n \in {stage} |-> nextInode])
    /\ nextInode' = nextInode + 1
    /\ pub' = [pub EXCEPT ![w] = [pc |-> "write", mode |-> mode, stage |-> stage,
                                  final |-> final, bytes |-> bytes,
                                  inode |-> nextInode]]
    /\ UNCHANGED <<data, synced, ghosts, losses>>

WriteStage(w) ==
    /\ At(w, "write")
    /\ data' = [data EXCEPT ![pub[w].inode] = pub[w].bytes]
    /\ Goto(w, "sync")
    /\ UNCHANGED <<dir, maybe, synced, nextInode, ghosts, losses>>

\* Mutant: the staging file is not synced before it is published.
SyncStage_Skipped(w) ==
    /\ At(w, "sync")
    /\ Goto(w, "verify")
    /\ UNCHANGED <<disk, ghosts, losses>>

SyncStage(w) ==
    /\ At(w, "sync")
    /\ synced' = synced \cup {pub[w].inode}
    /\ Goto(w, "verify")
    /\ UNCHANGED <<dir, maybe, data, nextInode, ghosts, losses>>

\* recapture_exact_*: the path still names this inode and it reads back as
\* the caller's bytes.
Recaptures(w, name) ==
    /\ dir[name] = pub[w].inode
    /\ data[pub[w].inode] = pub[w].bytes

\* recapture_existing_regular_identity_v1: the file a path names, if any.
ExistingIdentity(name) == dir[name]

\* reject_final_stage_alias_v2: whatever the final names is another file.
NotAlias(w) == ExistingIdentity(pub[w].final) # pub[w].inode

\* v1 recaptures the stage twice.  v2 does it three times, the last two one
\* after the other, and then checks that final and stage are not one file.
VerifyStage(w) ==
    /\ \/ /\ At(w, "verify") /\ Goto(w, "reverify")
          /\ Recaptures(w, pub[w].stage)
       \/ /\ At(w, "reverify") /\ Goto(w, "publish")
          /\ Recaptures(w, pub[w].stage)
          /\ pub[w].mode # "link" => NotAlias(w)
    /\ UNCHANGED <<disk, ghosts, losses>>

\* v1: hard_link, which refuses an existing final.
LinkFinal(w) ==
    /\ At(w, "publish") /\ pub[w].mode = "link"
    /\ dir[pub[w].stage] # None
    /\ dir[pub[w].final] = None
    /\ SetEntries([n \in {pub[w].final} |-> dir[pub[w].stage]])
    /\ Goto(w, "syncdir")
    /\ UNCHANGED <<data, synced, nextInode, ghosts, losses>>

\* Mutant: a rename without RENAME_NOREPLACE.
MoveNoReplace_PlainRename(w) ==
    /\ At(w, "publish") /\ pub[w].mode = "move"
    /\ dir[pub[w].stage] # None
    /\ SetEntries([n \in {pub[w].stage, pub[w].final} |->
                      IF n = pub[w].final THEN dir[pub[w].stage] ELSE None])
    /\ Goto(w, "syncdir")
    /\ UNCHANGED <<data, synced, nextInode, ghosts, losses>>

\* v2: renameat2(RENAME_NOREPLACE), which refuses an existing final.
MoveNoReplace(w) ==
    /\ At(w, "publish") /\ pub[w].mode = "move"
    /\ dir[pub[w].stage] # None
    /\ dir[pub[w].final] = None
    /\ SetEntries([n \in {pub[w].stage, pub[w].final} |->
                      IF n = pub[w].final THEN dir[pub[w].stage] ELSE None])
    /\ Goto(w, "syncdir")
    /\ UNCHANGED <<data, synced, nextInode, ghosts, losses>>

\* v2: rename over whatever the pointer names.
MoveReplace(w) ==
    /\ At(w, "publish") /\ pub[w].mode = "replace"
    /\ dir[pub[w].stage] # None
    /\ SetEntries([n \in {pub[w].stage, pub[w].final} |->
                      IF n = pub[w].final THEN dir[pub[w].stage] ELSE None])
    /\ moved' = [moved EXCEPT ![pub[w].final] = Append(@, dir[pub[w].stage])]
    /\ Goto(w, "syncdir")
    /\ UNCHANGED <<data, synced, nextInode, receipts, verified, losses>>

\* Mutants: the directory is not synced after the move, or not after cleanup.
SyncNamespace_NotAfterMove(w) ==
    /\ At(w, "syncdir") \/ At(w, "synccleanup")
    /\ IF At(w, "syncdir") THEN UNCHANGED maybe ELSE SyncDirectory
    /\ Goto(w, IF At(w, "syncdir") THEN "verifyfinal" ELSE "accept")
    /\ UNCHANGED <<dir, data, synced, nextInode, ghosts, losses>>

SyncNamespace_NotAfterCleanup(w) ==
    /\ At(w, "syncdir") \/ At(w, "synccleanup")
    /\ IF At(w, "syncdir") THEN SyncDirectory ELSE UNCHANGED maybe
    /\ Goto(w, IF At(w, "syncdir") THEN "verifyfinal" ELSE "accept")
    /\ UNCHANGED <<dir, data, synced, nextInode, ghosts, losses>>

SyncNamespace(w) ==
    /\ At(w, "syncdir") \/ At(w, "synccleanup")
    /\ SyncDirectory
    /\ Goto(w, IF At(w, "syncdir") THEN "verifyfinal" ELSE "accept")
    /\ UNCHANGED <<dir, data, synced, nextInode, ghosts, losses>>

VerifyFinal(w) ==
    /\ At(w, "verifyfinal")
    /\ Recaptures(w, pub[w].final)
    /\ Goto(w, IF pub[w].mode = "link" THEN "cleanup" ELSE "accept")
    /\ UNCHANGED <<disk, ghosts, losses>>

\* v1 only: the stage's identity is checked, then the path is unlinked.
CheckCleanup(w) ==
    /\ At(w, "cleanup")
    /\ dir[pub[w].stage] = pub[w].inode
    /\ Goto(w, "unlink")
    /\ UNCHANGED <<disk, ghosts, losses>>

RemoveStage(w) ==
    /\ At(w, "unlink")
    /\ dir[pub[w].stage] # None
    /\ SetEntries([n \in {pub[w].stage} |-> None])
    /\ Goto(w, "synccleanup")
    /\ UNCHANGED <<data, synced, nextInode, ghosts, losses>>

\* The last reopen of the final path, and the receipt.
Accept(w) ==
    /\ At(w, "accept")
    /\ Recaptures(w, pub[w].final)
    /\ receipts' = receipts \cup
           {[final |-> pub[w].final, bytes |-> pub[w].bytes, inode |-> pub[w].inode]}
    /\ pub' = [pub EXCEPT ![w] = NoAttempt]
    /\ UNCHANGED <<disk, verified, moved, losses>>

\* Any error, and a process that dies without the power failing.
Abort(w) ==
    /\ ~At(w, "idle")
    /\ pub' = [pub EXCEPT ![w] = NoAttempt]
    /\ UNCHANGED <<disk, ghosts, losses>>

Publish(w) ==
    \/ WriteStage(w) \/ SyncStage(w) \/ VerifyStage(w)
    \/ LinkFinal(w) \/ MoveNoReplace(w) \/ MoveReplace(w) \/ SyncNamespace(w)
    \/ VerifyFinal(w) \/ CheckCleanup(w) \/ RemoveStage(w) \/ Accept(w)

-----------------------------------------------------------------------------
(* Recovery.                                                               *)

\* verify_existing_publication_v1: the file exists and reads as these bytes.
\* The caller gets the same receipt as from a publication, but nothing is
\* synced: the entry may be one whose publisher died before it was.  Callers
\* verify immutable finals, before they publish them and on recovery.
VerifyExisting(final, bytes) ==
    /\ dir[final] # None
    /\ data[dir[final]] = bytes
    /\ verified' = verified \cup
           {[final |-> final, bytes |-> bytes, inode |-> dir[final]]}
    /\ UNCHANGED <<disk, pub, receipts, moved, losses>>

\* Every process dies.  Each name keeps one of the entries it may have on
\* disk, each unsynced file its bytes or garbage; what is left is on disk.
PowerLoss ==
    /\ losses < MaxPowerLosses
    /\ losses' = losses + 1
    /\ \E garbled \in SUBSET (1..nextInode - 1 \ synced) :
          data' = [i \in Inodes |-> IF i \in garbled THEN Torn ELSE data[i]]
    /\ dir' \in {d \in [Names -> UNION {maybe[n] : n \in Names}] :
                    \A n \in Names : d[n] \in maybe[n]}
    /\ maybe' = [n \in Names |-> {dir'[n]}]
    /\ synced' = 1..nextInode - 1
    /\ pub' = [w \in Writers |-> NoAttempt]
    /\ verified' = {}
    /\ UNCHANGED <<nextInode, receipts, moved>>

Next ==
    \/ \E w \in Writers, mode \in Modes, stage \in StageNames, bytes \in Values :
          \E final \in Targets(mode) : CreateStage(w, mode, stage, final, bytes)
    \/ \E w \in Writers : Publish(w)
    \/ \E w \in Writers : Abort(w)
    \/ \E final \in FinalNames, bytes \in Values : VerifyExisting(final, bytes)
    \/ PowerLoss

Spec == Init /\ [][Next]_vars

-----------------------------------------------------------------------------
(* What publication promises.                                              *)

\* There is no partially written final: whatever a final or pointer name may
\* name now or after a power failure at this instant is a complete file whose
\* bytes are already on disk.
FinalNeverTorn ==
    \A n \in Finals : \A i \in maybe[n] \ {None} :
        i \in synced /\ data[i] \in Values

\* A publication's receipt outlives the power: an immutable final that was
\* published with a receipt can only be that very file with those bytes,
\* whatever happens next; and no staging name can come back as a second link
\* to it.
PublishedDurable ==
    \A r \in receipts :
        /\ data[r.inode] = r.bytes /\ r.inode \in synced
        /\ r.final \in FinalNames => maybe[r.final] = {r.inode}
        /\ \A s \in StageNames : r.inode \notin maybe[s]

\* A receipt from verification says less: the bytes are on disk and, until the
\* power fails, the final stays that very file, but a power failure may leave
\* the name absent.  It never leaves it another file.
VerifiedStands ==
    \A r \in verified :
        /\ data[r.inode] = r.bytes /\ r.inode \in synced
        /\ dir[r.final] = r.inode /\ maybe[r.final] \subseteq {None, r.inode}

\* What a caller may rely on who holds a DurablePublicationReceiptV1, by the
\* operation that returned it: publish_*_v1/v2 or verify_existing_publication_v1.
ReceiptDurable == PublishedDurable /\ VerifiedStands

\* A pointer never rolls back behind a replacement that returned a receipt:
\* what it may name after a power failure was moved there no earlier.
PointerNeverRollsBack ==
    \A p \in PointerNames : \A k \in DOMAIN moved[p] :
        (\E r \in receipts : r.final = p /\ r.inode = moved[p][k])
            => maybe[p] \subseteq {moved[p][j] : j \in k..Len(moved[p])}

\* A stage that an attempt did not create is debris to it: no publisher ever
\* unlinks or moves away a staging file that another publisher is working on.
OwnStageOnly ==
    \A w \in Writers :
        pub[w].pc \in {"write", "sync", "verify", "reverify", "publish"}
            => dir[pub[w].stage] = pub[w].inode

\* The whole contract of the two immutable publications, as one abstract
\* machine: bind once, acknowledge what is bound, lose only what is not
\* acknowledged.
Contract == INSTANCE WriteOnce WITH
    Names <- FinalNames,
    bound <- [n \in FinalNames |-> IF dir[n] = None THEN None ELSE data[dir[n]]],
    acked <- {r.final : r \in receipts} \cap FinalNames
ImplementsWriteOnce == Contract!Spec
=============================================================================
