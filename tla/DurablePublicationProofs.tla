---------------------- MODULE DurablePublicationProofs ----------------------
(***************************************************************************)
(* Proofs about DurablePublication, for any number of writers, names,      *)
(* values, staging files and power failures.  The inductive invariant says *)
(* what an attempt in the middle of its system calls may rely on: its      *)
(* staging name is its own until it is published, its inode is nobody      *)
(* else's, and what it has synced or verified stays so until it returns.   *)
(***************************************************************************)
EXTENDS DurablePublication, TLAPS

\* Attempts that have not published yet.
Staging == {"write", "sync", "verify", "reverify", "publish"}
\* Attempts by link that have published and still hold their stage.
Linked == {"syncdir", "verifyfinal", "cleanup", "unlink"}
\* Attempts that have synced the directory after publishing.
Settled == {"verifyfinal", "cleanup", "unlink", "synccleanup", "accept"}
PCs == {"idle", "syncdir"} \cup Staging \cup Settled

Created == 1..nextInode - 1

\* The record of an attempt, under way or not.
Attempt == [pc : PCs, mode : Modes, stage : StageNames \cup {None},
            final : Finals \cup {None}, bytes : Values \cup {None},
            inode : {0} \cup Created]

TypeOK ==
    /\ nextInode \in 1..MaxInodes + 1
    /\ dir \in [Names -> Created \cup {None}]
    /\ maybe \in [Names -> SUBSET (Created \cup {None})]
    /\ data \in [Inodes -> Values \cup {Torn}]
    /\ synced \subseteq Created
    /\ pub \in [Writers -> Attempt]
    /\ receipts \subseteq [final : Finals, bytes : Values, inode : Created]
    /\ moved \in [PointerNames -> Seq(Created)]

\* What is visible may survive; an immutable name has one file at most.
DirInv ==
    /\ \A n \in Names : dir[n] \in maybe[n]
    /\ \A n \in FinalNames : maybe[n] \subseteq {None, dir[n]}

\* What a pointer may name, or names, was moved there with inode i or later.
Since(p, i) == \A k \in DOMAIN moved[p] :
    moved[p][k] = i => maybe[p] \subseteq {moved[p][j] : j \in k..Len(moved[p])}
SeenSince(p, i) == \A k \in DOMAIN moved[p] :
    moved[p][k] = i => dir[p] \in {moved[p][j] : j \in k..Len(moved[p])}

\* The arguments of the call, and what the attempt knows of its file.
CallInv(w) ==
    pub[w].pc # "idle" =>
        /\ pub[w].stage \in StageNames /\ pub[w].final \in Targets(pub[w].mode)
        /\ pub[w].bytes \in Values /\ pub[w].inode \in Created
        /\ pub[w].pc # "write" => data[pub[w].inode] = pub[w].bytes
        /\ pub[w].pc \notin {"write", "sync"} => pub[w].inode \in synced
        /\ pub[w].mode # "link" => pub[w].pc \notin {"cleanup", "unlink", "synccleanup"}
        /\ \A r \in receipts : r.inode # pub[w].inode

\* The staging name is the attempt's own until it gives it up; no other staging
\* name, and before publication no final, can ever lead to its file.
HoldsStage(w) ==
    pub[w].pc \in Staging \/ (pub[w].mode = "link" /\ pub[w].pc \in Linked)
StageInv(w) ==
    pub[w].pc # "idle" =>
        /\ HoldsStage(w) <=> dir[pub[w].stage] = pub[w].inode
        /\ \A s \in StageNames \ {pub[w].stage} : pub[w].inode \notin maybe[s]
        /\ pub[w].pc \in Staging => \A n \in Finals : pub[w].inode \notin maybe[n]
        /\ pub[w].pc = "accept" \/ (pub[w].mode # "link" /\ pub[w].pc \in Settled)
               => pub[w].inode \notin maybe[pub[w].stage]

\* What is published is visible, and settled once the directory is synced.
FinalInv(w) ==
    /\ pub[w].mode # "replace" =>
          /\ pub[w].pc = "syncdir" => dir[pub[w].final] = pub[w].inode
          /\ pub[w].pc \in Settled => maybe[pub[w].final] = {pub[w].inode}
    /\ pub[w].mode = "replace" =>
          /\ pub[w].pc = "syncdir" => SeenSince(pub[w].final, pub[w].inode)
          /\ pub[w].pc \in Settled => Since(pub[w].final, pub[w].inode)

AttemptInv == \A w \in Writers : CallInv(w) /\ StageInv(w) /\ FinalInv(w)

\* No two attempts have one inode.
DistinctInv ==
    \A v, w \in Writers :
        v # w /\ pub[v].pc # "idle" /\ pub[w].pc # "idle" => pub[v].inode # pub[w].inode

IInv == TypeOK /\ DirInv /\ AttemptInv /\ DistinctInv
        /\ FinalNeverTorn /\ PublishedDurable /\ PointerNeverRollsBack

-----------------------------------------------------------------------------
(* Nothing is published, staged or under way in the initial state.          *)
LEMMA InitIInv == Init => IInv
  <1> SUFFICES ASSUME Init PROVE IInv
    OBVIOUS
  <1> USE NameAssumption, ValueAssumption, BoundAssumption DEF Init
  <1>1. TypeOK
    BY DEF TypeOK, Attempt, Created, PCs, Staging, Settled, Modes, NoAttempt
  <1>2. DirInv
    BY DEF DirInv, Names, Finals
  <1>3. \A w \in Writers : pub[w].pc = "idle"
    BY DEF NoAttempt
  <1>4. AttemptInv
    BY <1>3 DEF AttemptInv, CallInv, StageInv, FinalInv, Settled
  <1>5. DistinctInv
    BY <1>3 DEF DistinctInv
  <1>6. FinalNeverTorn /\ PublishedDurable
    BY DEF FinalNeverTorn, PublishedDurable, Names, Finals
  <1>7. PointerNeverRollsBack
    BY DEF PointerNeverRollsBack
  <1>8. QED
    BY <1>1, <1>2, <1>4, <1>5, <1>6, <1>7 DEF IInv

(* What an attempt has published is where it was if the finals are.         *)
LEMMA FinalStays ==
  ASSUME NEW v \in Writers, CallInv(v), FinalInv(v), pub'[v] = pub[v], moved' = moved,
         \A n \in Finals : maybe'[n] = maybe[n] /\ dir'[n] = dir[n]
  PROVE  FinalInv(v)'
  <1>1. CASE pub[v].pc = "idle"
    BY <1>1 DEF FinalInv, Settled
  <1>2. CASE pub[v].pc # "idle" /\ pub[v].mode # "replace"
    <2>1. pub[v].final \in Finals
      BY <1>2 DEF CallInv, Targets, Finals
    <2>2. QED
      BY <1>2, <2>1 DEF FinalInv
  <1>3. CASE pub[v].pc # "idle" /\ pub[v].mode = "replace"
    <2>1. pub[v].final \in Finals
      BY <1>3 DEF CallInv, Targets, Finals
    <2>2. QED
      BY <1>3, <2>1 DEF FinalInv, Since, SeenSince
  <1>4. QED
    BY <1>1, <1>2, <1>3

(* A staging file is created under a free name with an inode of its own.    *)
LEMMA CreateStep ==
  ASSUME IInv, NEW w \in Writers, NEW mode \in Modes, NEW stage \in StageNames,
         NEW bytes \in Values, NEW final \in Targets(mode),
         CreateStage(w, mode, stage, final, bytes)
  PROVE  IInv'
  <1> USE NameAssumption, ValueAssumption, BoundAssumption DEF IInv
  <1> DEFINE i == nextInode
  <1>1. /\ pub[w].pc = "idle" /\ dir[stage] = None /\ i \in Inodes
        /\ nextInode' = i + 1 /\ i \notin Created /\ Created' = Created \cup {i}
        /\ UNCHANGED <<data, synced, receipts, moved>>
    BY DEF CreateStage, At, TypeOK, Created, Inodes, ghosts
  <1>2. /\ dir' = [n \in Names |-> IF n = stage THEN i ELSE dir[n]]
        /\ maybe' = [n \in Names |-> IF n = stage THEN maybe[n] \cup {i} ELSE maybe[n]]
    BY DEF CreateStage, SetEntries
  <1>3. /\ \A v \in Writers : v # w => pub'[v] = pub[v]
        /\ pub'[w] = [pc |-> "write", mode |-> mode, stage |-> stage,
                      final |-> final, bytes |-> bytes, inode |-> i]
    BY DEF CreateStage, TypeOK
  <1>4. stage \in Names /\ stage \notin Finals /\ final \in Finals
    BY DEF Names, Finals, Targets, Modes
  <1>5. TypeOK'
    <2>1. pub'[w] \in Attempt' /\ Attempt \subseteq Attempt'
      BY <1>1, <1>3, <1>4 DEF Attempt, PCs, Staging
    <2>2. pub' = [v \in Writers |-> pub'[v]]
      BY DEF CreateStage, TypeOK
    <2>3. pub' \in [Writers -> Attempt']
      BY <1>3, <2>1, <2>2 DEF TypeOK
    <2>4. moved' \in [PointerNames -> Seq(Created')]
      BY <1>1 DEF TypeOK
    <2>5. receipts' \subseteq [final : Finals, bytes : Values, inode : Created']
      BY <1>1 DEF TypeOK
    <2>6. QED
      BY <1>1, <1>2, <2>3, <2>4, <2>5 DEF TypeOK, Inodes, Created
  <1>6. DirInv'
    BY <1>2, <1>4 DEF DirInv, TypeOK, Names, Finals
  <1>7. DistinctInv'
    BY <1>1, <1>3 DEF DistinctInv, AttemptInv, CallInv
  <1>8. FinalNeverTorn' /\ PublishedDurable'
    BY <1>1, <1>2, <1>4 DEF FinalNeverTorn, PublishedDurable, TypeOK, Names, Finals
  <1>9. \A p \in Finals : maybe'[p] = maybe[p] /\ dir'[p] = dir[p]
    BY <1>2, <1>4 DEF Names, Finals
  <1>10. PointerNeverRollsBack'
    BY <1>1, <1>9 DEF PointerNeverRollsBack, Finals
  <1>11. ASSUME NEW v \in Writers
         PROVE  CallInv(v)' /\ StageInv(v)' /\ FinalInv(v)'
    <2>1. CASE v = w
      BY <1>1, <1>2, <1>3, <1>4, <2>1 DEF CallInv, StageInv, FinalInv, HoldsStage,
         Staging, Linked, Settled, TypeOK, Names, Finals
    <2>2. CASE v # w
      <3>1. CallInv(v)'
        BY <1>1, <1>3, <2>2 DEF CallInv, AttemptInv
      <3>2. StageInv(v)'
        <4> SUFFICES ASSUME pub[v].pc # "idle"
                     PROVE  StageInv(v)'
          BY <1>3, <2>2 DEF StageInv
        <4>1. pub'[v] = pub[v] /\ CallInv(v) /\ StageInv(v)
          BY <1>3, <2>2 DEF AttemptInv
        <4>2. pub[v].inode \in Created /\ pub[v].inode # i /\ pub[v].stage \in Names
          BY <1>1, <4>1 DEF CallInv, Names
        <4>3. pub[v].inode # None
          BY <4>2 DEF Created, TypeOK
        <4>4. \A n \in Names : pub[v].inode \in maybe'[n] <=> pub[v].inode \in maybe[n]
          BY <1>2, <4>2
        <4>5. dir'[pub[v].stage] = pub[v].inode <=> dir[pub[v].stage] = pub[v].inode
          BY <1>1, <1>2, <4>2, <4>3
        <4>6. QED
          BY <4>1, <4>2, <4>4, <4>5 DEF StageInv, HoldsStage, Names, Finals
      <3>3. FinalInv(v)'
        BY <1>1, <1>3, <1>9, <2>2, FinalStays DEF AttemptInv
      <3>4. QED
        BY <3>1, <3>2, <3>3
    <2>3. QED
      BY <2>1, <2>2
  <1>12. QED
    BY <1>5, <1>6, <1>7, <1>8, <1>10, <1>11 DEF AttemptInv
(* What an attempt relies on stays true while it stays where it is and      *)
(* neither the disk nor the receipts change.                                *)
LEMMA IdleDisk ==
  ASSUME NEW v \in Writers, CallInv(v), StageInv(v), FinalInv(v), pub'[v] = pub[v],
         UNCHANGED <<dir, maybe, data, synced, nextInode, receipts, moved>>
  PROVE  CallInv(v)' /\ StageInv(v)' /\ FinalInv(v)'
  <1>1. CallInv(v)'
    BY DEF CallInv, Created
  <1>2. StageInv(v)'
    BY DEF StageInv, HoldsStage
  <1>3. FinalInv(v)'
    BY FinalStays
  <1>4. QED
    BY <1>1, <1>2, <1>3

(* A step of the attempt's program counter leaves its arguments, and every  *)
(* other attempt, alone.                                                    *)
LEMMA GotoFacts ==
  ASSUME TypeOK, NEW w \in Writers, NEW pc \in PCs, Goto(w, pc)
  PROVE  /\ pub' \in [Writers -> Attempt]
         /\ \A v \in Writers : v # w => pub'[v] = pub[v]
         /\ pub'[w].pc = pc /\ pub'[w].mode = pub[w].mode
         /\ pub'[w].stage = pub[w].stage /\ pub'[w].final = pub[w].final
         /\ pub'[w].bytes = pub[w].bytes /\ pub'[w].inode = pub[w].inode
  BY DEF TypeOK, Goto, Attempt

(* Verification moves an attempt on and changes nothing else: what the next *)
(* system call relies on already holds.                                     *)
LEMMA VerifyStep ==
  ASSUME IInv, NEW w \in Writers,
         VerifyStage(w) \/ VerifyFinal(w) \/ CheckCleanup(w)
  PROVE  IInv'
  <1> USE DEF IInv
  <1>1. UNCHANGED <<dir, maybe, data, synced, nextInode, receipts, moved>>
    BY DEF VerifyStage, VerifyFinal, CheckCleanup, disk, ghosts
  <1>2. PICK pc \in PCs :
           /\ Goto(w, pc) /\ pub[w].pc # "idle"
           /\ \/ pub[w].pc = "verify" /\ pc = "reverify"
              \/ pub[w].pc = "reverify" /\ pc = "publish"
              \/ pub[w].pc = "verifyfinal" /\ pub[w].mode = "link" /\ pc = "cleanup"
              \/ pub[w].pc = "verifyfinal" /\ pub[w].mode # "link" /\ pc = "accept"
              \/ pub[w].pc = "cleanup" /\ pc = "unlink"
    BY DEF VerifyStage, VerifyFinal, CheckCleanup, At, PCs, Staging, Settled
  <1>3. /\ pub' \in [Writers -> Attempt]
        /\ \A v \in Writers : v # w => pub'[v] = pub[v]
        /\ pub'[w].pc = pc /\ pub'[w].mode = pub[w].mode
        /\ pub'[w].stage = pub[w].stage /\ pub'[w].final = pub[w].final
        /\ pub'[w].bytes = pub[w].bytes /\ pub'[w].inode = pub[w].inode
    BY <1>2, GotoFacts
  <1>4. TypeOK' /\ DirInv' /\ FinalNeverTorn' /\ PublishedDurable' /\ PointerNeverRollsBack'
    <2>1. TypeOK'
      BY <1>1, <1>3 DEF TypeOK, Created, Attempt
    <2>2. DirInv' /\ FinalNeverTorn' /\ PublishedDurable'
      BY <1>1 DEF DirInv, FinalNeverTorn, PublishedDurable
    <2>3. PointerNeverRollsBack'
      BY <1>1 DEF PointerNeverRollsBack
    <2>4. QED
      BY <2>1, <2>2, <2>3
  <1>5. DistinctInv'
    BY <1>2, <1>3 DEF DistinctInv
  <1>6. CallInv(w) /\ StageInv(w) /\ FinalInv(w)
    BY DEF AttemptInv
  <1>7. CallInv(w)'
    BY <1>1, <1>2, <1>3, <1>6 DEF CallInv, Created
  <1>8. StageInv(w)'
    BY <1>1, <1>2, <1>3, <1>6 DEF CallInv, StageInv, HoldsStage, Staging, Linked, Settled
  <1>9. FinalInv(w)'
    BY <1>1, <1>2, <1>3, <1>6 DEF CallInv, FinalInv, Settled, Since
  <1>10. \A v \in Writers : CallInv(v)' /\ StageInv(v)' /\ FinalInv(v)'
    BY <1>1, <1>3, <1>7, <1>8, <1>9, IdleDisk DEF AttemptInv
  <1>11. QED
    BY <1>4, <1>5, <1>10 DEF AttemptInv

(* Writing and syncing the staging file touch nobody else's bytes.          *)
LEMMA FillStep ==
  ASSUME IInv, NEW w \in Writers, WriteStage(w) \/ SyncStage(w)
  PROVE  IInv'
  <1> USE DEF IInv
  <1>0. UNCHANGED <<dir, maybe, nextInode, receipts, moved>>
    BY DEF WriteStage, SyncStage, ghosts
  <1>1. CallInv(w) /\ StageInv(w) /\ FinalInv(w)
    BY DEF AttemptInv
  <1>2. PICK pc \in PCs :
           /\ Goto(w, pc)
           /\ \/ /\ pub[w].pc = "write" /\ pc = "sync" /\ synced' = synced
                 /\ data' = [data EXCEPT ![pub[w].inode] = pub[w].bytes]
              \/ /\ pub[w].pc = "sync" /\ pc = "verify" /\ data' = data
                 /\ synced' = synced \cup {pub[w].inode}
    BY DEF WriteStage, SyncStage, At, PCs, Staging
  <1>3. /\ pub' \in [Writers -> Attempt]
        /\ \A v \in Writers : v # w => pub'[v] = pub[v]
        /\ pub'[w].pc = pc /\ pub'[w].mode = pub[w].mode
        /\ pub'[w].stage = pub[w].stage /\ pub'[w].final = pub[w].final
        /\ pub'[w].bytes = pub[w].bytes /\ pub'[w].inode = pub[w].inode
    BY <1>2, GotoFacts
  <1>4. /\ pub[w].inode \in Created /\ pub[w].bytes \in Values
        /\ Created \subseteq Inodes /\ Created' = Created
    BY <1>0, <1>1, <1>2, BoundAssumption DEF CallInv, Created, Inodes, TypeOK
  <1>5. /\ data' \in [Inodes -> Values \cup {Torn}]
        /\ data'[pub[w].inode] = IF pub[w].pc = "write" THEN pub[w].bytes
                                                       ELSE data[pub[w].inode]
        /\ \A i \in Inodes : i # pub[w].inode => data'[i] = data[i]
        /\ synced \subseteq synced' /\ synced' \subseteq Created
    BY <1>2, <1>4 DEF TypeOK
  <1>6. TypeOK'
    BY <1>0, <1>3, <1>4, <1>5 DEF TypeOK, Attempt
  <1>7. DirInv' /\ PointerNeverRollsBack'
    BY <1>0 DEF DirInv, PointerNeverRollsBack
  <1>8. DistinctInv'
    BY <1>2, <1>3 DEF DistinctInv
  <1>9. /\ \A n \in Finals : pub[w].inode \notin maybe[n]
        /\ \A r \in receipts : r.inode # pub[w].inode
    BY <1>1, <1>2 DEF StageInv, CallInv, Staging
  <1>10. FinalNeverTorn'
    BY <1>0, <1>4, <1>5, <1>9 DEF FinalNeverTorn, TypeOK, Names
  <1>11. PublishedDurable'
    BY <1>0, <1>4, <1>5, <1>9 DEF PublishedDurable, TypeOK
  <1>12. ASSUME NEW v \in Writers
         PROVE  CallInv(v)' /\ StageInv(v)' /\ FinalInv(v)'
    <2>1. CASE v = w
      <3>1. CallInv(w)'
        BY <1>0, <1>1, <1>2, <1>3, <1>4, <1>5 DEF CallInv
      <3>2. StageInv(w)'
        BY <1>0, <1>1, <1>2, <1>3 DEF StageInv, HoldsStage, Staging, Settled, Linked
      <3>3. FinalInv(w)'
        BY <1>2, <1>3 DEF FinalInv, Settled
      <3>4. QED
        BY <2>1, <3>1, <3>2, <3>3
    <2>2. CASE v # w
      <3>1. pub'[v] = pub[v] /\ CallInv(v) /\ StageInv(v) /\ FinalInv(v)
        BY <1>3, <2>2 DEF AttemptInv
      <3>2. CallInv(v)'
        BY <1>0, <1>2, <1>4, <1>5, <2>2, <3>1 DEF CallInv, DistinctInv
      <3>3. StageInv(v)'
        BY <1>0, <3>1 DEF StageInv, HoldsStage
      <3>4. FinalInv(v)'
        BY <1>0, <3>1, FinalStays
      <3>5. QED
        BY <3>2, <3>3, <3>4
    <2>3. QED
      BY <2>1, <2>2
  <1>13. QED
    BY <1>6, <1>7, <1>8, <1>10, <1>11, <1>12 DEF AttemptInv
(* Syncing the directory only narrows what may survive, down to what is     *)
(* visible; that is what settles a publication.                             *)
LEMMA SyncStep ==
  ASSUME IInv, NEW w \in Writers, SyncNamespace(w)
  PROVE  IInv'
  <1> USE DEF IInv
  <1>1. UNCHANGED <<dir, data, synced, nextInode, receipts, moved>>
    BY DEF SyncNamespace, ghosts
  <1>2. PICK pc \in PCs :
           /\ Goto(w, pc)
           /\ \/ pub[w].pc = "syncdir" /\ pc = "verifyfinal"
              \/ pub[w].pc = "synccleanup" /\ pc = "accept"
    BY DEF SyncNamespace, At, PCs, Settled
  <1>3. /\ pub' \in [Writers -> Attempt]
        /\ \A v \in Writers : v # w => pub'[v] = pub[v]
        /\ pub'[w].pc = pc /\ pub'[w].mode = pub[w].mode
        /\ pub'[w].stage = pub[w].stage /\ pub'[w].final = pub[w].final
        /\ pub'[w].bytes = pub[w].bytes /\ pub'[w].inode = pub[w].inode
    BY <1>2, GotoFacts
  <1>4. /\ maybe' = [n \in Names |-> {dir[n]}]
        /\ \A n \in Names : maybe'[n] = {dir[n]} /\ maybe'[n] \subseteq maybe[n]
    BY DEF SyncNamespace, SyncDirectory, DirInv
  <1>5. TypeOK'
    BY <1>1, <1>3, <1>4 DEF TypeOK, Created, Attempt
  <1>6. DirInv'
    BY <1>1, <1>4 DEF DirInv, Names, Finals
  <1>7. FinalNeverTorn'
    BY <1>1, <1>4 DEF FinalNeverTorn, Names
  <1>8. PublishedDurable'
    <2>1. \A r \in receipts : r.final \in FinalNames => maybe'[r.final] = {r.inode}
      BY <1>4 DEF PublishedDurable, DirInv, Names, Finals
    <2>2. QED
      BY <1>1, <1>4, <2>1 DEF PublishedDurable, Names
  <1>9. PointerNeverRollsBack'
    <2>1. \A p \in PointerNames : maybe'[p] \subseteq maybe[p]
      BY <1>4 DEF Names, Finals
    <2>2. QED
      BY <1>1, <2>1 DEF PointerNeverRollsBack
  <1>10. DistinctInv'
    BY <1>2, <1>3 DEF DistinctInv
  <1>11. ASSUME NEW v \in Writers
         PROVE  CallInv(v)' /\ StageInv(v)' /\ FinalInv(v)'
    <2>0. CallInv(v) /\ StageInv(v) /\ FinalInv(v)
      BY DEF AttemptInv
    <2>1. CASE v = w
      <3> USE <1>1, <1>2, <1>3, <2>0, <2>1
      <3>1. CallInv(w)'
        BY DEF CallInv, Created
      <3>2. pub[w].stage \in Names /\ pub[w].final \in Names
        BY DEF CallInv, Targets, Names, Finals
      <3>3. StageInv(w)'
        BY <1>4, <3>2 DEF CallInv, StageInv, HoldsStage, Staging, Settled, Linked, Names, Finals
      <3>4. CASE pub[w].mode # "replace"
        BY <1>4, <3>1, <3>2, <3>3, <3>4 DEF FinalInv, Settled, DirInv
      <3>5. CASE pub[w].mode = "replace"
        BY <1>4, <3>1, <3>2, <3>3, <3>5 DEF FinalInv, Settled, Since, SeenSince
      <3>6. QED
        BY <3>4, <3>5
    <2>2. CASE v # w
      <3> USE <1>1, <1>3, <2>0, <2>2
      <3>1. CallInv(v)'
        BY DEF CallInv, Created
      <3>2. CASE pub[v].pc = "idle"
        BY <3>1, <3>2 DEF StageInv, FinalInv, Settled
      <3>3. CASE pub[v].pc # "idle"
        <4>1. pub[v].stage \in Names /\ pub[v].final \in Names
          BY <3>3 DEF CallInv, Targets, Names, Finals
        <4>2. StageInv(v)'
          BY <1>4, <4>1 DEF StageInv, HoldsStage, Names, Finals
        <4>3. CASE pub[v].mode # "replace"
          BY <1>4, <3>1, <4>1, <4>2, <4>3 DEF FinalInv, Settled, DirInv
        <4>4. CASE pub[v].mode = "replace"
          BY <1>4, <3>1, <4>1, <4>2, <4>4, SMTT(40) DEF FinalInv, Settled, Since, SeenSince
        <4>5. QED
          BY <4>3, <4>4
      <3>4. QED
        BY <3>2, <3>3
    <2>3. QED
      BY <2>1, <2>2
  <1>12. QED
    BY <1>5, <1>6, <1>7, <1>8, <1>9, <1>10, <1>11 DEF AttemptInv
(* Publication without replacement gives a free name the attempt's own,     *)
(* synced and verified file; a move also gives up the staging name.         *)
LEMMA BindStep ==
  ASSUME IInv, NEW w \in Writers, LinkFinal(w) \/ MoveNoReplace(w)
  PROVE  IInv' /\ dir[pub[w].final] = None
               /\ dir' = [n \in Names |-> IF n = pub[w].final THEN pub[w].inode
                             ELSE IF n = pub[w].stage /\ pub[w].mode = "move" THEN None
                             ELSE dir[n]]
  <1> USE NameAssumption, ValueAssumption, BoundAssumption DEF IInv
  <1> DEFINE s == pub[w].stage  f == pub[w].final  i == pub[w].inode
  <1>1. /\ UNCHANGED <<data, synced, nextInode, receipts, moved>>
        /\ pub[w].pc = "publish" /\ pub[w].mode # "replace"
        /\ dir[f] = None /\ Goto(w, "syncdir")
        /\ pub[w].mode = "link" \/ pub[w].mode = "move"
    BY DEF LinkFinal, MoveNoReplace, At, ghosts
  <1>2. CallInv(w) /\ StageInv(w)
    BY DEF AttemptInv
  <1>3. /\ s \in StageNames /\ f \in FinalNames /\ i \in Created /\ i # None
        /\ s \in Names /\ f \in Names /\ s # f /\ f \in Finals
        /\ data[i] \in Values /\ i \in synced
    BY <1>1, <1>2 DEF CallInv, Targets, Names, Finals, Created, TypeOK
  <1>4. /\ dir[s] = i
        /\ \A n \in StageNames \ {s} : i \notin maybe[n]
        /\ \A n \in Finals : i \notin maybe[n]
    BY <1>1, <1>2 DEF StageInv, HoldsStage, Staging
  <1>5. /\ dir' = [n \in Names |-> IF n = f THEN i
                      ELSE IF n = s /\ pub[w].mode = "move" THEN None ELSE dir[n]]
        /\ maybe' = [n \in Names |-> IF n = f THEN maybe[n] \cup {i}
                        ELSE IF n = s /\ pub[w].mode = "move" THEN maybe[n] \cup {None}
                        ELSE maybe[n]]
    <2>1. CASE LinkFinal(w)
      BY <1>3, <1>4, <2>1 DEF LinkFinal, SetEntries
    <2>2. CASE MoveNoReplace(w)
      BY <1>3, <1>4, <2>2 DEF MoveNoReplace, SetEntries
    <2>3. QED
      BY <2>1, <2>2
  <1>6. /\ pub' \in [Writers -> Attempt]
        /\ \A v \in Writers : v # w => pub'[v] = pub[v]
        /\ pub'[w].pc = "syncdir" /\ pub'[w].mode = pub[w].mode
        /\ pub'[w].stage = s /\ pub'[w].final = f
        /\ pub'[w].bytes = pub[w].bytes /\ pub'[w].inode = i
    BY <1>1, GotoFacts DEF PCs
  <1>7. /\ \A n \in FinalNames : n # f => maybe'[n] = maybe[n] /\ dir'[n] = dir[n]
        /\ \A n \in PointerNames : maybe'[n] = maybe[n] /\ dir'[n] = dir[n]
        /\ maybe'[f] = maybe[f] \cup {i} /\ dir'[f] = i
        /\ \A n \in StageNames : maybe'[n] \subseteq maybe[n] \cup {None}
    BY <1>3, <1>5 DEF Names, Finals
  <1>8. TypeOK'
    BY <1>1, <1>3, <1>5, <1>6 DEF TypeOK, Created, Attempt
  <1>9. DirInv'
    BY <1>1, <1>3, <1>5 DEF DirInv, Names, Finals
  <1>10. FinalNeverTorn'
    BY <1>1, <1>3, <1>7 DEF FinalNeverTorn, Finals
  <1>11. PublishedDurable'
    <2>1. ASSUME NEW r \in receipts
          PROVE  /\ r.final \in FinalNames => r.final # f
                 /\ \A n \in StageNames : r.inode \notin maybe'[n]
      <3>1. r.inode \in Created /\ r.inode # None
        BY DEF TypeOK, Created
      <3>2. ASSUME r.final = f PROVE FALSE
        BY <1>1, <1>3, <3>1, <3>2 DEF PublishedDurable, DirInv
      <3>3. QED
        BY <1>7, <3>1, <3>2 DEF PublishedDurable
    <2>2. QED
      BY <1>1, <1>7, <2>1 DEF PublishedDurable
  <1>12. PointerNeverRollsBack'
    BY <1>1, <1>7 DEF PointerNeverRollsBack
  <1>13. DistinctInv'
    BY <1>1, <1>6 DEF DistinctInv
  <1>14. ASSUME NEW v \in Writers
         PROVE  CallInv(v)' /\ StageInv(v)' /\ FinalInv(v)'
    <2>1. CASE v = w
      <3>1. CallInv(w)'
        BY <1>1, <1>2, <1>6 DEF CallInv, Created
      <3>2. StageInv(w)'
        BY <1>1, <1>3, <1>4, <1>5, <1>6, <1>7 DEF StageInv, HoldsStage, Staging, Settled, Linked
      <3>3. FinalInv(w)'
        BY <1>1, <1>6, <1>7 DEF FinalInv, Settled
      <3>4. QED
        BY <2>1, <3>1, <3>2, <3>3
    <2>2. CASE v # w /\ pub[v].pc # "idle"
      <3>1. pub'[v] = pub[v] /\ CallInv(v) /\ StageInv(v) /\ FinalInv(v)
        BY <1>6, <2>2 DEF AttemptInv
      <3>2. /\ pub[v].inode # i /\ pub[v].inode # None
            /\ pub[v].stage \in StageNames /\ pub[v].stage \in Names /\ pub[v].stage # f
        BY <1>1, <1>3, <2>2, <3>1 DEF DistinctInv, CallInv, Created, TypeOK, Names
      <3>3. CallInv(v)'
        BY <1>1, <3>1 DEF CallInv, Created
      <3>4. dir'[pub[v].stage] = pub[v].inode <=> dir[pub[v].stage] = pub[v].inode
        BY <1>4, <1>5, <3>2
      <3>5. \A n \in Names : pub[v].inode \in maybe'[n] <=> pub[v].inode \in maybe[n]
        BY <1>5, <3>2
      <3>6. StageInv(v)'
        BY <3>1, <3>2, <3>4, <3>5 DEF StageInv, HoldsStage, Names, Finals
      <3>7. CASE pub[v].mode = "replace"
        BY <1>1, <1>7, <2>2, <3>1, <3>3, <3>6, <3>7
           DEF CallInv, FinalInv, Since, SeenSince, Targets
      <3>8. CASE pub[v].mode # "replace"
        <4>1. pub[v].final \in FinalNames /\ pub[v].final \in Names
          BY <2>2, <3>1, <3>8 DEF CallInv, Targets, Names, Finals
        <4>2. pub[v].pc \in {"syncdir"} \cup Settled => pub[v].final # f
          BY <1>1, <3>1, <3>2, <3>8, <4>1 DEF FinalInv, DirInv
        <4>3. QED
          BY <1>7, <3>1, <3>3, <3>6, <3>8, <4>1, <4>2 DEF FinalInv
      <3>9. QED
        BY <3>7, <3>8
    <2>3. CASE v # w /\ pub[v].pc = "idle"
      BY <1>6, <2>3 DEF CallInv, StageInv, FinalInv, Settled
    <2>4. QED
      BY <2>1, <2>2, <2>3
  <1>15. QED
    BY <1>1, <1>5, <1>8, <1>9, <1>10, <1>11, <1>12, <1>13, <1>14 DEF AttemptInv
(* Publication by replacement: the pointer's new file is the last one moved *)
(* there, so what was settled before it stays no older than it was.         *)
LEMMA ReplaceStep ==
  ASSUME IInv, NEW w \in Writers, MoveReplace(w)
  PROVE  IInv' /\ \A n \in FinalNames : dir'[n] = dir[n]
  <1> USE NameAssumption, ValueAssumption, BoundAssumption DEF IInv
  <1> DEFINE s == pub[w].stage  f == pub[w].final  i == pub[w].inode
  <1>1. /\ UNCHANGED <<data, synced, nextInode, receipts>>
        /\ pub[w].pc = "publish" /\ pub[w].mode = "replace" /\ Goto(w, "syncdir")
    BY DEF MoveReplace, At
  <1>2. CallInv(w) /\ StageInv(w)
    BY DEF AttemptInv
  <1>3. /\ s \in StageNames /\ f \in PointerNames /\ i \in Created /\ i # None
        /\ s \in Names /\ f \in Names /\ s # f /\ f \in Finals /\ f \notin FinalNames
        /\ data[i] \in Values /\ i \in synced
        /\ \A r \in receipts : r.inode # i
    BY <1>1, <1>2 DEF CallInv, Targets, Names, Finals, Created, TypeOK
  <1>4. /\ dir[s] = i
        /\ \A n \in StageNames \ {s} : i \notin maybe[n]
    BY <1>1, <1>2 DEF StageInv, HoldsStage, Staging
  <1>5. /\ dir' = [n \in Names |-> IF n = f THEN i ELSE IF n = s THEN None ELSE dir[n]]
        /\ maybe' = [n \in Names |-> IF n = f THEN maybe[n] \cup {i}
                        ELSE IF n = s THEN maybe[n] \cup {None} ELSE maybe[n]]
        /\ moved' = [moved EXCEPT ![f] = Append(@, i)]
    BY <1>3, <1>4 DEF MoveReplace, SetEntries
  <1>6. /\ pub' \in [Writers -> Attempt]
        /\ \A v \in Writers : v # w => pub'[v] = pub[v]
        /\ pub'[w].pc = "syncdir" /\ pub'[w].mode = pub[w].mode
        /\ pub'[w].stage = s /\ pub'[w].final = f
        /\ pub'[w].bytes = pub[w].bytes /\ pub'[w].inode = i
    BY <1>1, GotoFacts DEF PCs
  <1>7. /\ \A n \in FinalNames : maybe'[n] = maybe[n] /\ dir'[n] = dir[n]
        /\ \A n \in PointerNames : n # f => maybe'[n] = maybe[n] /\ dir'[n] = dir[n]
        /\ maybe'[f] = maybe[f] \cup {i} /\ dir'[f] = i
        /\ \A n \in StageNames : maybe'[n] \subseteq maybe[n] \cup {None}
    BY <1>3, <1>5 DEF Names, Finals
  <1>8. TypeOK'
    <2>1. moved' \in [PointerNames -> Seq(Created)]
      BY <1>3, <1>5 DEF TypeOK
    <2>2. QED
      BY <1>1, <1>3, <1>5, <1>6, <2>1 DEF TypeOK, Created, Attempt
  <1>9. DirInv'
    BY <1>1, <1>3, <1>5 DEF DirInv, Names, Finals
  <1>10. FinalNeverTorn'
    BY <1>1, <1>3, <1>7 DEF FinalNeverTorn, Finals
  <1>11. PublishedDurable'
    <2>1. \A r \in receipts : r.inode # None
      BY DEF TypeOK, Created
    <2>2. QED
      BY <1>1, <1>7, <2>1 DEF PublishedDurable
  <1>12. /\ Len(moved[f]) \in Nat /\ DOMAIN moved[f] = 1..Len(moved[f])
         /\ Len(moved'[f]) = Len(moved[f]) + 1
         /\ DOMAIN moved'[f] = 1..Len(moved[f]) + 1
         /\ \A k \in 1..Len(moved[f]) : moved'[f][k] = moved[f][k]
         /\ moved'[f][Len(moved[f]) + 1] = i
         /\ \A p \in PointerNames : p # f => moved'[p] = moved[p]
    BY <1>3, <1>5 DEF TypeOK
  <1>13. ASSUME NEW k \in DOMAIN moved[f],
                maybe[f] \subseteq {moved[f][j] : j \in k..Len(moved[f])}
         PROVE  maybe'[f] \subseteq {moved'[f][j] : j \in k..Len(moved'[f])}
    <2> SUFFICES ASSUME NEW e \in maybe'[f]
                 PROVE  \E j \in k..Len(moved'[f]) : e = moved'[f][j]
      OBVIOUS
    <2>0. Len(moved[f]) + 1 \in k..Len(moved'[f])
      BY <1>12
    <2>1. CASE e = i
      BY <1>12, <2>0, <2>1
    <2>2. CASE e \in maybe[f]
      <3>1. PICK j \in k..Len(moved[f]) : e = moved[f][j]
        BY <1>13, <2>2
      <3>2. QED
        BY <1>12, <3>1
    <2>3. QED
      BY <1>7, <2>1, <2>2
  <1>14. PointerNeverRollsBack'
    <2> SUFFICES ASSUME NEW p \in PointerNames, NEW k \in DOMAIN moved'[p],
                        NEW r \in receipts', r.final = p, r.inode = moved'[p][k]
                 PROVE  maybe'[p] \subseteq {moved'[p][j] : j \in k..Len(moved'[p])}
      BY DEF PointerNeverRollsBack
    <2>1. CASE p # f
      <3>1. moved'[p] = moved[p] /\ maybe'[p] = maybe[p] /\ r \in receipts
        BY <1>1, <1>7, <1>12, <2>1
      <3>2. k \in DOMAIN moved[p] /\ r.inode = moved[p][k]
        BY <3>1
      <3>3. maybe[p] \subseteq {moved[p][j] : j \in k..Len(moved[p])}
        BY <3>1, <3>2 DEF PointerNeverRollsBack
      <3>4. QED
        BY <3>1, <3>3
    <2>2. CASE p = f
      <3>0. k \in 1..Len(moved[f]) + 1 /\ r.inode = moved'[f][k] /\ r.inode # i
        BY <1>1, <1>3, <1>12, <2>2
      <3>1. k \in DOMAIN moved[f] /\ r.inode = moved[f][k]
        <4>1. k # Len(moved[f]) + 1
          BY <1>12, <3>0
        <4>2. k \in 1..Len(moved[f])
          BY <1>12, <3>0, <4>1
        <4>3. QED
          BY <1>12, <3>0, <4>2
      <3>2. maybe[f] \subseteq {moved[f][j] : j \in k..Len(moved[f])}
        BY <1>1, <1>3, <2>2, <3>1 DEF PointerNeverRollsBack
      <3>3. QED
        BY <1>13, <2>2, <3>1, <3>2
    <2>3. QED
      BY <2>1, <2>2
  <1>15. DistinctInv'
    BY <1>1, <1>6 DEF DistinctInv
  <1>16. ASSUME NEW v \in Writers
         PROVE  CallInv(v)' /\ StageInv(v)' /\ FinalInv(v)'
    <2>1. CASE v = w
      <3>1. CallInv(w)'
        BY <1>1, <1>2, <1>6 DEF CallInv, Created
      <3>2. StageInv(w)'
        BY <1>1, <1>3, <1>4, <1>5, <1>6, <1>7 DEF StageInv, HoldsStage, Staging, Settled, Linked
      <3>3. \A k \in DOMAIN moved'[f] : dir'[f] \in {moved'[f][j] : j \in k..Len(moved'[f])}
        <4> SUFFICES ASSUME NEW k \in DOMAIN moved'[f]
                     PROVE  \E j \in k..Len(moved'[f]) : dir'[f] = moved'[f][j]
          OBVIOUS
        <4>1. Len(moved[f]) + 1 \in k..Len(moved'[f])
          BY <1>12
        <4>2. QED
          BY <1>7, <1>12, <4>1, SMTT(40)
      <3>4. FinalInv(w)'
        BY <1>1, <1>6, <3>3 DEF FinalInv, Settled, SeenSince
      <3>5. QED
        BY <2>1, <3>1, <3>2, <3>4
    <2>2. CASE v # w /\ pub[v].pc # "idle"
      <3>1. pub'[v] = pub[v] /\ CallInv(v) /\ StageInv(v) /\ FinalInv(v)
        BY <1>6, <2>2 DEF AttemptInv
      <3>2. /\ pub[v].inode # i /\ pub[v].inode # None
            /\ pub[v].stage \in StageNames /\ pub[v].stage \in Names /\ pub[v].stage # f
        BY <1>1, <1>3, <2>2, <3>1 DEF DistinctInv, CallInv, Created, TypeOK, Names
      <3>3. CallInv(v)'
        BY <1>1, <3>1 DEF CallInv, Created
      <3>4. dir'[pub[v].stage] = pub[v].inode <=> dir[pub[v].stage] = pub[v].inode
        BY <1>4, <1>5, <3>2
      <3>5. \A n \in Names : pub[v].inode \in maybe'[n] <=> pub[v].inode \in maybe[n]
        BY <1>5, <3>2
      <3>6. StageInv(v)'
        BY <3>1, <3>2, <3>4, <3>5 DEF StageInv, HoldsStage, Names, Finals
      <3>7. CASE pub[v].mode # "replace"
        BY <1>7, <2>2, <3>1, <3>3, <3>6, <3>7 DEF CallInv, FinalInv, Targets
      <3>8. CASE pub[v].mode = "replace" /\ pub[v].final # f
        <4>1. PICK p \in PointerNames : p = pub[v].final /\ p # f
          BY <2>2, <3>1, <3>8 DEF CallInv, Targets
        <4>2. moved'[p] = moved[p] /\ maybe'[p] = maybe[p] /\ dir'[p] = dir[p]
          BY <1>7, <1>12, <4>1 DEF Names, Finals
        <4>3. /\ SeenSince(p, pub[v].inode)' <=> SeenSince(p, pub[v].inode)
              /\ Since(p, pub[v].inode)' <=> Since(p, pub[v].inode)
          BY <3>1, <4>2 DEF Since, SeenSince
        <4>4. FinalInv(v)'
          BY <3>1, <3>8, <4>1, <4>3 DEF FinalInv
        <4>5. QED
          BY <3>3, <3>6, <4>4
      <3>9. CASE pub[v].mode = "replace" /\ pub[v].final = f
        <4>1. \A k \in DOMAIN moved'[f] : moved'[f][k] = pub[v].inode =>
                  k \in DOMAIN moved[f] /\ moved[f][k] = pub[v].inode
          BY <1>12, <3>2, SMTT(40)
        <4>2. ASSUME pub[v].pc \in Settled, NEW k \in DOMAIN moved'[f],
                     moved'[f][k] = pub[v].inode
              PROVE  maybe'[f] \subseteq {moved'[f][j] : j \in k..Len(moved'[f])}
          <5>1. k \in DOMAIN moved[f] /\ maybe[f] \subseteq {moved[f][j] : j \in k..Len(moved[f])}
            BY <3>1, <3>9, <4>1, <4>2 DEF FinalInv, Since
          <5>2. QED
            BY <1>13, <5>1
        <4>3. ASSUME NEW k \in DOMAIN moved'[f]
              PROVE  dir'[f] \in {moved'[f][j] : j \in k..Len(moved'[f])}
          <5>1. Len(moved[f]) + 1 \in k..Len(moved'[f])
            BY <1>12
          <5>2. QED
            BY <1>7, <1>12, <5>1
        <4>4. FinalInv(v)'
          BY <3>1, <3>9, <4>2, <4>3 DEF FinalInv, Since, SeenSince
        <4>5. QED
          BY <3>3, <3>6, <4>4
      <3>10. QED
        BY <3>7, <3>8, <3>9
    <2>3. CASE v # w /\ pub[v].pc = "idle"
      BY <1>6, <2>3 DEF CallInv, StageInv, FinalInv, Settled
    <2>4. QED
      BY <2>1, <2>2, <2>3
  <1>17. QED
    BY <1>7, <1>8, <1>9, <1>10, <1>11, <1>14, <1>15, <1>16 DEF AttemptInv
(* Cleanup takes away the attempt's own staging name and no other's.        *)
LEMMA RemoveStep ==
  ASSUME IInv, NEW w \in Writers, RemoveStage(w)
  PROVE  IInv' /\ \A n \in FinalNames : dir'[n] = dir[n]
  <1> USE NameAssumption, ValueAssumption, BoundAssumption DEF IInv
  <1> DEFINE s == pub[w].stage  i == pub[w].inode
  <1>1. /\ UNCHANGED <<data, synced, nextInode, receipts, moved>>
        /\ pub[w].pc = "unlink" /\ Goto(w, "synccleanup")
    BY DEF RemoveStage, At, ghosts
  <1>2. CallInv(w) /\ StageInv(w) /\ FinalInv(w)
    BY DEF AttemptInv
  <1>3. /\ s \in StageNames /\ s \in Names /\ s \notin Finals
        /\ i # None /\ pub[w].mode = "link" /\ dir[s] = i
    BY <1>1, <1>2 DEF CallInv, StageInv, HoldsStage, Linked, Names, Finals, Created, TypeOK
  <1>4. /\ dir' = [n \in Names |-> IF n = s THEN None ELSE dir[n]]
        /\ maybe' = [n \in Names |-> IF n = s THEN maybe[n] \cup {None} ELSE maybe[n]]
    BY DEF RemoveStage, SetEntries
  <1>5. /\ pub' \in [Writers -> Attempt]
        /\ \A v \in Writers : v # w => pub'[v] = pub[v]
        /\ pub'[w].pc = "synccleanup" /\ pub'[w].mode = pub[w].mode
        /\ pub'[w].stage = s /\ pub'[w].final = pub[w].final
        /\ pub'[w].bytes = pub[w].bytes /\ pub'[w].inode = i
    BY <1>1, GotoFacts DEF PCs, Settled
  <1>6. \A n \in Finals : maybe'[n] = maybe[n] /\ dir'[n] = dir[n]
    BY <1>3, <1>4 DEF Names
  <1>7. TypeOK'
    BY <1>1, <1>4, <1>5 DEF TypeOK, Created, Attempt
  <1>8. DirInv'
    BY <1>4, <1>6 DEF DirInv, Finals
  <1>9. FinalNeverTorn'
    BY <1>1, <1>6 DEF FinalNeverTorn
  <1>10. PublishedDurable'
    <2>1. \A r \in receipts : r.inode # None
      BY DEF TypeOK, Created
    <2>2. QED
      BY <1>1, <1>4, <1>6, <2>1 DEF PublishedDurable, Finals, Names
  <1>11. PointerNeverRollsBack'
    <2>1. \A p \in PointerNames : maybe'[p] = maybe[p]
      BY <1>6 DEF Finals
    <2>2. QED
      BY <1>1, <2>1 DEF PointerNeverRollsBack
  <1>12. DistinctInv'
    BY <1>1, <1>5 DEF DistinctInv
  <1>13. ASSUME NEW v \in Writers
         PROVE  CallInv(v)' /\ StageInv(v)' /\ FinalInv(v)'
    <2>1. CASE v = w
      <3>1. CallInv(w)'
        BY <1>1, <1>2, <1>3, <1>5 DEF CallInv, Created
      <3>2. \A n \in Names : i \in maybe'[n] <=> i \in maybe[n]
        BY <1>3, <1>4
      <3>3. StageInv(w)'
        BY <1>1, <1>2, <1>3, <1>4, <1>5, <3>2
           DEF StageInv, HoldsStage, Staging, Settled, Linked, Names, Finals
      <3>4. FinalInv(w)'
        <4>1. pub[w].final \in Finals
          BY <1>1, <1>2 DEF CallInv, Targets, Finals
        <4>2. QED
          BY <1>1, <1>2, <1>3, <1>5, <1>6, <4>1 DEF FinalInv, Settled
      <3>5. QED
        BY <2>1, <3>1, <3>3, <3>4
    <2>2. CASE v # w /\ pub[v].pc # "idle"
      <3>1. pub'[v] = pub[v] /\ CallInv(v) /\ StageInv(v) /\ FinalInv(v)
        BY <1>5, <2>2 DEF AttemptInv
      <3>2. /\ pub[v].inode # i /\ pub[v].inode # None
            /\ pub[v].stage \in StageNames /\ pub[v].stage \in Names
        BY <1>1, <2>2, <3>1 DEF DistinctInv, CallInv, Created, TypeOK, Names
      <3>3. CallInv(v)'
        BY <1>1, <3>1 DEF CallInv, Created
      <3>4. dir'[pub[v].stage] = pub[v].inode <=> dir[pub[v].stage] = pub[v].inode
        BY <1>3, <1>4, <3>2
      <3>5. \A n \in Names : pub[v].inode \in maybe'[n] <=> pub[v].inode \in maybe[n]
        BY <1>4, <3>2
      <3>6. StageInv(v)'
        BY <3>1, <3>2, <3>4, <3>5 DEF StageInv, HoldsStage, Names, Finals
      <3>7. FinalInv(v)'
        BY <1>1, <1>6, <3>1, FinalStays
      <3>8. QED
        BY <3>3, <3>6, <3>7
    <2>3. CASE v # w /\ pub[v].pc = "idle"
      BY <1>5, <2>3 DEF CallInv, StageInv, FinalInv, Settled
    <2>4. QED
      BY <2>1, <2>2, <2>3
  <1>14. QED
    BY <1>6, <1>7, <1>8, <1>9, <1>10, <1>11, <1>12, <1>13 DEF AttemptInv, Finals

(* An attempt that ends returns a receipt for what is settled, or nothing.  *)
LEMMA EndStep ==
  ASSUME IInv, NEW w \in Writers, Accept(w) \/ Abort(w)
  PROVE  IInv'
  <1> USE NameAssumption, ValueAssumption, BoundAssumption DEF IInv
  <1> DEFINE new == [final |-> pub[w].final, bytes |-> pub[w].bytes, inode |-> pub[w].inode]
  <1>1. /\ UNCHANGED <<dir, maybe, data, synced, nextInode, moved>>
        /\ pub' = [pub EXCEPT ![w] = NoAttempt] /\ pub[w].pc # "idle"
        /\ \/ receipts' = receipts
           \/ pub[w].pc = "accept" /\ receipts' = receipts \cup {new}
    BY DEF Accept, Abort, At, disk, ghosts
  <1>2. CallInv(w) /\ StageInv(w) /\ FinalInv(w)
    BY DEF AttemptInv
  <1>3. /\ \A v \in Writers : v # w => pub'[v] = pub[v]
        /\ pub'[w].pc = "idle" /\ pub' \in [Writers -> Attempt]
    <2>1. NoAttempt \in Attempt
      BY DEF NoAttempt, Attempt, PCs, Modes
    <2>2. QED
      BY <1>1, <2>1 DEF TypeOK, NoAttempt
  <1>4. /\ new \in [final : Finals, bytes : Values, inode : Created]
        /\ new.final = pub[w].final /\ new.inode = pub[w].inode /\ new.bytes = pub[w].bytes
    BY <1>1, <1>2 DEF CallInv, Targets, Finals
  <1> HIDE DEF new
  <1>5. TypeOK'
    <2>1. receipts' \subseteq [final : Finals, bytes : Values, inode : Created]
      BY <1>1, <1>4 DEF TypeOK
    <2>2. QED
      BY <1>1, <1>3, <2>1 DEF TypeOK, Created, Attempt
  <1>6. DirInv' /\ FinalNeverTorn'
    BY <1>1 DEF DirInv, FinalNeverTorn
  <1>7. PublishedDurable'
    <2>1. ASSUME pub[w].pc = "accept"
          PROVE  /\ data[new.inode] = new.bytes /\ new.inode \in synced
                 /\ new.final \in FinalNames => maybe[new.final] = {new.inode}
                 /\ \A s \in StageNames : new.inode \notin maybe[s]
      <3>1. data[new.inode] = new.bytes /\ new.inode \in synced
        BY <1>2, <1>4, <2>1 DEF CallInv
      <3>2. \A s \in StageNames : new.inode \notin maybe[s]
        BY <1>2, <1>4, <2>1 DEF CallInv, StageInv
      <3>3. new.final \in FinalNames => maybe[new.final] = {new.inode}
        BY <1>2, <1>4, <2>1 DEF CallInv, FinalInv, Settled, Targets
      <3>4. QED
        BY <3>1, <3>2, <3>3
    <2>2. QED
      BY <1>1, <2>1 DEF PublishedDurable
  <1>8. PointerNeverRollsBack'
    <2> SUFFICES ASSUME NEW p \in PointerNames, NEW k \in DOMAIN moved[p],
                        NEW r \in receipts', r.final = p, r.inode = moved[p][k]
                 PROVE  maybe[p] \subseteq {moved[p][j] : j \in k..Len(moved[p])}
      BY <1>1 DEF PointerNeverRollsBack
    <2>1. CASE r \in receipts
      BY <2>1 DEF PointerNeverRollsBack
    <2>2. CASE r = new /\ pub[w].pc = "accept"
      <3>1. pub[w].mode = "replace" /\ Since(p, pub[w].inode)
        BY <1>2, <1>4, <2>2 DEF CallInv, FinalInv, Settled, Targets
      <3>2. QED
        BY <1>4, <2>2, <3>1 DEF Since
    <2>3. QED
      BY <1>1, <2>1, <2>2
  <1>9. DistinctInv'
    BY <1>1, <1>3 DEF DistinctInv
  <1>10. ASSUME NEW v \in Writers
         PROVE  CallInv(v)' /\ StageInv(v)' /\ FinalInv(v)'
    <2>1. CASE v = w \/ pub[v].pc = "idle"
      BY <1>3, <2>1 DEF CallInv, StageInv, FinalInv, Settled
    <2>2. CASE v # w /\ pub[v].pc # "idle"
      <3>1. pub'[v] = pub[v] /\ CallInv(v) /\ StageInv(v) /\ FinalInv(v)
        BY <1>3, <2>2 DEF AttemptInv
      <3>2. \A r \in receipts' : r.inode # pub[v].inode
        BY <1>1, <1>4, <2>2, <3>1 DEF CallInv, DistinctInv
      <3>3. CallInv(v)'
        BY <1>1, <3>1, <3>2 DEF CallInv, Created
      <3>4. StageInv(v)'
        BY <1>1, <3>1 DEF StageInv, HoldsStage
      <3>5. FinalInv(v)'
        BY <1>1, <3>1, FinalStays
      <3>6. QED
        BY <3>3, <3>4, <3>5
    <2>3. QED
      BY <2>1, <2>2
  <1>11. QED
    BY <1>5, <1>6, <1>7, <1>8, <1>9, <1>10 DEF AttemptInv

(* A power failure leaves, under every name, one of the entries that might  *)
(* survive, with its bytes if they were synced, and ends every attempt.     *)
LEMMA PowerLossStep ==
  ASSUME IInv, PowerLoss
  PROVE  IInv' /\ \A n \in Names : dir'[n] \in maybe[n]
  <1> USE NameAssumption, ValueAssumption, BoundAssumption DEF IInv
  <1>1. /\ UNCHANGED <<nextInode, receipts, moved>>
        /\ synced' = Created /\ pub' = [w \in Writers |-> NoAttempt]
        /\ maybe' = [n \in Names |-> {dir'[n]}]
    BY DEF PowerLoss, Created
  <1>2. /\ data' \in [Inodes -> Values \cup {Torn}]
        /\ \A i \in synced : data'[i] = data[i]
    <2>1. PICK garbled \in SUBSET (1..nextInode - 1 \ synced) :
             data' = [i \in Inodes |-> IF i \in garbled THEN Torn ELSE data[i]]
      BY DEF PowerLoss
    <2>2. synced \subseteq Inodes
      BY DEF TypeOK, Created, Inodes
    <2>3. QED
      BY <2>1, <2>2 DEF TypeOK
  <1>3. /\ dir' \in [Names -> UNION {maybe[n] : n \in Names}]
        /\ \A n \in Names : dir'[n] \in maybe[n]
    BY DEF PowerLoss
  <1>4. \A w \in Writers : pub'[w].pc = "idle"
    BY <1>1 DEF NoAttempt
  <1>5. TypeOK'
    <2>1. NoAttempt \in Attempt
      BY DEF NoAttempt, Attempt, PCs, Modes
    <2>2. dir' \in [Names -> Created \cup {None}]
      BY <1>3 DEF TypeOK
    <2>3. QED
      BY <1>1, <1>2, <2>1, <2>2 DEF TypeOK, Created, Attempt
  <1>6. DirInv'
    BY <1>1 DEF DirInv, Names, Finals
  <1>7. FinalNeverTorn'
    BY <1>1, <1>2, <1>3 DEF FinalNeverTorn, TypeOK, Names
  <1>8. PublishedDurable'
    BY <1>1, <1>2, <1>3 DEF PublishedDurable, TypeOK, Names, Finals
  <1>9. PointerNeverRollsBack'
    <2>1. \A p \in PointerNames : maybe'[p] \subseteq maybe[p]
      BY <1>1, <1>3 DEF Names, Finals
    <2>2. QED
      BY <1>1, <2>1, SMTT(30) DEF PointerNeverRollsBack
  <1>10. DistinctInv' /\ AttemptInv'
    BY <1>4 DEF DistinctInv, AttemptInv, CallInv, StageInv, FinalInv, Settled
  <1>11. QED
    BY <1>3, <1>5, <1>6, <1>7, <1>8, <1>9, <1>10
-----------------------------------------------------------------------------
(* Every step preserves the invariant.                                      *)
LEMMA NextIInv == IInv /\ [Next]_vars => IInv'
  <1> SUFFICES ASSUME IInv, [Next]_vars PROVE IInv'
    OBVIOUS
  <1>1. CASE \E w \in Writers, mode \in Modes, stage \in StageNames, bytes \in Values :
                \E final \in Targets(mode) : CreateStage(w, mode, stage, final, bytes)
    BY <1>1, CreateStep
  <1>2. ASSUME NEW w \in Writers, Publish(w)
        PROVE  IInv'
    BY <1>2, VerifyStep, FillStep, SyncStep, BindStep, ReplaceStep, RemoveStep, EndStep
       DEF Publish
  <1>3. ASSUME NEW w \in Writers, Abort(w)
        PROVE  IInv'
    BY <1>3, EndStep
  <1>4. CASE PowerLoss
    BY <1>4, PowerLossStep
  <1>5. CASE \/ UNCHANGED vars
             \/ \E final \in FinalNames, bytes \in Values : VerifyExisting(final, bytes)
    <2>1. UNCHANGED <<dir, maybe, data, synced, nextInode, pub, receipts, moved>>
      BY <1>5 DEF vars, VerifyExisting, disk
    <2>2. TypeOK' /\ DirInv' /\ FinalNeverTorn' /\ PublishedDurable' /\ DistinctInv'
      BY <2>1 DEF IInv, TypeOK, Created, Attempt, DirInv, FinalNeverTorn, PublishedDurable, DistinctInv
    <2>3. PointerNeverRollsBack'
      BY <2>1 DEF IInv, PointerNeverRollsBack
    <2>4. AttemptInv'
      BY <2>1, IdleDisk DEF IInv, AttemptInv
    <2>5. QED
      BY <2>2, <2>3, <2>4 DEF IInv
  <1>6. QED
    BY <1>1, <1>2, <1>3, <1>4, <1>5 DEF Next

(* The invariant holds in every reachable state.                            *)
THEOREM Inductive == Spec => []IInv
  BY InitIInv, NextIInv, PTL DEF Spec

(* Whatever power fails and whoever races for the same names, a final or    *)
(* pointer name leads to a complete, synced file or to none.                *)
THEOREM NeverTorn == Spec => []FinalNeverTorn
  <1>1. IInv => FinalNeverTorn
    BY DEF IInv
  <1>2. QED
    BY <1>1, Inductive, PTL

\* What a verified receipt rests on: nothing unbinds a final, or writes to the
\* file it names, while the power stays on.
VerifiedInv ==
    \A r \in verified :
        /\ r.final \in FinalNames /\ r.inode \in Created
        /\ dir[r.final] = r.inode /\ data[r.inode] = r.bytes

\* A step that leaves bound finals, and the files they name, alone.
KeepsFinals ==
    \A n \in FinalNames : dir[n] # None => dir'[n] = dir[n] /\ data'[dir[n]] = data[dir[n]]

(* No system call of a publisher unbinds a final or changes its file.       *)
LEMMA PublisherKeepsFinals ==
  ASSUME IInv, NEW w \in Writers, Publish(w)
  PROVE  KeepsFinals
  <1> USE NameAssumption, BoundAssumption
  <1>0. \A n \in FinalNames : n \in Names /\ n \in Finals /\ dir[n] \in maybe[n]
    BY DEF IInv, DirInv, Names, Finals
  <1>1. CASE WriteStage(w)
    <2>1. pub[w].pc = "write" /\ dir' = dir
          /\ data' = [data EXCEPT ![pub[w].inode] = pub[w].bytes]
      BY <1>1 DEF WriteStage, At
    <2>2. \A n \in FinalNames : dir[n] # pub[w].inode
      BY <1>0, <2>1 DEF IInv, AttemptInv, StageInv, Staging
    <2>3. QED
      BY <2>1, <2>2 DEF KeepsFinals, IInv, TypeOK
  <1>2. CASE SyncStage(w) \/ VerifyStage(w) \/ SyncNamespace(w) \/ VerifyFinal(w)
             \/ CheckCleanup(w) \/ Accept(w)
    <2>1. dir' = dir /\ data' = data
      BY <1>2 DEF SyncStage, VerifyStage, SyncNamespace, VerifyFinal, CheckCleanup, Accept, disk
    <2>2. QED
      BY <2>1 DEF KeepsFinals
  <1>3. CASE LinkFinal(w) \/ MoveNoReplace(w) \/ MoveReplace(w) \/ RemoveStage(w)
    <2>1. pub[w].pc # "idle" /\ data' = data
      BY <1>3 DEF LinkFinal, MoveNoReplace, MoveReplace, RemoveStage, At
    <2>2. pub[w].stage \notin FinalNames
          /\ (pub[w].mode = "replace" => pub[w].final \notin FinalNames)
      BY <2>1 DEF IInv, AttemptInv, CallInv, Targets
    <2>3. \A n \in FinalNames : dir[n] # None => dir'[n] = dir[n]
      BY <1>0, <1>3, <2>2 DEF LinkFinal, MoveNoReplace, MoveReplace, RemoveStage, SetEntries
    <2>4. QED
      BY <2>1, <2>3 DEF KeepsFinals
  <1>4. QED
    BY <1>1, <1>2, <1>3 DEF Publish

(* Verified receipts stand until the power fails and takes their holders.   *)
LEMMA VerifiedStep ==
  ASSUME IInv, [Next]_vars, VerifiedInv
  PROVE  VerifiedInv'
  <1> USE NameAssumption, BoundAssumption
  <1>0. \A n \in FinalNames : n \in Names /\ n \notin StageNames
    BY DEF Names, Finals
  <1>1. ASSUME KeepsFinals, verified' = verified, Created \subseteq Created'
        PROVE  VerifiedInv'
    <2>1. \A r \in verified : dir[r.final] # None
      BY DEF VerifiedInv, Created
    <2>2. QED
      BY <1>1, <2>1 DEF VerifiedInv, KeepsFinals
  <1>2. CASE \E w \in Writers, mode \in Modes, stage \in StageNames, bytes \in Values :
                \E final \in Targets(mode) : CreateStage(w, mode, stage, final, bytes)
    <2>1. KeepsFinals
      BY <1>0, <1>2 DEF CreateStage, SetEntries, KeepsFinals
    <2>2. verified' = verified /\ Created \subseteq Created'
      BY <1>2 DEF CreateStage, ghosts, Created, IInv, TypeOK
    <2>3. QED
      BY <1>1, <2>1, <2>2
  <1>3. ASSUME NEW w \in Writers, Publish(w)
        PROVE  VerifiedInv'
    <2>1. verified' = verified /\ nextInode' = nextInode
      BY <1>3 DEF Publish, WriteStage, SyncStage, VerifyStage, LinkFinal, MoveNoReplace,
                  MoveReplace, SyncNamespace, VerifyFinal, CheckCleanup, RemoveStage,
                  Accept, ghosts, disk
    <2>2. QED
      BY <1>1, <1>3, <2>1, PublisherKeepsFinals DEF Created
  <1>4. CASE (\E w \in Writers : Abort(w)) \/ UNCHANGED vars
    BY <1>4 DEF Abort, ghosts, disk, vars, VerifiedInv, Created
  <1>5. ASSUME NEW final \in FinalNames, NEW bytes \in Values, VerifyExisting(final, bytes)
        PROVE  VerifiedInv'
    <2> DEFINE new == [final |-> final, bytes |-> bytes, inode |-> dir[final]]
    <2>1. /\ dir' = dir /\ data' = data /\ nextInode' = nextInode
          /\ verified' = verified \cup {new}
      BY <1>5 DEF VerifyExisting, disk
    <2>2. new.final \in FinalNames /\ new.inode \in Created /\ dir[new.final] = new.inode
          /\ data[new.inode] = new.bytes
      BY <1>0, <1>5 DEF VerifyExisting, IInv, TypeOK
    <2> HIDE DEF new
    <2>3. QED
      BY <2>1, <2>2 DEF VerifiedInv, Created
  <1>6. CASE PowerLoss
    BY <1>6 DEF PowerLoss, VerifiedInv
  <1>7. QED
    BY <1>2, <1>3, <1>4, <1>5, <1>6 DEF Next

(* A receipt from publish_new_file_v1 or a move names a file that no later  *)
(* power failure takes back, with no second link to it; one from            *)
(* verify_existing_publication_v1 names a file whose bytes are on disk and  *)
(* that the name keeps until the power fails, and then keeps or loses.      *)
THEOREM ReceiptsOutliveThePower == Spec => []ReceiptDurable
  <1>1. Init => VerifiedInv
    BY DEF Init, VerifiedInv
  <1>2. IInv /\ VerifiedInv => ReceiptDurable
    <2> SUFFICES ASSUME IInv, NEW r \in verified, VerifiedInv
                 PROVE  /\ data[r.inode] = r.bytes /\ r.inode \in synced
                        /\ dir[r.final] = r.inode
                        /\ maybe[r.final] \subseteq {None, r.inode}
      BY DEF IInv, ReceiptDurable, VerifiedStands
    <2>1. /\ r.final \in FinalNames /\ r.inode # None
          /\ dir[r.final] = r.inode /\ data[r.inode] = r.bytes
      BY BoundAssumption DEF VerifiedInv, Created
    <2>2. r.final \in Finals /\ r.final \in Names
      BY <2>1 DEF Finals, Names
    <2>3. dir[r.final] \in maybe[r.final] /\ maybe[r.final] \subseteq {None, dir[r.final]}
      BY <2>1, <2>2 DEF IInv, DirInv
    <2>4. QED
      BY <2>1, <2>2, <2>3 DEF IInv, FinalNeverTorn
  <1>3. QED
    BY <1>1, <1>2, VerifiedStep, Inductive, PTL DEF Spec

(* replace_file_by_move_v2: after a receipt the pointer never names an      *)
(* older file again, whichever replacements race and wherever power fails.  *)
THEOREM NoRollBack == Spec => []PointerNeverRollsBack
  <1>1. IInv => PointerNeverRollsBack
    BY DEF IInv
  <1>2. QED
    BY <1>1, Inductive, PTL

(* Until an attempt publishes, its staging name is its own file: no other   *)
(* publisher unlinks or moves it away.                                      *)
THEOREM StageIsOwn == Spec => []OwnStageOnly
  <1>1. IInv => OwnStageOnly
    BY DEF IInv, AttemptInv, StageInv, HoldsStage, OwnStageOnly, Staging
  <1>2. QED
    BY <1>1, Inductive, PTL

-----------------------------------------------------------------------------
(* Publication implements WriteOnce.                                        *)

\* The values of the contract's two variables.
Bound == [n \in FinalNames |-> IF dir[n] = None THEN None ELSE data[dir[n]]]
Acked == {r.final : r \in receipts} \cap FinalNames

(* A step that changes neither the finals' entries, nor the bytes of the    *)
(* files they name, nor the receipts, is no step of the contract.           *)
LEMMA ContractStutters ==
  ASSUME receipts' = receipts,
         \A n \in FinalNames : dir'[n] = dir[n] /\ (dir[n] # None => data'[dir[n]] = data[dir[n]])
  PROVE  UNCHANGED <<Bound, Acked>>
  BY DEF Bound, Acked

(* Each step of a publisher or of the power is one step of WriteOnce or     *)
(* none: the link or move binds, the receipt acknowledges, power loses.     *)
LEMMA ContractStep ==
  ASSUME IInv, IInv', [Next]_vars
  PROVE  [Contract!Next]_<<Bound, Acked>>
  <1> USE NameAssumption, ValueAssumption, BoundAssumption
  <1> USE DEF Contract!Next, Contract!Bind, Contract!Acknowledge, Contract!Lose
  <1>0. \A n \in FinalNames : n \in Names /\ n \in Finals /\ dir[n] \in maybe[n] /\ n \notin StageNames
    BY DEF IInv, DirInv, Names, Finals
  <1>1. CASE \E w \in Writers, mode \in Modes, stage \in StageNames, bytes \in Values :
                \E final \in Targets(mode) : CreateStage(w, mode, stage, final, bytes)
    <2>1. receipts' = receipts /\ data' = data /\ \A n \in FinalNames : dir'[n] = dir[n]
      BY <1>0, <1>1 DEF CreateStage, SetEntries, ghosts
    <2>2. QED
      BY <2>1, ContractStutters
  <1>2. ASSUME NEW w \in Writers, WriteStage(w)
        PROVE  UNCHANGED <<Bound, Acked>>
    <2>1. receipts' = receipts /\ dir' = dir /\ data' = [data EXCEPT ![pub[w].inode] = pub[w].bytes]
      BY <1>2 DEF WriteStage, ghosts
    <2>2. \A n \in FinalNames : dir[n] # pub[w].inode
      BY <1>0, <1>2 DEF WriteStage, At, IInv, AttemptInv, StageInv, Staging
    <2>3. \A n \in FinalNames : dir[n] # None => data'[dir[n]] = data[dir[n]]
      <3>1. \A n \in FinalNames : dir[n] # None => dir[n] \in Inodes
        BY <1>0 DEF IInv, TypeOK, Created, Inodes
      <3>2. QED
        BY <2>1, <2>2, <3>1 DEF IInv, TypeOK
    <2>4. QED
      BY <2>1, <2>3, ContractStutters
  <1>3. ASSUME NEW w \in Writers,
               \/ SyncStage(w) \/ VerifyStage(w) \/ SyncNamespace(w) \/ VerifyFinal(w)
               \/ CheckCleanup(w) \/ Abort(w)
        PROVE  UNCHANGED <<Bound, Acked>>
    <2>1. receipts' = receipts /\ dir' = dir /\ data' = data
      BY <1>3 DEF SyncStage, VerifyStage, SyncNamespace, VerifyFinal, CheckCleanup, Abort, ghosts, disk
    <2>2. QED
      BY <2>1, ContractStutters
  <1>4. ASSUME NEW w \in Writers, MoveReplace(w) \/ RemoveStage(w)
        PROVE  UNCHANGED <<Bound, Acked>>
    <2>1. receipts' = receipts /\ data' = data
      BY <1>4 DEF MoveReplace, RemoveStage, ghosts
    <2>2. \A n \in FinalNames : dir'[n] = dir[n]
      BY <1>4, ReplaceStep, RemoveStep
    <2>3. QED
      BY <2>1, <2>2, ContractStutters
  <1>5. ASSUME NEW w \in Writers, LinkFinal(w) \/ MoveNoReplace(w)
        PROVE  Contract!Next
    <2> DEFINE f == pub[w].final  b == pub[w].bytes
    <2>1. /\ receipts' = receipts /\ data' = data
          /\ pub[w].pc = "publish" /\ pub[w].mode # "replace"
      BY <1>5 DEF LinkFinal, MoveNoReplace, At, ghosts
    <2>2. CallInv(w)
      BY DEF IInv, AttemptInv
    <2>3. /\ f \in FinalNames /\ b \in Values /\ data[pub[w].inode] = b
          /\ pub[w].inode # None /\ pub[w].stage \in StageNames
      BY <2>1, <2>2 DEF CallInv, Targets, Created, IInv, TypeOK
    <2>4. /\ dir[f] = None /\ dir'[f] = pub[w].inode
          /\ \A n \in FinalNames : n # f => dir'[n] = dir[n]
      BY <1>0, <1>5, <2>3, BindStep
    <2>5. Bound[f] = None /\ Bound' = [Bound EXCEPT ![f] = b]
      BY <2>1, <2>3, <2>4 DEF Bound
    <2>6. Acked' = Acked
      BY <2>1 DEF Acked
    <2>7. QED
      BY <2>3, <2>5, <2>6 DEF Bound, Acked
  <1>6. ASSUME NEW w \in Writers, Accept(w)
        PROVE  [Contract!Next]_<<Bound, Acked>>
    <2> DEFINE f == pub[w].final
    <2>1. /\ dir' = dir /\ data' = data /\ pub[w].pc = "accept"
          /\ receipts' = receipts \cup
                {[final |-> f, bytes |-> pub[w].bytes, inode |-> pub[w].inode]}
      BY <1>6 DEF Accept, At, disk
    <2>2. Bound' = Bound
      BY <2>1 DEF Bound
    <2>3. CallInv(w) /\ FinalInv(w)
      BY DEF IInv, AttemptInv
    <2>4. Acked' = Acked \cup ({f} \cap FinalNames)
      <3> DEFINE new == [final |-> f, bytes |-> pub[w].bytes, inode |-> pub[w].inode]
      <3>1. new.final = f /\ receipts' = receipts \cup {new}
        BY <2>1
      <3> HIDE DEF new
      <3>2. {r.final : r \in receipts'} = {r.final : r \in receipts} \cup {f}
        BY <3>1
      <3>3. QED
        BY <3>2 DEF Acked
    <2>5. CASE f \notin FinalNames
      BY <2>2, <2>4, <2>5
    <2>6. CASE f \in FinalNames
      <3>1. dir[f] = pub[w].inode /\ pub[w].inode # None /\ data[pub[w].inode] \in Values
        BY <1>0, <2>1, <2>3, <2>6 DEF CallInv, FinalInv, Targets, Settled, Created, IInv, TypeOK
      <3>2. Bound[f] # None
        BY <2>6, <3>1 DEF Bound
      <3>3. Acked' = Acked \cup {f}
        BY <2>4, <2>6
      <3>4. QED
        BY <2>2, <2>6, <3>2, <3>3 DEF Bound, Acked
    <2>7. QED
      BY <2>5, <2>6
  <1>7. CASE PowerLoss
    <2> DEFINE lost == {n \in FinalNames : dir'[n] = None}
    <2>1. receipts' = receipts
      BY <1>7 DEF PowerLoss
    <2>2. \A n \in FinalNames : dir'[n] \in maybe[n]
      BY <1>0, <1>7, PowerLossStep
    <2>3. \A n \in FinalNames \ lost : dir'[n] = dir[n]
      BY <2>2 DEF IInv, DirInv
    <2>4. \A n \in FinalNames \ lost : data'[dir[n]] = data[dir[n]]
      <3>1. PICK garbled \in SUBSET (1..nextInode - 1 \ synced) :
               data' = [i \in Inodes |-> IF i \in garbled THEN Torn ELSE data[i]]
        BY <1>7 DEF PowerLoss
      <3>2. \A n \in FinalNames \ lost : dir[n] \in synced /\ dir[n] \in Inodes
        BY <1>0, <2>2, <2>3 DEF IInv, FinalNeverTorn, TypeOK, Created, Inodes
      <3>3. QED
        BY <3>1, <3>2
    <2>5. lost \cap Acked = {}
      <3>1. \A r \in receipts : r.inode # None /\ (r.final \in FinalNames => maybe[r.final] = {r.inode})
        BY DEF IInv, TypeOK, Created, PublishedDurable
      <3>2. QED
        BY <2>2, <3>1 DEF Acked
    <2>6. Bound' = [n \in FinalNames |-> IF n \in lost THEN None ELSE Bound[n]]
      BY <2>3, <2>4 DEF Bound
    <2>7. Acked' = Acked
      BY <2>1 DEF Acked
    <2>8. QED
      BY <2>5, <2>6, <2>7 DEF Bound, Acked
  <1>8. CASE \/ UNCHANGED vars
             \/ \E final \in FinalNames, bytes \in Values : VerifyExisting(final, bytes)
    <2>1. receipts' = receipts /\ data' = data /\ dir' = dir
      BY <1>8 DEF vars, VerifyExisting, disk
    <2>2. QED
      BY <2>1, ContractStutters
  <1>9. QED
    BY <1>1, <1>2, <1>3, <1>4, <1>5, <1>6, <1>7, <1>8 DEF Next, Publish

(* The immutable publications implement WriteOnce: a name is bound once and *)
(* whole, acknowledged only while bound, and lost only if unacknowledged.   *)
THEOREM PublicationRefines == Spec => ImplementsWriteOnce
  <1>1. Init => Contract!Init
    BY DEF Init, Contract!Init, Names, Finals
  <1>2. IInv /\ IInv' /\ [Next]_vars => [Contract!Next]_<<Bound, Acked>>
    BY ContractStep
  <1>3. QED
    BY <1>1, <1>2, Inductive, PTL DEF Spec, ImplementsWriteOnce, Contract!Spec, Bound, Acked
=============================================================================
