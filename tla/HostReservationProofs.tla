------------------------ MODULE HostReservationProofs ------------------------
(***************************************************************************)
(* Proofs about HostReservation, for any number of launchers, any nesting  *)
(* and any number of kills and restarts, on both platforms.  The idea: a   *)
(* reservation that lost the lock, or that somebody is about to take it    *)
(* from with the lock open, is quiet: no supervisor of it is adopted, and  *)
(* what still runs escaped.  Quiet is stable, because the events of such a *)
(* reservation are frozen and an adoption must append one.                 *)
(***************************************************************************)
EXTENDS HostReservation, TLAPS

\* Where a supervisor stands that has adopted and may have a child.
Holding == {"record", "wait", "drain", "drained"}

\* Where a launcher stands that has created no supervisor.
Alone == {"none", "acquire", "archive", "create", "cancel", "rename"}

\* A descendant of the work that called setsid, outlived the work and was not
\* recorded as a member of the job.
LeftAlone(t) ==
    pc[t]["stray"] = "apart" /\ ~Alive(t, "work") /\ "stray" \notin recorded[t]

\* No supervisor has adopted the reservation, and its live work escaped.
Quiet(t) ==
    /\ pc[t]["sup"] \in {"none", "start", "finish", "gone"}
    /\ pc[t]["nsup"] \in {"none", "start", "gone"}
    /\ Alive(t, "work") =>
          backend = "linux" /\ ~Alive(t, "sup") /\ "work" \notin recorded[t]
    /\ Alive(t, "stray") =>
          /\ backend = "linux" /\ ~Alive(t, "sup")
          /\ "work" \notin recorded[t] \/ LeftAlone(t)
    /\ Alive(t, "nwork") =>
          backend = "linux" /\ ~Alive(t, "nsup") /\ "nwork" \notin recorded[t]

\* Where each process may stand.
PlaceInv(t) ==
    /\ pc[t]["owner"] \in LauncherPCs \cup {"none", "gone"}
    /\ pc[t]["sup"] \in SupervisorPCs \cup {"none", "gone"}
    /\ pc[t]["work"] \in (WorkPCs \ {"apart"}) \cup {"none", "gone"}
    /\ pc[t]["stray"] \in {"none", "run", "apart", "gone"}
    /\ pc[t]["nsup"] \in (SupervisorPCs \ {"release", "rename"}) \cup {"none", "gone"}
    /\ pc[t]["nwork"] \in {"none", "run", "gone"}

\* Who exists only because of whom.
OrderInv(t) ==
    /\ pc[t]["owner"] \in Alone => pc[t]["sup"] = "none" /\ recorded[t] = {}
    /\ pc[t]["owner"] = "handoff" => pc[t]["sup"] # "none"
    /\ pc[t]["sup"] \in {"none", "start", "finish", "spawn"} => pc[t]["work"] = "none"
    /\ pc[t]["sup"] = "record" => pc[t]["work"] # "none"
    /\ pc[t]["work"] = "none" => pc[t]["stray"] = "none" /\ pc[t]["nsup"] = "none"
    /\ pc[t]["work"] = "create" => pc[t]["nsup"] = "none"
    /\ pc[t]["work"] = "handoff" => pc[t]["nsup"] # "none"
    /\ pc[t]["nsup"] \in {"none", "start", "spawn"} => pc[t]["nwork"] = "none"
    /\ pc[t]["nsup"] = "record" => pc[t]["nwork"] # "none"

\* What the events name: existing processes, and every adopted supervisor.
RecordInv(t) ==
    /\ recorded[t] \subseteq (Roles \ {"owner"}) \cup {"unknown"}
    /\ \A r \in recorded[t] : r \in Roles => pc[t][r] # "none"
    /\ pc[t]["sup"] \in Holding \cup {"spawn", "release"} \/ pc[t]["work"] # "none"
          => "sup" \in recorded[t]
    /\ pc[t]["nsup"] \in Holding \cup {"spawn", "finish"} \/ pc[t]["nwork"] # "none"
          => "nsup" \in recorded[t]

\* Jobs: emptied before release, and on Windows never outliving a supervisor.
JobInv(t) ==
    /\ pc[t]["sup"] = "release" =>
          /\ ~Alive(t, "work") /\ ~Alive(t, "stray")
          /\ backend = "linux" => ~Alive(t, "nsup") /\ ~Alive(t, "nwork")
    /\ pc[t]["sup"] = "rename" =>
          /\ ~Alive(t, "work") /\ ~Alive(t, "stray") /\ ~Alive(t, "nwork")
          /\ pc[t]["nsup"] \in {"none", "start", "gone"}
    /\ backend = "windows" =>
          /\ Alive(t, "work") \/ Alive(t, "stray") => pc[t]["sup"] \in Holding
          /\ Alive(t, "nwork") => pc[t]["nsup"] \in Holding

\* A restart ends everything: only a launcher that has not acquired yet runs
\* under a boot id that is not its record's.
BootInv(t) ==
    /\ bootOf[t] <= boot
    /\ bootOf[t] # boot =>
          /\ \A r \in Roles \ {"owner"} : ~Alive(t, r)
          /\ pc[t]["owner"] \in {"none", "gone", "acquire", "archive"}

\* A token that holds the lock has acquired it; one that does not is quiet.
LockInv(t) ==
    /\ lock = t => pc[t]["owner"] \notin {"none", "acquire", "archive"}
    /\ lock # t => Quiet(t)

\* Who has the lock open, and what the checks made with it open established.
HandleInv(t) ==
    /\ pc[t]["owner"] = "archive" => handle = <<t, "owner">> /\ lock # None /\ Dead(lock)
    /\ pc[t]["owner"] = "rename" => handle = <<t, "owner">> /\ lock = t
    /\ pc[t]["sup"] = "rename" => handle = <<t, "sup">> /\ lock = t
    /\ handle # None /\ lock = t => Quiet(t) \/ pc[t]["sup"] = "rename"

Local(t) == PlaceInv(t) /\ OrderInv(t) /\ RecordInv(t) /\ JobInv(t) /\ BootInv(t)

IInv ==
    /\ TypeOK
    /\ boot <= faults
    /\ handle # None => lock # None
    /\ \A t \in Tokens : Local(t) /\ LockInv(t) /\ HandleInv(t)

-----------------------------------------------------------------------------
(* What the process table has to show.                                      *)

\* No recorded process lives and no live process hangs off a recorded one.
\* (On Linux a table row only ever names a living parent or the session, which
\* a process leaves with setsid.)
Bare(t) ==
    /\ "unknown" \notin recorded[t]
    /\ \A r \in Roles : r \in recorded[t] => ~Alive(t, r)
    /\ Alive(t, "stray") /\ pc[t]["stray"] # "apart" => "work" \notin recorded[t]
    /\ backend = "windows" =>
          /\ Alive(t, "work") => "sup" \notin recorded[t]
          /\ Alive(t, "nwork") => "nsup" \notin recorded[t]

(* What live_descendants finds comes down to Bare for an observer that is   *)
(* not itself one of the processes.                                         *)
LEMMA LiveIffNotBare ==
  ASSUME NEW t \in Tokens, NEW me, me \notin Roles, me # "unknown"
  PROVE  StillLive(t, me) <=> ~Bare(t)
  <1>1. \A r \in Roles : Linked(t, r) =
           IF backend = "windows"
           THEN CASE r = "work" -> {"sup"}
                  [] r = "stray" -> IF pc[t]["stray"] = "apart" THEN {} ELSE {"work"}
                  [] r = "nwork" -> {"nsup"}
                  [] OTHER -> {}
           ELSE LET up == {p \in {"sup"} : Alive(t, p)}
                IN CASE r = "work" -> up
                     [] r = "stray" -> (IF pc[t]["stray"] = "apart" THEN {} ELSE {"work"})
                                       \cup (IF Alive(t, "work") THEN {"work"} ELSE up)
                     [] r = "nsup" -> IF Alive(t, "work") THEN {"work"} ELSE up
                     [] r = "nwork" -> IF Alive(t, "nsup") THEN {"nsup"} ELSE up
                     [] OTHER -> {}
    BY DEF Linked, Roles
  <1>2. QED
    BY <1>1 DEF StillLive, Bare, Roles

(* What assess concludes, in these terms.                                   *)
Gone(t) ==
    \/ bootOf[t] # boot
    \/ recorded[t] = {} /\ ~Alive(t, "owner")
    \/ recorded[t] # {} /\ Bare(t)

(* assess is Gone, before a step ...                                        *)
LEMMA DeadIffGone == ASSUME NEW t \in Tokens PROVE Dead(t) <=> Gone(t)
  BY LiveIffNotBare, ReservationAssumption DEF Dead, Gone

(* ... and after it.                                                        *)
LEMMA DeadIffGoneThen == ASSUME NEW t \in Tokens PROVE Dead(t)' <=> Gone(t)'
  <1>1. \A r \in Roles : Linked(t, r)' =
           IF backend' = "windows"
           THEN CASE r = "work" -> {"sup"}
                  [] r = "stray" -> IF pc'[t]["stray"] = "apart" THEN {} ELSE {"work"}
                  [] r = "nwork" -> {"nsup"}
                  [] OTHER -> {}
           ELSE LET up == {p \in {"sup"} : Alive(t, p)'}
                IN CASE r = "work" -> up
                     [] r = "stray" -> (IF pc'[t]["stray"] = "apart" THEN {} ELSE {"work"})
                                       \cup (IF Alive(t, "work")' THEN {"work"} ELSE up)
                     [] r = "nsup" -> IF Alive(t, "work")' THEN {"work"} ELSE up
                     [] r = "nwork" -> IF Alive(t, "nsup")' THEN {"nsup"} ELSE up
                     [] OTHER -> {}
    BY DEF Linked, Roles
  <1>2. StillLive(t, None)' <=> ~Bare(t)'
    BY <1>1, ReservationAssumption DEF StillLive, Bare, Roles
  <1>3. QED
    BY <1>2 DEF Dead, Gone

(* A reservation whose processes and events do not change keeps everything  *)
(* that is said of it alone.                                                *)
LEMMA Frame ==
  ASSUME NEW u \in Tokens, pc'[u] = pc[u], recorded'[u] = recorded[u],
         bootOf'[u] = bootOf[u], boot' = boot, backend' = backend
  PROVE  (Local(u) => Local(u)') /\ (Quiet(u) <=> Quiet(u)') /\ (Dead(u) <=> Dead(u)')
  <1>1. \A r \in Roles : Alive(u, r)' <=> Alive(u, r)
    BY DEF Alive
  <1>2. Local(u) => Local(u)'
    BY DEF Local, PlaceInv, OrderInv, RecordInv, JobInv, BootInv, Alive
  <1>3. Quiet(u) <=> Quiet(u)'
    BY DEF Quiet, LeftAlone, Alive
  <1>4. Gone(u) <=> Gone(u)'
    BY <1>1 DEF Gone, Bare, Roles
  <1>5. QED
    BY <1>2, <1>3, <1>4, DeadIffGone, DeadIffGoneThen

(* Nobody is reserved, recorded or running in the initial state.            *)
LEMMA InitIInv == Init => IInv
  <1> SUFFICES ASSUME Init PROVE IInv
    OBVIOUS
  <1> USE ReservationAssumption DEF Init
  <1>1. TypeOK
    BY DEF TypeOK
  <1>2. \A t \in Tokens, r \in Roles : pc[t][r] = "none"
    OBVIOUS
  <1>3. ASSUME NEW t \in Tokens PROVE Local(t) /\ LockInv(t) /\ HandleInv(t)
    BY <1>2 DEF Local, PlaceInv, OrderInv, RecordInv, JobInv, BootInv, LockInv, HandleInv,
       Quiet, Alive, Roles, LauncherPCs, SupervisorPCs, WorkPCs, Holding
  <1>4. QED
    BY <1>1, <1>3 DEF IInv

-----------------------------------------------------------------------------
(* Steps that leave the lock alone.                                         *)

\* A step of one of t's processes that neither takes nor opens the lock, but
\* may end the process that has it open.
Calm(t) ==
    /\ Local(t)'
    /\ (lock # t \/ handle # None) /\ Quiet(t) => Quiet(t)' /\ (Dead(t) => Dead(t)')
    /\ pc'[t]["owner"] \in {"none", "acquire", "archive", "rename"} =>
          pc'[t]["owner"] = pc[t]["owner"]
    /\ pc'[t]["sup"] = "rename" => pc[t]["sup"] = "rename"
    /\ pc[t]["sup"] = "rename" /\ handle' # None => pc'[t]["sup"] = "rename"

(* Such a step preserves the invariant.                                     *)
LEMMA CalmStep ==
  ASSUME IInv, TypeOK', NEW t \in Tokens, Calm(t),
         \A u \in Tokens \ {t} : pc'[u] = pc[u] /\ recorded'[u] = recorded[u],
         bootOf' = bootOf, boot' = boot, backend' = backend, lock' = lock,
         faults' = faults \/ boot <= faults',
         \/ handle' = handle
         \/ /\ handle' = None /\ \E r \in Roles : handle = <<t, r>>
            /\ pc'[t]["owner"] \notin {"archive", "rename"} /\ pc'[t]["sup"] # "rename"
  PROVE  IInv'
  <1> USE ReservationAssumption
  <1>1. ASSUME NEW u \in Tokens, u # t
        PROVE  /\ pc'[u] = pc[u] /\ Local(u)'
               /\ (Quiet(u) <=> Quiet(u)') /\ (Dead(u) <=> Dead(u)')
    BY <1>1, Frame DEF IInv
  <1>2. ASSUME NEW u \in Tokens
        PROVE  Local(u)'
    BY <1>1 DEF Calm
  <1>3. ASSUME NEW u \in Tokens
        PROVE  LockInv(u)'
    BY <1>1 DEF Calm, LockInv, IInv
  <1>4. ASSUME NEW u \in Tokens, handle # None, lock = u, pc[u]["sup"] # "rename", Dead(u)
        PROVE  Quiet(u) /\ Dead(u)'
    BY <1>1, <1>4 DEF Calm, HandleInv, IInv
  <1>5. ASSUME NEW u \in Tokens
        PROVE  HandleInv(u)'
    <2>1. pc'[u]["owner"] = "archive" => handle' = <<u, "owner">> /\ lock' # None /\ Dead(lock)'
      <3> SUFFICES ASSUME pc'[u]["owner"] = "archive"
                   PROVE  handle' = <<u, "owner">> /\ lock' # None /\ Dead(lock)'
        OBVIOUS
      <3>1. pc[u]["owner"] = "archive"
        BY <1>1 DEF Calm
      <3>2. handle = <<u, "owner">> /\ lock \in Tokens /\ lock # None /\ Dead(lock)
        BY <3>1 DEF IInv, HandleInv, TypeOK
      <3>3. handle' = handle /\ handle # None
        BY <3>2 DEF Roles
      <3>4. pc[lock]["sup"] # "rename"
        BY <3>2 DEF IInv, HandleInv
      <3>5. Dead(lock)'
        BY <1>4, <3>2, <3>3, <3>4
      <3>6. QED
        BY <3>2, <3>3, <3>5
    <2>2. pc'[u]["owner"] = "rename" => handle' = <<u, "owner">> /\ lock' = u
      BY <1>1 DEF Calm, IInv, HandleInv
    <2>3. pc'[u]["sup"] = "rename" => handle' = <<u, "sup">> /\ lock' = u
      BY <1>1 DEF Calm, IInv, HandleInv
    <2>4. handle' # None /\ lock' = u => Quiet(u)' \/ pc'[u]["sup"] = "rename"
      BY <1>1 DEF Calm, IInv, HandleInv
    <2>5. QED
      BY <2>1, <2>2, <2>3, <2>4 DEF HandleInv
  <1>6. (handle # None => lock # None)' /\ (boot <= faults)'
    BY DEF IInv, TypeOK
  <1>7. QED
    BY <1>2, <1>3, <1>5, <1>6 DEF IInv

Places == LauncherPCs \cup SupervisorPCs \cup WorkPCs \cup {"none", "gone"}

(* One process of one reservation moves.                                    *)
LEMMA GotoFacts ==
  ASSUME TypeOK, NEW t \in Tokens, NEW r \in Roles, NEW l \in Places, Goto(t, r, l)
  PROVE  /\ pc' \in [Tokens -> [Roles -> Places]]
         /\ pc'[t][r] = l
         /\ \A q \in Roles \ {r} : pc'[t][q] = pc[t][q]
         /\ \A u \in Tokens \ {t} : pc'[u] = pc[u]
  BY DEF TypeOK, Goto, Places

GotoBoth(t, r, l, q, m) == pc' = [pc EXCEPT ![t][r] = l, ![t][q] = m]

(* Two processes of one reservation move.                                   *)
LEMMA TwoGotoFacts ==
  ASSUME TypeOK, NEW t \in Tokens, NEW r \in Roles, NEW q \in Roles, r # q,
         NEW l \in Places, NEW m \in Places, GotoBoth(t, r, l, q, m)
  PROVE  /\ pc' \in [Tokens -> [Roles -> Places]]
         /\ pc'[t][r] = l /\ pc'[t][q] = m
         /\ \A x \in Roles \ {r, q} : pc'[t][x] = pc[t][x]
         /\ \A u \in Tokens \ {t} : pc'[u] = pc[u]
  BY DEF TypeOK, Places, GotoBoth

(* An event is appended only while nobody has the lock open, and only to    *)
(* the record of the reservation that holds it.                             *)
LEMMA ChangeFacts ==
  ASSUME TypeOK, NEW t \in Tokens, NEW R \in SUBSET (Roles \cup {"unknown"}), Change(t, R)
  PROVE  /\ handle = None
         /\ recorded' \in [Tokens -> SUBSET (Roles \cup {"unknown"})]
         /\ recorded'[t] = recorded[t] \cup (IF lock = t THEN R ELSE {})
         /\ \A u \in Tokens \ {t} : recorded'[u] = recorded[u]
  BY DEF TypeOK, Change

(* assess stays positive while nothing is recorded, if the only processes   *)
(* that appear are unrecorded children of unrecorded work.                  *)
LEMMA DeadStays ==
  ASSUME NEW t \in Tokens, recorded'[t] = recorded[t], bootOf'[t] = bootOf[t],
         boot' = boot, backend' = backend,
         \A r \in Roles : Alive(t, r)' => Alive(t, r) \/
             (r \in {"stray", "nsup"} /\ r \notin recorded[t] /\ "work" \notin recorded[t]),
         pc[t]["stray"] = "apart" => pc'[t]["stray"] \in {"apart", "gone"}
  PROVE  Dead(t) => Dead(t)'
  <1>1. Alive(t, "stray")' /\ pc'[t]["stray"] # "apart" => pc[t]["stray"] # "apart"
    BY DEF Alive
  <1>2. Gone(t) => Gone(t)'
    BY <1>1 DEF Gone, Bare, Roles
  <1>3. QED
    BY <1>2, DeadIffGone, DeadIffGoneThen

(* The launcher creates its supervisor, or cancels.                         *)
LEMMA CreateStep == ASSUME IInv, NEW t \in Tokens, Create(t) PROVE IInv'
  <1> USE ReservationAssumption
  <1>1. /\ UNCHANGED <<backend, lock, handle, recorded, bootOf, boot, faults>>
        /\ pc[t]["owner"] = "create"
    BY DEF Create, OnlyPc
  <1>2. TypeOK /\ Local(t) /\ LockInv(t) /\ HandleInv(t)
    BY DEF IInv
  <1>3. /\ pc' \in [Tokens -> [Roles -> Places]]
        /\ pc'[t]["owner"] \in {"cancel", "handoff", "note"}
        /\ pc'[t]["sup"] \in {"none", "start", "gone"}
        /\ pc'[t]["owner"] = "cancel" => pc'[t]["sup"] = "none"
        /\ pc'[t]["owner"] = "handoff" => pc'[t]["sup"] = "start"
        /\ \A q \in Roles \ {"owner", "sup"} : pc'[t][q] = pc[t][q]
        /\ \A u \in Tokens \ {t} : pc'[u] = pc[u]
    <2>0. /\ "owner" \in Roles /\ "sup" \in Roles /\ "owner" # "sup"
          /\ "handoff" \in Places /\ "note" \in Places /\ "start" \in Places /\ "gone" \in Places
      BY DEF Roles, Places, LauncherPCs, SupervisorPCs
    <2>1. CASE Goto(t, "owner", "cancel")
      BY <1>1, <1>2, <2>1, GotoFacts DEF Roles, Places, LauncherPCs, Local, OrderInv, Alone
    <2>2. CASE GotoBoth(t, "owner", "handoff", "sup", "start")
      <3>1. /\ pc' \in [Tokens -> [Roles -> Places]]
            /\ pc'[t]["owner"] = "handoff" /\ pc'[t]["sup"] = "start"
            /\ \A x \in Roles \ {"owner", "sup"} : pc'[t][x] = pc[t][x]
            /\ \A u \in Tokens \ {t} : pc'[u] = pc[u]
        BY <1>2, <2>0, <2>2, TwoGotoFacts
      <3>2. QED
        BY <3>1
    <2>3. CASE \E l \in {"start", "gone"} : GotoBoth(t, "owner", "note", "sup", l)
      <3>1. PICK l \in {"start", "gone"} : GotoBoth(t, "owner", "note", "sup", l)
        BY <2>3
      <3>2. l \in Places
        BY <2>0
      <3>3. /\ pc' \in [Tokens -> [Roles -> Places]]
            /\ pc'[t]["owner"] = "note" /\ pc'[t]["sup"] = l
            /\ \A x \in Roles \ {"owner", "sup"} : pc'[t][x] = pc[t][x]
            /\ \A u \in Tokens \ {t} : pc'[u] = pc[u]
        BY <1>2, <2>0, <3>1, <3>2, TwoGotoFacts
      <3>4. QED
        BY <3>3
    <2>4. QED
      BY <2>1, <2>2, <2>3 DEF Create, GotoBoth
  <1>4. TypeOK'
    BY <1>1, <1>2, <1>3 DEF TypeOK, Places
  <1>5. Local(t)'
    BY <1>1, <1>2, <1>3 DEF Local, PlaceInv, OrderInv, RecordInv, JobInv, BootInv, Alive, Alone,
       Roles, LauncherPCs, SupervisorPCs, Holding
  <1>6. Quiet(t)'
    BY <1>1, <1>2, <1>3 DEF Local, OrderInv, Quiet, LeftAlone, Alive, Alone, Roles
  <1>7. ~Dead(t)
    <2>1. recorded[t] = {} /\ Alive(t, "owner") /\ bootOf[t] = boot
      BY <1>1, <1>2 DEF Local, OrderInv, BootInv, Alone, Alive
    <2>2. QED
      BY <2>1, DeadIffGone DEF Gone
  <1>8. Calm(t)
    BY <1>2, <1>3, <1>5, <1>6, <1>7, <1>1 DEF Calm, Local, OrderInv, Alone
  <1>9. QED
    BY <1>1, <1>3, <1>4, <1>8, CalmStep

(* The names of the processes and the places are what they say.             *)
LEMMA Known ==
  /\ \A r \in {"owner", "sup", "work", "stray", "nsup", "nwork"} : r \in Roles
  /\ \A l \in {"gone", "cancel", "handoff", "note", "start", "spawn", "record", "wait",
               "drain", "drained", "release", "finish", "rename", "run", "create", "apart"} : l \in Places
  BY DEF Roles, Places, LauncherPCs, SupervisorPCs, WorkPCs

(* One living process moves on, recording events or not: it is enough to    *)
(* look at its own reservation.                                             *)
LEMMA MoveStep ==
  ASSUME IInv, NEW t \in Tokens, NEW r \in Roles, NEW l \in Places, Goto(t, r, l), Alive(t, r),
         UNCHANGED <<backend, lock, handle, bootOf, boot, faults>>,
         recorded' = recorded \/ \E R \in SUBSET (Roles \cup {"unknown"}) : Change(t, R),
         l \notin {"none", "acquire", "archive", "rename"},
         r = "sup" => pc[t]["sup"] # "rename",
         r = "stray" => l \in {"apart", "gone"},
         Local(t)',
         lock # t \/ handle # None => (Quiet(t) => Quiet(t)')
  PROVE  IInv'
  <1>1. TypeOK
    BY DEF IInv
  <1>2. /\ pc' \in [Tokens -> [Roles -> Places]]
        /\ pc'[t][r] = l
        /\ \A q \in Roles \ {r} : pc'[t][q] = pc[t][q]
        /\ \A u \in Tokens \ {t} : pc'[u] = pc[u]
    BY <1>1, GotoFacts
  <1>3. /\ recorded' \in [Tokens -> SUBSET (Roles \cup {"unknown"})]
        /\ lock # t \/ handle # None => recorded'[t] = recorded[t]
        /\ \A u \in Tokens \ {t} : recorded'[u] = recorded[u]
    <2>1. CASE recorded' = recorded
      BY <1>1, <2>1 DEF TypeOK
    <2>2. CASE \E R \in SUBSET (Roles \cup {"unknown"}) : Change(t, R)
      BY <1>1, <2>2, ChangeFacts
    <2>3. QED
      BY <2>1, <2>2
  <1>4. TypeOK'
    BY <1>1, <1>2, <1>3 DEF TypeOK, Places
  <1>5. lock # t \/ handle # None => (Dead(t) => Dead(t)')
    <2>1. \A q \in Roles : Alive(t, q)' => Alive(t, q)
      BY <1>2 DEF Alive
    <2>2. pc[t]["stray"] = "apart" => pc'[t]["stray"] \in {"apart", "gone"}
      BY <1>2, Known
    <2>3. QED
      BY <1>3, <2>1, <2>2, DeadStays
  <1>6. Calm(t)
    BY <1>2, <1>5, Known DEF Calm
  <1>7. QED
    BY <1>2, <1>3, <1>4, <1>6, CalmStep

(* The launcher records its supervisor and ends.                            *)
LEMMA HandoffStep == ASSUME IInv, NEW t \in Tokens, Handoff(t) PROVE IInv'
  <1> USE ReservationAssumption
  <1>1. /\ UNCHANGED <<backend, lock, handle, bootOf, boot, faults>>
        /\ pc[t]["owner"] = "handoff" /\ Goto(t, "owner", "gone")
        /\ Change(t, HandoffNames(t, "sup")) /\ HandoffNames(t, "sup") \in SUBSET (Roles \cup {"unknown"})
    BY DEF Handoff, HandoffNames, Roles
  <1>2. TypeOK /\ Local(t) /\ LockInv(t) /\ HandleInv(t)
    BY DEF IInv
  <1>3. /\ pc'[t]["owner"] = "gone"
        /\ \A q \in Roles \ {"owner"} : pc'[t][q] = pc[t][q]
    BY <1>1, <1>2, GotoFacts, Known
  <1>4. /\ handle = None
        /\ recorded'[t] = recorded[t] \cup (IF lock = t THEN HandoffNames(t, "sup") ELSE {})
    BY <1>1, <1>2, ChangeFacts
  <1>5. Local(t)'
    BY <1>1, <1>2, <1>3, <1>4, Known DEF Local, PlaceInv, OrderInv, RecordInv, JobInv, BootInv, Alive,
       Alone, LauncherPCs, SupervisorPCs, WorkPCs, Holding, HandoffNames
  <1>6. lock # t \/ handle # None => (Quiet(t) => Quiet(t)')
    BY <1>1, <1>3, <1>4, Known DEF Quiet, LeftAlone, Alive
  <1>7. QED
    BY <1>1, <1>2, <1>5, <1>6, MoveStep, Known DEF Alive

(* The launcher notes that it cannot name its supervisor, and ends.         *)
LEMMA NoteStep == ASSUME IInv, NEW t \in Tokens, NoteUnconfirmed(t) PROVE IInv'
  <1> USE ReservationAssumption
  <1>1. /\ UNCHANGED <<backend, lock, handle, bootOf, boot, faults>>
        /\ pc[t]["owner"] = "note" /\ Goto(t, "owner", "gone")
        /\ Change(t, {}) /\ {} \in SUBSET (Roles \cup {"unknown"})
    BY DEF NoteUnconfirmed
  <1>2. TypeOK /\ Local(t) /\ LockInv(t) /\ HandleInv(t)
    BY DEF IInv
  <1>3. /\ pc'[t]["owner"] = "gone"
        /\ \A q \in Roles \ {"owner"} : pc'[t][q] = pc[t][q]
    BY <1>1, <1>2, GotoFacts, Known
  <1>4. /\ handle = None
        /\ recorded'[t] = recorded[t] \cup (IF lock = t THEN {} ELSE {})
    BY <1>1, <1>2, ChangeFacts
  <1>5. Local(t)'
    BY <1>1, <1>2, <1>3, <1>4, Known DEF Local, PlaceInv, OrderInv, RecordInv, JobInv, BootInv, Alive,
       Alone, LauncherPCs, SupervisorPCs, WorkPCs, Holding
  <1>6. lock # t \/ handle # None => (Quiet(t) => Quiet(t)')
    BY <1>1, <1>3, <1>4, Known DEF Quiet, LeftAlone, Alive
  <1>7. QED
    BY <1>1, <1>2, <1>5, <1>6, MoveStep, Known DEF Alive

(* A nested supervisor ends; its own record stays.                          *)
LEMMA NestedDoneStep == ASSUME IInv, NEW t \in Tokens, NestedDone(t) PROVE IInv'
  <1> USE ReservationAssumption
  <1>1. /\ UNCHANGED <<backend, lock, handle, bootOf, boot, faults>>
        /\ pc[t]["nsup"] = "finish" /\ Goto(t, "nsup", "gone")
        /\ Change(t, {}) /\ {} \in SUBSET (Roles \cup {"unknown"})
    BY DEF NestedDone
  <1>2. TypeOK /\ Local(t) /\ LockInv(t) /\ HandleInv(t)
    BY DEF IInv
  <1>3. /\ pc'[t]["nsup"] = "gone"
        /\ \A q \in Roles \ {"nsup"} : pc'[t][q] = pc[t][q]
    BY <1>1, <1>2, GotoFacts, Known
  <1>4. /\ handle = None
        /\ recorded'[t] = recorded[t] \cup (IF lock = t THEN {} ELSE {})
    BY <1>1, <1>2, ChangeFacts
  <1>5. Local(t)'
    BY <1>1, <1>2, <1>3, <1>4, Known DEF Local, PlaceInv, OrderInv, RecordInv, JobInv, BootInv, Alive,
       Alone, LauncherPCs, SupervisorPCs, WorkPCs, Holding
  <1>6. lock # t \/ handle # None => (Quiet(t) => Quiet(t)')
    BY <1>1, <1>3, <1>4, Known DEF Quiet, LeftAlone, Alive
  <1>7. QED
    BY <1>1, <1>2, <1>5, <1>6, MoveStep, Known DEF Alive

(* The work starts a nested dispatch.                                       *)
LEMMA NestedAcquireStep == ASSUME IInv, NEW t \in Tokens, NestedAcquire(t) PROVE IInv'
  <1> USE ReservationAssumption
  <1>1. /\ UNCHANGED <<backend, lock, handle, bootOf, boot, faults>>
        /\ pc[t]["work"] = "run" /\ pc[t]["nsup"] = "none" /\ Goto(t, "work", "create")
        /\ recorded' = recorded
    BY DEF NestedAcquire, OnlyPc
  <1>2. TypeOK /\ Local(t) /\ LockInv(t) /\ HandleInv(t)
    BY DEF IInv
  <1>3. /\ pc'[t]["work"] = "create"
        /\ \A q \in Roles \ {"work"} : pc'[t][q] = pc[t][q]
    BY <1>1, <1>2, GotoFacts, Known
  <1>4. recorded'[t] = recorded[t]
    BY <1>1
  <1>5. Local(t)'
    BY <1>1, <1>2, <1>3, <1>4, Known DEF Local, PlaceInv, OrderInv, RecordInv, JobInv, BootInv, Alive,
       Alone, LauncherPCs, SupervisorPCs, WorkPCs, Holding
  <1>6. lock # t \/ handle # None => (Quiet(t) => Quiet(t)')
    BY <1>1, <1>3, <1>4, Known DEF Quiet, LeftAlone, Alive
  <1>7. QED
    BY <1>1, <1>2, <1>5, <1>6, MoveStep, Known DEF Alive

(* The work records the nested supervisor it created.                       *)
LEMMA NestedHandoffStep == ASSUME IInv, NEW t \in Tokens, NestedHandoff(t) PROVE IInv'
  <1> USE ReservationAssumption
  <1>1. /\ UNCHANGED <<backend, lock, handle, bootOf, boot, faults>>
        /\ pc[t]["work"] = "handoff" /\ Goto(t, "work", "run")
        /\ Change(t, HandoffNames(t, "nsup")) /\ HandoffNames(t, "nsup") \in SUBSET (Roles \cup {"unknown"})
    BY DEF NestedHandoff, HandoffNames, Roles
  <1>2. TypeOK /\ Local(t) /\ LockInv(t) /\ HandleInv(t)
    BY DEF IInv
  <1>3. /\ pc'[t]["work"] = "run"
        /\ \A q \in Roles \ {"work"} : pc'[t][q] = pc[t][q]
    BY <1>1, <1>2, GotoFacts, Known
  <1>4. /\ handle = None
        /\ recorded'[t] = recorded[t] \cup (IF lock = t THEN HandoffNames(t, "nsup") ELSE {})
    BY <1>1, <1>2, ChangeFacts
  <1>5. Local(t)'
    BY <1>1, <1>2, <1>3, <1>4, Known DEF Local, PlaceInv, OrderInv, RecordInv, JobInv, BootInv, Alive,
       Alone, LauncherPCs, SupervisorPCs, WorkPCs, Holding, HandoffNames
  <1>6. lock # t \/ handle # None => (Quiet(t) => Quiet(t)')
    BY <1>1, <1>3, <1>4, Known DEF Quiet, LeftAlone, Alive
  <1>7. QED
    BY <1>1, <1>2, <1>5, <1>6, MoveStep, Known DEF Alive

(* A process that ended and was never recorded leaves nothing behind: work  *)
(* exits.                                                                   *)
LEMMA WorkExitStep == ASSUME IInv, NEW t \in Tokens, NEW r \in Roles, WorkExit(t, r) PROVE IInv'
  <1> USE ReservationAssumption
  <1>1. /\ UNCHANGED <<backend, lock, handle, recorded, bootOf, boot, faults>>
        /\ r \in {"work", "stray", "nwork"} /\ pc[t][r] \in {"run", "apart"} /\ Goto(t, r, "gone")
    BY DEF WorkExit, OnlyPc
  <1>2. TypeOK /\ Local(t)
    BY DEF IInv
  <1>3. /\ pc'[t][r] = "gone"
        /\ \A q \in Roles \ {r} : pc'[t][q] = pc[t][q]
    BY <1>1, <1>2, GotoFacts, Known
  <1>4. Local(t)'
    BY <1>1, <1>2, <1>3, Known DEF Local, PlaceInv, OrderInv, RecordInv, JobInv, BootInv, Alive,
         Alone, LauncherPCs, SupervisorPCs, WorkPCs, Holding
  <1>5. Quiet(t) => Quiet(t)'
    BY <1>1, <1>3, Known DEF Quiet, LeftAlone, Alive
  <1>6. QED
    BY <1>1, <1>4, <1>5, MoveStep, Known DEF Alive

(* Adoption: a supervisor enters the events of a reservation that holds the *)
(* lock, or never runs anything.                                            *)
LEMMA AdoptStep == ASSUME IInv, NEW t \in Tokens, NEW s \in Supervisors, Adopt(t, s) PROVE IInv'
  <1> USE ReservationAssumption
  <1>0. s \in {"sup", "nsup"} /\ s \in Roles /\ {s} \in SUBSET (Roles \cup {"unknown"})
    BY DEF Supervisors, Roles
  <1>1. UNCHANGED <<backend, lock, handle, bootOf, boot, faults>> /\ pc[t][s] = "start"
    BY DEF Adopt
  <1>2. TypeOK /\ Local(t) /\ LockInv(t) /\ HandleInv(t)
    BY DEF IInv
  <1>3. CASE Change(t, {s}) /\ lock = t /\ Goto(t, s, "spawn")
    <2>1. pc'[t][s] = "spawn" /\ \A q \in Roles \ {s} : pc'[t][q] = pc[t][q]
      BY <1>0, <1>2, <1>3, GotoFacts, Known
    <2>2. handle = None /\ recorded'[t] = recorded[t] \cup {s}
      BY <1>0, <1>2, <1>3, ChangeFacts
    <2>0. pc[t]["sup"] # "rename"
      BY <1>2, <2>2, Known DEF HandleInv
    <2>3. Local(t)'
      BY <1>0, <1>1, <1>2, <2>0, <2>1, <2>2, Known DEF Local, PlaceInv, OrderInv, RecordInv, JobInv, BootInv, Alive,
         Alone, LauncherPCs, SupervisorPCs, WorkPCs, Holding
    <2>4. QED
      BY <1>0, <1>1, <1>3, <2>2, <2>3, MoveStep, Known DEF Alive
  <1>4. CASE /\ recorded' = recorded
             /\ Goto(t, s, "gone") \/ (s = "sup" /\ Goto(t, s, "finish"))
    <2>1. PICK l \in {"gone", "finish"} : Goto(t, s, l) /\ (l = "finish" => s = "sup")
      BY <1>4
    <2>2. pc'[t][s] = l /\ \A q \in Roles \ {s} : pc'[t][q] = pc[t][q]
      BY <1>0, <1>2, <2>1, GotoFacts, Known
    <2>3. Local(t)'
      BY <1>0, <1>1, <1>2, <1>4, <2>1, <2>2, Known DEF Local, PlaceInv, OrderInv, RecordInv, JobInv, BootInv, Alive,
         Alone, LauncherPCs, SupervisorPCs, WorkPCs, Holding
    <2>4. Quiet(t) => Quiet(t)'
      BY <1>0, <1>1, <1>4, <2>1, <2>2, Known DEF Quiet, LeftAlone, Alive
    <2>5. QED
      BY <1>0, <1>1, <1>4, <2>1, <2>3, <2>4, MoveStep, Known DEF Alive
  <1>5. CASE Change(t, {s}) /\ lock # t /\ Goto(t, s, "gone")
    <2>1. recorded' = recorded
      BY <1>5 DEF Change
    <2>2. QED
      BY <1>4, <1>5, <2>1
  <1>6. QED
    BY <1>3, <1>4, <1>5 DEF Adopt

(* A supervisor releases only after its job is empty.                       *)
LEMMA JobEmptyStep == ASSUME IInv, NEW t \in Tokens, NEW s \in Supervisors, JobEmpty(t, s) PROVE IInv'
  <1> USE ReservationAssumption
  <1>0. s \in {"sup", "nsup"} /\ s \in Roles
    BY DEF Supervisors, Roles
  <1>1. /\ UNCHANGED <<backend, lock, handle, recorded, bootOf, boot, faults>>
        /\ pc[t][s] \in {"drain", "drained"} /\ JobMembers(t, s) = {}
        /\ Goto(t, s, IF s = "sup" THEN "release" ELSE "finish")
    BY DEF JobEmpty, OnlyPc
  <1>2. TypeOK /\ Local(t) /\ LockInv(t) /\ HandleInv(t) /\ backend \in {"windows", "linux"}
    BY DEF IInv, TypeOK
  <1>3. /\ pc'[t][s] = IF s = "sup" THEN "release" ELSE "finish"
        /\ \A q \in Roles \ {s} : pc'[t][q] = pc[t][q]
    BY <1>0, <1>1, <1>2, GotoFacts, Known
  <1>4. s = "sup" => /\ ~Alive(t, "work") /\ ~Alive(t, "stray")
                     /\ backend = "linux" => ~Alive(t, "nsup") /\ ~Alive(t, "nwork")
    BY <1>1, <1>2 DEF JobMembers, Job
  <1>5. s = "nsup" => ~Alive(t, "nwork")
    BY <1>1 DEF JobMembers, Job
  <1>6. Local(t)'
    BY <1>0, <1>1, <1>2, <1>3, <1>4, <1>5, Known DEF Local, PlaceInv, OrderInv, RecordInv, JobInv, BootInv, Alive,
         Alone, LauncherPCs, SupervisorPCs, WorkPCs, Holding
  <1>7. ~Quiet(t)
    BY <1>0, <1>1 DEF Quiet
  <1>8. QED
    BY <1>0, <1>1, <1>6, <1>7, MoveStep, Known DEF Alive

(* The work starts a process of its own.                                    *)
LEMMA StrayStep == ASSUME IInv, NEW t \in Tokens, StartStray(t) PROVE IInv'
  <1> USE ReservationAssumption
  <1>1. /\ UNCHANGED <<backend, lock, handle, recorded, bootOf, boot, faults>>
        /\ pc[t]["work"] = "run" /\ pc[t]["stray"] = "none" /\ Goto(t, "stray", "run")
    BY DEF StartStray, OnlyPc
  <1>2. TypeOK /\ Local(t) /\ LockInv(t) /\ HandleInv(t)
    BY DEF IInv
  <1>3. /\ pc' \in [Tokens -> [Roles -> Places]]
        /\ pc'[t]["stray"] = "run"
        /\ \A q \in Roles \ {"stray"} : pc'[t][q] = pc[t][q]
        /\ \A u \in Tokens \ {t} : pc'[u] = pc[u]
    BY <1>1, <1>2, GotoFacts, Known
  <1>4. TypeOK'
    BY <1>1, <1>2, <1>3 DEF TypeOK, Places
  <1>5. Local(t)'
    BY <1>1, <1>2, <1>3, Known DEF Local, PlaceInv, OrderInv, RecordInv, JobInv, BootInv, Alive,
         Alone, LauncherPCs, SupervisorPCs, WorkPCs, Holding
  <1>6. Quiet(t) => Quiet(t)' /\ "work" \notin recorded[t]
    BY <1>1, <1>3, Known DEF Quiet, LeftAlone, Alive
  <1>7. Quiet(t) => (Dead(t) => Dead(t)')
    <2>1. "stray" \notin recorded[t]
      BY <1>1, <1>2, Known DEF Local, RecordInv
    <2>2. \A q \in Roles : Alive(t, q)' => Alive(t, q) \/ q = "stray"
      BY <1>3 DEF Alive
    <2>3. QED
      BY <1>1, <1>6, <2>1, <2>2, DeadStays
  <1>8. Calm(t)
    BY <1>3, <1>5, <1>6, <1>7, Known DEF Calm
  <1>9. QED
    BY <1>1, <1>3, <1>4, <1>8, CalmStep

(* On Linux a descendant of the work leaves its session.                    *)
LEMMA LeaveSessionStep == ASSUME IInv, NEW t \in Tokens, LeaveSession(t) PROVE IInv'
  <1> USE ReservationAssumption
  <1>1. /\ UNCHANGED <<backend, lock, handle, recorded, bootOf, boot, faults>>
        /\ backend = "linux" /\ pc[t]["stray"] = "run" /\ Goto(t, "stray", "apart")
    BY DEF LeaveSession, OnlyPc
  <1>2. TypeOK /\ Local(t)
    BY DEF IInv
  <1>3. /\ pc'[t]["stray"] = "apart"
        /\ \A q \in Roles \ {"stray"} : pc'[t][q] = pc[t][q]
    BY <1>1, <1>2, GotoFacts, Known
  <1>4. Local(t)'
    BY <1>1, <1>2, <1>3, Known DEF Local, PlaceInv, OrderInv, RecordInv, JobInv, BootInv, Alive,
         Alone, LauncherPCs, SupervisorPCs, WorkPCs, Holding
  <1>5. Quiet(t) => Quiet(t)'
    BY <1>1, <1>3, Known DEF Quiet, LeftAlone, Alive
  <1>6. QED
    BY <1>1, <1>4, <1>5, MoveStep, Known DEF Alive

(* Processes of a reservation end, with the lock if one had it open.  On    *)
(* Windows a job ends with its supervisor.                                  *)
LEMMA EndStep ==
  ASSUME IInv, NEW t \in Tokens, NEW R \in SUBSET Roles, End(t, R),
         UNCHANGED <<backend, lock, recorded, bootOf, boot>>, faults' \in 0..MaxFaults,
         boot <= faults',
         backend = "windows" => /\ "sup" \in R => "work" \in R /\ "stray" \in R
                                /\ "nsup" \in R => "nwork" \in R
  PROVE  IInv'
  <1> USE ReservationAssumption
  <1>1. TypeOK /\ Local(t) /\ LockInv(t) /\ HandleInv(t)
    BY DEF IInv
  <1>2. /\ pc' \in [Tokens -> [Roles -> Places]]
        /\ \A r \in Roles : pc'[t][r] = IF r \in R /\ Alive(t, r) THEN "gone" ELSE pc[t][r]
        /\ \A u \in Tokens \ {t} : pc'[u] = pc[u]
    BY <1>1, Known DEF End, TypeOK, Places
  <1>3. handle' = IF \E r \in R : handle = <<t, r>> THEN None ELSE handle
    BY DEF End
  <1>4. TypeOK'
    BY <1>1, <1>2, <1>3 DEF TypeOK, Places
  <1>5. Local(t)'
    BY <1>1, <1>2, Known DEF Local, PlaceInv, OrderInv, RecordInv, JobInv, BootInv, Alive,
         Alone, LauncherPCs, SupervisorPCs, WorkPCs, Holding
  <1>6. Quiet(t) => Quiet(t)'
    BY <1>2, Known DEF Quiet, LeftAlone, Alive
  <1>7. Dead(t) => Dead(t)'
    <2>1. \A r \in Roles : Alive(t, r)' => Alive(t, r)
      BY <1>2 DEF Alive
    <2>2. QED
      BY <1>2, <2>1, Known, DeadStays
  <1>8. /\ pc'[t]["owner"] \in {"none", "acquire", "archive", "rename"} =>
              pc'[t]["owner"] = pc[t]["owner"]
        /\ pc'[t]["sup"] = "rename" => pc[t]["sup"] = "rename"
    BY <1>2, Known
  <1>9. pc[t]["sup"] = "rename" /\ handle' # None => pc'[t]["sup"] = "rename"
    BY <1>1, <1>2, <1>3, Known DEF HandleInv
  <1>10. Calm(t)
    BY <1>5, <1>6, <1>7, <1>8, <1>9 DEF Calm
  <1>11. CASE handle' = handle
    BY <1>2, <1>4, <1>10, <1>11, CalmStep
  <1>12. CASE handle' # handle
    <2>1. PICK r \in R : handle = <<t, r>> /\ handle' = None
      BY <1>3, <1>12
    <2>2. pc'[t]["owner"] \notin {"archive", "rename"}
      BY <1>1, <1>2, <1>8, <2>1, Known DEF HandleInv, Alive
    <2>3. pc'[t]["sup"] # "rename"
      BY <1>1, <1>2, <1>8, <2>1, Known DEF HandleInv, Alive
    <2>4. QED
      BY <1>2, <1>4, <1>10, <2>1, <2>2, <2>3, CalmStep
  <1>13. QED
    BY <1>11, <1>12

(* A process is killed, alone or with its job.                              *)
LEMMA KillStep == ASSUME IInv, NEW t \in Tokens, NEW r \in Roles, Kill(t, r) PROVE IInv'
  <1>1. /\ UNCHANGED <<backend, lock, recorded, bootOf, boot>> /\ faults' \in 0..MaxFaults
        /\ boot <= faults'
    BY ReservationAssumption DEF Kill, IInv, TypeOK
  <1>2. backend \in {"windows", "linux"}
    BY ReservationAssumption DEF IInv, TypeOK
  <1>3. CASE r \in Supervisors /\ End(t, {r} \cup Job(t, r))
    <2>1. {r} \cup Job(t, r) \in SUBSET Roles
      BY <1>2, <1>3 DEF Job, Supervisors, Roles
    <2>2. backend = "windows" =>
             /\ "sup" \in {r} \cup Job(t, r) => {"work", "stray"} \subseteq {r} \cup Job(t, r)
             /\ "nsup" \in {r} \cup Job(t, r) => "nwork" \in {r} \cup Job(t, r)
      BY <1>3 DEF Job, Supervisors
    <2>3. QED
      BY <1>1, <1>3, <2>1, <2>2, EndStep
  <1>4. CASE (r \notin Supervisors \/ backend = "linux") /\ End(t, {r})
    BY <1>1, <1>2, <1>4, EndStep DEF Supervisors
  <1>5. QED
    BY <1>3, <1>4 DEF Kill

(* The supervisor records its child, or ends with its job if the lock is    *)
(* not its reservation's any more.                                          *)
LEMMA RecordStep == ASSUME IInv, NEW t \in Tokens, NEW s \in Supervisors, RecordChild(t, s) PROVE IInv'
  <1> USE ReservationAssumption
  <1>0. /\ s \in {"sup", "nsup"} /\ s \in Roles
        /\ Child[s] = (IF s = "sup" THEN "work" ELSE "nwork")
        /\ Child[s] \in Roles /\ {Child[s]} \in SUBSET (Roles \cup {"unknown"})
    BY DEF Supervisors, Roles, Child
  <1>1. /\ UNCHANGED <<backend, lock, bootOf, boot, faults>> /\ pc[t][s] = "record"
        /\ Change(t, {Child[s]})
    BY DEF RecordChild
  <1>2. /\ TypeOK /\ Local(t) /\ LockInv(t) /\ HandleInv(t) /\ backend \in {"windows", "linux"}
        /\ faults \in 0..MaxFaults
    BY DEF IInv, TypeOK
  <1>3. handle = None /\ recorded'[t] = recorded[t] \cup (IF lock = t THEN {Child[s]} ELSE {})
    BY <1>0, <1>1, <1>2, ChangeFacts
  <1>4. lock = t
    BY <1>0, <1>1, <1>2 DEF LockInv, Quiet
  <1>5. Goto(t, s, "wait") /\ handle' = handle
    BY <1>4 DEF RecordChild
  <1>6. pc'[t][s] = "wait" /\ \A q \in Roles \ {s} : pc'[t][q] = pc[t][q]
    BY <1>0, <1>2, <1>5, GotoFacts, Known
  <1>7. Local(t)'
    BY <1>0, <1>1, <1>2, <1>3, <1>4, <1>6, Known DEF Local, PlaceInv, OrderInv, RecordInv, JobInv, BootInv, Alive,
         Alone, LauncherPCs, SupervisorPCs, WorkPCs, Holding
  <1>8. QED
    BY <1>0, <1>1, <1>3, <1>4, <1>5, <1>7, MoveStep, Known DEF Alive

(* The supervisor notices that its child has exited.                        *)
LEMMA ChildExitedStep == ASSUME IInv, NEW t \in Tokens, NEW s \in Supervisors, ChildExited(t, s) PROVE IInv'
  <1> USE ReservationAssumption
  <1>0. s \in {"sup", "nsup"} /\ s \in Roles /\ {} \in SUBSET (Roles \cup {"unknown"})
    BY DEF Supervisors, Roles
  <1>1. /\ UNCHANGED <<backend, lock, bootOf, boot, faults>> /\ pc[t][s] = "wait"
        /\ Change(t, {}) \/ recorded' = recorded
    BY DEF ChildExited
  <1>2. TypeOK /\ Local(t) /\ LockInv(t) /\ HandleInv(t)
    BY DEF IInv
  <1>3. recorded'[t] = recorded[t]
    BY <1>0, <1>1, <1>2, ChangeFacts
  <1>4. lock = t
    BY <1>0, <1>1, <1>2 DEF LockInv, Quiet
  <1>5. Goto(t, s, "drain") /\ handle' = handle
    BY <1>4 DEF ChildExited
  <1>6. pc'[t][s] = "drain" /\ \A q \in Roles \ {s} : pc'[t][q] = pc[t][q]
    BY <1>0, <1>2, <1>5, GotoFacts, Known
  <1>7. Local(t)'
    BY <1>0, <1>1, <1>2, <1>3, <1>4, <1>6, Known DEF Local, PlaceInv, OrderInv, RecordInv, JobInv, BootInv, Alive,
         Alone, LauncherPCs, SupervisorPCs, WorkPCs, Holding
  <1>8. ~Quiet(t)
    BY <1>0, <1>1 DEF Quiet
  <1>9. QED
    BY <1>0, <1>1, <1>5, <1>7, <1>8, MoveStep, Known DEF Alive

(* An adopted supervisor starts its child, or cannot.                       *)
LEMMA SpawnStep == ASSUME IInv, NEW t \in Tokens, NEW s \in Supervisors, SpawnChild(t, s) PROVE IInv'
  <1> USE ReservationAssumption
  <1>0. /\ s \in {"sup", "nsup"} /\ s \in Roles
        /\ Child[s] = (IF s = "sup" THEN "work" ELSE "nwork")
        /\ Child[s] \in Roles /\ s # Child[s]
    BY DEF Supervisors, Roles, Child
  <1>1. /\ UNCHANGED <<backend, lock, handle, recorded, bootOf, boot, faults>>
        /\ pc[t][s] = "spawn"
    BY DEF SpawnChild, OnlyPc
  <1>2. TypeOK /\ Local(t) /\ LockInv(t) /\ HandleInv(t)
    BY DEF IInv
  <1>3. ~Quiet(t)
    BY <1>0, <1>1 DEF Quiet
  <1>4. CASE Goto(t, s, "finish")
    <2>1. pc'[t][s] = "finish" /\ \A q \in Roles \ {s} : pc'[t][q] = pc[t][q]
      BY <1>0, <1>2, <1>4, GotoFacts, Known
    <2>2. Local(t)'
      BY <1>0, <1>1, <1>2, <2>1, Known DEF Local, PlaceInv, OrderInv, RecordInv, JobInv, BootInv, Alive,
         Alone, LauncherPCs, SupervisorPCs, WorkPCs, Holding
    <2>3. QED
      BY <1>0, <1>1, <1>3, <1>4, <2>2, MoveStep, Known DEF Alive
  <1>5. CASE GotoBoth(t, s, "record", Child[s], "run")
    <2>0. "record" \in Places /\ "run" \in Places
      BY Known
    <2>1. /\ pc' \in [Tokens -> [Roles -> Places]]
          /\ pc'[t][s] = "record" /\ pc'[t][Child[s]] = "run"
          /\ \A q \in Roles \ {s, Child[s]} : pc'[t][q] = pc[t][q]
          /\ \A u \in Tokens \ {t} : pc'[u] = pc[u]
      BY <1>0, <1>2, <1>5, <2>0, TwoGotoFacts
    <2>2. TypeOK'
      BY <1>1, <1>2, <2>1 DEF TypeOK, Places
    <2>3. pc[t]["sup"] # "rename"
      BY <1>0, <1>1, <1>2, <1>3, Known DEF HandleInv, Local, JobInv
    <2>4. Local(t)'
      BY <1>0, <1>1, <1>2, <2>1, <2>3, Known DEF Local, PlaceInv, OrderInv, RecordInv, JobInv, BootInv, Alive,
         Alone, LauncherPCs, SupervisorPCs, WorkPCs, Holding
    <2>5. Calm(t)
      BY <1>0, <1>3, <2>1, <2>3, <2>4, Known DEF Calm
    <2>6. QED
      BY <1>1, <2>1, <2>2, <2>5, CalmStep
  <1>6. QED
    BY <1>4, <1>5 DEF SpawnChild, GotoBoth

(* The work creates a nested supervisor, or cannot.                         *)
LEMMA NestedCreateStep == ASSUME IInv, NEW t \in Tokens, NestedCreate(t) PROVE IInv'
  <1> USE ReservationAssumption
  <1>0. /\ "work" \in Roles /\ "nsup" \in Roles /\ "work" # "nsup" /\ "handoff" \in Places
        /\ "start" \in Places /\ "gone" \in Places /\ "run" \in Places
    BY Known
  <1>1. /\ UNCHANGED <<backend, lock, handle, recorded, bootOf, boot, faults>>
        /\ pc[t]["work"] = "create"
    BY DEF NestedCreate, OnlyPc
  <1>2. TypeOK /\ Local(t) /\ LockInv(t) /\ HandleInv(t)
    BY DEF IInv
  <1>3. PICK l \in {"handoff", "run"}, m \in {"start", "gone"} : GotoBoth(t, "work", l, "nsup", m)
    BY DEF NestedCreate, GotoBoth
  <1>4. /\ pc' \in [Tokens -> [Roles -> Places]]
        /\ pc'[t]["work"] = l /\ pc'[t]["nsup"] = m
        /\ \A q \in Roles \ {"work", "nsup"} : pc'[t][q] = pc[t][q]
        /\ \A u \in Tokens \ {t} : pc'[u] = pc[u]
    BY <1>0, <1>2, <1>3, TwoGotoFacts
  <1>5. TypeOK'
    BY <1>1, <1>2, <1>4 DEF TypeOK, Places
  <1>6. Local(t)'
    BY <1>1, <1>2, <1>3, <1>4, Known DEF Local, PlaceInv, OrderInv, RecordInv, JobInv, BootInv, Alive,
         Alone, LauncherPCs, SupervisorPCs, WorkPCs, Holding
  <1>7. pc[t]["nsup"] = "none" /\ pc[t]["nwork"] = "none" /\ "nsup" \notin recorded[t]
    BY <1>1, <1>2, Known DEF Local, OrderInv, RecordInv
  <1>8. Quiet(t) => Quiet(t)' /\ "work" \notin recorded[t]
    BY <1>1, <1>3, <1>4, <1>7, Known DEF Quiet, LeftAlone, Alive
  <1>9. Quiet(t) => (Dead(t) => Dead(t)')
    <2>1. \A q \in Roles : Alive(t, q)' => Alive(t, q) \/ q = "nsup"
      BY <1>1, <1>4 DEF Alive
    <2>2. QED
      BY <1>1, <1>4, <1>7, <1>8, <2>1, Known, DeadStays
  <1>10. Calm(t)
    BY <1>4, <1>6, <1>8, <1>9, Known DEF Calm
  <1>11. QED
    BY <1>1, <1>4, <1>5, <1>10, CalmStep

(* The supervisor records the members of its job, one of which may be gone  *)
(* before its identity is read.                                             *)
LEMMA MembersStep == ASSUME IInv, NEW t \in Tokens, NEW s \in Supervisors, ListMembers(t, s) PROVE IInv'
  <1> USE ReservationAssumption
  <1>0. s \in {"sup", "nsup"} /\ s \in Roles
    BY DEF Supervisors, Roles
  <1>1. UNCHANGED <<backend, lock, handle, bootOf, boot, faults>> /\ pc[t][s] = "drain"
    BY DEF ListMembers
  <1>2. TypeOK /\ Local(t) /\ LockInv(t) /\ HandleInv(t) /\ backend \in {"windows", "linux"}
    BY DEF IInv, TypeOK
  <1>3. /\ JobMembers(t, s) \subseteq Roles \ {"owner", s}
        /\ s = "nsup" => JobMembers(t, s) \subseteq {"nwork"}
        /\ s = "sup" /\ backend = "windows" => JobMembers(t, s) \subseteq {"work", "stray"}
        /\ \A r \in JobMembers(t, s) : Alive(t, r)
        /\ Vanishing(t, s) \subseteq JobMembers(t, s)
    BY <1>0, <1>2 DEF JobMembers, Job, Roles, Vanishing
  <1>4. PICK gone \in SUBSET JobMembers(t, s) :
           /\ Change(t, (JobMembers(t, s) \ gone) \cup {u \in {"unknown"} : gone # {}})
           /\ pc' = [pc EXCEPT ![t] = [r \in Roles |-> CASE r = s -> "drained"
                                                        [] r \in gone -> "gone"
                                                        [] OTHER -> pc[t][r]]]
    <2>1. \A gone \in {{}} \cup {{r} : r \in Vanishing(t, s)} : gone \in SUBSET JobMembers(t, s)
      BY <1>3
    <2>2. QED
      BY <2>1 DEF ListMembers
  <1>5. /\ pc' \in [Tokens -> [Roles -> Places]]
        /\ \A r \in Roles : pc'[t][r] = CASE r = s -> "drained"
                                       [] r \in gone -> "gone"
                                       [] OTHER -> pc[t][r]
        /\ \A u \in Tokens \ {t} : pc'[u] = pc[u]
    BY <1>2, <1>4, Known DEF TypeOK, Places
  <1>6. /\ handle = None
        /\ recorded' \in [Tokens -> SUBSET (Roles \cup {"unknown"})]
        /\ recorded[t] \subseteq recorded'[t]
        /\ recorded'[t] \subseteq recorded[t] \cup JobMembers(t, s) \cup {"unknown"}
        /\ \A u \in Tokens \ {t} : recorded'[u] = recorded[u]
    <2>1. (JobMembers(t, s) \ gone) \cup {u \in {"unknown"} : gone # {}}
             \in SUBSET (Roles \cup {"unknown"})
      BY <1>3
    <2>2. QED
      BY <1>2, <1>4, <2>1, ChangeFacts
  <1>7. TypeOK'
    BY <1>1, <1>2, <1>5, <1>6 DEF TypeOK, Places
  <1>8. ~Quiet(t)
    BY <1>0, <1>1 DEF Quiet
  <1>9. pc[t]["sup"] # "rename"
    BY <1>2, <1>6, Known DEF HandleInv
  <1>10. Local(t)'
    <2>1. PlaceInv(t)'
      BY <1>0, <1>2, <1>3, <1>5, Known DEF Local, PlaceInv, SupervisorPCs, WorkPCs, LauncherPCs
    <2>2. OrderInv(t)'
      <3>1. pc[t]["owner"] \notin Alone
        BY <1>0, <1>1, <1>2 DEF Local, OrderInv, Alone
      <3>2. \A r \in gone : pc[t][r] \notin {"none", "gone"}
        BY <1>3 DEF Alive
      <3>3. QED
        BY <1>0, <1>1, <1>2, <1>3, <1>5, <3>1, <3>2, Known DEF Local, OrderInv, Alone
    <2>3. RecordInv(t)'
      <3>1. \A r \in Roles : pc'[t][r] = "none" <=> pc[t][r] = "none"
        BY <1>1, <1>3, <1>5 DEF Alive
      <3>2. recorded'[t] \subseteq (Roles \ {"owner"}) \cup {"unknown"}
        BY <1>2, <1>3, <1>6 DEF Local, RecordInv
      <3>3. \A r \in recorded'[t] : r \in Roles => pc'[t][r] # "none"
        <4>1. "unknown" \notin Roles
          BY DEF Roles
        <4>2. \A r \in JobMembers(t, s) : pc[t][r] # "none"
          BY <1>3 DEF Alive
        <4>3. QED
          BY <1>2, <1>6, <3>1, <4>1, <4>2 DEF Local, RecordInv
      <3>4. \A r \in {"sup", "nsup"} : pc'[t][r] = pc[t][r] \/ pc'[t][r] = "gone" \/ r = s
        BY <1>5, Known
      <3>5. QED
        BY <1>0, <1>1, <1>2, <1>6, <3>1, <3>2, <3>3, <3>4, Known DEF Local, RecordInv, Holding
    <2>4. JobInv(t)'
      <3>1. \A r \in Roles : Alive(t, r)' => Alive(t, r)
        BY <1>1, <1>5 DEF Alive
      <3>2. \A r \in {"sup", "nsup"} : pc'[t][r] = pc[t][r] \/ pc'[t][r] = "gone" \/ r = s
        BY <1>5, Known
      <3>3. backend = "windows" => "sup" \notin gone /\ "nsup" \notin gone
        BY <1>0, <1>3
      <3>4. CASE backend = "windows"
        BY <1>0, <1>1, <1>2, <1>5, <1>9, <3>1, <3>3, <3>4, Known DEF Local, JobInv, Holding, Alive
      <3>5. CASE backend = "linux"
        BY <1>0, <1>1, <1>2, <1>5, <1>9, <3>1, <3>2, <3>5, Known DEF Local, JobInv, Alive
      <3>6. QED
        BY <1>2, <3>4, <3>5
    <2>5. BootInv(t)'
      BY <1>0, <1>1, <1>2, <1>5, Known DEF Local, BootInv, Alive
    <2>6. QED
      BY <2>1, <2>2, <2>3, <2>4, <2>5 DEF Local
  <1>11. Calm(t)
    BY <1>0, <1>3, <1>5, <1>8, <1>9, <1>10, Known DEF Calm
  <1>12. QED
    BY <1>1, <1>5, <1>6, <1>7, <1>11, CalmStep

-----------------------------------------------------------------------------
(* Steps that take, open or give up the lock.                               *)

(* Positive evidence means quiet: a live process that no event and no table *)
(* row ties to the reservation is not adopted, or escaped.                  *)
LEMMA EvidenceIsQuiet ==
  ASSUME NEW t \in Tokens, TypeOK, Local(t), pc[t]["sup"] # "rename",
         Dead(t) \/ Bare(t)
  PROVE  Quiet(t)
  <1> USE ReservationAssumption
  <1>1. Gone(t) \/ Bare(t)
    BY DeadIffGone
  <1>2. CASE bootOf[t] # boot
    <2>1. \A r \in Roles \ {"owner"} : ~Alive(t, r)
      BY <1>2 DEF Local, BootInv
    <2>2. QED
      BY <2>1, Known DEF Quiet, LeftAlone, Alive
  <1>3. CASE recorded[t] = {}
    BY <1>3, Known DEF Quiet, Alive, Local, PlaceInv, OrderInv, RecordInv, SupervisorPCs, Holding
  <1>4. CASE Bare(t)
    <2>1. backend \in {"windows", "linux"}
      BY DEF TypeOK
    <2>2. \A r \in Roles : r \in recorded[t] => ~Alive(t, r)
      BY <1>4 DEF Bare
    <2>3. pc[t]["sup"] \in {"none", "start", "finish", "gone"}
      BY <2>2, Known DEF Local, PlaceInv, RecordInv, SupervisorPCs, Holding, Alive
    <2>4. pc[t]["nsup"] \in {"none", "start", "gone"}
      BY <2>2, Known DEF Local, PlaceInv, RecordInv, SupervisorPCs, Holding, Alive
    <2>5. /\ Alive(t, "work") \/ Alive(t, "stray") => backend = "linux" /\ ~Alive(t, "sup")
          /\ Alive(t, "work") => "work" \notin recorded[t]
      BY <1>4, <2>1, <2>2, <2>3, Known DEF Bare, Local, OrderInv, RecordInv, JobInv, Holding, Alive
    <2>6. Alive(t, "nwork") =>
             backend = "linux" /\ ~Alive(t, "nsup") /\ "nwork" \notin recorded[t]
      BY <1>4, <2>1, <2>2, <2>4, Known DEF Bare, Local, OrderInv, RecordInv, JobInv, Holding, Alive
    <2>7. Alive(t, "stray") => "work" \notin recorded[t] \/ LeftAlone(t)
      BY <1>4, <2>2, Known DEF Bare, LeftAlone
    <2>8. QED
      BY <2>3, <2>4, <2>5, <2>6, <2>7 DEF Quiet
  <1>5. QED
    BY <1>1, <1>2, <1>3, <1>4 DEF Gone

(* The lock is taken only while it is free, and opened by nobody then.      *)
LEMMA AcquireStep == ASSUME IInv, NEW t \in Tokens, Acquire(t) PROVE IInv'
  <1> USE ReservationAssumption
  <1>1. /\ UNCHANGED <<backend, handle, recorded, boot, faults>>
        /\ pc[t]["owner"] \in {"none", "acquire"}
    BY DEF Acquire
  <1>2. TypeOK /\ Local(t) /\ LockInv(t) /\ HandleInv(t)
    BY DEF IInv
  <1>3. CASE lock # None /\ Goto(t, "owner", "gone") /\ lock' = lock /\ bootOf' = bootOf
    <2>1. /\ pc' \in [Tokens -> [Roles -> Places]] /\ pc'[t]["owner"] = "gone"
          /\ \A q \in Roles \ {"owner"} : pc'[t][q] = pc[t][q]
          /\ \A u \in Tokens \ {t} : pc'[u] = pc[u]
      BY <1>2, <1>3, GotoFacts, Known
    <2>2. TypeOK'
      BY <1>1, <1>2, <1>3, <2>1 DEF TypeOK, Places
    <2>3. Local(t)'
      BY <1>1, <1>2, <1>3, <2>1, Known DEF Local, PlaceInv, OrderInv, RecordInv, JobInv, BootInv, Alive,
       Alone, LauncherPCs, SupervisorPCs, WorkPCs, Holding
    <2>4. Quiet(t) => Quiet(t)'
      BY <1>1, <2>1, Known DEF Quiet, LeftAlone, Alive
    <2>5. lock # t
      BY <1>1, <1>2 DEF LockInv
    <2>6. Dead(t) => Dead(t)'
      <3>1. \A q \in Roles : Alive(t, q)' => Alive(t, q)
        BY <2>1 DEF Alive
      <3>2. QED
        BY <1>1, <1>3, <2>1, <3>1, Known, DeadStays
    <2>7. Calm(t)
      BY <2>1, <2>3, <2>4, <2>6, Known DEF Calm
    <2>8. QED
      BY <1>1, <1>3, <2>1, <2>2, <2>7, CalmStep
  <1>4. CASE /\ lock = None /\ lock' = t /\ Goto(t, "owner", "create")
             /\ bootOf' = [bootOf EXCEPT ![t] = boot]
    <2>1. /\ pc' \in [Tokens -> [Roles -> Places]] /\ pc'[t]["owner"] = "create"
          /\ \A q \in Roles \ {"owner"} : pc'[t][q] = pc[t][q]
          /\ \A u \in Tokens \ {t} : pc'[u] = pc[u]
      BY <1>2, <1>4, GotoFacts, Known
    <2>2. /\ bootOf'[t] = boot /\ \A u \in Tokens \ {t} : bootOf'[u] = bootOf[u]
          /\ bootOf' \in [Tokens -> 0..MaxFaults]
      BY <1>2, <1>4 DEF TypeOK
    <2>3. TypeOK'
      BY <1>1, <1>2, <1>4, <2>1, <2>2 DEF TypeOK, Places
    <2>4. handle = None
      BY <1>4 DEF IInv
    <2>5. Local(t)'
      BY <1>1, <1>2, <2>1, <2>2, Known DEF TypeOK, Local, PlaceInv, OrderInv, RecordInv, JobInv, BootInv, Alive,
       Alone, LauncherPCs, SupervisorPCs, WorkPCs, Holding
    <2>6. LockInv(t)' /\ HandleInv(t)'
      BY <1>1, <1>2, <1>4, <2>1, <2>4, Known DEF LockInv, HandleInv
    <2>7. ASSUME NEW u \in Tokens, u # t
          PROVE  Local(u)' /\ LockInv(u)' /\ HandleInv(u)'
      <3>1. Local(u) /\ LockInv(u) /\ HandleInv(u)
        BY DEF IInv
      <3>2. pc'[u] = pc[u] /\ Local(u)' /\ (Quiet(u) <=> Quiet(u)')
        BY <1>1, <2>1, <2>2, <2>7, <3>1, Frame
      <3>3. LockInv(u)'
        BY <1>4, <2>7, <3>1, <3>2 DEF LockInv
      <3>4. HandleInv(u)'
        BY <1>1, <1>4, <2>4, <3>1, <3>2, Known DEF HandleInv
      <3>5. QED
        BY <3>2, <3>3, <3>4
    <2>8. QED
      BY <1>1, <1>2, <1>4, <2>3, <2>4, <2>5, <2>6, <2>7 DEF IInv, TypeOK
  <1>5. QED
    BY <1>3, <1>4 DEF Acquire

(* Somebody opens the lock after checks that show its reservation quiet, or *)
(* that leave only the supervisor that releases it.                         *)
LEMMA OpenStep ==
  ASSUME IInv, TypeOK', NEW t \in Tokens, handle = None, handle' # None, lock # None,
         \A u \in Tokens \ {t} : pc'[u] = pc[u],
         UNCHANGED <<backend, lock, recorded, bootOf, boot, faults>>,
         Local(t)', HandleInv(t)',
         pc'[t]["owner"] = pc[t]["owner"] \/ pc'[t]["owner"] \in {"archive", "rename"},
         pc'[t]["owner"] = "archive" => lock # t,
         lock # t => Quiet(t)',
         lock # t => Quiet(lock)
  PROVE  IInv'
  <1> USE ReservationAssumption
  <1>1. ASSUME NEW u \in Tokens, u # t
        PROVE  Local(u)' /\ LockInv(u)' /\ HandleInv(u)'
    <2>1. Local(u) /\ LockInv(u) /\ HandleInv(u)
      BY DEF IInv
    <2>2. pc'[u] = pc[u] /\ Local(u)' /\ (Quiet(u) <=> Quiet(u)')
      BY <1>1, <2>1, Frame
    <2>3. LockInv(u)'
      BY <2>1, <2>2 DEF LockInv
    <2>4. HandleInv(u)'
      BY <1>1, <2>1, <2>2, Known DEF HandleInv
    <2>5. QED
      BY <2>2, <2>3, <2>4
  <1>2. LockInv(t)'
    BY DEF IInv, LockInv
  <1>3. QED
    BY <1>1, <1>2 DEF IInv

(* release by the launcher, after a refusal or a failed creation.           *)
LEMMA LauncherReleaseStep == ASSUME IInv, NEW t \in Tokens, LauncherRelease(t) PROVE IInv'
  <1> USE ReservationAssumption
  <1>1. /\ UNCHANGED <<backend, lock, recorded, bootOf, boot, faults>>
        /\ pc[t]["owner"] = "cancel" /\ handle = None
    BY DEF LauncherRelease
  <1>2. TypeOK /\ Local(t) /\ LockInv(t) /\ HandleInv(t)
    BY DEF IInv
  <1>3. CASE Goto(t, "owner", "gone") /\ handle' = handle
    <2>1. pc'[t]["owner"] = "gone" /\ \A q \in Roles \ {"owner"} : pc'[t][q] = pc[t][q]
      BY <1>2, <1>3, GotoFacts, Known
    <2>2. Local(t)'
      BY <1>1, <1>2, <2>1, Known DEF Local, PlaceInv, OrderInv, RecordInv, JobInv, BootInv, Alive,
         Alone, LauncherPCs, SupervisorPCs, WorkPCs, Holding
    <2>3. Quiet(t) => Quiet(t)'
      BY <1>1, <2>1, Known DEF Quiet, LeftAlone, Alive
    <2>4. QED
      BY <1>1, <1>3, <2>2, <2>3, MoveStep, Known DEF Alive
  <1>4. CASE lock = t /\ handle' = <<t, "owner">> /\ Goto(t, "owner", "rename")
    <2>1. /\ pc' \in [Tokens -> [Roles -> Places]] /\ pc'[t]["owner"] = "rename"
          /\ \A q \in Roles \ {"owner"} : pc'[t][q] = pc[t][q]
          /\ \A u \in Tokens \ {t} : pc'[u] = pc[u]
      BY <1>2, <1>4, GotoFacts, Known
    <2>2. TypeOK'
      BY <1>1, <1>2, <1>4, <2>1, Known DEF TypeOK, Places
    <2>3. Local(t)'
      BY <1>1, <1>2, <2>1, Known DEF Local, PlaceInv, OrderInv, RecordInv, JobInv, BootInv, Alive,
         Alone, LauncherPCs, SupervisorPCs, WorkPCs, Holding
    <2>4. Quiet(t)'
      BY <1>1, <1>2, <2>1, Known DEF Local, OrderInv, Quiet, LeftAlone, Alive, Alone
    <2>5. HandleInv(t)'
      BY <1>1, <1>2, <1>4, <2>1, <2>4, Known DEF HandleInv, Local, OrderInv, Alone
    <2>6. handle' # None /\ lock # None
      BY <1>4, Known
    <2>7. QED
      BY <1>1, <1>4, <2>1, <2>2, <2>3, <2>4, <2>5, <2>6, OpenStep
  <1>5. QED
    BY <1>3, <1>4 DEF LauncherRelease, MayRelease

(* release by the supervisor: whatever else is recorded is dead, and on     *)
(* Windows a nested supervisor that lives has not adopted.                  *)
LEMMA SupervisorReleaseStep == ASSUME IInv, NEW t \in Tokens, SupervisorRelease(t) PROVE IInv'
  <1> USE ReservationAssumption
  <1>1. /\ UNCHANGED <<backend, lock, recorded, bootOf, boot, faults>>
        /\ pc[t]["sup"] \in {"release", "finish"} /\ handle = None
    BY DEF SupervisorRelease
  <1>2. TypeOK /\ Local(t) /\ LockInv(t) /\ HandleInv(t) /\ backend \in {"windows", "linux"}
    BY DEF IInv, TypeOK
  <1>3. CASE Goto(t, "sup", "gone") /\ handle' = handle
    <2>1. pc'[t]["sup"] = "gone" /\ \A q \in Roles \ {"sup"} : pc'[t][q] = pc[t][q]
      BY <1>2, <1>3, GotoFacts, Known
    <2>2. Local(t)'
      BY <1>1, <1>2, <2>1, Known DEF Local, PlaceInv, OrderInv, RecordInv, JobInv, BootInv, Alive,
         Alone, LauncherPCs, SupervisorPCs, WorkPCs, Holding
    <2>3. Quiet(t) => Quiet(t)'
      BY <1>1, <2>1, Known DEF Quiet, LeftAlone, Alive
    <2>4. QED
      BY <1>1, <1>3, <2>2, <2>3, MoveStep, Known DEF Alive
  <1>4. CASE MayRelease(t, "sup") /\ handle' = <<t, "sup">> /\ Goto(t, "sup", "rename")
    <2>1. /\ pc' \in [Tokens -> [Roles -> Places]] /\ pc'[t]["sup"] = "rename"
          /\ \A q \in Roles \ {"sup"} : pc'[t][q] = pc[t][q]
          /\ \A u \in Tokens \ {t} : pc'[u] = pc[u]
      BY <1>2, <1>4, GotoFacts, Known
    <2>2. TypeOK'
      BY <1>1, <1>2, <1>4, <2>1, Known DEF TypeOK, Places
    <2>3. lock = t /\ \A r \in Roles \ {"sup"} : r \in recorded[t] => ~Alive(t, r)
      BY <1>4 DEF MayRelease, StillLive
    <2>4. ~Alive(t, "work") /\ ~Alive(t, "stray")
      BY <1>1, <1>2 DEF Local, JobInv, OrderInv, Alive
    <2>5. pc[t]["nsup"] \in {"none", "start", "gone"}
      BY <1>2, <2>3, Known DEF Local, PlaceInv, RecordInv, Holding, SupervisorPCs, Alive
    <2>6. ~Alive(t, "nwork")
      BY <1>1, <1>2, <2>5 DEF Local, JobInv, OrderInv, Holding, Alive
    <2>7. Local(t)'
      BY <1>1, <1>2, <2>1, <2>4, <2>5, <2>6, Known DEF Local, PlaceInv, OrderInv, RecordInv, JobInv, BootInv, Alive,
         Alone, LauncherPCs, SupervisorPCs, WorkPCs, Holding
    <2>8. HandleInv(t)'
      <3>1. pc[t]["owner"] \notin {"archive", "rename"}
        BY <1>1, <1>2, Known DEF HandleInv
      <3>2. QED
        BY <1>1, <1>4, <2>1, <2>3, <3>1, Known DEF HandleInv
    <2>9. handle' # None /\ lock # None /\ pc'[t]["owner"] = pc[t]["owner"]
      BY <1>4, <2>1, <2>3, Known
    <2>10. pc'[t]["owner"] # "archive"
      BY <1>1, <1>2, <2>9, Known DEF HandleInv
    <2>11. QED
      BY <1>1, <2>1, <2>2, <2>3, <2>7, <2>8, <2>9, <2>10, OpenStep
  <1>5. QED
    BY <1>3, <1>4 DEF SupervisorRelease

(* release by an operator who knows the token.                              *)
LEMMA OperatorReleaseStep == ASSUME IInv, OperatorRelease PROVE IInv'
  <1> USE ReservationAssumption
  <1>1. /\ UNCHANGED <<backend, lock, recorded, bootOf, boot, faults, pc>>
        /\ lock # None /\ handle = None /\ handle' = <<lock, "operator">>
        /\ ~StillLive(lock, "operator") /\ lock \in Tokens
    BY DEF OperatorRelease, MayRelease, IInv, TypeOK
  <1>2. TypeOK /\ Local(lock) /\ LockInv(lock) /\ HandleInv(lock)
    BY <1>1 DEF IInv
  <1>3. TypeOK' /\ handle' # None
    BY <1>1, <1>2 DEF TypeOK
  <1>4. pc[lock]["sup"] # "rename" /\ pc[lock]["owner"] \notin {"archive", "rename"}
    BY <1>1, <1>2, Known DEF HandleInv
  <1>5. Bare(lock)
    BY <1>1, LiveIffNotBare DEF Roles
  <1>6. Quiet(lock)
    BY <1>1, <1>2, <1>4, <1>5, EvidenceIsQuiet
  <1>7. \A u \in Tokens : Local(u)' /\ (Quiet(u) <=> Quiet(u)')
    BY <1>1, Frame DEF IInv
  <1>8. ASSUME NEW u \in Tokens PROVE LockInv(u)' /\ HandleInv(u)'
    BY <1>1, <1>4, <1>6, <1>7, Known DEF IInv, LockInv, HandleInv
  <1>9. QED
    BY <1>1, <1>3, <1>7, <1>8 DEF IInv

(* reclaim opens the lock only of a reservation it has evidence about.      *)
LEMMA ReclaimAssessStep == ASSUME IInv, NEW t \in Tokens, ReclaimAssess(t) PROVE IInv'
  <1> USE ReservationAssumption
  <1>1. /\ UNCHANGED <<backend, lock, recorded, bootOf, boot, faults>>
        /\ pc[t]["owner"] = "none" /\ handle = None
    BY DEF ReclaimAssess
  <1>2. TypeOK /\ Local(t) /\ LockInv(t) /\ HandleInv(t)
    BY DEF IInv
  <1>3. lock # t /\ Quiet(t)
    BY <1>1, <1>2 DEF LockInv
  <1>4. CASE Goto(t, "owner", "gone") /\ handle' = handle
    <2>1. /\ pc' \in [Tokens -> [Roles -> Places]] /\ pc'[t]["owner"] = "gone"
          /\ \A q \in Roles \ {"owner"} : pc'[t][q] = pc[t][q]
          /\ \A u \in Tokens \ {t} : pc'[u] = pc[u]
      BY <1>2, <1>4, GotoFacts, Known
    <2>2. TypeOK'
      BY <1>1, <1>2, <1>4, <2>1 DEF TypeOK, Places
    <2>3. Local(t)'
      BY <1>1, <1>2, <2>1, Known DEF Local, PlaceInv, OrderInv, RecordInv, JobInv, BootInv, Alive,
         Alone, LauncherPCs, SupervisorPCs, WorkPCs, Holding
    <2>4. Quiet(t)'
      BY <1>1, <1>3, <2>1, Known DEF Quiet, LeftAlone, Alive
    <2>5. Dead(t) => Dead(t)'
      <3>1. \A q \in Roles : Alive(t, q)' => Alive(t, q)
        BY <2>1 DEF Alive
      <3>2. QED
        BY <1>1, <2>1, <3>1, Known, DeadStays
    <2>6. Calm(t)
      BY <2>1, <2>3, <2>4, <2>5, Known DEF Calm
    <2>7. QED
      BY <1>1, <1>4, <2>1, <2>2, <2>6, CalmStep
  <1>5. CASE lock # None /\ Dead(lock) /\ handle' = <<t, "owner">> /\ Goto(t, "owner", "archive")
    <2>0. "archive" \in Places
      BY DEF Places, LauncherPCs
    <2>1. /\ pc' \in [Tokens -> [Roles -> Places]] /\ pc'[t]["owner"] = "archive"
          /\ \A q \in Roles \ {"owner"} : pc'[t][q] = pc[t][q]
          /\ \A u \in Tokens \ {t} : pc'[u] = pc[u]
      BY <1>2, <1>5, <2>0, GotoFacts, Known
    <2>2. TypeOK' /\ lock \in Tokens
      BY <1>1, <1>2, <1>5, <2>1, Known DEF TypeOK, Places
    <2>3. Local(t)'
      BY <1>1, <1>2, <2>1, Known DEF Local, PlaceInv, OrderInv, RecordInv, JobInv, BootInv, Alive,
         Alone, LauncherPCs, SupervisorPCs, WorkPCs, Holding
    <2>4. Quiet(t)'
      BY <1>1, <1>3, <2>1, Known DEF Quiet, LeftAlone, Alive
    <2>5. Quiet(lock)
      <3>1. Local(lock) /\ pc[lock]["sup"] # "rename"
        BY <1>1, <2>2, Known DEF IInv, HandleInv
      <3>2. QED
        BY <1>2, <1>5, <2>2, <3>1, EvidenceIsQuiet
    <2>6. Dead(lock)'
      <3>1. lock # t /\ pc'[lock] = pc[lock]
        BY <1>3, <2>1, <2>2
      <3>2. QED
        BY <1>1, <1>5, <2>2, <3>1, Frame
    <2>7. handle' # None
      BY <1>5, Known
    <2>8. HandleInv(t)'
      BY <1>1, <1>2, <1>3, <1>5, <2>1, <2>6, Known DEF HandleInv
    <2>9. QED
      BY <1>1, <1>3, <1>5, <2>1, <2>2, <2>3, <2>4, <2>5, <2>7, <2>8, OpenStep
  <1>6. QED
    BY <1>4, <1>5 DEF ReclaimAssess

(* Whoever has the lock open renames it away: its reservation was quiet and *)
(* stays so.                                                                *)
LEMMA CloseStep ==
  ASSUME IInv, TypeOK', NEW h \in Tokens, NEW r \in Roles \cup {"operator"}, handle = <<h, r>>,
         handle' = None, lock' = None,
         \A u \in Tokens \ {h} : pc'[u] = pc[u],
         UNCHANGED <<backend, recorded, bootOf, boot, faults>>,
         Local(h)', Quiet(h)',
         pc'[h]["owner"] \notin {"archive", "rename"}
  PROVE  IInv'
  <1> USE ReservationAssumption
  <1>1. handle # None
    OBVIOUS
  <1>2. ASSUME NEW u \in Tokens, u # h
        PROVE  Local(u)' /\ LockInv(u)' /\ HandleInv(u)'
    <2>1. Local(u) /\ LockInv(u) /\ HandleInv(u)
      BY DEF IInv
    <2>2. pc'[u] = pc[u] /\ Local(u)' /\ (Quiet(u) <=> Quiet(u)')
      BY <1>2, <2>1, Frame
    <2>3. pc[u]["owner"] \notin {"archive", "rename"} /\ pc[u]["sup"] # "rename"
      BY <1>2, <2>1 DEF HandleInv
    <2>4. Quiet(u)
      BY <1>1, <2>1, <2>3 DEF HandleInv, LockInv
    <2>5. LockInv(u)' /\ HandleInv(u)'
      BY <2>2, <2>3, <2>4 DEF LockInv, HandleInv
    <2>6. QED
      BY <2>2, <2>5
  <1>3. LockInv(h)' /\ HandleInv(h)'
    BY DEF LockInv, HandleInv, Quiet
  <1>4. QED
    BY <1>2, <1>3 DEF IInv

(* reclaim renames the dead lock away.                                      *)
LEMMA ReclaimArchiveStep == ASSUME IInv, NEW t \in Tokens, ReclaimArchive(t) PROVE IInv'
  <1> USE ReservationAssumption
  <1>1. /\ UNCHANGED <<backend, recorded, bootOf, boot, faults>>
        /\ pc[t]["owner"] = "archive" /\ lock' = None /\ handle' = None
        /\ Goto(t, "owner", "acquire")
    BY DEF ReclaimArchive
  <1>2. TypeOK /\ Local(t) /\ LockInv(t) /\ HandleInv(t)
    BY DEF IInv
  <1>3. handle = <<t, "owner">> /\ Quiet(t)
    BY <1>1, <1>2 DEF HandleInv, LockInv
  <1>4. "acquire" \in Places
    BY DEF Places, LauncherPCs
  <1>5. /\ pc' \in [Tokens -> [Roles -> Places]] /\ pc'[t]["owner"] = "acquire"
        /\ \A q \in Roles \ {"owner"} : pc'[t][q] = pc[t][q]
        /\ \A u \in Tokens \ {t} : pc'[u] = pc[u]
    BY <1>1, <1>2, <1>4, GotoFacts, Known
  <1>6. TypeOK'
    BY <1>1, <1>2, <1>5 DEF TypeOK, Places
  <1>7. Local(t)'
    BY <1>1, <1>2, <1>5, Known DEF Local, PlaceInv, OrderInv, RecordInv, JobInv, BootInv, Alive,
       Alone, LauncherPCs, SupervisorPCs, WorkPCs, Holding
  <1>8. Quiet(t)'
    BY <1>1, <1>3, <1>5, Known DEF Quiet, LeftAlone, Alive
  <1>9. QED
    BY <1>1, <1>3, <1>5, <1>6, <1>7, <1>8, CloseStep, Known

(* A release renames the lock to its archive name.                          *)
LEMMA ReleaseRenameStep ==
  ASSUME IInv, NEW t \in Tokens, NEW r \in {"owner", "sup"}, ReleaseRename(t, r)
  PROVE  IInv'
  <1> USE ReservationAssumption
  <1>1. /\ UNCHANGED <<backend, recorded, bootOf, boot, faults>> /\ handle = <<t, r>>
        /\ pc[t][r] = "rename" /\ lock' = None /\ handle' = None /\ Goto(t, r, "gone")
    BY DEF ReleaseRename
  <1>2. TypeOK /\ Local(t) /\ LockInv(t) /\ HandleInv(t) /\ r \in Roles
    BY Known DEF IInv
  <1>3. /\ pc' \in [Tokens -> [Roles -> Places]] /\ pc'[t][r] = "gone"
        /\ \A q \in Roles \ {r} : pc'[t][q] = pc[t][q]
        /\ \A u \in Tokens \ {t} : pc'[u] = pc[u]
    BY <1>1, <1>2, GotoFacts, Known
  <1>4. TypeOK'
    BY <1>1, <1>2, <1>3 DEF TypeOK, Places
  <1>5. Local(t)'
    BY <1>1, <1>2, <1>3, Known DEF Local, PlaceInv, OrderInv, RecordInv, JobInv, BootInv, Alive,
       Alone, LauncherPCs, SupervisorPCs, WorkPCs, Holding
  <1>6. Quiet(t)' /\ pc'[t]["owner"] \notin {"archive", "rename"}
    <2>1. CASE r = "owner"
      <3>1. Quiet(t)
        BY <1>1, <1>2, <2>1, Known DEF HandleInv, LockInv
      <3>2. QED
        BY <1>1, <1>3, <2>1, <3>1, Known DEF Quiet, LeftAlone, Alive
    <2>2. CASE r = "sup"
      <3>1. pc[t]["owner"] \notin {"archive", "rename"}
        BY <1>1, <1>2, <2>2 DEF HandleInv
      <3>2. QED
        BY <1>1, <1>2, <1>3, <2>2, <3>1, Known DEF Local, JobInv, Quiet, LeftAlone, Alive
    <2>3. QED
      BY <2>1, <2>2
  <1>7. QED
    BY <1>1, <1>2, <1>3, <1>4, <1>5, <1>6, CloseStep

(* The operator's command renames the lock, or is killed first.             *)
LEMMA OperatorStep == ASSUME IInv, OperatorRename \/ KillOperator PROVE IInv'
  <1> USE ReservationAssumption
  <1>1. /\ UNCHANGED <<backend, recorded, bootOf, boot, pc>>
        /\ handle # None /\ handle[2] = "operator" /\ handle' = None
    BY DEF OperatorRename, KillOperator
  <1>2. PICK h \in Tokens : handle = <<h, "operator">>
    BY <1>1 DEF IInv, TypeOK
  <1>3. \A u \in Tokens : pc[u]["owner"] \notin {"archive", "rename"} /\ pc[u]["sup"] # "rename"
    BY <1>2 DEF IInv, HandleInv
  <1>4. CASE OperatorRename
    <2>1. lock' = None /\ faults' = faults
      BY <1>4 DEF OperatorRename
    <2>2. TypeOK'
      BY <1>1, <2>1 DEF IInv, TypeOK
    <2>3. Local(h) /\ Quiet(h)
      BY <1>1, <1>3 DEF IInv, HandleInv, LockInv
    <2>4. Local(h)' /\ Quiet(h)'
      BY <1>1, <2>3, Frame
    <2>5. QED
      BY <1>1, <1>2, <1>3, <2>1, <2>2, <2>4, CloseStep
  <1>5. CASE KillOperator
    <2>1. lock' = lock /\ faults' = faults + 1 /\ faults < MaxFaults
      BY <1>5 DEF KillOperator
    <2>2. TypeOK' /\ boot <= faults'
      BY <1>1, <2>1 DEF IInv, TypeOK
    <2>3. \A u \in Tokens : Local(u)' /\ (Quiet(u) <=> Quiet(u)')
      BY <1>1, Frame DEF IInv
    <2>4. \A u \in Tokens : LockInv(u)' /\ HandleInv(u)'
      BY <1>1, <1>3, <2>1, <2>3 DEF IInv, LockInv, HandleInv
    <2>5. QED
      BY <1>1, <2>1, <2>2, <2>3, <2>4 DEF IInv
  <1>6. QED
    BY <1>4, <1>5

(* A restart ends every process and every change that was under way.        *)
LEMMA RebootStep == ASSUME IInv, Reboot PROVE IInv'
  <1> USE ReservationAssumption
  <1>1. /\ UNCHANGED <<backend, lock, recorded, bootOf>> /\ handle' = None
        /\ boot' = boot + 1 /\ faults' = faults + 1 /\ faults < MaxFaults
        /\ pc' = [t \in Tokens |-> [r \in Roles |-> IF Alive(t, r) THEN "gone" ELSE pc[t][r]]]
    BY DEF Reboot
  <1>2. TypeOK /\ boot <= faults
    BY DEF IInv
  <1>3. \A t \in Tokens, r \in Roles :
           pc'[t][r] = IF pc[t][r] = "none" THEN "none" ELSE "gone"
    BY <1>1 DEF Alive
  <1>4. TypeOK' /\ (boot <= faults)'
    <2>1. pc' \in [Tokens -> [Roles -> Places]]
      BY <1>1, <1>2, Known DEF TypeOK, Places
    <2>2. boot' \in 0..MaxFaults /\ faults' \in 0..MaxFaults /\ boot' <= faults'
      BY <1>1, <1>2 DEF TypeOK
    <2>3. QED
      BY <1>1, <1>2, <2>1, <2>2 DEF TypeOK, Places
  <1>5. ASSUME NEW t \in Tokens PROVE Local(t)' /\ LockInv(t)' /\ HandleInv(t)'
    <2>1. Local(t) /\ LockInv(t)
      BY DEF IInv
    <2>2. bootOf[t] <= boot /\ bootOf[t] \in Nat /\ boot \in Nat
      BY <1>2, <2>1 DEF Local, BootInv, TypeOK
    <2>3. BootInv(t)'
      BY <1>1, <1>3, <2>2, Known DEF BootInv, Alive, Roles
    <2>4. PlaceInv(t)' /\ OrderInv(t)' /\ RecordInv(t)' /\ JobInv(t)'
      BY <1>1, <1>3, <2>1, Known DEF Local, PlaceInv, OrderInv, RecordInv, JobInv, BootInv, Alive,
       Alone, LauncherPCs, SupervisorPCs, WorkPCs, Holding
    <2>5. LockInv(t)' /\ HandleInv(t)'
      BY <1>1, <1>3, <2>1, Known DEF LockInv, HandleInv, Quiet, LeftAlone, Alive
    <2>6. QED
      BY <2>3, <2>4, <2>5 DEF Local
  <1>6. QED
    BY <1>1, <1>4, <1>5 DEF IInv

-----------------------------------------------------------------------------
(* Every step preserves the invariant.                                      *)
LEMMA NextIInv == IInv /\ [Next]_vars => IInv'
  <1> SUFFICES ASSUME IInv, [Next]_vars PROVE IInv'
    OBVIOUS
  <1>1. ASSUME NEW t \in Tokens, LauncherStep(t) PROVE IInv'
    BY <1>1, AcquireStep, ReclaimAssessStep, ReclaimArchiveStep, CreateStep, HandoffStep, NoteStep,
       LauncherReleaseStep, ReleaseRenameStep DEF LauncherStep
  <1>2. ASSUME NEW t \in Tokens, NEW s \in Supervisors, SupervisorStep(t, s) PROVE IInv'
    BY <1>2, AdoptStep, SpawnStep, RecordStep, ChildExitedStep, MembersStep, JobEmptyStep,
       SupervisorReleaseStep, ReleaseRenameStep, NestedDoneStep DEF SupervisorStep
  <1>3. ASSUME NEW t \in Tokens, WorkStep(t) PROVE IInv'
    BY <1>3, StrayStep, LeaveSessionStep, NestedAcquireStep, NestedCreateStep, NestedHandoffStep DEF WorkStep
  <1>4. ASSUME NEW t \in Tokens, NEW r \in Roles, WorkExit(t, r) PROVE IInv'
    BY <1>4, WorkExitStep
  <1>5. CASE OperatorRelease \/ OperatorRename
    BY <1>5, OperatorReleaseStep, OperatorStep
  <1>6. CASE Fault
    BY <1>6, KillStep, OperatorStep, RebootStep DEF Fault
  <1>7. CASE UNCHANGED vars
    <2>1. UNCHANGED <<backend, lock, handle, recorded, bootOf, boot, pc, faults>>
      BY <1>7 DEF vars
    <2>2. \A u \in Tokens : Local(u)' /\ (Quiet(u) <=> Quiet(u)') /\ (Dead(u) <=> Dead(u)')
      BY <2>1, Frame DEF IInv
    <2>3. lock \in Tokens \cup {None} /\ TypeOK'
      BY <2>1 DEF IInv, TypeOK
    <2>4. \A u \in Tokens : LockInv(u)' /\ HandleInv(u)'
      BY <2>1, <2>2, <2>3 DEF IInv, LockInv, HandleInv
    <2>5. QED
      BY <2>1, <2>2, <2>3, <2>4 DEF IInv
  <1>8. QED
    BY <1>1, <1>2, <1>3, <1>4, <1>5, <1>6, <1>7 DEF Next

(* The invariant holds in every reachable state.                            *)
THEOREM Inductive == Spec => []IInv
  BY InitIInv, NextIInv, PTL DEF Spec

(* The host runs the work of the reservation that holds the lock and no     *)
(* other, except what SIGKILL of a Linux supervisor let escape: a child it  *)
(* had not recorded yet, or a descendant that called setsid and outlived    *)
(* the work.  For any launchers, nesting, kills and restarts.               *)
THEOREM ExclusiveWork == Spec => []WorkExclusive
  <1>1. IInv => WorkExclusive
    <2> SUFFICES ASSUME IInv, NEW t \in Tokens, NEW r \in {"work", "stray", "nwork"},
                        Alive(t, r), lock # t
                 PROVE  Escaped(t, r)
      BY DEF WorkExclusive
    <2>1. Quiet(t)
      BY DEF IInv, LockInv
    <2>2. "sup" \in Supervisors /\ "nsup" \in Supervisors /\ Child["sup"] = "work"
          /\ Child["nsup"] = "nwork"
      BY DEF Supervisors, Child
    <2>3. CASE r = "work"
      BY <2>1, <2>2, <2>3 DEF Quiet, Escaped
    <2>4. CASE r = "stray"
      BY <2>1, <2>2, <2>4 DEF Quiet, LeftAlone, Escaped
    <2>5. CASE r = "nwork"
      BY <2>1, <2>2, <2>5 DEF Quiet, Escaped
    <2>6. QED
      BY <2>3, <2>4, <2>5
  <1>2. QED
    BY <1>1, Inductive, PTL

(* What a reclaimer concluded from the process table still holds when it    *)
(* renames the lock: an adoption cannot come in between.                    *)
THEOREM EvidenceStaysTrue == Spec => []EvidenceStands
  <1>1. IInv => EvidenceStands
    BY DEF IInv, HandleInv, EvidenceStands
  <1>2. QED
    BY <1>1, Inductive, PTL
=============================================================================
