--------------------------- MODULE HostReservation ---------------------------
(***************************************************************************)
(* The reservation of a whole host for timed work                          *)
(* (python/tools/host_reservation_v1.py).  A launcher takes the lock file, *)
(* creates a detached supervisor and hands the reservation over to it; the *)
(* supervisor contains itself, adopts the reservation, runs the work and   *)
(* releases.  The lock is never held open: who owns it is decided from the *)
(* processes its events record, so a reservation outlives its launcher,    *)
(* and a reclaimer retires one whose recorded processes are all absent.    *)
(*                                                                         *)
(* Every launcher acquires at most once, so a launcher also names its      *)
(* reservation (the token).  The processes of reservation t are            *)
(*   owner  the launcher;             sup    the outer supervisor;         *)
(*   work   the command it runs;      stray  a descendant of the work;     *)
(*   nsup   a supervisor the work creates through a nested dispatch;       *)
(*   nwork  the command that one runs.                                     *)
(* pc[t][r] is "none" before the process exists and "gone" after its end.  *)
(* Identities are pairs (pid, creation time); two processes never share    *)
(* one.                                                                    *)
(***************************************************************************)
EXTENDS Naturals, FiniteSets

CONSTANTS
    Tokens,        \* launchers, each with the reservation it may take
    Running,       \* tokens whose launcher gets past the busy refusal
    Nesting,       \* tokens whose work starts processes of its own and may
                   \* dispatch inside the reservation
    Backends,      \* the platforms to check: "windows", "linux"
    MaxFaults,     \* how many times a process is killed or the host restarted
    None           \* no lock file; no handle

Roles == {"owner", "sup", "work", "stray", "nsup", "nwork"}

ASSUME ReservationAssumption ==
    /\ Nesting \subseteq Running /\ Running \subseteq Tokens
    /\ Backends \subseteq {"windows", "linux"}
    /\ MaxFaults \in Nat
    /\ None \notin Tokens \cup Roles \cup {"unknown"}
    /\ None \notin Tokens \X (Roles \cup {"operator"})

Supervisors == {"sup", "nsup"}

\* The command a supervisor runs.
Child == [s \in Supervisors |-> IF s = "sup" THEN "work" ELSE "nwork"]

VARIABLES
    backend,   \* the platform the host runs
    lock,      \* the token the lock file names, or None
    handle,    \* <<t, r>>: process r of t has the lock open for a change
    recorded,  \* recorded[t]: the processes t's events name ("unknown": one
               \* named without its creation time)
    bootOf,    \* bootOf[t]: the boot id in t's record
    boot,      \* the host's boot id
    pc,        \* where every process stands
    faults     \* kills and restarts so far

vars == <<backend, lock, handle, recorded, bootOf, boot, pc, faults>>

LauncherPCs == {"acquire", "archive", "create", "cancel", "rename", "handoff", "note"}
SupervisorPCs ==
    {"start", "spawn", "record", "wait", "drain", "drained", "release",
     "finish", "rename"}
\* "apart": runs in a session of its own, after setsid.
WorkPCs == {"run", "create", "handoff", "apart"}

TypeOK ==
    /\ backend \in Backends
    /\ lock \in Tokens \cup {None}
    /\ handle \in (Tokens \X (Roles \cup {"operator"})) \cup {None}
    /\ recorded \in [Tokens -> SUBSET (Roles \cup {"unknown"})]
    /\ bootOf \in [Tokens -> 0..MaxFaults] /\ boot \in 0..MaxFaults
    /\ pc \in [Tokens -> [Roles -> LauncherPCs \cup SupervisorPCs \cup WorkPCs
                                     \cup {"none", "gone"}]]
    /\ faults \in 0..MaxFaults

Init ==
    /\ backend \in Backends
    /\ lock = None /\ handle = None
    /\ recorded = [t \in Tokens |-> {}]
    /\ bootOf = [t \in Tokens |-> 0] /\ boot = 0
    /\ pc = [t \in Tokens |-> [r \in Roles |-> "none"]]
    /\ faults = 0

------------------------------------------------------------------------------
(* What the process table shows.                                           *)

\* Process r of t exists and has not exited.
Alive(t, r) == pc[t][r] \notin {"none", "gone"}

\* The members of a supervisor's job.  A WMI-created supervisor is outside
\* the job of the work that asked for it; on Linux every descendant of a
\* subreaper stays in its tree.
Job(t, s) ==
    CASE s = "nsup" -> {"nwork"}
      [] s = "sup" /\ backend = "windows" -> {"work", "stray"}
      [] s = "sup" /\ backend = "linux" -> {"work", "stray", "nsup", "nwork"}

JobMembers(t, s) == {r \in Job(t, s) : Alive(t, r)}

\* The processes whose pid the table gives as r's parent (or, on Linux, as
\* its session, unless it called setsid).  Windows keeps a dead parent's pid;
\* Linux gives an orphan to the nearest living subreaper, if any.
Linked(t, r) ==
    LET Reaper(S) == IF \E p \in S : Alive(t, p) THEN S
                     ELSE {p \in {"sup"} : Alive(t, p)}
    IN CASE r = "work" -> IF backend = "windows" \/ Alive(t, "sup")
                          THEN {"sup"} ELSE {}
         [] r = "stray" -> (IF pc[t]["stray"] = "apart" THEN {} ELSE {"work"}) \cup
                           (IF backend = "windows" THEN {} ELSE Reaper({"work"}))
         [] r = "nsup" -> IF backend = "windows" THEN {} ELSE Reaper({"work"})
         [] r = "nwork" -> IF backend = "windows" THEN {"nsup"}
                           ELSE Reaper({"nsup"})
         [] OTHER -> {}

\* What keeps reservation t held, seen by process `me`: a recorded process
\* that is live or without identity, or a live process the walk of
\* live_descendants reaches (it reaches one iff a first one hangs off a root).
StillLive(t, me) ==
    LET roots == recorded[t] \ {me}
    IN \/ "unknown" \in roots
       \/ \E r \in Roles \ {me} :
             Alive(t, r) /\ (r \in roots \/ Linked(t, r) \cap roots # {})

\* Mutant: the launcher stays the owner after the work is recorded.
Dead_OwnerOnly(t) == bootOf[t] # boot \/ ~Alive(t, "owner")

\* Mutant: a launcher that died before any work was recorded is not evidence.
Dead_NeedsWork(t) ==
    bootOf[t] # boot \/ (recorded[t] # {} /\ ~StillLive(t, None))

\* assess: positive evidence that nobody owns reservation t any more.
Dead(t) ==
    \/ bootOf[t] # boot
    \/ IF recorded[t] = {} THEN ~Alive(t, "owner") ELSE ~StillLive(t, None)

------------------------------------------------------------------------------
(* Building blocks of the actions.                                         *)

Goto(t, r, l) == pc' = [pc EXCEPT ![t][r] = l]

\* Processes R of t end; a change one of them had begun is abandoned.
End(t, R) ==
    /\ pc' = [pc EXCEPT ![t] = [r \in Roles |->
                 IF r \in R /\ Alive(t, r) THEN "gone" ELSE pc[t][r]]]
    /\ handle' = IF \E r \in R : handle = <<t, r>> THEN None ELSE handle

\* Mutant: the lock is not opened exclusively to append an event.
Change_Unlocked(t, R) ==
    recorded' = IF lock = t THEN [recorded EXCEPT ![t] = @ \cup R] ELSE recorded

\* _change: append an event naming processes R, if t still holds the lock.
\* Waits while another change has the lock open.
Change(t, R) ==
    /\ handle = None
    /\ recorded' = IF lock = t THEN [recorded EXCEPT ![t] = @ \cup R]
                   ELSE recorded

\* The checks of release by process `me` of t.
MayRelease(t, me) == lock = t /\ ~StillLive(t, me)

\* Nothing but the control points changes.
OnlyPc == UNCHANGED <<backend, lock, handle, recorded, bootOf, boot, faults>>

------------------------------------------------------------------------------
(* The launcher: dispatch, or reclaim and then the same sequence.          *)

\* acquire: the complete record is given the lock's name unless that exists.
Acquire(t) ==
    /\ pc[t]["owner"] \in {"none", "acquire"}
    /\ \/ /\ lock = None
          /\ lock' = t
          /\ bootOf' = [bootOf EXCEPT ![t] = boot]
          /\ Goto(t, "owner", "create")
       \/ /\ lock # None
          /\ Goto(t, "owner", "gone")
          /\ UNCHANGED <<lock, bootOf>>
    /\ UNCHANGED <<backend, handle, recorded, boot, faults>>

\* reclaim: open the lock, look for positive evidence, else refuse.
ReclaimAssess(t) ==
    /\ pc[t]["owner"] = "none" /\ handle = None
    /\ IF lock # None /\ Dead(lock)
       THEN handle' = <<t, "owner">> /\ Goto(t, "owner", "archive")
       ELSE UNCHANGED handle /\ Goto(t, "owner", "gone")
    /\ UNCHANGED <<backend, lock, recorded, bootOf, boot, faults>>

\* reclaim: rename the dead lock away, then acquire like everyone else.
ReclaimArchive(t) ==
    /\ pc[t]["owner"] = "archive"
    /\ lock' = None /\ handle' = None
    /\ Goto(t, "owner", "acquire")
    /\ UNCHANGED <<backend, recorded, bootOf, boot, faults>>

\* dispatch: the busy refusal, whose scan may find anything or fail, then the
\* creation of the supervisor.  A failure to create is definite; a WMI
\* response may also be lost, and is not retried.
Create(t) ==
    /\ pc[t]["owner"] = "create"
    /\ \/ Goto(t, "owner", "cancel")
       \/ /\ t \in Running
          /\ pc' = [pc EXCEPT ![t]["owner"] = "handoff", ![t]["sup"] = "start"]
       \/ /\ t \in Running /\ backend = "windows"
          /\ \E l \in {"start", "gone"} :
                pc' = [pc EXCEPT ![t]["owner"] = "note", ![t]["sup"] = l]
    /\ OnlyPc

\* handoff: what is recorded of the supervisor s just created.  Windows cannot
\* name one that has exited; on Linux its parent still can.
HandoffNames(t, s) == {r \in {s} : Alive(t, r) \/ backend = "linux"}

Handoff(t) ==
    /\ pc[t]["owner"] = "handoff"
    /\ Change(t, HandoffNames(t, "sup"))
    /\ Goto(t, "owner", "gone")
    /\ UNCHANGED <<backend, lock, handle, bootOf, boot, faults>>

\* note spawn-unconfirmed: an event that names no process.
NoteUnconfirmed(t) ==
    /\ pc[t]["owner"] = "note"
    /\ Change(t, {})
    /\ Goto(t, "owner", "gone")
    /\ UNCHANGED <<backend, lock, handle, bootOf, boot, faults>>

------------------------------------------------------------------------------
(* release, by the launcher, by the supervisor or by anyone else who knows *)
(* the token.  The checks and the rename are made with the lock open, so   *)
(* no other change comes between them; processes may.                      *)

\* The launcher after a busy refusal or a definite creation failure.
LauncherRelease(t) ==
    /\ pc[t]["owner"] = "cancel" /\ handle = None
    /\ \/ /\ MayRelease(t, "owner")
          /\ handle' = <<t, "owner">>
          /\ Goto(t, "owner", "rename")
       \/ /\ ~MayRelease(t, "owner")
          /\ Goto(t, "owner", "gone")
          /\ UNCHANGED handle
    /\ UNCHANGED <<backend, lock, recorded, bootOf, boot, faults>>

\* The supervisor: "release" is retried while other recorded work lives,
\* "finish" (after a failed containment or spawn) is not.
SupervisorRelease(t) ==
    /\ pc[t]["sup"] \in {"release", "finish"} /\ handle = None
    /\ \/ /\ MayRelease(t, "sup")
          /\ handle' = <<t, "sup">>
          /\ Goto(t, "sup", "rename")
       \/ /\ lock # t \/ (pc[t]["sup"] = "finish" /\ ~MayRelease(t, "sup"))
          /\ Goto(t, "sup", "gone")
          /\ UNCHANGED handle
    /\ UNCHANGED <<backend, lock, recorded, bootOf, boot, faults>>

\* The release event is written and the lock renamed to its archive name.
ReleaseRename(t, r) ==
    /\ handle = <<t, r>> /\ pc[t][r] = "rename"
    /\ lock' = None /\ handle' = None
    /\ Goto(t, r, "gone")
    /\ UNCHANGED <<backend, recorded, bootOf, boot, faults>>

\* `release --outcome cancelled` by an operator who has the token.
OperatorRelease ==
    /\ lock # None /\ handle = None /\ MayRelease(lock, "operator")
    /\ handle' = <<lock, "operator">>
    /\ UNCHANGED <<backend, lock, recorded, bootOf, boot, pc, faults>>

OperatorRename ==
    /\ handle # None /\ handle[2] = "operator"
    /\ lock' = None /\ handle' = None
    /\ UNCHANGED <<backend, recorded, bootOf, boot, pc, faults>>

------------------------------------------------------------------------------
(* supervise, by the outer supervisor and by a nested one.                 *)

\* contain_self and adopt.  A supervisor that cannot contain itself never
\* runs work; adoption is refused if the token no longer holds the lock.
Adopt(t, s) ==
    /\ pc[t][s] = "start"
    /\ \/ /\ Change(t, {s})
          /\ Goto(t, s, IF lock = t THEN "spawn" ELSE "gone")
       \/ /\ Goto(t, s, IF s = "sup" THEN "finish" ELSE "gone")
          /\ UNCHANGED recorded
    /\ UNCHANGED <<backend, lock, handle, bootOf, boot, faults>>

SpawnChild(t, s) ==
    /\ pc[t][s] = "spawn"
    /\ \/ pc' = [pc EXCEPT ![t][s] = "record", ![t][Child[s]] = "run"]
       \/ Goto(t, s, "finish")
    /\ OnlyPc

\* record_descendant; a refusal would end the supervisor and its job.
RecordChild(t, s) ==
    /\ pc[t][s] = "record"
    /\ Change(t, {Child[s]})
    /\ IF lock = t
       THEN Goto(t, s, "wait") /\ UNCHANGED handle
       ELSE End(t, {s} \cup Job(t, s))
    /\ UNCHANGED <<backend, lock, bootOf, boot, faults>>

\* child.wait and, on Windows, the child-exited event.
ChildExited(t, s) ==
    /\ pc[t][s] = "wait" /\ ~Alive(t, Child[s])
    /\ IF backend = "windows" THEN Change(t, {}) ELSE UNCHANGED recorded
    /\ IF backend = "windows" /\ lock # t
       THEN End(t, {s} \cup Job(t, s))
       ELSE Goto(t, s, "drain") /\ UNCHANGED handle
    /\ UNCHANGED <<backend, lock, bootOf, boot, faults>>

\* The members whose creation time can be gone when it is read: one that
\* exits after job_members listed it.  On Linux an exited process stays
\* readable until its parent reaps it; this supervisor is not reading then,
\* so its own children stay, and only a child of another process can go.
Vanishing(t, s) ==
    IF backend = "windows" THEN JobMembers(t, s)
    ELSE {r \in JobMembers(t, s) : r = "nwork" /\ Alive(t, "nsup")}

\* The first look at a job that is not empty: its members are recorded.
ListMembers(t, s) ==
    /\ pc[t][s] = "drain" /\ JobMembers(t, s) # {}
    /\ \E gone \in {{}} \cup {{r} : r \in Vanishing(t, s)} :
          /\ Change(t, (JobMembers(t, s) \ gone)
                          \cup {u \in {"unknown"} : gone # {}})
          /\ pc' = [pc EXCEPT ![t] = [r \in Roles |->
                        CASE r = s -> "drained"
                          [] r \in gone -> "gone"
                          [] OTHER -> pc[t][r]]]
    /\ UNCHANGED <<backend, lock, handle, bootOf, boot, faults>>

JobEmpty(t, s) ==
    /\ pc[t][s] \in {"drain", "drained"} /\ JobMembers(t, s) = {}
    /\ Goto(t, s, IF s = "sup" THEN "release" ELSE "finish")
    /\ OnlyPc

\* A nested supervisor never releases: it writes nested-done and exits.
NestedDone(t) ==
    /\ pc[t]["nsup"] = "finish"
    /\ Change(t, {})
    /\ Goto(t, "nsup", "gone")
    /\ UNCHANGED <<backend, lock, handle, bootOf, boot, faults>>

------------------------------------------------------------------------------
(* The work, which may leave a descendant behind and dispatch inside its   *)
(* own reservation.                                                        *)

StartStray(t) ==
    /\ t \in Nesting
    /\ pc[t]["work"] = "run" /\ pc[t]["stray"] = "none"
    /\ Goto(t, "stray", "run")
    /\ OnlyPc

\* On Linux a descendant may call setsid; its session then names nobody else.
LeaveSession(t) ==
    /\ backend = "linux" /\ pc[t]["stray"] = "run"
    /\ Goto(t, "stray", "apart")
    /\ OnlyPc

\* acquire with the token in the environment shares the lock if it holds it.
NestedAcquire(t) ==
    /\ t \in Nesting
    /\ pc[t]["work"] = "run" /\ pc[t]["nsup"] = "none"
    /\ lock = t
    /\ Goto(t, "work", "create")
    /\ OnlyPc

\* Like Create; a nested dispatch that fails is not tried again.
NestedCreate(t) ==
    /\ pc[t]["work"] = "create"
    /\ \/ pc' = [pc EXCEPT ![t]["work"] = "handoff", ![t]["nsup"] = "start"]
       \/ pc' = [pc EXCEPT ![t]["work"] = "run", ![t]["nsup"] = "gone"]
       \/ /\ backend = "windows"
          /\ pc' = [pc EXCEPT ![t]["work"] = "run", ![t]["nsup"] = "start"]
    /\ OnlyPc

NestedHandoff(t) ==
    /\ pc[t]["work"] = "handoff"
    /\ Change(t, HandoffNames(t, "nsup"))
    /\ Goto(t, "work", "run")
    /\ UNCHANGED <<backend, lock, handle, bootOf, boot, faults>>

WorkExit(t, r) ==
    /\ r \in {"work", "stray", "nwork"} /\ pc[t][r] \in {"run", "apart"}
    /\ Goto(t, r, "gone")
    /\ OnlyPc

------------------------------------------------------------------------------
(* Faults.                                                                 *)

\* A process is killed.  Windows ends the job with its supervisor; on Linux
\* SIGTERM does so once the work is started, SIGKILL does not.
Kill(t, r) ==
    /\ faults < MaxFaults /\ Alive(t, r)
    /\ faults' = faults + 1
    /\ \/ r \in Supervisors /\ End(t, {r} \cup Job(t, r))
       \/ (r \notin Supervisors \/ backend = "linux") /\ End(t, {r})
    /\ UNCHANGED <<backend, lock, recorded, bootOf, boot>>

\* The operator's command is killed between its checks and its rename.
KillOperator ==
    /\ faults < MaxFaults
    /\ handle # None /\ handle[2] = "operator"
    /\ handle' = None
    /\ faults' = faults + 1
    /\ UNCHANGED <<backend, lock, recorded, bootOf, boot, pc>>

Reboot ==
    /\ faults < MaxFaults
    /\ faults' = faults + 1
    /\ boot' = boot + 1 /\ handle' = None
    /\ pc' = [t \in Tokens |-> [r \in Roles |->
                 IF Alive(t, r) THEN "gone" ELSE pc[t][r]]]
    /\ UNCHANGED <<backend, lock, recorded, bootOf>>

LauncherStep(t) ==
    \/ Acquire(t) \/ ReclaimAssess(t) \/ ReclaimArchive(t)
    \/ Create(t) \/ Handoff(t) \/ NoteUnconfirmed(t)
    \/ LauncherRelease(t) \/ ReleaseRename(t, "owner")

SupervisorStep(t, s) ==
    \/ Adopt(t, s) \/ SpawnChild(t, s) \/ RecordChild(t, s)
    \/ ChildExited(t, s) \/ ListMembers(t, s) \/ JobEmpty(t, s)
    \/ s = "sup" /\ (SupervisorRelease(t) \/ ReleaseRename(t, "sup"))
    \/ s = "nsup" /\ NestedDone(t)

WorkStep(t) ==
    \/ StartStray(t) \/ LeaveSession(t) \/ NestedAcquire(t)
    \/ NestedCreate(t) \/ NestedHandoff(t)

Fault ==
    \/ \E t \in Tokens, r \in Roles : Kill(t, r)
    \/ KillOperator
    \/ Reboot

Next ==
    \/ \E t \in Tokens : LauncherStep(t)
    \/ \E t \in Tokens, s \in Supervisors : SupervisorStep(t, s)
    \/ \E t \in Tokens : WorkStep(t)
    \/ \E t \in Tokens, r \in Roles : WorkExit(t, r)
    \/ OperatorRelease
    \/ OperatorRename
    \/ Fault

Spec == Init /\ [][Next]_vars

\* Launchers and supervisors run their code, and work ends, which is what a
\* reservation is taken for.  Nobody has to launch, kill or reboot.
Progress ==
    \/ \E t \in Tokens, r \in Roles : WorkExit(t, r)
    \/ \E t \in Tokens : pc[t]["owner"] # "none" /\ LauncherStep(t)
    \/ \E t \in Tokens, s \in Supervisors : SupervisorStep(t, s)
    \/ \E t \in Tokens : NestedCreate(t) \/ NestedHandoff(t)
    \/ OperatorRename

\* No process takes infinitely many steps, so that somebody who can go on does
\* is all the scheduling that liveness needs.
Fairness == WF_vars(Progress)

FairSpec == Spec /\ Fairness

------------------------------------------------------------------------------
(* Properties.                                                             *)

\* On Linux SIGKILL of a supervisor ends nothing else.  It leaves behind unseen
\*  - a child it had spawned and not yet recorded (record_descendant), with that
\*    child's descendants: no event and no table row ties them to the
\*    reservation;
\*  - a descendant of the work that called setsid, once the work has ended too,
\*    unless the supervisor had already recorded it as a member of its job.
Escaped(t, r) ==
    /\ backend = "linux"
    /\ \/ \E s \in Supervisors :
             /\ r \in {Child[s]} \cup {x \in {"stray"} : s = "sup"}
             /\ ~Alive(t, s) /\ Child[s] \notin recorded[t]
       \/ /\ r = "stray" /\ pc[t]["stray"] = "apart"
          /\ ~Alive(t, "sup") /\ ~Alive(t, "work") /\ "stray" \notin recorded[t]

\* The host runs the work of the reservation that holds the lock and no other,
\* whatever launchers, reclaimers and operators do and whoever is killed, except
\* what the kill of a Linux supervisor let escape.
WorkExclusive ==
    \A t \in Tokens, r \in {"work", "stray", "nwork"} :
        Alive(t, r) => lock = t \/ Escaped(t, r)

\* What a reclaimer concluded from the process table is still true when it
\* renames the lock: no late supervisor has adopted the reservation since.
EvidenceStands ==
    \A t \in Tokens : pc[t]["owner"] = "archive" => lock # None /\ Dead(lock)

\* The host is not left reserved: again and again the lock is gone or can be
\* reclaimed (unless a recorded member has no known identity).
HostFreed ==
    []<>(lock # None => Dead(lock) \/ "unknown" \in recorded[lock])

\* The contract of release: the supervisor releases once its job is empty.
ReleasedOnceIdle == []<>(lock # None => Dead(lock))
=============================================================================
