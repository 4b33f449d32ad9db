------------------------------ MODULE SlotMutex ------------------------------
(***************************************************************************)
(* The admission mutex of the host slot scheduler: class `Mutex` of        *)
(* `python/tools/host_slots_v1.py`, a directory that its holder creates,   *)
(* signs with an owner.json, and removes.                                  *)
(*                                                                         *)
(* Every launcher process on the host uses it; every file system call is   *)
(* an action.  All of them go by path, so a process acts on whatever       *)
(* directory has the name at that moment.  A process that dies does not    *)
(* come back: its successor has another pid or creation time.              *)
(***************************************************************************)
EXTENDS Naturals, FiniteSets

CONSTANTS
    Procs,       \* processes of the host
    Nobody,      \* no owner recorded
    MaxCrashes,  \* bound on the processes that die
    MayStall     \* a live process may stay MUTEX_STALE_SECONDS between two calls

VARIABLES
    pc,      \* where each process is: "out", "record", "in", "rmdir", "break", "dead"
    exists,  \* there is a directory .mutex
    owner,   \* what its owner.json says, Nobody when there is none
    toucher, \* the last process to change it (which set its mtime)
    old      \* its mtime is more than MUTEX_STALE_SECONDS ago

vars == <<pc, exists, owner, toucher, old>>

Init ==
    /\ pc = [p \in Procs |-> "out"]
    /\ exists = FALSE /\ owner = Nobody /\ toucher = Nobody /\ old = FALSE

Goto(p, place) == pc' = [pc EXCEPT ![p] = place]
NoDirectory == exists' = FALSE /\ owner' = Nobody /\ toucher' = Nobody /\ old' = FALSE

\* __enter__: the mkdir that succeeds.
Mkdir(p) ==
    /\ pc[p] = "out" /\ ~exists
    /\ exists' = TRUE /\ owner' = Nobody /\ toucher' = p /\ old' = FALSE
    /\ Goto(p, "record")

\* write_json of owner.json.  It fails, and so does __enter__, when the
\* directory is gone.
Record(p) ==
    /\ pc[p] = "record"
    /\ \/ /\ exists
          /\ owner' = p /\ toucher' = p /\ old' = FALSE
          /\ Goto(p, "in") /\ UNCHANGED exists
       \/ ~exists /\ Goto(p, "out") /\ UNCHANGED <<exists, owner, toucher, old>>

\* _stale: a recorded owner that is dead, or no owner for too long.
Stale == IF owner # Nobody THEN pc[owner] = "dead" ELSE old

\* The mkdir that meets FileExistsError, and then a stale directory.
FindStale(p) ==
    /\ pc[p] = "out" /\ exists /\ Stale
    /\ Goto(p, "break")
    /\ UNCHANGED <<exists, owner, toucher, old>>

\* os.rename of .mutex to a name of its own, then rmtree; back to mkdir.
Break(p) ==
    /\ pc[p] = "break"
    /\ NoDirectory
    /\ Goto(p, "out")

\* __exit__: owner.json is unlinked, then the directory removed.
Unlink(p) ==
    /\ pc[p] = "in"
    /\ owner' = Nobody
    /\ toucher' = IF exists THEN p ELSE toucher
    /\ old' = FALSE
    /\ Goto(p, "rmdir") /\ UNCHANGED exists

\* rmdir, or rmtree when it is not empty.
Rmdir(p) ==
    /\ pc[p] = "rmdir"
    /\ NoDirectory
    /\ Goto(p, "out")

Crash(p) ==
    /\ pc[p] # "dead"
    /\ Cardinality({q \in Procs : pc[q] = "dead"}) < MaxCrashes
    /\ Goto(p, "dead")
    /\ UNCHANGED <<exists, owner, toucher, old>>

\* Half a minute passes over a directory without an owner.
Age ==
    /\ exists /\ owner = Nobody
    /\ pc[toucher] = "dead" \/ MayStall
    /\ old' = TRUE
    /\ UNCHANGED <<pc, exists, owner, toucher>>

Next ==
    \/ \E p \in Procs : \/ Mkdir(p) \/ Record(p) \/ FindStale(p) \/ Break(p)
                        \/ Unlink(p) \/ Rmdir(p) \/ Crash(p)
    \/ Age

Spec == Init /\ [][Next]_vars

\* A live holder excludes every other process until it releases the mutex,
\* also while the mutex of a dead holder is being broken.
LiveHolderExcludes == Cardinality({p \in Procs : pc[p] = "in"}) <= 1
=============================================================================
