---------------------------- MODULE AsyncRollout ----------------------------
(***************************************************************************)
(* The asynchronous rollout of `async_rollout.rs`: workers that play       *)
(* episodes, one broker that chooses the learner's actions, and between    *)
(* them one mailbox per lane and one word of notification bits.            *)
(*                                                                         *)
(* `state` of a mailbox hands its two payload cells from one thread to the *)
(* other; the cells themselves are not atomic, so an access to a cell is a *)
(* step of its own.  Spin loops are steps that wait.  The atomics are      *)
(* sequentially consistent here, which the release stores and acquire      *)
(* loads of `state` and of the bitmap give for everything they order.      *)
(*                                                                         *)
(* Random streams are modelled by what identifies a draw: its episode, its *)
(* owner and its number.  A game is given by who decides at each step.     *)
(***************************************************************************)
EXTENDS Naturals, Sequences, FiniteSets, FiniteSetsExt, SequencesExt

CONSTANTS
    WorkerCount,  \* lanes 0 .. WorkerCount - 1
    Seats,        \* episode -> the seat that decides at each step of its game
    MayFail,      \* sessions may fail or panic, and a thread may fail to spawn
    None          \* no game, an unwritten cell, no outcome yet

ASSUME RolloutAssumption ==
    /\ WorkerCount \in 1 .. 16
    /\ MayFail \in BOOLEAN
    /\ IsFiniteSet(DOMAIN Seats) /\ Seats # <<>>
    /\ DOMAIN Seats = 0 .. Cardinality(DOMAIN Seats) - 1
    /\ \A e \in DOMAIN Seats : Seats[e] \in Seq({"learner", "opponent"})

Lanes == 0 .. WorkerCount - 1
Episodes == DOMAIN Seats
EndEpisodeId == Cardinality(Episodes)

Phases == {"Reset", "Panic", "OpponentStep", "LearnerStep", "LearnerActionBinding"}

Draws == [episode : Episodes, seat : {"learner", "opponent"}, number : Nat]

Games == [episode : Episodes, step : Nat \ {0}, opponentDraws : Nat, choices : Seq(Draws)]

Actions == [episode : Episodes, step : Nat, draw : Draws]

Failures == [episode : Episodes \cup {None}, phase : Phases]

Results == [error : {"BrokerProtocolViolation", "Ok"}]
           \cup [error : {"ActionBindingMismatch", "WorkerSpawnFailed"}, lane : Lanes]
           \cup [error : {"WorkerFailed"}, lane : Lanes, episode : Episodes \cup {None},
                 phase : Phases]

\* None is told apart from whatever can be in its place.
ASSUME NoneAssumption ==
    /\ None \notin Games /\ None \notin Actions /\ None \notin Failures
    /\ None \notin Results /\ None \notin Phases
    /\ None \notin [episode : Episodes, draws : Nat]

VARIABLES
    \* mailboxes
    state,       \* who owns the payload: "worker", "decision", "action", "terminal", "done"
    message,     \* payload from the worker
    action,      \* payload from the broker
    currentId,   \* current_episode_id
    failure,     \* failure_episode_id and failure_phase
    \* shared words
    ready,       \* low half of ready_bitmap
    failed,      \* its high half
    nextEpisode, \* next_episode_id
    start, cancel,
    \* workers
    at,          \* where each worker is
    seen,        \* its last value of next_episode_id
    game,        \* its session: episode, step, opponent draws, choices made
    phase,       \* the phase it failed in
    \* broker
    bpc,         \* where the broker is
    remaining,   \* ready lanes of this snapshot not looked at yet
    requests,    \* actions of this snapshot, not published yet
    bound,       \* broker_episodes: episode and draws of each lane's learner stream
    doneWorkers,
    collected,   \* the vector `episodes`
    outcome

mailboxVars == <<state, message, action, currentId, failure>>
sharedVars == <<ready, failed, nextEpisode, start, cancel>>
workerVars == <<at, seen, game, phase>>
brokerVars == <<bpc, remaining, requests, bound, doneWorkers, collected, outcome>>
vars == <<mailboxVars, sharedVars, workerVars, brokerVars>>

Init ==
    /\ state = [l \in Lanes |-> "worker"]
    /\ message = [l \in Lanes |-> None] /\ action = [l \in Lanes |-> None]
    /\ currentId = [l \in Lanes |-> None] /\ failure = [l \in Lanes |-> None]
    /\ ready = {} /\ failed = {} /\ nextEpisode = 0 /\ start = FALSE /\ cancel = FALSE
    /\ at = [l \in Lanes |-> "unborn"] /\ seen = [l \in Lanes |-> 0]
    /\ game = [l \in Lanes |-> None] /\ phase = [l \in Lanes |-> None]
    /\ bpc = "spawn" /\ remaining = {} /\ requests = <<>>
    /\ bound = [l \in Lanes |-> None] /\ doneWorkers = 0
    /\ collected = <<>> /\ outcome = None

-----------------------------------------------------------------------------
(* Sessions                                                                *)

NewGame(e) == [episode |-> e, step |-> 1, opponentDraws |-> 0, choices |-> <<>>]

Response(g) == IF g.step > Len(Seats[g.episode]) THEN "terminal" ELSE Seats[g.episode][g.step]

\* session.step: the choice is recorded and the game moves on.
Stepped(g, draw) == [g EXCEPT !.step = @ + 1, !.choices = Append(@, draw)]

\* The `n`-th draw of a seat's stream, both seeded from the episode id.
Draw(e, seat, n) == [episode |-> e, seat |-> seat, number |-> n]

-----------------------------------------------------------------------------
(* Workers                                                                 *)

Goto(l, place) == at' = [at EXCEPT ![l] = place]
Gone(l) == Goto(l, "gone") /\ UNCHANGED <<mailboxVars, sharedVars, brokerVars, seen, game, phase>>
FailIn(l, p) == MayFail /\ Goto(l, "fail") /\ phase' = [phase EXCEPT ![l] = p]

\* worker_loop up to the start gate, and the gate.
Enter(l) ==
    /\ at[l] = "spawned"
    /\ Goto(l, "gate") /\ UNCHANGED <<mailboxVars, sharedVars, brokerVars, seen, game, phase>>

PassGate(l) ==
    /\ at[l] = "gate" /\ start
    /\ Goto(l, "claim") /\ UNCHANGED <<mailboxVars, sharedVars, brokerVars, seen, game, phase>>

\* Every loop of the worker looks at `cancel` first.
Cancelled(l) ==
    /\ at[l] \in {"gate", "claim", "play", "await", "fail"}
    /\ cancel /\ (at[l] = "gate" => ~start)
    /\ Gone(l)

\* claim_episode: the load, and the loop's comparison with the end.
LoadCounter(l) ==
    /\ at[l] = "claim" /\ ~cancel
    /\ seen' = [seen EXCEPT ![l] = nextEpisode]
    /\ IF nextEpisode >= EndEpisodeId
       THEN /\ Goto(l, "store")
            /\ game' = [game EXCEPT ![l] = None]
            /\ currentId' = [currentId EXCEPT ![l] = None]
       ELSE Goto(l, "exchange") /\ UNCHANGED <<game, currentId>>
    /\ UNCHANGED <<state, message, action, failure, sharedVars, brokerVars, phase>>

\* The compare-exchange.  On success the id is stored and the session reset;
\* on failure the loop starts over with the observed value.
\* Mutant: the id is not stored, and a panic reports the one before.
CompareExchange_KeepsId(l) ==
    /\ at[l] = "exchange" /\ nextEpisode = seen[l]
    /\ nextEpisode' = nextEpisode + 1
    /\ currentId' = IF currentId[l] = None THEN [currentId EXCEPT ![l] = seen[l]] ELSE currentId
    /\ game' = [game EXCEPT ![l] = NewGame(seen[l])]
    /\ \/ Goto(l, "play") /\ UNCHANGED phase
       \/ \E p \in {"Reset", "Panic"} : FailIn(l, p)
    /\ UNCHANGED <<state, message, action, failure, ready, failed, start, cancel, seen, brokerVars>>

CompareExchange(l) ==
    /\ at[l] = "exchange" /\ nextEpisode = seen[l]
    /\ nextEpisode' = nextEpisode + 1
    /\ currentId' = [currentId EXCEPT ![l] = seen[l]]
    /\ game' = [game EXCEPT ![l] = NewGame(seen[l])]
    /\ \/ Goto(l, "play") /\ UNCHANGED phase
       \/ \E p \in {"Reset", "Panic"} : FailIn(l, p)
    /\ UNCHANGED <<state, message, action, failure, ready, failed, start, cancel, seen, brokerVars>>

LostExchange(l) ==
    /\ at[l] = "exchange" /\ nextEpisode # seen[l]
    /\ seen' = [seen EXCEPT ![l] = nextEpisode]
    /\ IF nextEpisode >= EndEpisodeId
       THEN /\ Goto(l, "store")
            /\ game' = [game EXCEPT ![l] = None]
            /\ currentId' = [currentId EXCEPT ![l] = None]
       ELSE UNCHANGED <<at, game, currentId>>
    /\ UNCHANGED <<state, message, action, failure, sharedVars, brokerVars, phase>>

\* An opponent decision is the worker's own: its stream, its session.
OpponentStep(l) ==
    /\ at[l] = "play" /\ ~cancel /\ Response(game[l]) = "opponent"
    /\ \/ /\ LET n == game[l].opponentDraws + 1
             IN  game' = [game EXCEPT ![l] =
                     [Stepped(@, Draw(@.episode, "opponent", n)) EXCEPT !.opponentDraws = n]]
          /\ UNCHANGED <<at, phase>>
       \/ \E p \in {"OpponentStep", "Panic"} : FailIn(l, p) /\ UNCHANGED game
    /\ UNCHANGED <<mailboxVars, sharedVars, brokerVars, seen>>

\* A learner decision and the end of the game go to the broker.
Publish(l) ==
    /\ at[l] = "play" /\ ~cancel /\ Response(game[l]) # "opponent"
    /\ Goto(l, "write") /\ UNCHANGED <<mailboxVars, sharedVars, brokerVars, seen, game, phase>>

\* worker_publish_message: the payload first, ...
MessageOf(g) ==
    IF Response(g) = "terminal"
    THEN [kind |-> "terminal", episode |-> g.episode, choices |-> g.choices]
    ELSE [kind |-> "decision", episode |-> g.episode, step |-> g.step]

\* Mutant: the broker is notified before the state is stored.
WriteMessage_NotifiesEarly(l) ==
    /\ at[l] = "write"
    /\ message' = [message EXCEPT ![l] = MessageOf(game[l])]
    /\ ready' = ready \union {l}
    /\ Goto(l, "store")
    /\ UNCHANGED <<state, action, currentId, failure, failed, nextEpisode, start, cancel,
                   brokerVars, seen, game, phase>>

WriteMessage(l) ==
    /\ at[l] = "write"
    /\ message' = [message EXCEPT ![l] = MessageOf(game[l])]
    /\ Goto(l, "store")
    /\ UNCHANGED <<state, action, currentId, failure, sharedVars, brokerVars, seen, game, phase>>

\* ... then the state.  MAILBOX_DONE has no payload.
Sent(l) == IF game[l] = None THEN "done" ELSE MessageOf(game[l]).kind

StoreState(l) ==
    /\ at[l] = "store"
    /\ state' = [state EXCEPT ![l] = Sent(l)]
    /\ Goto(l, "notify")
    /\ UNCHANGED <<message, action, currentId, failure, sharedVars, brokerVars, seen, game, phase>>

NotifyBroker(l) ==
    /\ at[l] = "notify"
    /\ ready' = ready \union {l}
    /\ Goto(l, IF Sent(l) = "done" THEN "gone" ELSE "await")
    /\ UNCHANGED <<mailboxVars, failed, nextEpisode, start, cancel, brokerVars, seen, game, phase>>

\* wait_for_terminal_ack.
TerminalAck(l) ==
    /\ at[l] = "await" /\ ~cancel /\ Sent(l) = "terminal" /\ state[l] # "terminal"
    /\ Goto(l, IF state[l] = "worker" THEN "claim" ELSE "gone")
    /\ UNCHANGED <<mailboxVars, sharedVars, brokerVars, seen, game, phase>>

\* wait_for_action, until the state is no longer DECISION_READY.
SeeAction(l) ==
    /\ at[l] = "await" /\ ~cancel /\ Sent(l) = "decision" /\ state[l] # "decision"
    /\ \/ state[l] = "action" /\ Goto(l, "read") /\ UNCHANGED phase
       \/ /\ state[l] # "action"
          /\ Goto(l, "fail") /\ phase' = [phase EXCEPT ![l] = "LearnerActionBinding"]
    /\ UNCHANGED <<mailboxVars, sharedVars, brokerVars, seen, game>>

\* validate_action_binding, of the worker's decision and an action.
Binds(e, step, a) == a # None /\ a.episode = e /\ a.step = step

\* The action is read, the mailbox taken back, and the session stepped.
ReadAction(l) ==
    /\ at[l] = "read"
    /\ IF Binds(game[l].episode, game[l].step, action[l])
       THEN /\ state' = [state EXCEPT ![l] = "worker"]
            /\ \/ /\ game' = [game EXCEPT ![l] = Stepped(@, action[l].draw)]
                  /\ Goto(l, "play") /\ UNCHANGED phase
               \/ \E p \in {"LearnerStep", "Panic"} : FailIn(l, p) /\ UNCHANGED game
       ELSE /\ Goto(l, "fail") /\ phase' = [phase EXCEPT ![l] = "LearnerActionBinding"]
            /\ UNCHANGED <<state, game>>
    /\ UNCHANGED <<message, action, currentId, failure, sharedVars, brokerVars, seen>>

\* worker_entry: an unwind only knows the episode from the mailbox.
\* notify_failure: the record first, ...
RecordFailure(l) ==
    /\ at[l] = "fail" /\ ~cancel
    /\ failure' = [failure EXCEPT ![l] =
           [episode |-> IF phase[l] = "Panic" THEN currentId[l] ELSE game[l].episode,
            phase |-> phase[l]]]
    /\ Goto(l, "raise")
    /\ UNCHANGED <<state, message, action, currentId, sharedVars, brokerVars, seen, game, phase>>

\* ... then the bit.
RaiseFailure(l) ==
    /\ at[l] = "raise"
    /\ failed' = failed \union {l}
    /\ Goto(l, "gone")
    /\ UNCHANGED <<mailboxVars, ready, nextEpisode, start, cancel, brokerVars, seen, game, phase>>

Worker(l) ==
    \/ Enter(l) \/ PassGate(l) \/ Cancelled(l) \/ LoadCounter(l) \/ CompareExchange(l)
    \/ LostExchange(l) \/ OpponentStep(l) \/ Publish(l) \/ WriteMessage(l) \/ StoreState(l)
    \/ NotifyBroker(l) \/ TerminalAck(l) \/ SeeAction(l) \/ ReadAction(l)
    \/ RecordFailure(l) \/ RaiseFailure(l)

-----------------------------------------------------------------------------
(* The broker                                                              *)

BGoto(place) == bpc' = place
Failing(error) == outcome' = error /\ BGoto("stop")

\* One thread per lane, in order.  When one cannot be made the guard cancels
\* and opens the gate, so that those already there leave it.
Spawn(l) ==
    /\ bpc = "spawn" /\ l = Min({k \in Lanes : at[k] = "unborn"})
    /\ \/ /\ Goto(l, "spawned")
          /\ BGoto(IF l = WorkerCount - 1 THEN "gather" ELSE "spawn")
          /\ UNCHANGED <<start, cancel, outcome>>
       \/ /\ MayFail
          /\ outcome' = [error |-> "WorkerSpawnFailed", lane |-> l]
          /\ cancel' = TRUE /\ start' = TRUE
          /\ BGoto("join") /\ UNCHANGED at
    /\ UNCHANGED <<mailboxVars, ready, failed, nextEpisode, seen, game, phase,
                   remaining, requests, bound, doneWorkers, collected>>

\* Every worker has counted itself in; the gate opens.
OpenGate ==
    /\ bpc = "gather" /\ \A l \in Lanes : at[l] # "spawned"
    /\ start' = TRUE /\ BGoto("swap")
    /\ UNCHANGED <<mailboxVars, ready, failed, nextEpisode, cancel, workerVars,
                   remaining, requests, bound, doneWorkers, collected, outcome>>

\* read_worker_failure, of the lowest lane that failed.
ReadFailure ==
    LET l == Min(failed)
    IN  IF failure[l] = None
        THEN [error |-> "BrokerProtocolViolation"]
        ELSE [error |-> "WorkerFailed", lane |-> l,
              episode |-> failure[l].episode, phase |-> failure[l].phase]

\* The bitmap is taken whole and cleared.  A failure ends the rollout before
\* any ready lane is looked at.
\* Mutant: ready lanes come first and the failure bits are dropped.
Swap_ReadyFirst ==
    /\ bpc = "swap" /\ doneWorkers < WorkerCount /\ ready \union failed # {}
    /\ ready' = {} /\ failed' = {}
    /\ IF ready = {}
       THEN Failing(ReadFailure) /\ UNCHANGED remaining
       ELSE remaining' = ready /\ BGoto("lane") /\ UNCHANGED outcome
    /\ UNCHANGED <<mailboxVars, nextEpisode, start, cancel, workerVars,
                   requests, bound, doneWorkers, collected>>

Swap ==
    /\ bpc = "swap" /\ doneWorkers < WorkerCount /\ ready \union failed # {}
    /\ ready' = {} /\ failed' = {}
    /\ IF failed # {}
       THEN Failing(ReadFailure) /\ UNCHANGED remaining
       ELSE remaining' = ready /\ BGoto("lane") /\ UNCHANGED outcome
    /\ UNCHANGED <<mailboxVars, nextEpisode, start, cancel, workerVars,
                   requests, bound, doneWorkers, collected>>

\* The lanes of a snapshot are looked at in the order of their ids.
LookingAt(l) == bpc = "lane" /\ remaining # {} /\ l = Min(remaining)

\* BrokerEpisodeV1::bind seeds the learner's stream when an episode is new.
\* Mutant: one stream for all episodes, not seeded anew for each.
Bind_KeepsStream(b, e) ==
    IF b = None THEN [episode |-> e, draws |-> Len(collected)] ELSE b

Bind(b, e) == IF b = None THEN [episode |-> e, draws |-> 0] ELSE b

\* Lane in DECISION_READY: its next draw becomes a request.  The requests are
\* kept sorted by episode.
InOrder(rs, r) ==
    InsertAt(rs, 1 + Cardinality({i \in DOMAIN rs : rs[i].episode < r.episode}), r)

AnswerDecision(l) ==
    /\ state[l] = "decision"
    /\ LET m == message[l]
           b == Bind(bound[l], m.episode)
       IN  IF m.kind # "decision" \/ b.episode # m.episode
           THEN /\ Failing([error |-> "BrokerProtocolViolation"])
                /\ UNCHANGED <<bound, requests, remaining>>
           ELSE /\ bound' = [bound EXCEPT ![l] = [b EXCEPT !.draws = @ + 1]]
                /\ requests' = InOrder(requests,
                       [lane |-> l, episode |-> m.episode, step |-> m.step,
                        draw |-> Draw(m.episode, "learner", b.draws + 1)])
                /\ remaining' = remaining \ {l}
                /\ UNCHANGED <<bpc, outcome>>
    /\ UNCHANGED <<mailboxVars, sharedVars, workerVars, doneWorkers, collected>>

\* Lane in TERMINAL_READY: the episode is collected, the mailbox given back.
CollectTerminal(l) ==
    /\ state[l] = "terminal"
    /\ LET m == message[l]
           b == Bind(bound[l], m.episode)
       IN  IF m.kind # "terminal" \/ Len(collected) = EndEpisodeId \/ b.episode # m.episode
           THEN /\ Failing([error |-> "BrokerProtocolViolation"])
                /\ UNCHANGED <<bound, collected, remaining, state>>
           ELSE /\ collected' = Append(collected, [episode |-> m.episode, choices |-> m.choices])
                /\ bound' = [bound EXCEPT ![l] = None]
                /\ state' = [state EXCEPT ![l] = "worker"]
                /\ remaining' = remaining \ {l}
                /\ UNCHANGED <<bpc, outcome>>
    /\ UNCHANGED <<message, action, currentId, failure, sharedVars, workerVars,
                   requests, doneWorkers>>

CountDone(l) ==
    /\ state[l] = "done"
    /\ doneWorkers' = doneWorkers + 1 /\ remaining' = remaining \ {l}
    /\ UNCHANGED <<mailboxVars, sharedVars, workerVars, bpc, requests, bound, collected, outcome>>

\* A notified lane that is the worker's, or already answered.
Unexpected(l) ==
    /\ state[l] \in {"worker", "action"}
    /\ Failing([error |-> "BrokerProtocolViolation"])
    /\ UNCHANGED <<mailboxVars, sharedVars, workerVars,
                   remaining, requests, bound, doneWorkers, collected>>

LookAt(l) ==
    /\ LookingAt(l)
    /\ AnswerDecision(l) \/ CollectTerminal(l) \/ CountDone(l) \/ Unexpected(l)

\* publish_action_snapshot: every binding is checked ...
\* Mutant: the states are stored before the actions are written.
CheckSnapshot_ReleasesEarly ==
    /\ bpc = "lane" /\ remaining = {}
    /\ BGoto(IF requests = <<>> THEN "swap" ELSE "write")
    /\ state' = [l \in Lanes |->
           IF \E i \in DOMAIN requests : requests[i].lane = l THEN "action" ELSE state[l]]
    /\ UNCHANGED <<message, action, currentId, failure, sharedVars, workerVars,
                   remaining, requests, bound, doneWorkers, collected, outcome>>

CheckSnapshot ==
    /\ bpc = "lane" /\ remaining = {}
    /\ LET bad == {i \in DOMAIN requests : state[requests[i].lane] # "decision"}
       IN  IF bad # {}
           THEN Failing([error |-> "ActionBindingMismatch", lane |-> requests[Min(bad)].lane])
           ELSE BGoto(IF requests = <<>> THEN "swap" ELSE "write") /\ UNCHANGED outcome
    /\ UNCHANGED <<mailboxVars, sharedVars, workerVars,
                   remaining, requests, bound, doneWorkers, collected>>

\* ... before any action is written, and every action ...
RequestOf(l) == CHOOSE i \in DOMAIN requests : requests[i].lane = l
Requested == {requests[i].lane : i \in DOMAIN requests}

WriteActions ==
    /\ bpc = "write"
    /\ action' = [l \in Lanes |-> IF l \in Requested
           THEN [episode |-> requests[RequestOf(l)].episode, step |-> requests[RequestOf(l)].step,
                 draw |-> requests[RequestOf(l)].draw]
           ELSE action[l]]
    /\ BGoto("release")
    /\ UNCHANGED <<state, message, currentId, failure, sharedVars, workerVars,
                   remaining, requests, bound, doneWorkers, collected, outcome>>

\* ... before the first state is stored.
ReleaseAction ==
    /\ bpc = "release"
    /\ state' = [state EXCEPT ![Head(requests).lane] = "action"]
    /\ requests' = Tail(requests)
    /\ BGoto(IF Tail(requests) = <<>> THEN "swap" ELSE "release")
    /\ UNCHANGED <<message, action, currentId, failure, sharedVars, workerVars,
                   remaining, bound, doneWorkers, collected, outcome>>

\* Every worker is done: the broker's loop ends well.
LoopEnds ==
    /\ bpc = "swap" /\ doneWorkers = WorkerCount
    /\ BGoto("join")
    /\ UNCHANGED <<mailboxVars, sharedVars, workerVars,
                   remaining, requests, bound, doneWorkers, collected, outcome>>

\* After an error the workers are cancelled.
Stop ==
    /\ bpc = "stop"
    /\ cancel' = TRUE /\ BGoto("join")
    /\ UNCHANGED <<mailboxVars, ready, failed, nextEpisode, start, workerVars,
                   remaining, requests, bound, doneWorkers, collected, outcome>>

\* Each thread is joined; then the episodes must be the whole range.
Complete ==
    /\ Len(collected) = EndEpisodeId
    /\ {collected[i].episode : i \in DOMAIN collected} = Episodes

Join ==
    /\ bpc = "join" /\ \A l \in Lanes : at[l] \in {"unborn", "gone"}
    /\ BGoto("returned")
    /\ outcome' = IF outcome # None THEN outcome
                  ELSE [error |-> IF Complete THEN "Ok" ELSE "BrokerProtocolViolation"]
    /\ UNCHANGED <<mailboxVars, sharedVars, workerVars,
                   remaining, requests, bound, doneWorkers, collected>>

Broker ==
    \/ \E l \in Lanes : Spawn(l) \/ LookAt(l)
    \/ OpenGate \/ Swap \/ CheckSnapshot \/ WriteActions \/ ReleaseAction
    \/ LoopEnds \/ Stop \/ Join

Next == Broker \/ \E l \in Lanes : Worker(l)

\* Every thread that can run does.
Spec == Init /\ [][Next]_vars /\ WF_vars(Broker) /\ \A l \in Lanes : WF_vars(Worker(l))

-----------------------------------------------------------------------------
(* Properties                                                              *)

\* The two payload cells are plain memory.  No state lets the worker and the
\* broker access the same cell next, one of them writing it: what the
\* comment on `LaneMailboxV1` and its `unsafe impl Sync` rest on.
NoPayloadRace ==
    \A l \in Lanes :
        /\ ~ (at[l] = "write" /\ LookingAt(l) /\ state[l] \in {"decision", "terminal"})
        /\ ~ (at[l] = "read" /\ bpc = "write" /\ l \in Requested)

\* The broker never meets a mailbox in a state it does not expect, a message
\* of the wrong kind or episode, or an action for a lane no longer waiting:
\* `BrokerProtocolViolation`, `ActionBindingMismatch` and a worker's failure
\* in LearnerActionBinding do not happen, whatever the order of the threads.
ProtocolHolds ==
    /\ outcome # None => outcome.error \notin {"BrokerProtocolViolation", "ActionBindingMismatch"}
    /\ \A l \in Lanes : phase[l] # "LearnerActionBinding"

\* The choices of an episode played alone: every seat's draws in order.
AloneChoices(e) ==
    [i \in DOMAIN Seats[e] |->
        Draw(e, Seats[e][i], Cardinality({j \in 1 .. i : Seats[e][j] = Seats[e][i]}))]

\* Every collected episode is the one its seeds give, and no episode is
\* collected twice: trajectories do not depend on the worker that played
\* them, on the lanes that shared a snapshot or on what a lane played before.
TrajectoriesScheduleFree ==
    \A i \in DOMAIN collected :
        /\ collected[i].choices = AloneChoices(collected[i].episode)
        /\ \A j \in DOMAIN collected : collected[i].episode = collected[j].episode => i = j

\* The result is true: WorkerFailed names a lane that failed, the episode it
\* was playing and the phase, also after a panic; success means that no
\* worker failed, cancelled or not.
OutcomeHonest ==
    bpc = "returned" =>
        /\ outcome.error = "WorkerFailed" =>
              /\ outcome.phase = phase[outcome.lane]
              /\ outcome.episode = game[outcome.lane].episode
        /\ outcome.error = "Ok" => \A l \in Lanes : phase[l] = None

\* The call returns, with every thread joined: no notification is lost, and a
\* failure of one lane releases the others from their spin loops.
Returns == <>(bpc = "returned")
=============================================================================
