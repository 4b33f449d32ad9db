------------------------- MODULE AsyncRolloutProofs -------------------------
(***************************************************************************)
(* Proofs about the asynchronous rollout, for every number of workers,     *)
(* every set of episodes and every game.  The invariant has four layers,   *)
(* each inductive once the ones before it are known:                       *)
(*   - the hand-over of a mailbox: who owns the cells, what they hold, and *)
(*     that a lane the broker was told of stays where it is (Handover);    *)
(*   - the random streams: every game so far is a prefix of the one its    *)
(*     seeds give, and the broker's stream is where the game is (Streams); *)
(*   - the episodes: each one is with one lane or collected once (Ledger); *)
(*   - the reports: what a failure record and the outcome say (Reports).   *)
(***************************************************************************)
EXTENDS AsyncRollout, FiniteSetTheorems, NaturalsInduction, TLAPS

-----------------------------------------------------------------------------
(* The invariant: types                                                    *)

States == {"worker", "decision", "action", "terminal", "done"}

Places == {"unborn", "spawned", "gate", "claim", "exchange", "play", "write", "store",
           "notify", "await", "read", "fail", "raise", "gone"}

Active == {"spawn", "gather", "swap", "lane", "write", "release"}

Messages == [kind : {"terminal"}, episode : Episodes, choices : Seq(Draws)]
            \cup [kind : {"decision"}, episode : Episodes, step : Nat]

Requests == [lane : Lanes, episode : Episodes, step : Nat, draw : Draws]

Bindings == [episode : Episodes, draws : Nat]

Trajectories == [episode : Episodes, choices : Seq(Draws)]

MailType ==
    /\ state \in [Lanes -> States]
    /\ message \in [Lanes -> Messages \cup {None}]
    /\ action \in [Lanes -> Actions \cup {None}]
    /\ currentId \in [Lanes -> Episodes \cup {None}]
    /\ failure \in [Lanes -> Failures \cup {None}]

SharedType ==
    /\ ready \in SUBSET Lanes /\ failed \in SUBSET Lanes
    /\ nextEpisode \in 0 .. EndEpisodeId
    /\ start \in BOOLEAN /\ cancel \in BOOLEAN

WorkerType ==
    /\ at \in [Lanes -> Places]
    /\ seen \in [Lanes -> Nat]
    /\ game \in [Lanes -> Games \cup {None}]
    /\ phase \in [Lanes -> Phases \cup {None}]

BrokerType ==
    /\ bpc \in Active \cup {"stop", "join", "returned"}
    /\ remaining \in SUBSET Lanes
    /\ requests \in Seq(Requests)
    /\ bound \in [Lanes -> Bindings \cup {None}]
    /\ doneWorkers \in Nat
    /\ collected \in Seq(Trajectories)
    /\ outcome \in Results \cup {None}

TypeOK == MailType /\ SharedType /\ WorkerType /\ BrokerType

-----------------------------------------------------------------------------
(* The invariant: the hand-over of a mailbox                               *)

Owning == {"unborn", "spawned", "gate", "claim", "exchange", "play", "write", "store",
           "fail", "raise"}

\* What a worker's place says of its mailbox and its game.
MailInv(l) ==
    /\ at[l] \in Owning => state[l] = "worker"
    /\ at[l] \in {"play", "write", "await", "read", "fail", "raise"} => game[l] # None
    /\ at[l] = "exchange" => seen[l] < EndEpisodeId
    /\ at[l] = "notify" => state[l] = Sent(l)
    /\ at[l] \in {"store", "notify", "await"} /\ game[l] # None => message[l] = MessageOf(game[l])
    /\ at[l] = "await" /\ Sent(l) = "decision" => state[l] \in {"decision", "action"}
    /\ at[l] = "await" /\ Sent(l) = "terminal" => state[l] \in {"terminal", "worker"}
    /\ at[l] = "read" => Sent(l) = "decision" /\ state[l] = "action"
    /\ at[l] \in {"await", "read"} /\ state[l] = "action"
          => Binds(game[l].episode, game[l].step, action[l])
    /\ phase[l] # "LearnerActionBinding" /\ (at[l] = "fail" => phase[l] # None)

\* A lane whose notification the broker has not dealt with stays put.
Posted(l) ==
    /\ state[l] = Sent(l)
    /\ at[l] = IF game[l] = None THEN "gone" ELSE "await"

\* So does one whose action is not published yet.
Waiting(r) ==
    /\ r.lane \notin ready \cup remaining
    /\ at[r.lane] = "await" /\ state[r.lane] = "decision"
    /\ r.episode = game[r.lane].episode /\ r.step = game[r.lane].step

Written(r) == action[r.lane] = [episode |-> r.episode, step |-> r.step, draw |-> r.draw]

PostInv ==
    bpc \in Active =>
        /\ ~ cancel
        /\ ready \cap remaining = {}
        /\ \A l \in ready \cup remaining : Posted(l)
        /\ \A i \in DOMAIN requests : Waiting(requests[i])
        /\ \A i, j \in DOMAIN requests : requests[i].lane = requests[j].lane => i = j
        /\ bpc \in {"spawn", "gather", "swap"} => remaining = {} /\ requests = <<>>
        /\ bpc \in {"write", "release"} => remaining = {} /\ requests # <<>>
        /\ bpc = "release" => \A i \in DOMAIN requests : Written(requests[i])
        /\ bpc = "spawn" => at[WorkerCount - 1] = "unborn"

Handover == (\A l \in Lanes : MailInv(l)) /\ PostInv

-----------------------------------------------------------------------------
(* The invariant: the random streams                                       *)

\* How often a seat has decided in the first `n` steps of an episode.
Decided(e, seat, n) == Cardinality({j \in 1 .. n : Seats[e][j] = seat})

\* A game so far: the first choices of the episode played alone.
OnCourse(g) ==
    /\ g.step <= Len(Seats[g.episode]) + 1
    /\ Len(g.choices) = g.step - 1
    /\ \A i \in 1 .. g.step - 1 : g.choices[i] = AloneChoices(g.episode)[i]
    /\ g.opponentDraws = Decided(g.episode, "opponent", g.step - 1)

\* The learner's draw at the step a game is at.
LearnerDraw(g) == Draw(g.episode, "learner", Decided(g.episode, "learner", g.step - 1) + 1)

Answered(l) ==
    at[l] = "read" \/ (at[l] = "await" /\ (state[l] = "action" \/ l \in Requested))

\* The stream the broker keeps for a lane, while it has an episode.
StreamAt(l) ==
    LET n == Decided(game[l].episode, "learner", game[l].step - 1)
    IN  IF bound[l] = None
        THEN n = 0 /\ ~ Answered(l)
        ELSE /\ bound[l].episode = game[l].episode
             /\ bound[l].draws = IF Answered(l) THEN n + 1 ELSE n

Acked(l) == at[l] = "await" /\ state[l] = "worker"

Playing(l) ==
    /\ at[l] \in {"play", "write", "store", "notify", "await", "read"}
    /\ game[l] # None /\ ~ Acked(l)

\* On the way to an episode, the game of the one before still at hand.
Claiming == {"unborn", "spawned", "gate", "claim", "exchange"}

StreamInv(l) ==
    /\ game[l] # None => OnCourse(game[l])
    /\ at[l] \in {"write", "store", "notify", "await", "read"} /\ game[l] # None
          => Response(game[l]) # "opponent"
    /\ at[l] \in {"await", "read"} /\ state[l] = "action" => action[l].draw = LearnerDraw(game[l])
    /\ bpc \in Active /\ Playing(l) => StreamAt(l)
    /\ bpc \in Active /\ (at[l] \in Claiming \/ Acked(l)) => bound[l] = None

Streams ==
    /\ \A l \in Lanes : StreamInv(l)
    /\ bpc \in Active => \A i \in DOMAIN requests :
           requests[i].draw = LearnerDraw(game[requests[i].lane])
    /\ \A i \in DOMAIN collected : collected[i].choices = AloneChoices(collected[i].episode)

-----------------------------------------------------------------------------
(* The invariant: the episodes                                             *)

CollectedIds == {collected[i].episode : i \in DOMAIN collected}

\* A lane has an episode that is not collected.
Holds(l) == Playing(l) \/ at[l] \in {"fail", "raise"}

HoldInv(l) ==
    /\ Holds(l) => game[l].episode < nextEpisode /\ game[l].episode \notin CollectedIds
    /\ (at[l] \in Claiming /\ game[l] # None) \/ Acked(l)
          => game[l].episode \in CollectedIds
    /\ (at[l] \in {"store", "notify"} /\ game[l] = None) \/ state[l] = "done"
          => nextEpisode = EndEpisodeId
    /\ state[l] = "done" => at[l] \in {"notify", "gone"} /\ game[l] = None /\ phase[l] = None
    /\ phase[l] # None => at[l] \in {"fail", "raise", "gone"}

Counted == {l \in Lanes : state[l] = "done" /\ at[l] = "gone" /\ l \notin ready \cup remaining}

Ledger ==
    /\ \A l \in Lanes : HoldInv(l)
    /\ \A l, k \in Lanes : Holds(l) /\ Holds(k) /\ game[l].episode = game[k].episode => l = k
    /\ \A i \in DOMAIN collected : collected[i].episode < nextEpisode
    /\ \A i, j \in DOMAIN collected : collected[i].episode = collected[j].episode => i = j
    /\ \A e \in 0 .. nextEpisode - 1 :
           e \in CollectedIds \/ \E l \in Lanes : game[l] # None /\ game[l].episode = e
    /\ bpc \in Active => doneWorkers = Cardinality(Counted)
    /\ bpc = "stop" => outcome # None
    /\ bpc = "join" /\ outcome = None
          => \A l \in Lanes : state[l] = "done" /\ at[l] = "gone"

-----------------------------------------------------------------------------
(* The invariant: the reports                                              *)

FailInv(l) ==
    /\ Holds(l) => currentId[l] = game[l].episode
    /\ at[l] = "raise" \/ l \in failed => failure[l] # None
    /\ failure[l] # None => /\ at[l] \in {"raise", "gone"} /\ game[l] # None
                            /\ failure[l].episode = game[l].episode
                            /\ failure[l].phase = phase[l]

OutcomeInv ==
    /\ bpc \in Active => outcome = None
    /\ bpc = "returned" => outcome # None
    /\ outcome # None =>
          /\ outcome.error \notin {"BrokerProtocolViolation", "ActionBindingMismatch"}
          /\ outcome.error = "WorkerFailed" =>
                /\ failure[outcome.lane] # None
                /\ outcome.episode = failure[outcome.lane].episode
                /\ outcome.phase = failure[outcome.lane].phase
          /\ outcome.error = "Ok" => \A l \in Lanes : at[l] = "gone" /\ phase[l] = None

Reports == (\A l \in Lanes : FailInv(l)) /\ OutcomeInv

IInv == TypeOK /\ Handover /\ Streams /\ Ledger /\ Reports

-----------------------------------------------------------------------------
(* Numbers, sequences, types                                               *)

\* A nonempty set of naturals has a least element.
LEMMA LeastNumber ==
    ASSUME NEW T, T \subseteq Nat, T # {}
    PROVE  \E n \in T : \A m \in T : n <= m
<1>1. \E n \in T : \A m \in T : ~(<<m, n>> \in OpToRel(<, Nat))
    BY NatLessThanWellFounded, WFMin
<1>2. \A m, n \in Nat : m < n => <<m, n>> \in OpToRel(<, Nat)
    BY DEF OpToRel
<1>3. \A m, n \in Nat : ~(m < n) => n <= m
    OBVIOUS
<1> QED
    BY <1>1, <1>2, <1>3

\* The lowest lane of a set, which Spawn, Swap and LookingAt choose, is in it.
LEMMA MinIsMember ==
    ASSUME NEW S, S \subseteq Nat, S # {}
    PROVE  Min(S) \in S
BY LeastNumber DEF Min

\* The numbers behind the assumptions on the constants.
LEMMA Ranges ==
    /\ WorkerCount \in Nat /\ WorkerCount >= 1 /\ WorkerCount - 1 \in Lanes
    /\ Lanes \subseteq Nat /\ IsFiniteSet(Lanes) /\ Cardinality(Lanes) = WorkerCount
    /\ EndEpisodeId \in Nat /\ Episodes = 0 .. EndEpisodeId - 1
    /\ Episodes \subseteq Nat /\ IsFiniteSet(Episodes) /\ Cardinality(Episodes) = EndEpisodeId
    /\ \A e \in Episodes : Seats[e] \in Seq({"learner", "opponent"})
<1>1. WorkerCount \in Nat /\ WorkerCount >= 1 /\ WorkerCount - 1 \in Lanes /\ Lanes \subseteq Nat
    BY RolloutAssumption DEF Lanes
<1>2. IsFiniteSet(Lanes) /\ Cardinality(Lanes) = WorkerCount
    <2>1. 0 \in Int /\ WorkerCount - 1 \in Int
        BY <1>1
    <2>2. IsFiniteSet(0 .. WorkerCount - 1)
          /\ Cardinality(0 .. WorkerCount - 1)
                = IF 0 > WorkerCount - 1 THEN 0 ELSE (WorkerCount - 1) - 0 + 1
        BY <2>1, FS_Interval
    <2> QED
        BY <1>1, <2>2 DEF Lanes
<1>3. EndEpisodeId \in Nat
    BY RolloutAssumption, FS_CardinalityType DEF EndEpisodeId, Episodes
<1>4. Episodes = 0 .. EndEpisodeId - 1 /\ IsFiniteSet(Episodes)
    BY RolloutAssumption DEF EndEpisodeId, Episodes
<1>5. \A e \in Episodes : Seats[e] \in Seq({"learner", "opponent"})
    BY RolloutAssumption DEF Episodes
<1> QED
    BY <1>1, <1>2, <1>3, <1>4, <1>5 DEF EndEpisodeId

\* A request is put in one place among the others, which keep their order.
LEMMA InOrderInserts ==
    ASSUME NEW rs \in Seq(Requests), NEW r \in Requests
    PROVE  \E k \in 1 .. Len(rs) + 1 :
               /\ InOrder(rs, r) \in Seq(Requests)
               /\ Len(InOrder(rs, r)) = Len(rs) + 1
               /\ \A i \in 1 .. Len(rs) + 1 : InOrder(rs, r)[i] =
                      IF i < k THEN rs[i] ELSE IF i = k THEN r ELSE rs[i - 1]
<1> DEFINE L == {i \in DOMAIN rs : rs[i].episode < r.episode}
<1>1. IsFiniteSet(1 .. Len(rs)) /\ Cardinality(1 .. Len(rs)) = Len(rs)
    <2>1. 1 \in Int /\ Len(rs) \in Int /\ Len(rs) \in Nat
        OBVIOUS
    <2>2. IsFiniteSet(1 .. Len(rs))
          /\ Cardinality(1 .. Len(rs)) = IF 1 > Len(rs) THEN 0 ELSE Len(rs) - 1 + 1
        BY <2>1, FS_Interval
    <2> QED
        BY <2>1, <2>2
<1>2. Cardinality(L) \in Nat /\ Cardinality(L) <= Len(rs)
    <2>1. L \subseteq 1 .. Len(rs)
        OBVIOUS
    <2>2. IsFiniteSet(L) /\ Cardinality(L) <= Cardinality(1 .. Len(rs))
        BY <1>1, <2>1, FS_Subset
    <2> QED
        BY <1>1, <2>2, FS_CardinalityType
<1>3. PICK k : k = 1 + Cardinality(L)
    OBVIOUS
<1>4. k \in 1 .. Len(rs) + 1
    BY <1>2, <1>3
<1>5. InOrder(rs, r) = (SubSeq(rs, 1, k - 1) \o <<r>>) \o SubSeq(rs, k, Len(rs))
    BY <1>3 DEF InOrder, InsertAt
<1> HIDE DEF L
<1>6. PICK a : a = SubSeq(rs, 1, k - 1)
    OBVIOUS
<1>7. PICK c : c = SubSeq(rs, k, Len(rs))
    OBVIOUS
<1>8. a \in Seq(Requests) /\ Len(a) = k - 1 /\ \A i \in 1 .. k - 1 : a[i] = rs[i]
    BY <1>4, <1>6
<1>9. c \in Seq(Requests) /\ Len(c) = Len(rs) - k + 1
      /\ \A i \in 1 .. Len(rs) - k + 1 : c[i] = rs[k + i - 1]
    BY <1>4, <1>7
<1>10. PICK d : d = a \o <<r>>
    OBVIOUS
<1>11. d \in Seq(Requests) /\ Len(d) = k /\ d[k] = r /\ \A i \in 1 .. k - 1 : d[i] = rs[i]
    BY <1>4, <1>8, <1>10
<1>12. PICK f : f = d \o c
    OBVIOUS
<1>13. f \in Seq(Requests) /\ Len(f) = Len(rs) + 1
    <2>1. f \in Seq(Requests) /\ Len(f) = Len(d) + Len(c)
        BY <1>9, <1>11, <1>12
    <2>2. Len(rs) \in Nat /\ k \in Nat
        BY <1>4
    <2> QED
        BY <2>1, <2>2, <1>9, <1>11
<1>14. \A i \in 1 .. k : f[i] = d[i]
    BY <1>4, <1>9, <1>11, <1>12
<1>15. \A i \in 1 .. Len(c) : f[k + i] = c[i]
    BY <1>4, <1>9, <1>11, <1>12
<1>16. \A i \in 1 .. Len(rs) + 1 : f[i] = IF i < k THEN rs[i] ELSE IF i = k THEN r ELSE rs[i - 1]
    <2> SUFFICES ASSUME NEW i \in 1 .. Len(rs) + 1
                 PROVE  f[i] = IF i < k THEN rs[i] ELSE IF i = k THEN r ELSE rs[i - 1]
        OBVIOUS
    <2>1. CASE i <= k
        BY <2>1, <1>4, <1>11, <1>14
    <2>2. CASE i > k
        <3>1. PICK j : j = i - k
            OBVIOUS
        <3>2. j \in 1 .. Len(c) /\ k + j = i /\ k + j - 1 = i - 1
            BY <2>2, <3>1, <1>4, <1>9
        <3>3. f[i] = c[j]
            BY <3>2, <1>15
        <3>4. c[j] = rs[k + j - 1]
            BY <3>2, <1>9
        <3>5. ~ (i < k) /\ i # k
            BY <2>2, <1>4
        <3> QED
            BY <3>2, <3>3, <3>4, <3>5
    <2> QED
        BY <2>1, <2>2, <1>4
<1> QED
    BY <1>4, <1>5, <1>6, <1>7, <1>10, <1>12, <1>13, <1>16

\* Helpers on games and messages keep their types.
LEMMA GameTypes ==
    /\ \A e \in Episodes : NewGame(e) \in Games
    /\ \A g \in Games : MessageOf(g) \in Messages /\ MessageOf(g).kind \in {"terminal", "decision"}
    /\ \A g \in Games : MessageOf(g).episode = g.episode
    /\ \A g \in Games, d \in Draws :
          /\ Stepped(g, d) = [episode |-> g.episode, step |-> g.step + 1,
                              opponentDraws |-> g.opponentDraws, choices |-> Append(g.choices, d)]
          /\ Stepped(g, d) \in Games
    /\ \A e \in Episodes, s \in {"learner", "opponent"}, n \in Nat : Draw(e, s, n) \in Draws
<1>1. \A e \in Episodes : NewGame(e) \in Games
    BY DEF NewGame, Games
<1>2. \A g \in Games : MessageOf(g) \in Messages /\ MessageOf(g).kind \in {"terminal", "decision"}
    BY DEF MessageOf, Messages, Games
<1>3. \A g \in Games : MessageOf(g).episode = g.episode
    BY DEF MessageOf
<1>4. \A g \in Games, d \in Draws :
         Stepped(g, d) = [episode |-> g.episode, step |-> g.step + 1,
                          opponentDraws |-> g.opponentDraws, choices |-> Append(g.choices, d)]
    <2> SUFFICES ASSUME NEW g \in Games, NEW d \in Draws
                 PROVE  Stepped(g, d) =
                            [episode |-> g.episode, step |-> g.step + 1,
                             opponentDraws |-> g.opponentDraws, choices |-> Append(g.choices, d)]
        OBVIOUS
    <2>1. PICK x : x = g.step + 1
        OBVIOUS
    <2>2. PICK y : y = Append(g.choices, d)
        OBVIOUS
    <2>3. PICK h : h = [g EXCEPT !.step = x]
        OBVIOUS
    <2>4. h = [episode |-> g.episode, step |-> x, opponentDraws |-> g.opponentDraws,
               choices |-> g.choices]
        BY <2>3 DEF Games
    <2>5. [h EXCEPT !.choices = y] = [episode |-> g.episode, step |-> x,
               opponentDraws |-> g.opponentDraws, choices |-> y]
        BY <2>4
    <2>6. Stepped(g, d) = [h EXCEPT !.choices = y]
        BY <2>1, <2>2, <2>3 DEF Stepped
    <2> QED
        BY <2>1, <2>2, <2>5, <2>6
<1>5. \A g \in Games, d \in Draws : Stepped(g, d) \in Games
    <2> SUFFICES ASSUME NEW g \in Games, NEW d \in Draws
                 PROVE  Stepped(g, d) \in Games
        OBVIOUS
    <2>1. g.episode \in Episodes /\ g.step \in Nat \ {0} /\ g.opponentDraws \in Nat
          /\ g.choices \in Seq(Draws)
        BY DEF Games
    <2>2. g.step + 1 \in Nat \ {0} /\ Append(g.choices, d) \in Seq(Draws)
        BY <2>1
    <2> QED
        BY <1>4, <2>1, <2>2 DEF Games
<1>6. \A e \in Episodes, s \in {"learner", "opponent"}, n \in Nat : Draw(e, s, n) \in Draws
    BY DEF Draw, Draws
<1> QED
    BY <1>1, <1>2, <1>3, <1>4, <1>5, <1>6

\* A request is for one of the lanes.
LEMMA RequestLanes ==
    ASSUME TypeOK, NEW i \in DOMAIN requests
    PROVE  requests[i] \in Requests /\ requests[i].lane \in Lanes
<1>1. requests[i] \in Requests
    BY DEF TypeOK, BrokerType
<1> QED
    BY <1>1 DEF Requests

-----------------------------------------------------------------------------
(* Steps of a worker                                                       *)

\* A worker's step leaves the broker's state alone, and the other lanes'.
LEMMA WorkerIsLocal ==
    ASSUME TypeOK, NEW l \in Lanes, Worker(l)
    PROVE  /\ UNCHANGED <<brokerVars, start, cancel, action>>
           /\ \A k \in Lanes : k # l =>
                 /\ state'[k] = state[k] /\ message'[k] = message[k]
                 /\ currentId'[k] = currentId[k] /\ failure'[k] = failure[k]
                 /\ at'[k] = at[k] /\ seen'[k] = seen[k]
                 /\ game'[k] = game[k] /\ phase'[k] = phase[k]
                 /\ (k \in ready' <=> k \in ready) /\ (k \in failed' <=> k \in failed)
<1> USE DEF TypeOK, MailType, SharedType, WorkerType, vars, mailboxVars, sharedVars, workerVars,
            brokerVars, Goto
<1>1. CASE Enter(l) \/ PassGate(l) \/ Cancelled(l) \/ Publish(l) \/ TerminalAck(l)
    BY <1>1 DEF Enter, PassGate, Cancelled, Publish, TerminalAck, Gone
<1>2. CASE LoadCounter(l) \/ LostExchange(l)
    BY <1>2 DEF LoadCounter, LostExchange
<1>3. CASE CompareExchange(l)
    BY <1>3 DEF CompareExchange, FailIn
<1>4. CASE OpponentStep(l)
    <2>1. PICK g : g = [Stepped(game[l], Draw(game[l].episode, "opponent", game[l].opponentDraws + 1))
                           EXCEPT !.opponentDraws = game[l].opponentDraws + 1]
        OBVIOUS
    <2>2. game' = [game EXCEPT ![l] = g] \/ game' = game
        BY <1>4, <2>1 DEF OpponentStep
    <2>3. UNCHANGED <<mailboxVars, sharedVars, brokerVars, seen>>
        BY <1>4 DEF OpponentStep
    <2>4. \A k \in Lanes : k # l => at'[k] = at[k] /\ phase'[k] = phase[k]
        BY <1>4 DEF OpponentStep, FailIn
    <2> QED
        BY <2>2, <2>3, <2>4
<1>5. CASE WriteMessage(l) \/ StoreState(l) \/ NotifyBroker(l)
    BY <1>5 DEF WriteMessage, StoreState, NotifyBroker
<1>6. CASE SeeAction(l)
    BY <1>6 DEF SeeAction
<1>7. CASE ReadAction(l)
    <2>1. PICK g : g = Stepped(game[l], action[l].draw)
        OBVIOUS
    <2>2. game' = [game EXCEPT ![l] = g] \/ game' = game
        BY <1>7, <2>1 DEF ReadAction
    <2>3. UNCHANGED <<message, action, currentId, failure, sharedVars, brokerVars, seen>>
        BY <1>7 DEF ReadAction
    <2>4. \A k \in Lanes : k # l => at'[k] = at[k] /\ phase'[k] = phase[k] /\ state'[k] = state[k]
        BY <1>7 DEF ReadAction, FailIn
    <2> QED
        BY <2>2, <2>3, <2>4
<1>8. CASE RecordFailure(l) \/ RaiseFailure(l)
    BY <1>8 DEF RecordFailure, RaiseFailure
<1> QED
    BY <1>1, <1>2, <1>3, <1>4, <1>5, <1>6, <1>7, <1>8 DEF Worker

\* The game of an opponent's step: one more choice, one more of its draws.
OpponentMoved(g) ==
    [episode |-> g.episode, step |-> g.step + 1, opponentDraws |-> g.opponentDraws + 1,
     choices |-> Append(g.choices, Draw(g.episode, "opponent", g.opponentDraws + 1))]

\* What the steps that touch the game do to it.
LEMMA GameSteps ==
    ASSUME TypeOK, \A k \in Lanes : MailInv(k), NEW l \in Lanes
    PROVE  /\ at[l] \in {"play", "write", "await", "read", "fail", "raise"} => game[l] \in Games
           /\ OpponentStep(l) =>
                \/ /\ game' = [game EXCEPT ![l] = OpponentMoved(game[l])]
                   /\ OpponentMoved(game[l]) \in Games /\ UNCHANGED <<at, phase>>
                \/ /\ game' = game /\ at' = [at EXCEPT ![l] = "fail"]
                   /\ \E p \in {"OpponentStep", "Panic"} : phase' = [phase EXCEPT ![l] = p]
           /\ ReadAction(l) =>
                /\ state' = [state EXCEPT ![l] = "worker"]
                /\ \/ /\ game' = [game EXCEPT ![l] = Stepped(game[l], action[l].draw)]
                      /\ Stepped(game[l], action[l].draw) \in Games /\ action[l].draw \in Draws
                      /\ at' = [at EXCEPT ![l] = "play"] /\ phase' = phase
                   \/ /\ game' = game /\ at' = [at EXCEPT ![l] = "fail"]
                      /\ \E p \in {"LearnerStep", "Panic"} : phase' = [phase EXCEPT ![l] = p]
<1>1. at[l] \in {"play", "write", "await", "read", "fail", "raise"} => game[l] \in Games
    BY DEF TypeOK, WorkerType, MailInv
<1>2. ASSUME OpponentStep(l)
      PROVE  \/ /\ game' = [game EXCEPT ![l] = OpponentMoved(game[l])]
                /\ OpponentMoved(game[l]) \in Games /\ UNCHANGED <<at, phase>>
             \/ /\ game' = game /\ at' = [at EXCEPT ![l] = "fail"]
                /\ \E p \in {"OpponentStep", "Panic"} : phase' = [phase EXCEPT ![l] = p]
    <2>1. PICK g : g = game[l]
        OBVIOUS
    <2>2. g \in Games
        BY <1>1, <1>2, <2>1 DEF OpponentStep
    <2>3. g.opponentDraws + 1 \in Nat /\ g.episode \in Episodes
        BY <2>2 DEF Games
    <2>4. PICK d : d = Draw(g.episode, "opponent", g.opponentDraws + 1)
        OBVIOUS
    <2>5. d \in Draws
        BY <2>3, <2>4, GameTypes
    <2>6. PICK h : h = Stepped(g, d)
        OBVIOUS
    <2>7. h \in Games /\ h = [episode |-> g.episode, step |-> g.step + 1,
                              opponentDraws |-> g.opponentDraws, choices |-> Append(g.choices, d)]
        BY <2>2, <2>5, <2>6, GameTypes
    <2>8. PICK n : n = g.opponentDraws + 1
        OBVIOUS
    <2>9. [h EXCEPT !.opponentDraws = n] =
             [episode |-> g.episode, step |-> g.step + 1, opponentDraws |-> n,
              choices |-> Append(g.choices, d)]
        <3>1. h.episode = g.episode /\ h.step = g.step + 1 /\ h.choices = Append(g.choices, d)
            BY <2>7
        <3>2. [h EXCEPT !.opponentDraws = n] =
                 [episode |-> h.episode, step |-> h.step, opponentDraws |-> n, choices |-> h.choices]
            <4>1. h \in Games
                BY <2>7
            <4> QED
                BY ONLY <4>1 DEF Games
        <3> QED
            BY <3>1, <3>2
    <2>10. [h EXCEPT !.opponentDraws = n] \in Games
        BY <2>3, <2>7, <2>8 DEF Games
    <2>11. OpponentMoved(g) = [h EXCEPT !.opponentDraws = n]
        BY <2>4, <2>8, <2>9 DEF OpponentMoved
    <2>12. \/ game' = [game EXCEPT ![l] = [h EXCEPT !.opponentDraws = n]] /\ UNCHANGED <<at, phase>>
           \/ \E p \in {"OpponentStep", "Panic"} : FailIn(l, p) /\ UNCHANGED game
        BY <1>2, <2>1, <2>4, <2>6, <2>8 DEF OpponentStep, TypeOK, WorkerType
    <2> QED
        BY <2>1, <2>10, <2>11, <2>12 DEF FailIn, Goto
<1>3. ASSUME ReadAction(l)
      PROVE  /\ state' = [state EXCEPT ![l] = "worker"]
             /\ \/ /\ game' = [game EXCEPT ![l] = Stepped(game[l], action[l].draw)]
                   /\ Stepped(game[l], action[l].draw) \in Games /\ action[l].draw \in Draws
                   /\ at' = [at EXCEPT ![l] = "play"] /\ phase' = phase
                \/ /\ game' = game /\ at' = [at EXCEPT ![l] = "fail"]
                   /\ \E p \in {"LearnerStep", "Panic"} : phase' = [phase EXCEPT ![l] = p]
    <2>1. at[l] = "read" /\ game[l] \in Games
        BY <1>1, <1>3 DEF ReadAction
    <2>2. Binds(game[l].episode, game[l].step, action[l])
        BY <2>1 DEF MailInv
    <2>3. action[l] \in Actions
        BY <2>2 DEF TypeOK, MailType, Binds
    <2>4. action[l].draw \in Draws
        BY <2>3 DEF Actions
    <2>5. Stepped(game[l], action[l].draw) \in Games
        BY <2>1, <2>4, GameTypes
    <2>6. /\ state' = [state EXCEPT ![l] = "worker"]
          /\ \/ /\ game' = [game EXCEPT ![l] = Stepped(game[l], action[l].draw)]
                /\ Goto(l, "play") /\ UNCHANGED phase
             \/ \E p \in {"LearnerStep", "Panic"} : FailIn(l, p) /\ UNCHANGED game
        BY <1>3, <2>2 DEF ReadAction, TypeOK, WorkerType
    <2> QED
        BY <2>4, <2>5, <2>6 DEF FailIn, Goto
<1> QED
    BY <1>1, <1>2, <1>3

\* A worker's step keeps every type.
LEMMA WorkerTypes ==
    ASSUME TypeOK, \A k \in Lanes : MailInv(k), NEW l \in Lanes, Worker(l)
    PROVE  TypeOK'
<1>1. UNCHANGED <<brokerVars, start, cancel, action>>
    BY WorkerIsLocal
<1>2. BrokerType'
    BY <1>1 DEF TypeOK, BrokerType, brokerVars
<1> USE DEF TypeOK, MailType, SharedType, WorkerType, mailboxVars, sharedVars, Goto, Places
<1>3. CASE Enter(l) \/ PassGate(l) \/ Cancelled(l) \/ Publish(l) \/ TerminalAck(l)
    BY <1>1, <1>2, <1>3 DEF Enter, PassGate, Cancelled, Publish, TerminalAck, Gone
<1>4. CASE LoadCounter(l) \/ LostExchange(l)
    <2>1. UNCHANGED <<state, message, action, failure, sharedVars, brokerVars, phase>>
        BY <1>4 DEF LoadCounter, LostExchange
    <2>2. seen' \in [Lanes -> Nat]
        BY <1>4, Ranges DEF LoadCounter, LostExchange
    <2>3. at' \in [Lanes -> Places] /\ game' \in [Lanes -> Games \cup {None}]
          /\ currentId' \in [Lanes -> Episodes \cup {None}]
        BY <1>4 DEF LoadCounter, LostExchange
    <2> QED
        BY <1>2, <2>1, <2>2, <2>3
<1>5. CASE CompareExchange(l)
    <2>1. seen[l] \in Episodes /\ nextEpisode + 1 \in 0 .. EndEpisodeId
        BY <1>5, Ranges DEF CompareExchange, MailInv
    <2>2. NewGame(seen[l]) \in Games
        BY <2>1, GameTypes
    <2> QED
        BY <1>1, <1>2, <1>5, <2>1, <2>2 DEF CompareExchange, FailIn, Phases
<1>6. CASE OpponentStep(l)
    <2>1. UNCHANGED <<mailboxVars, sharedVars, brokerVars, seen>>
        BY <1>6 DEF OpponentStep
    <2> QED
        BY <1>2, <1>6, <2>1, GameSteps DEF Phases
<1>7. CASE WriteMessage(l)
    <2>1. MessageOf(game[l]) \in Messages
        BY <1>7, GameSteps, GameTypes DEF WriteMessage
    <2> QED
        BY <1>1, <1>2, <1>7, <2>1 DEF WriteMessage
<1>8. CASE StoreState(l)
    <2>1. Sent(l) \in States
        BY GameTypes DEF Sent, States
    <2> QED
        BY <1>1, <1>2, <1>8, <2>1 DEF StoreState
<1>9. CASE NotifyBroker(l)
    BY <1>1, <1>2, <1>9 DEF NotifyBroker
<1>10. CASE SeeAction(l)
    BY <1>1, <1>2, <1>10 DEF SeeAction, Phases
<1>11. CASE ReadAction(l)
    <2>1. UNCHANGED <<message, action, currentId, failure, sharedVars, brokerVars, seen>>
        BY <1>11 DEF ReadAction
    <2> QED
        BY <1>2, <1>11, <2>1, GameSteps DEF Phases, States
<1>12. CASE RecordFailure(l)
    <2>1. game[l] \in Games
        BY <1>12, GameSteps DEF RecordFailure
    <2>2. phase[l] \in Phases
        BY <1>12 DEF RecordFailure, MailInv
    <2> QED
        BY <1>1, <1>2, <1>12, <2>1, <2>2 DEF RecordFailure, Failures, Games
<1>13. CASE RaiseFailure(l)
    BY <1>1, <1>2, <1>13 DEF RaiseFailure
<1> QED
    BY <1>3, <1>4, <1>5, <1>6, <1>7, <1>8, <1>9, <1>10, <1>11, <1>12, <1>13 DEF Worker

\* A worker's step keeps what its place says of its mailbox, and of no other.
LEMMA WorkerMail ==
    ASSUME TypeOK, \A k \in Lanes : MailInv(k), NEW l \in Lanes, Worker(l)
    PROVE  \A k \in Lanes : MailInv(k)'
<1>1. ASSUME NEW k \in Lanes, k # l PROVE MailInv(k)'
    <2>1. /\ state'[k] = state[k] /\ message'[k] = message[k] /\ action'[k] = action[k]
          /\ at'[k] = at[k] /\ seen'[k] = seen[k] /\ game'[k] = game[k] /\ phase'[k] = phase[k]
        BY <1>1, WorkerIsLocal
    <2>2. MailInv(k)
        OBVIOUS
    <2> QED
        BY ONLY <2>1, <2>2 DEF MailInv, Sent
<1>2. MailInv(l)'
    <2> DEFINE Fixed == /\ state'[l] = state[l] /\ message'[l] = message[l]
                        /\ game'[l] = game[l] /\ phase'[l] = phase[l]
    <2>1. MailInv(l) /\ action' = action
        BY WorkerIsLocal
    <2>2. game[l] \in Games => Sent(l) \in {"terminal", "decision"}
        BY GameTypes, NoneAssumption DEF Sent
    <2> USE DEF TypeOK, MailType, WorkerType, mailboxVars, sharedVars, Goto
    <2>3. CASE Enter(l) \/ PassGate(l) \/ Cancelled(l) \/ Publish(l) \/ TerminalAck(l)
        <3>1. Fixed /\ seen' = seen
            BY <2>3 DEF Enter, PassGate, Cancelled, Publish, TerminalAck, Gone
        <3>2. \/ at[l] = "spawned" /\ at'[l] = "gate"
              \/ at[l] = "gate" /\ at'[l] = "claim"
              \/ at'[l] = "gone"
              \/ at[l] = "play" /\ at'[l] = "write"
              \/ at[l] = "await" /\ state[l] = "worker" /\ at'[l] = "claim"
            BY <2>3 DEF Enter, PassGate, Cancelled, Publish, TerminalAck, Gone
        <3> QED
            BY <2>1, <3>1, <3>2 DEF MailInv, Owning
    <2>4. CASE LoadCounter(l) \/ LostExchange(l)
        <3>1. state' = state /\ message' = message /\ phase' = phase /\ state[l] = "worker"
            BY <2>1, <2>4 DEF LoadCounter, LostExchange, MailInv, Owning
        <3>2. \/ at'[l] = "store" /\ game'[l] = None
              \/ at'[l] = "exchange" /\ game'[l] = game[l] /\ seen'[l] < EndEpisodeId
            BY <2>4, Ranges DEF LoadCounter, LostExchange, SharedType
        <3> QED
            BY <2>1, <3>1, <3>2 DEF MailInv, Owning
    <2>5. CASE CompareExchange(l)
        <3>1. state' = state /\ message' = message /\ state[l] = "worker"
            BY <2>1, <2>5 DEF CompareExchange, MailInv, Owning
        <3>2. game'[l] = NewGame(seen[l]) /\ seen[l] \in Episodes
            BY <2>1, <2>5, Ranges DEF CompareExchange, MailInv, SharedType
        <3>3. game'[l] # None
            BY <3>2, GameTypes, NoneAssumption
        <3>4. \/ at'[l] = "play" /\ phase'[l] = phase[l]
              \/ at'[l] = "fail" /\ phase'[l] \in {"Reset", "Panic"}
            BY <2>5 DEF CompareExchange, FailIn
        <3>5. \A p \in {"Reset", "Panic"} : p # None
            BY NoneAssumption DEF Phases
        <3> QED
            BY <2>1, <3>1, <3>3, <3>4, <3>5 DEF MailInv, Owning
    <2>6. CASE OpponentStep(l)
        <3>1. at[l] = "play" /\ state' = state /\ state[l] = "worker"
            BY <2>1, <2>6 DEF OpponentStep, MailInv, Owning
        <3>2. /\ game'[l] # None
              /\ \/ at'[l] = "play" /\ phase'[l] = phase[l]
                 \/ at'[l] = "fail" /\ phase'[l] \in {"OpponentStep", "Panic"}
            BY <2>6, <3>1, GameSteps, NoneAssumption
        <3>3. \A p \in {"OpponentStep", "Panic"} : p # None
            BY NoneAssumption DEF Phases
        <3> QED
            BY <2>1, <3>1, <3>2, <3>3 DEF MailInv, Owning
    <2>7. CASE WriteMessage(l)
        <3>1. at[l] = "write" /\ at'[l] = "store" /\ message'[l] = MessageOf(game[l])
              /\ state' = state /\ game' = game /\ phase' = phase
            BY <2>7 DEF WriteMessage
        <3> QED
            BY <2>1, <3>1 DEF MailInv, Owning
    <2>8. CASE StoreState(l)
        <3>1. at[l] = "store" /\ at'[l] = "notify" /\ state'[l] = Sent(l)
              /\ message' = message /\ game' = game /\ phase' = phase
            BY <2>8 DEF StoreState
        <3> QED
            BY <2>1, <3>1 DEF MailInv, Owning, Sent
    <2>9. CASE NotifyBroker(l)
        <3>1. at[l] = "notify" /\ Fixed /\ at'[l] = IF Sent(l) = "done" THEN "gone" ELSE "await"
            BY <2>9 DEF NotifyBroker
        <3>2. Sent(l) # "done" => game[l] # None
            BY DEF Sent
        <3>3. state[l] = Sent(l)
            BY <2>1, <3>1 DEF MailInv
        <3>4. Sent(l)' = Sent(l)
            BY <3>1 DEF Sent
        <3>5. CASE Sent(l) = "done"
            BY <2>1, <3>1, <3>5 DEF MailInv, Owning
        <3>6. CASE Sent(l) # "done"
            <4>1. Sent(l) \in {"terminal", "decision"} /\ game[l] # None
                BY <2>2, <3>2, <3>6
            <4> QED
                BY <2>1, <3>1, <3>3, <3>4, <4>1 DEF MailInv, Owning
        <3> QED
            BY <3>5, <3>6
    <2>10. CASE SeeAction(l)
        <3>1. at[l] = "await" /\ Sent(l) = "decision" /\ state[l] = "action"
            BY <2>1, <2>10 DEF SeeAction, MailInv
        <3>2. Fixed /\ at'[l] = "read"
            BY <2>10, <3>1 DEF SeeAction
        <3> QED
            BY <2>1, <3>1, <3>2 DEF MailInv, Owning, Sent
    <2>11. CASE ReadAction(l)
        <3>1. at[l] = "read" /\ message' = message
            BY <2>11 DEF ReadAction
        <3>2. /\ state'[l] = "worker" /\ game'[l] # None
              /\ \/ at'[l] = "play" /\ phase'[l] = phase[l]
                 \/ at'[l] = "fail" /\ phase'[l] \in {"LearnerStep", "Panic"}
            BY <2>11, <3>1, GameSteps, NoneAssumption
        <3>3. \A p \in {"LearnerStep", "Panic"} : p # None
            BY NoneAssumption DEF Phases
        <3> QED
            BY <2>1, <3>1, <3>2, <3>3 DEF MailInv, Owning
    <2>12. CASE RecordFailure(l) \/ RaiseFailure(l)
        <3>1. Fixed /\ ((at[l] = "fail" /\ at'[l] = "raise") \/ at'[l] = "gone")
            BY <2>12 DEF RecordFailure, RaiseFailure
        <3> QED
            BY <2>1, <3>1 DEF MailInv, Owning
    <2> QED
        BY <2>3, <2>4, <2>5, <2>6, <2>7, <2>8, <2>9, <2>10, <2>11, <2>12 DEF Worker
<1> QED
    BY <1>1, <1>2

\* A lane the broker was told of, or has a request for, does not move.
LEMMA WorkerIsFree ==
    ASSUME TypeOK, Handover, NEW l \in Lanes, Worker(l), bpc \in Active
    PROVE  /\ l \notin ready \cup remaining /\ at[l] \notin {"unborn", "gone"}
           /\ \A i \in DOMAIN requests : requests[i].lane # l
<1>1. ~ cancel /\ MailInv(l)
    BY DEF Handover, PostInv
<1>2. at[l] \notin {"unborn", "gone"}
      /\ (at[l] = "await" => Sent(l) \in {"terminal", "decision"} /\ state[l] # Sent(l))
    BY <1>1 DEF Worker, Enter, PassGate, Cancelled, LoadCounter, CompareExchange, LostExchange,
        OpponentStep, Publish, WriteMessage, StoreState, NotifyBroker, TerminalAck, SeeAction,
        ReadAction, RecordFailure, RaiseFailure
<1>3. l \notin ready \cup remaining
    BY <1>2 DEF Handover, PostInv, Posted
<1>4. ASSUME NEW i \in DOMAIN requests, requests[i].lane = l PROVE FALSE
    <2>1. at[l] = "await" /\ state[l] = "decision"
        BY <1>4 DEF Handover, PostInv, Waiting
    <2> QED
        BY <1>1, <1>2, <2>1 DEF MailInv
<1> QED
    BY <1>2, <1>3, <1>4

\* A worker's step keeps what the broker relies on.
LEMMA WorkerPost ==
    ASSUME TypeOK, Handover, NEW l \in Lanes, Worker(l)
    PROVE  PostInv'
<1>1. UNCHANGED <<brokerVars, start, cancel, action>>
    BY WorkerIsLocal
<1>2. bpc' = bpc /\ remaining' = remaining /\ requests' = requests /\ cancel' = cancel
      /\ action' = action
    BY <1>1 DEF brokerVars
<1> SUFFICES ASSUME bpc \in Active PROVE PostInv'
    BY <1>2 DEF PostInv
<1>3. /\ l \notin ready \cup remaining /\ at[l] \notin {"unborn", "gone"}
      /\ \A i \in DOMAIN requests : requests[i].lane # l
    BY WorkerIsFree
<1>4. \A k \in Lanes : k # l =>
         /\ state'[k] = state[k] /\ at'[k] = at[k] /\ game'[k] = game[k]
         /\ (k \in ready' <=> k \in ready)
    BY WorkerIsLocal
<1>5. l \in ready' => Posted(l)'
    <2>1. ready' = ready \/ NotifyBroker(l)
        BY DEF Worker, Enter, PassGate, Cancelled, Gone, LoadCounter, CompareExchange, LostExchange,
            OpponentStep, Publish, WriteMessage, StoreState, TerminalAck, SeeAction,
            ReadAction, RecordFailure, RaiseFailure, sharedVars
    <2>2. CASE NotifyBroker(l)
        <3>1. at[l] = "notify" /\ state' = state /\ game' = game
              /\ at'[l] = IF Sent(l) = "done" THEN "gone" ELSE "await"
            BY <2>2 DEF NotifyBroker, mailboxVars, Goto, TypeOK, WorkerType
        <3>2. state[l] = Sent(l)
            BY <3>1 DEF Handover, MailInv
        <3>3. Sent(l)' = Sent(l)
            BY <3>1 DEF Sent
        <3>4. Sent(l) = "done" <=> game[l] = None
            BY GameTypes DEF Sent, TypeOK, WorkerType
        <3> QED
            BY <3>1, <3>2, <3>3, <3>4 DEF Posted
    <2> QED
        BY <1>3, <2>1, <2>2
<1>6. ready' \subseteq Lanes /\ ready \subseteq Lanes /\ remaining \subseteq Lanes
    <2>1. TypeOK'
        BY WorkerTypes DEF Handover
    <2> QED
        BY <2>1 DEF TypeOK, SharedType, BrokerType
<1>7. \A k \in Lanes : k # l /\ Posted(k) => Posted(k)'
    BY <1>4 DEF Posted, Sent
<1>8. PostInv
    BY DEF Handover
<1>9. \A k \in (ready \cup remaining)' : Posted(k)'
    <2> SUFFICES ASSUME NEW k \in ready' \cup remaining' PROVE Posted(k)'
        OBVIOUS
    <2>1. k \in Lanes
        BY <1>2, <1>6
    <2>2. CASE k = l
        BY <1>2, <1>3, <1>5, <2>2
    <2>3. CASE k # l
        BY <1>2, <1>4, <1>7, <1>8, <2>1, <2>3 DEF PostInv
    <2> QED
        BY <2>2, <2>3
<1>10. \A i \in DOMAIN requests : Waiting(requests[i])'
    <2> SUFFICES ASSUME NEW i \in DOMAIN requests PROVE Waiting(requests[i])'
        OBVIOUS
    <2>1. PICK r : r = requests[i]
        OBVIOUS
    <2>2. r \in Requests
        BY <2>1 DEF TypeOK, BrokerType
    <2>3. r.lane \in Lanes /\ r.lane # l /\ Waiting(r)
        BY <1>3, <1>8, <2>1, <2>2 DEF Requests, PostInv
    <2>4. Waiting(r)'
        BY <1>2, <1>4, <2>3 DEF Waiting
    <2> QED
        BY <1>2, <2>1, <2>4
<1>11. (ready \cap remaining)' = {}
    BY <1>2, <1>3, <1>4, <1>6, <1>8 DEF PostInv
<1>12. bpc = "release" => \A i \in DOMAIN requests : Written(requests[i])'
    BY <1>2, <1>8 DEF PostInv, Written
<1>13. bpc = "spawn" => at'[WorkerCount - 1] = "unborn"
    BY <1>3, <1>4, <1>8, Ranges DEF PostInv
<1> QED
    BY <1>2, <1>8, <1>9, <1>10, <1>11, <1>12, <1>13 DEF PostInv

-----------------------------------------------------------------------------
(* Steps of the broker                                                     *)

\* A thread is made for a lane that has none.
LEMMA SpawnsUnborn ==
    ASSUME TypeOK, Handover, NEW l \in Lanes, Spawn(l)
    PROVE  bpc = "spawn" /\ at[l] = "unborn"
<1>1. bpc = "spawn" /\ l = Min({k \in Lanes : at[k] = "unborn"})
    BY DEF Spawn
<1>2. WorkerCount - 1 \in {k \in Lanes : at[k] = "unborn"}
    BY <1>1, Ranges DEF Handover, PostInv, Active
<1>3. {k \in Lanes : at[k] = "unborn"} \subseteq Nat
    BY Ranges
<1>4. Min({k \in Lanes : at[k] = "unborn"}) \in {k \in Lanes : at[k] = "unborn"}
    BY <1>2, <1>3, MinIsMember
<1> QED
    BY <1>1, <1>4

\* The lane the broker looks at waits with the message of its game, or is done.
LEMMA LookedAt ==
    ASSUME TypeOK, Handover, NEW l \in Lanes, LookingAt(l)
    PROVE  /\ bpc = "lane" /\ l \in remaining /\ state[l] \in {"decision", "terminal", "done"}
           /\ state[l] = "done" => game[l] = None /\ at[l] = "gone"
           /\ state[l] # "done" =>
                 /\ game[l] \in Games /\ at[l] = "await"
                 /\ Sent(l) = state[l] /\ message[l] = MessageOf(game[l])
                 /\ MessageOf(game[l]).kind = state[l]
<1>1. bpc = "lane" /\ l \in remaining
    BY MinIsMember, Ranges DEF LookingAt, TypeOK, BrokerType
<1>2. Posted(l) /\ MailInv(l)
    BY <1>1 DEF Handover, PostInv, Active
<1>3. game[l] \in Games \cup {None}
    BY DEF TypeOK, WorkerType
<1>4. CASE game[l] = None
    BY <1>1, <1>2, <1>4 DEF Posted, Sent
<1>5. CASE game[l] # None
    <2>1. Sent(l) = MessageOf(game[l]).kind /\ Sent(l) \in {"terminal", "decision"}
        BY <1>3, <1>5, GameTypes DEF Sent
    <2> QED
        BY <1>1, <1>2, <1>3, <1>5, <2>1 DEF Posted, MailInv
<1> QED
    BY <1>4, <1>5

\* The request for the decision of a lane, `n` draws into its stream.
RequestFor(l, n) ==
    [lane |-> l, episode |-> game[l].episode, step |-> game[l].step,
     draw |-> Draw(game[l].episode, "learner", n)]

\* What AnswerDecision does: it asks for the next draw of the lane's stream.
LEMMA Answers ==
    ASSUME TypeOK, Handover, NEW l \in Lanes, LookingAt(l), AnswerDecision(l)
    PROVE  LET b == Bind(bound[l], game[l].episode)
           IN  /\ state[l] = "decision" /\ game[l] \in Games /\ b \in Bindings
               /\ UNCHANGED <<mailboxVars, sharedVars, workerVars, doneWorkers, collected>>
               /\ b.episode = game[l].episode =>
                     /\ bound' = [bound EXCEPT ![l] =
                                     [episode |-> game[l].episode, draws |-> b.draws + 1]]
                     /\ RequestFor(l, b.draws + 1) \in Requests
                     /\ requests' = InOrder(requests, RequestFor(l, b.draws + 1))
                     /\ remaining' = remaining \ {l} /\ UNCHANGED <<bpc, outcome>>
               /\ b.episode # game[l].episode =>
                     /\ outcome' = [error |-> "BrokerProtocolViolation"] /\ bpc' = "stop"
                     /\ UNCHANGED <<bound, requests, remaining>>
<1>1. state[l] = "decision" /\ UNCHANGED <<mailboxVars, sharedVars, workerVars, doneWorkers, collected>>
    BY DEF AnswerDecision
<1>2. game[l] \in Games /\ message[l] = MessageOf(game[l]) /\ MessageOf(game[l]).kind = "decision"
    BY <1>1, LookedAt
<1>3. message[l] = [kind |-> "decision", episode |-> game[l].episode, step |-> game[l].step]
    BY <1>2 DEF MessageOf
<1>4. message[l].kind = "decision" /\ message[l].episode = game[l].episode
      /\ message[l].step = game[l].step
    BY <1>3
<1>5. PICK b : b = Bind(bound[l], game[l].episode)
    OBVIOUS
<1>6. game[l].episode \in Episodes /\ game[l].step \in Nat
    BY <1>2 DEF Games
<1>7. b \in Bindings
    BY <1>5, <1>6 DEF Bind, Bindings, TypeOK, BrokerType
<1>8. b.draws + 1 \in Nat /\ b.episode \in Episodes
    BY <1>7 DEF Bindings
<1>9. RequestFor(l, b.draws + 1) \in Requests
    BY <1>6, <1>8, GameTypes DEF RequestFor, Requests
<1>10. [b EXCEPT !.draws = @ + 1] = [episode |-> b.episode, draws |-> b.draws + 1]
    BY <1>7 DEF Bindings
<1>11. CASE b.episode = game[l].episode
    <2>1. /\ bound' = [bound EXCEPT ![l] = [b EXCEPT !.draws = @ + 1]]
          /\ requests' = InOrder(requests,
                 [lane |-> l, episode |-> message[l].episode, step |-> message[l].step,
                  draw |-> Draw(message[l].episode, "learner", b.draws + 1)])
          /\ remaining' = remaining \ {l}
          /\ UNCHANGED <<bpc, outcome>>
        BY <1>4, <1>5, <1>11 DEF AnswerDecision
    <2>2. requests' = InOrder(requests, RequestFor(l, b.draws + 1))
        BY <1>4, <2>1 DEF RequestFor
    <2> QED
        BY <1>1, <1>2, <1>5, <1>7, <1>9, <1>10, <1>11, <2>1, <2>2
<1>12. CASE b.episode # game[l].episode
    <2>1. /\ Failing([error |-> "BrokerProtocolViolation"])
          /\ UNCHANGED <<bound, requests, remaining>>
        BY <1>4, <1>5, <1>12 DEF AnswerDecision
    <2> QED
        BY <1>1, <1>2, <1>5, <1>7, <1>12, <2>1 DEF Failing, BGoto
<1> QED
    BY <1>11, <1>12

\* What CollectTerminal does: it keeps the game's choices and lets it go.
LEMMA Collects ==
    ASSUME TypeOK, Handover, NEW l \in Lanes, LookingAt(l), CollectTerminal(l)
    PROVE  LET b == Bind(bound[l], game[l].episode)
               t == [episode |-> game[l].episode, choices |-> game[l].choices]
           IN  /\ state[l] = "terminal" /\ game[l] \in Games /\ b \in Bindings /\ t \in Trajectories
               /\ UNCHANGED <<message, action, currentId, failure, sharedVars, workerVars,
                              requests, doneWorkers>>
               /\ Len(collected) # EndEpisodeId /\ b.episode = game[l].episode =>
                     /\ collected' = Append(collected, t)
                     /\ bound' = [bound EXCEPT ![l] = None]
                     /\ state' = [state EXCEPT ![l] = "worker"]
                     /\ remaining' = remaining \ {l} /\ UNCHANGED <<bpc, outcome>>
               /\ Len(collected) = EndEpisodeId \/ b.episode # game[l].episode =>
                     /\ outcome' = [error |-> "BrokerProtocolViolation"] /\ bpc' = "stop"
                     /\ UNCHANGED <<bound, collected, remaining, state>>
<1>1. state[l] = "terminal"
      /\ UNCHANGED <<message, action, currentId, failure, sharedVars, workerVars,
                     requests, doneWorkers>>
    BY DEF CollectTerminal
<1>2. game[l] \in Games /\ message[l] = MessageOf(game[l]) /\ MessageOf(game[l]).kind = "terminal"
    BY <1>1, LookedAt
<1>3. message[l] = [kind |-> "terminal", episode |-> game[l].episode, choices |-> game[l].choices]
    BY <1>2 DEF MessageOf
<1>4. message[l].kind = "terminal" /\ message[l].episode = game[l].episode
      /\ message[l].choices = game[l].choices
    BY <1>3
<1>5. PICK b : b = Bind(bound[l], game[l].episode)
    OBVIOUS
<1>6. PICK t : t = [episode |-> game[l].episode, choices |-> game[l].choices]
    OBVIOUS
<1>7. game[l].episode \in Episodes /\ game[l].choices \in Seq(Draws)
    BY <1>2 DEF Games
<1>8. b \in Bindings
    BY <1>5, <1>7 DEF Bind, Bindings, TypeOK, BrokerType
<1>9. t \in Trajectories
    BY <1>6, <1>7 DEF Trajectories
<1>10. CASE Len(collected) # EndEpisodeId /\ b.episode = game[l].episode
    <2>1. /\ collected' = Append(collected, t)
          /\ bound' = [bound EXCEPT ![l] = None]
          /\ state' = [state EXCEPT ![l] = "worker"]
          /\ remaining' = remaining \ {l} /\ UNCHANGED <<bpc, outcome>>
        BY <1>4, <1>5, <1>6, <1>10 DEF CollectTerminal
    <2> QED
        BY <1>1, <1>2, <1>5, <1>6, <1>8, <1>9, <1>10, <2>1
<1>11. CASE Len(collected) = EndEpisodeId \/ b.episode # game[l].episode
    <2>1. /\ Failing([error |-> "BrokerProtocolViolation"])
          /\ UNCHANGED <<bound, collected, remaining, state>>
        BY <1>4, <1>5, <1>11 DEF CollectTerminal
    <2> QED
        BY <1>1, <1>2, <1>5, <1>6, <1>8, <1>9, <1>11, <2>1 DEF Failing, BGoto
<1> QED
    BY <1>10, <1>11

\* Every lane of a snapshot is still waiting when the bindings are checked.
LEMMA SnapshotWaits ==
    ASSUME TypeOK, Handover, CheckSnapshot
    PROVE  /\ bpc = "lane" /\ remaining = {}
           /\ bpc' = IF requests = <<>> THEN "swap" ELSE "write"
           /\ UNCHANGED <<mailboxVars, sharedVars, workerVars,
                          remaining, requests, bound, doneWorkers, collected, outcome>>
<1>1. bpc = "lane" /\ remaining = {}
      /\ UNCHANGED <<mailboxVars, sharedVars, workerVars,
                     remaining, requests, bound, doneWorkers, collected>>
    BY DEF CheckSnapshot
<1>2. {i \in DOMAIN requests : state[requests[i].lane] # "decision"} = {}
    BY <1>1 DEF Handover, PostInv, Active, Waiting
<1>3. bpc' = (IF requests = <<>> THEN "swap" ELSE "write") /\ UNCHANGED outcome
    BY <1>2 DEF CheckSnapshot, BGoto
<1> QED
    BY <1>1, <1>3

\* Every request has its action written, and no other lane's cell is touched.
LEMMA WritesRequested ==
    ASSUME TypeOK, Handover, WriteActions
    PROVE  /\ bpc = "write" /\ bpc' = "release"
           /\ UNCHANGED <<state, message, currentId, failure, sharedVars, workerVars,
                          remaining, requests, bound, doneWorkers, collected, outcome>>
           /\ action' \in [Lanes -> Actions \cup {None}]
           /\ \A i \in DOMAIN requests : Written(requests[i])'
           /\ \A l \in Lanes : (\A i \in DOMAIN requests : requests[i].lane # l)
                                  => action'[l] = action[l]
<1>1. bpc = "write" /\ bpc' = "release"
      /\ UNCHANGED <<state, message, currentId, failure, sharedVars, workerVars,
                     remaining, requests, bound, doneWorkers, collected, outcome>>
    BY DEF WriteActions, BGoto
<1> DEFINE Act(r) == [episode |-> r.episode, step |-> r.step, draw |-> r.draw]
<1>2. action' = [l \in Lanes |-> IF l \in Requested THEN Act(requests[RequestOf(l)]) ELSE action[l]]
    BY DEF WriteActions
<1>3. \A i \in DOMAIN requests : requests[i] \in Requests
    BY DEF TypeOK, BrokerType
<1>4. \A r \in Requests : Act(r) \in Actions /\ r.lane \in Lanes
    BY DEF Requests, Actions
<1>5. \A l \in Requested : RequestOf(l) \in DOMAIN requests /\ requests[RequestOf(l)].lane = l
    BY DEF Requested, RequestOf
<1>6. \A i \in DOMAIN requests : requests[i].lane \in Requested
                                 /\ RequestOf(requests[i].lane) = i
    <2>1. \A i \in DOMAIN requests : requests[i].lane \in Requested
        BY DEF Requested
    <2>2. \A i, j \in DOMAIN requests : requests[i].lane = requests[j].lane => i = j
        BY <1>1 DEF Handover, PostInv, Active
    <2> QED
        BY <1>5, <2>1, <2>2
<1> HIDE DEF Act
<1>7. action' \in [Lanes -> Actions \cup {None}]
    <2>1. \A l \in Requested : Act(requests[RequestOf(l)]) \in Actions
        BY <1>3, <1>4, <1>5
    <2>2. action \in [Lanes -> Actions \cup {None}]
        BY DEF TypeOK, MailType
    <2> QED
        BY <1>2, <2>1, <2>2
<1>8. \A i \in DOMAIN requests : action'[requests[i].lane] = Act(requests[i])
    BY <1>2, <1>3, <1>4, <1>6
<1>9. \A i \in DOMAIN requests : Written(requests[i])'
    BY <1>1, <1>8 DEF Written, Act
<1>10. \A l \in Lanes : (\A i \in DOMAIN requests : requests[i].lane # l) => action'[l] = action[l]
    BY <1>2 DEF Requested
<1> QED
    BY <1>1, <1>7, <1>9, <1>10

\* The first request is released; the others stay as they are.
LEMMA ReleasesFirst ==
    ASSUME TypeOK, Handover, ReleaseAction
    PROVE  /\ bpc = "release" /\ 1 \in DOMAIN requests /\ requests[1] \in Requests
           /\ state' = [state EXCEPT ![requests[1].lane] = "action"]
           /\ bpc' = IF requests' = <<>> THEN "swap" ELSE "release"
           /\ requests' \in Seq(Requests)
           /\ \A i \in DOMAIN requests' : i + 1 \in DOMAIN requests /\ i + 1 # 1
                                          /\ requests'[i] = requests[i + 1]
           /\ UNCHANGED <<message, action, currentId, failure, sharedVars, workerVars,
                          remaining, bound, doneWorkers, collected, outcome>>
<1>1. bpc = "release" /\ requests # <<>> /\ requests \in Seq(Requests)
    BY DEF ReleaseAction, Handover, PostInv, Active, TypeOK, BrokerType
<1>2. 1 \in DOMAIN requests /\ requests[1] \in Requests /\ Head(requests) = requests[1]
    BY <1>1
<1>3. requests' = Tail(requests)
    BY DEF ReleaseAction
<1>4. requests' \in Seq(Requests)
      /\ \A i \in DOMAIN requests' : i + 1 \in DOMAIN requests /\ i + 1 # 1
                                     /\ requests'[i] = requests[i + 1]
    BY <1>1, <1>3
<1> QED
    BY <1>1, <1>2, <1>3, <1>4 DEF ReleaseAction, BGoto

\* The record read back after a failure is one of the results.
LEMMA ReadsFailure ==
    ASSUME TypeOK, failed # {}
    PROVE  /\ ReadFailure \in Results
           /\ Min(failed) \in Lanes /\ Min(failed) \in failed
           /\ failure[Min(failed)] # None =>
                 ReadFailure = [error |-> "WorkerFailed", lane |-> Min(failed),
                                episode |-> failure[Min(failed)].episode,
                                phase |-> failure[Min(failed)].phase]
<1>1. Min(failed) \in Lanes /\ Min(failed) \in failed
    BY MinIsMember, Ranges DEF TypeOK, SharedType
<1>2. failure[Min(failed)] \in Failures \cup {None}
    BY <1>1 DEF TypeOK, MailType
<1>3. failure[Min(failed)] # None =>
         failure[Min(failed)].episode \in Episodes \cup {None} /\ failure[Min(failed)].phase \in Phases
    BY <1>2 DEF Failures
<1> QED
    BY <1>1, <1>3 DEF ReadFailure, Results

\* A step of the broker keeps every type.
LEMMA BrokerTypes ==
    ASSUME TypeOK, Handover, Broker
    PROVE  TypeOK'
<1> USE DEF mailboxVars, sharedVars, workerVars, brokerVars
<1>1. ASSUME NEW l \in Lanes, Spawn(l) PROVE TypeOK'
    <2>1. [error |-> "WorkerSpawnFailed", lane |-> l] \in Results
        BY DEF Results
    <2> QED
        BY <1>1, <2>1 DEF Spawn, Goto, BGoto, TypeOK, MailType, SharedType, WorkerType, BrokerType,
            Places, Active
<1>2. ASSUME NEW l \in Lanes, LookAt(l) PROVE TypeOK'
    <2>1. LookingAt(l)
        BY <1>2 DEF LookAt
    <2>2. [error |-> "BrokerProtocolViolation"] \in Results
        BY DEF Results
    <2>3. CASE AnswerDecision(l)
        <3>1. PICK b : b = Bind(bound[l], game[l].episode)
            OBVIOUS
        <3>2. b \in Bindings /\ game[l] \in Games
              /\ UNCHANGED <<mailboxVars, sharedVars, workerVars, doneWorkers, collected>>
            BY <2>1, <2>3, <3>1, Answers
        <3>3. [episode |-> game[l].episode, draws |-> b.draws + 1] \in Bindings
            BY <3>2 DEF Bindings, Games
        <3>4. CASE b.episode = game[l].episode
            <4>1. PICK q : q = RequestFor(l, b.draws + 1)
                OBVIOUS
            <4>2. /\ bound' = [bound EXCEPT ![l] = [episode |-> game[l].episode, draws |-> b.draws + 1]]
                  /\ q \in Requests /\ requests' = InOrder(requests, q)
                  /\ remaining' = remaining \ {l} /\ UNCHANGED <<bpc, outcome>>
                BY <2>1, <2>3, <3>1, <3>4, <4>1, Answers
            <4>3. requests' \in Seq(Requests)
                BY <4>2, InOrderInserts DEF TypeOK, BrokerType
            <4> QED
                BY <3>2, <3>3, <4>2, <4>3
                DEF TypeOK, MailType, SharedType, WorkerType, BrokerType
        <3>5. CASE b.episode # game[l].episode
            <4>1. /\ outcome' = [error |-> "BrokerProtocolViolation"] /\ bpc' = "stop"
                  /\ UNCHANGED <<bound, requests, remaining>>
                BY <2>1, <2>3, <3>1, <3>5, Answers
            <4> QED
                BY <2>2, <3>2, <4>1 DEF TypeOK, MailType, SharedType, WorkerType, BrokerType
        <3> QED
            BY <3>4, <3>5
    <2>4. CASE CollectTerminal(l)
        <3>1. PICK b : b = Bind(bound[l], game[l].episode)
            OBVIOUS
        <3>2. PICK t : t = [episode |-> game[l].episode, choices |-> game[l].choices]
            OBVIOUS
        <3>3. /\ t \in Trajectories
              /\ UNCHANGED <<message, action, currentId, failure, sharedVars, workerVars,
                             requests, doneWorkers>>
            BY <2>1, <2>4, <3>1, <3>2, Collects
        <3>4. CASE Len(collected) # EndEpisodeId /\ b.episode = game[l].episode
            <4>1. /\ collected' = Append(collected, t)
                  /\ bound' = [bound EXCEPT ![l] = None]
                  /\ state' = [state EXCEPT ![l] = "worker"]
                  /\ remaining' = remaining \ {l} /\ UNCHANGED <<bpc, outcome>>
                BY <2>1, <2>4, <3>1, <3>2, <3>4, Collects
            <4>2. collected' \in Seq(Trajectories)
                BY <3>3, <4>1 DEF TypeOK, BrokerType
            <4> QED
                BY <3>3, <4>1, <4>2
                DEF TypeOK, MailType, SharedType, WorkerType, BrokerType, States
        <3>5. CASE Len(collected) = EndEpisodeId \/ b.episode # game[l].episode
            <4>1. /\ outcome' = [error |-> "BrokerProtocolViolation"] /\ bpc' = "stop"
                  /\ UNCHANGED <<bound, collected, remaining, state>>
                BY <2>1, <2>4, <3>1, <3>5, Collects
            <4> QED
                BY <2>2, <3>3, <4>1 DEF TypeOK, MailType, SharedType, WorkerType, BrokerType
        <3> QED
            BY <3>4, <3>5
    <2>5. CASE CountDone(l)
        BY <2>5 DEF CountDone, TypeOK, MailType, SharedType, WorkerType, BrokerType
    <2>6. CASE Unexpected(l)
        BY <2>2, <2>6 DEF Unexpected, Failing, BGoto, TypeOK, MailType, SharedType, WorkerType,
            BrokerType
    <2> QED
        BY <1>2, <2>3, <2>4, <2>5, <2>6 DEF LookAt
<1>3. ASSUME OpenGate PROVE TypeOK'
    BY <1>3 DEF OpenGate, BGoto, TypeOK, MailType, SharedType, WorkerType, BrokerType, Active
<1>4. ASSUME Swap PROVE TypeOK'
    <2>1. UNCHANGED <<mailboxVars, nextEpisode, start, cancel, workerVars,
                      requests, bound, doneWorkers, collected>>
          /\ ready' = {} /\ failed' = {}
        BY <1>4 DEF Swap
    <2>2. remaining' \in SUBSET Lanes /\ bpc' \in {"lane", "stop"} /\ outcome' \in Results \cup {None}
        BY <1>4, ReadsFailure DEF Swap, Failing, BGoto, TypeOK, SharedType, BrokerType
    <2> QED
        BY <2>1, <2>2 DEF TypeOK, MailType, SharedType, WorkerType, BrokerType, Active
<1>5. ASSUME CheckSnapshot PROVE TypeOK'
    BY <1>5, SnapshotWaits DEF TypeOK, MailType, SharedType, WorkerType, BrokerType, Active
<1>6. ASSUME WriteActions PROVE TypeOK'
    BY <1>6, WritesRequested DEF TypeOK, MailType, SharedType, WorkerType, BrokerType, Active
<1>7. ASSUME ReleaseAction PROVE TypeOK'
    BY <1>7, ReleasesFirst DEF TypeOK, MailType, SharedType, WorkerType, BrokerType, Active, States
<1>8. ASSUME LoopEnds \/ Stop PROVE TypeOK'
    BY <1>8 DEF LoopEnds, Stop, BGoto, TypeOK, MailType, SharedType, WorkerType, BrokerType
<1>9. ASSUME Join PROVE TypeOK'
    <2>1. UNCHANGED <<mailboxVars, sharedVars, workerVars,
                      remaining, requests, bound, doneWorkers, collected>>
          /\ bpc' = "returned"
        BY <1>9 DEF Join, BGoto
    <2>2. outcome' \in Results
        BY <1>9 DEF Join, TypeOK, BrokerType, Results
    <2> QED
        BY <2>1, <2>2 DEF TypeOK, MailType, SharedType, WorkerType, BrokerType
<1> QED
    BY <1>1, <1>2, <1>3, <1>4, <1>5, <1>6, <1>7, <1>8, <1>9 DEF Broker

\* The broker's mailbox accesses keep what a worker's place says of its own.
LEMMA BrokerMail ==
    ASSUME TypeOK, Handover, Broker
    PROVE  \A k \in Lanes : MailInv(k)'
<1> USE DEF mailboxVars, sharedVars, workerVars, brokerVars
<1>1. \A k \in Lanes : MailInv(k)
    BY DEF Handover
<1>2. ASSUME UNCHANGED <<state, message, action, at, seen, game, phase>>
      PROVE  \A k \in Lanes : MailInv(k)'
    BY <1>1, <1>2 DEF MailInv, Sent
<1>3. ASSUME NEW l \in Lanes, Spawn(l) PROVE \A k \in Lanes : MailInv(k)'
    <2>1. at[l] = "unborn"
        BY <1>3, SpawnsUnborn
    <2>2. UNCHANGED <<state, message, action, seen, game, phase>>
        BY <1>3 DEF Spawn
    <2>3. \A k \in Lanes : at'[k] = at[k] \/ (k = l /\ at'[k] = "spawned")
        BY <1>3 DEF Spawn, Goto, TypeOK, WorkerType
    <2> QED
        BY <1>1, <2>1, <2>2, <2>3 DEF MailInv, Sent, Owning
<1>4. ASSUME NEW l \in Lanes, LookAt(l) PROVE \A k \in Lanes : MailInv(k)'
    <2>1. LookingAt(l)
        BY <1>4 DEF LookAt
    <2>2. CASE AnswerDecision(l) \/ CountDone(l) \/ Unexpected(l)
        BY <1>2, <2>2 DEF AnswerDecision, CountDone, Unexpected
    <2>3. CASE CollectTerminal(l)
        <3>1. at[l] = "await" /\ Sent(l) = "terminal" /\ state[l] = "terminal"
            BY <2>1, <2>3, LookedAt DEF CollectTerminal
        <3>2. UNCHANGED <<message, action, at, seen, game, phase>>
            BY <2>3 DEF CollectTerminal
        <3>3. state' = state \/ state' = [state EXCEPT ![l] = "worker"]
            BY <2>3 DEF CollectTerminal
        <3>4. \A k \in Lanes : state'[k] = state[k] \/ (k = l /\ state'[k] = "worker")
            BY <3>3 DEF TypeOK, MailType
        <3> QED
            BY <1>1, <3>1, <3>2, <3>4 DEF MailInv, Sent, Owning
    <2> QED
        BY <1>4, <2>2, <2>3 DEF LookAt
<1>5. ASSUME OpenGate \/ Swap \/ LoopEnds \/ Stop \/ Join PROVE \A k \in Lanes : MailInv(k)'
    BY <1>2, <1>5 DEF OpenGate, Swap, LoopEnds, Stop, Join
<1>6. ASSUME CheckSnapshot PROVE \A k \in Lanes : MailInv(k)'
    BY <1>2, <1>6, SnapshotWaits
<1>7. ASSUME WriteActions PROVE \A k \in Lanes : MailInv(k)'
    <2>1. UNCHANGED <<state, message, at, seen, game, phase>> /\ bpc = "write"
        BY <1>7, WritesRequested
    <2>2. \A k \in Lanes : action'[k] = action[k] \/ (at[k] = "await" /\ state[k] = "decision")
        <3>1. \A i \in DOMAIN requests :
                 at[requests[i].lane] = "await" /\ state[requests[i].lane] = "decision"
            BY <2>1 DEF Handover, PostInv, Active, Waiting
        <3> QED
            BY <1>7, <3>1, WritesRequested
    <2> QED
        BY <1>1, <2>1, <2>2 DEF MailInv, Sent
<1>8. ASSUME ReleaseAction PROVE \A k \in Lanes : MailInv(k)'
    <2>1. PICK r : r = requests[1]
        OBVIOUS
    <2>2. /\ bpc = "release" /\ 1 \in DOMAIN requests /\ r \in Requests
          /\ state' = [state EXCEPT ![r.lane] = "action"]
          /\ UNCHANGED <<message, action, at, seen, game, phase>>
        BY <1>8, <2>1, ReleasesFirst
    <2>3. PICK l : l = r.lane
        OBVIOUS
    <2>4. l \in Lanes
        BY <2>2, <2>3 DEF Requests
    <2>5. Waiting(r) /\ Written(r)
        BY <2>1, <2>2 DEF Handover, PostInv, Active
    <2>6. at[l] = "await" /\ state[l] = "decision" /\ MailInv(l)
        BY <1>1, <2>3, <2>4, <2>5 DEF Waiting
    <2>7. game[l] \in Games
        BY <2>4, <2>6 DEF MailInv, TypeOK, WorkerType
    <2>8. Sent(l) \in {"terminal", "decision"}
        BY <2>7, GameTypes, NoneAssumption DEF Sent
    <2>9. Sent(l) = "decision"
        BY <2>6, <2>8 DEF MailInv
    <2>10. [episode |-> r.episode, step |-> r.step, draw |-> r.draw] \in Actions
        BY <2>2 DEF Requests, Actions
    <2>11. action[l] # None /\ action[l].episode = game[l].episode /\ action[l].step = game[l].step
        BY <2>3, <2>5, <2>10, NoneAssumption DEF Waiting, Written
    <2>12. \A k \in Lanes : state'[k] = state[k] \/ (k = l /\ state'[k] = "action")
        BY <2>2, <2>3, <2>4 DEF TypeOK, MailType
    <2> QED
        BY <1>1, <2>2, <2>6, <2>9, <2>11, <2>12 DEF MailInv, Sent, Owning, Binds
<1> QED
    BY <1>3, <1>4, <1>5, <1>6, <1>7, <1>8 DEF Broker

\* The broker keeps what it relies on itself.
LEMMA BrokerPost ==
    ASSUME TypeOK, Handover, Broker
    PROVE  PostInv'
<1> USE DEF mailboxVars, sharedVars, workerVars, brokerVars
<1>1. PostInv
    BY DEF Handover
<1>2. \A i \in DOMAIN requests : requests[i] \in Requests /\ requests[i].lane \in Lanes
    BY RequestLanes
<1>3. ASSUME NEW l \in Lanes, Spawn(l) PROVE PostInv'
    <2>1. bpc = "spawn" /\ at[l] = "unborn"
        BY <1>3, SpawnsUnborn
    <2>2. UNCHANGED <<state, action, ready, game, remaining, requests>>
        BY <1>3 DEF Spawn
    <2>3. CASE bpc' = "join"
        BY <2>3 DEF PostInv, Active
    <2>4. CASE bpc' # "join"
        <3>1. /\ at' = [at EXCEPT ![l] = "spawned"] /\ cancel' = cancel
              /\ bpc' = IF l = WorkerCount - 1 THEN "gather" ELSE "spawn"
            BY <1>3, <2>4 DEF Spawn, Goto, BGoto
        <3>2. \A k \in Lanes : k # l => at'[k] = at[k]
            BY <3>1 DEF TypeOK, WorkerType
        <3>3. remaining = {} /\ requests = <<>> /\ ~ cancel /\ at[WorkerCount - 1] = "unborn"
            BY <1>1, <2>1 DEF PostInv, Active
        <3>4. \A k \in ready : k \in Lanes /\ Posted(k)
            BY <1>1, <2>1 DEF PostInv, Active, TypeOK, SharedType
        <3>5. \A k \in ready : Posted(k)'
            BY <2>1, <2>2, <3>2, <3>4 DEF Posted, Sent
        <3>6. bpc' = "spawn" => at'[WorkerCount - 1] = "unborn"
            BY <3>1, <3>2, <3>3, Ranges
        <3> QED
            BY <2>2, <3>1, <3>3, <3>5, <3>6 DEF PostInv
    <2> QED
        BY <2>3, <2>4
<1>4. ASSUME NEW l \in Lanes, LookAt(l) PROVE PostInv'
    <2>1. LookingAt(l)
        BY <1>4 DEF LookAt
    <2>2. bpc = "lane" /\ l \in remaining /\ state[l] \in {"decision", "terminal", "done"}
        BY <2>1, LookedAt
    <2>3. /\ ~ cancel /\ ready \cap remaining = {}
          /\ \A k \in ready \cup remaining : Posted(k)
          /\ \A i \in DOMAIN requests : Waiting(requests[i])
          /\ \A i, j \in DOMAIN requests : requests[i].lane = requests[j].lane => i = j
        BY <1>1, <2>2 DEF PostInv, Active
    <2>4. \A i \in DOMAIN requests : requests[i].lane # l
        BY <2>2, <2>3 DEF Waiting
    <2>5. CASE AnswerDecision(l)
        <3>1. PICK b : b = Bind(bound[l], game[l].episode)
            OBVIOUS
        <3>2. UNCHANGED <<mailboxVars, sharedVars, workerVars>> /\ state[l] = "decision"
              /\ game[l] \in Games
            BY <2>1, <2>5, Answers
        <3>3. CASE b.episode # game[l].episode
            BY <2>1, <2>5, <3>1, <3>3, Answers DEF PostInv, Active
        <3>4. CASE b.episode = game[l].episode
            <4>1. PICK q : q = RequestFor(l, b.draws + 1)
                OBVIOUS
            <4>2. /\ q \in Requests /\ requests' = InOrder(requests, q)
                  /\ remaining' = remaining \ {l} /\ UNCHANGED <<bpc, outcome>>
                BY <2>1, <2>5, <3>1, <3>4, <4>1, Answers
            <4>3. PICK n \in 1 .. Len(requests) + 1 :
                     /\ requests' \in Seq(Requests) /\ Len(requests') = Len(requests) + 1
                     /\ \A i \in 1 .. Len(requests) + 1 : requests'[i] =
                            IF i < n THEN requests[i] ELSE IF i = n THEN q ELSE requests[i - 1]
                BY <4>2, InOrderInserts, ZenonT(40) DEF TypeOK, BrokerType
            <4>4. requests \in Seq(Requests) /\ Len(requests) \in Nat
                  /\ DOMAIN requests = 1 .. Len(requests)
                  /\ DOMAIN requests' = 1 .. Len(requests) + 1
                BY <4>3 DEF TypeOK, BrokerType
            <4> DEFINE From(i) == IF i < n THEN i ELSE i - 1
            <4>5. \A i \in DOMAIN requests' :
                     \/ i = n /\ requests'[i] = q
                     \/ i # n /\ From(i) \in DOMAIN requests /\ requests'[i] = requests[From(i)]
                BY <4>3, <4>4
            <4>6. \A i, j \in DOMAIN requests' : i # n /\ j # n /\ From(i) = From(j) => i = j
                BY <4>3, <4>4
            <4> HIDE DEF From
            <4>7. q.lane = l /\ q.episode = game[l].episode /\ q.step = game[l].step
                BY <4>1 DEF RequestFor
            <4>8. at[l] = "await"
                BY <2>1, <3>2, LookedAt
            <4>9. Waiting(q)'
                BY <2>2, <2>3, <3>2, <4>2, <4>7, <4>8 DEF Waiting
            <4>10. \A r \in Requests : Waiting(r) => Waiting(r)'
                BY <3>2, <4>2 DEF Waiting
            <4>11. \A i \in DOMAIN requests' : Waiting(requests[i])'
                <5> SUFFICES ASSUME NEW i \in DOMAIN requests' PROVE Waiting(requests[i])'
                    OBVIOUS
                <5>1. PICK r : r = requests'[i]
                    OBVIOUS
                <5>2. Waiting(r)'
                    <6>1. CASE i = n
                        BY <4>5, <4>9, <5>1, <6>1
                    <6>2. CASE i # n
                        BY <1>2, <2>3, <4>5, <4>10, <5>1, <6>2
                    <6> QED
                        BY <6>1, <6>2
                <5> QED
                    BY <5>1, <5>2
            <4>12. \A i, j \in DOMAIN requests' : requests'[i].lane = requests'[j].lane => i = j
                BY <2>3, <2>4, <4>5, <4>6, <4>7
            <4>13. \A k \in (ready \cup remaining)' : Posted(k)'
                BY <2>3, <3>2, <4>2 DEF Posted, Sent
            <4>14. (ready \cap remaining)' = {} /\ ~ cancel' /\ bpc' = "lane"
                BY <2>2, <2>3, <3>2, <4>2
            <4> QED
                BY <4>11, <4>12, <4>13, <4>14 DEF PostInv
        <3> QED
            BY <3>3, <3>4
    <2>6. CASE CollectTerminal(l)
        <3>1. PICK b : b = Bind(bound[l], game[l].episode)
            OBVIOUS
        <3>2. UNCHANGED <<action, sharedVars, workerVars, requests>>
            BY <2>1, <2>6, Collects
        <3>3. CASE Len(collected) = EndEpisodeId \/ b.episode # game[l].episode
            BY <2>1, <2>6, <3>1, <3>3, Collects DEF PostInv, Active
        <3>4. CASE Len(collected) # EndEpisodeId /\ b.episode = game[l].episode
            <4>1. /\ state' = [state EXCEPT ![l] = "worker"]
                  /\ remaining' = remaining \ {l} /\ UNCHANGED <<bpc, outcome>>
                BY <2>1, <2>6, <3>1, <3>4, Collects
            <4>2. \A k \in Lanes : k # l => state'[k] = state[k]
                BY <4>1 DEF TypeOK, MailType
            <4>3. ready \subseteq Lanes /\ remaining \subseteq Lanes
                BY DEF TypeOK, SharedType, BrokerType
            <4>4. \A i \in DOMAIN requests : Waiting(requests[i])'
                BY <1>2, <2>3, <2>4, <3>2, <4>1, <4>2 DEF Waiting
            <4>5. \A k \in (ready \cup remaining)' : k # l /\ k \in Lanes /\ Posted(k)
                BY <2>2, <2>3, <3>2, <4>1, <4>3
            <4>6. \A k \in (ready \cup remaining)' : Posted(k)'
                BY <3>2, <4>2, <4>5 DEF Posted, Sent
            <4>7. (ready \cap remaining)' = {} /\ ~ cancel' /\ bpc' = "lane"
                BY <2>2, <2>3, <3>2, <4>1
            <4> QED
                BY <2>3, <3>2, <4>4, <4>6, <4>7 DEF PostInv
        <3> QED
            BY <3>3, <3>4
    <2>7. CASE CountDone(l)
        <3>1. UNCHANGED <<mailboxVars, sharedVars, workerVars, bpc, requests>>
              /\ remaining' = remaining \ {l}
            BY <2>7 DEF CountDone
        <3>2. \A i \in DOMAIN requests : Waiting(requests[i])'
            BY <2>3, <3>1 DEF Waiting
        <3>3. \A k \in (ready \cup remaining)' : Posted(k)'
            BY <2>3, <3>1 DEF Posted, Sent
        <3> QED
            BY <2>2, <2>3, <3>1, <3>2, <3>3 DEF PostInv
    <2>8. CASE Unexpected(l)
        BY <2>2, <2>8 DEF Unexpected
    <2> QED
        BY <1>4, <2>5, <2>6, <2>7, <2>8 DEF LookAt
<1>5. ASSUME OpenGate PROVE PostInv'
    <2>1. bpc = "gather" /\ bpc' = "swap"
          /\ UNCHANGED <<mailboxVars, ready, failed, nextEpisode, cancel, workerVars,
                         remaining, requests, bound, doneWorkers, collected, outcome>>
        BY <1>5 DEF OpenGate, BGoto
    <2> QED
        BY <1>1, <2>1 DEF PostInv, Active, Waiting, Posted, Sent
<1>6. ASSUME Swap PROVE PostInv'
    <2>1. CASE failed # {}
        BY <1>6, <2>1 DEF Swap, Failing, BGoto, PostInv, Active
    <2>2. CASE failed = {}
        <3>1. bpc = "swap" /\ bpc' = "lane" /\ remaining' = ready /\ ready' = {}
              /\ UNCHANGED <<mailboxVars, cancel, workerVars, requests>>
            BY <1>6, <2>2 DEF Swap, BGoto
        <3>2. ~ cancel /\ requests = <<>> /\ \A k \in ready : Posted(k)
            BY <1>1, <3>1 DEF PostInv, Active
        <3>3. \A k \in ready : Posted(k)'
            BY <3>1, <3>2 DEF Posted, Sent
        <3> QED
            BY <3>1, <3>2, <3>3 DEF PostInv
    <2> QED
        BY <2>1, <2>2
<1>7. ASSUME CheckSnapshot PROVE PostInv'
    <2>1. /\ bpc = "lane" /\ remaining = {}
          /\ bpc' = IF requests = <<>> THEN "swap" ELSE "write"
          /\ UNCHANGED <<mailboxVars, sharedVars, workerVars,
                         remaining, requests, bound, doneWorkers, collected, outcome>>
        BY <1>7, SnapshotWaits
    <2>2. bpc' \in {"swap", "write"}
        BY <2>1
    <2>3. \A k \in ready \cup remaining : Posted(k)'
        BY <1>1, <2>1 DEF PostInv, Active, Posted, Sent
    <2>4. \A i \in DOMAIN requests : Waiting(requests[i])'
        BY <1>1, <2>1 DEF PostInv, Active, Waiting
    <2> QED
        BY <1>1, <2>1, <2>2, <2>3, <2>4 DEF PostInv, Active
<1>8. ASSUME WriteActions PROVE PostInv'
    <2>1. /\ bpc = "write" /\ bpc' = "release"
          /\ UNCHANGED <<state, message, currentId, failure, sharedVars, workerVars,
                         remaining, requests, bound, doneWorkers, collected, outcome>>
          /\ \A i \in DOMAIN requests : Written(requests[i])'
        BY <1>8, WritesRequested
    <2>2. \A k \in ready \cup remaining : Posted(k)'
        BY <1>1, <2>1 DEF PostInv, Active, Posted, Sent
    <2>3. \A i \in DOMAIN requests : Waiting(requests[i])'
        BY <1>1, <2>1 DEF PostInv, Active, Waiting
    <2> QED
        BY <1>1, <2>1, <2>2, <2>3 DEF PostInv, Active
<1>9. ASSUME ReleaseAction PROVE PostInv'
    <2>1. PICK l : l = requests[1].lane
        OBVIOUS
    <2>2. /\ bpc = "release" /\ 1 \in DOMAIN requests /\ l \in Lanes
          /\ state' = [state EXCEPT ![l] = "action"]
          /\ bpc' = IF requests' = <<>> THEN "swap" ELSE "release"
          /\ \A i \in DOMAIN requests' : i + 1 \in DOMAIN requests /\ i + 1 # 1
                                         /\ requests'[i] = requests[i + 1]
          /\ UNCHANGED <<message, action, currentId, failure, sharedVars, workerVars,
                         remaining, bound, doneWorkers, collected, outcome>>
        BY <1>2, <1>9, <2>1, ReleasesFirst
    <2>3. \A k \in Lanes : k # l => state'[k] = state[k]
        BY <2>2 DEF TypeOK, MailType
    <2>4. /\ ~ cancel /\ remaining = {} /\ ready \subseteq Lanes
          /\ \A k \in ready : Posted(k)
          /\ \A i \in DOMAIN requests : Waiting(requests[i]) /\ Written(requests[i])
          /\ \A i, j \in DOMAIN requests : requests[i].lane = requests[j].lane => i = j
        BY <1>1, <2>2 DEF PostInv, Active, TypeOK, SharedType
    <2>5. l \notin ready
        BY <2>1, <2>2, <2>4 DEF Waiting
    <2>6. \A k \in ready : Posted(k)'
        BY <2>2, <2>3, <2>4, <2>5 DEF Posted, Sent
    <2>7. \A r \in Requests : r.lane # l /\ Waiting(r) /\ Written(r) => Waiting(r)' /\ Written(r)'
        BY <2>2, <2>3 DEF Waiting, Written, Requests
    <2>8. ASSUME NEW i \in DOMAIN requests' PROVE Waiting(requests[i])' /\ Written(requests[i])'
        <3>1. PICK r : r = requests'[i]
            OBVIOUS
        <3>2. i + 1 \in DOMAIN requests /\ r = requests[i + 1] /\ i + 1 # 1
            BY <2>2, <3>1
        <3>3. r \in Requests /\ r.lane # l /\ Waiting(r) /\ Written(r)
            BY <1>2, <2>1, <2>2, <2>4, <3>2
        <3>4. Waiting(r)' /\ Written(r)'
            BY <2>7, <3>3
        <3> QED
            BY <3>1, <3>4
    <2>9. \A i, j \in DOMAIN requests' : requests'[i].lane = requests'[j].lane => i = j
        <3> SUFFICES ASSUME NEW i \in DOMAIN requests', NEW j \in DOMAIN requests',
                            requests'[i].lane = requests'[j].lane
                     PROVE  i = j
            OBVIOUS
        <3>1. i + 1 = j + 1
            BY <2>2, <2>4
        <3>2. i \in Nat /\ j \in Nat
            BY <1>9, ReleasesFirst
        <3> QED
            BY <3>1, <3>2
    <2>10. bpc' \in {"swap", "release"} /\ (bpc' = "release" <=> requests' # <<>>)
        BY <2>2
    <2> QED
        BY <2>2, <2>4, <2>6, <2>8, <2>9, <2>10 DEF PostInv
<1>10. ASSUME LoopEnds \/ Stop \/ Join PROVE PostInv'
    BY <1>10 DEF LoopEnds, Stop, Join, BGoto, PostInv, Active
<1> QED
    BY <1>3, <1>4, <1>5, <1>6, <1>7, <1>8, <1>9, <1>10 DEF Broker

-----------------------------------------------------------------------------
(* First layer                                                             *)

\* The types and the hand-over hold at the start.
LEMMA HandoverStart ==
    ASSUME Init
    PROVE  TypeOK /\ Handover
<1>1. TypeOK
    <2>1. MailType /\ WorkerType
        BY DEF Init, MailType, WorkerType, States, Places
    <2>2. SharedType
        <3>1. 0 \in 0 .. EndEpisodeId
            BY Ranges
        <3> QED
            BY <3>1 DEF Init, SharedType
    <2>3. BrokerType
        BY DEF Init, BrokerType, Active
    <2> QED
        BY <2>1, <2>2, <2>3 DEF TypeOK
<1>2. \A l \in Lanes : MailInv(l)
    BY NoneAssumption DEF Init, MailInv, Owning, Phases
<1>3. PostInv
    BY Ranges DEF Init, PostInv
<1> QED
    BY <1>1, <1>2, <1>3 DEF Handover

\* Every step of a thread keeps the types and the hand-over.
LEMMA HandoverStep ==
    ASSUME TypeOK, Handover, [Next]_vars
    PROVE  TypeOK' /\ Handover'
<1>1. CASE Broker
    BY <1>1, BrokerTypes, BrokerMail, BrokerPost DEF Handover
<1>2. ASSUME NEW l \in Lanes, Worker(l) PROVE TypeOK' /\ Handover'
    BY <1>2, WorkerTypes, WorkerMail, WorkerPost DEF Handover
<1>3. CASE UNCHANGED vars
    <2> USE <1>3 DEF vars, mailboxVars, sharedVars, workerVars, brokerVars
    <2>1. TypeOK'
        BY DEF TypeOK, MailType, SharedType, WorkerType, BrokerType
    <2>2. (\A l \in Lanes : MailInv(l))'
        BY DEF Handover, MailInv, Sent
    <2>3. PostInv'
        BY DEF Handover, PostInv, Posted, Waiting, Written, Sent
    <2> QED
        BY <2>1, <2>2, <2>3 DEF Handover
<1> QED
    BY <1>1, <1>2, <1>3 DEF Next

\* The mailboxes change hands in order, in every behaviour.
THEOREM HandoverHolds == Spec => [](TypeOK /\ Handover)
<1>1. Init => TypeOK /\ Handover
    BY HandoverStart
<1>2. TypeOK /\ Handover /\ [Next]_vars => (TypeOK /\ Handover)'
    BY HandoverStep
<1> QED
    BY <1>1, <1>2, PTL DEF Spec

\* The payload cells, plain memory behind `unsafe impl Sync`, are never
\* accessed by a worker and the broker at once, however many workers there
\* are and whatever they play.
THEOREM CellsAreNeverShared == Spec => []NoPayloadRace
<1>1. TypeOK /\ Handover => NoPayloadRace
    <2> SUFFICES ASSUME TypeOK, Handover, NEW l \in Lanes
                 PROVE  /\ ~ (at[l] = "write" /\ LookingAt(l) /\ state[l] \in {"decision", "terminal"})
                        /\ ~ (at[l] = "read" /\ bpc = "write" /\ l \in Requested)
        BY DEF NoPayloadRace
    <2>1. LookingAt(l) => at[l] \in {"await", "gone"}
        BY LookedAt
    <2>2. bpc = "write" /\ l \in Requested => at[l] = "await"
        BY DEF Requested, Handover, PostInv, Active, Waiting
    <2> QED
        BY <2>1, <2>2
<1> QED
    BY <1>1, HandoverHolds, PTL

-----------------------------------------------------------------------------
(* Second layer: the random streams                                        *)

\* Counting a seat's decisions, one step further.
LEMMA DecidedCounts ==
    ASSUME NEW e \in Episodes, NEW seat, NEW n \in Nat
    PROVE  /\ Decided(e, seat, n) \in Nat /\ Decided(e, seat, 0) = 0
           /\ Decided(e, seat, n + 1) =
                 Decided(e, seat, n) + (IF Seats[e][n + 1] = seat THEN 1 ELSE 0)
<1> DEFINE S(m) == {j \in 1 .. m : Seats[e][j] = seat}
<1>1. \A m \in Nat : IsFiniteSet(S(m))
    <2> SUFFICES ASSUME NEW m \in Nat PROVE IsFiniteSet(S(m))
        OBVIOUS
    <2>1. IsFiniteSet(1 .. m)
        BY FS_Interval
    <2> QED
        BY <2>1, FS_Subset
<1>2. S(0) = {} /\ Cardinality({}) = 0
    BY FS_EmptySet
<1>3. n + 1 \notin S(n)
    OBVIOUS
<1>4. S(n + 1) = IF Seats[e][n + 1] = seat THEN S(n) \cup {n + 1} ELSE S(n)
    <2>1. 1 .. (n + 1) = (1 .. n) \cup {n + 1}
        OBVIOUS
    <2> QED
        BY <2>1
<1>5. IsFiniteSet(S(n)) /\ Cardinality(S(n)) \in Nat
    BY <1>1, FS_CardinalityType
<1>6. Cardinality(S(n) \cup {n + 1}) = Cardinality(S(n)) + 1
    BY <1>3, <1>5, FS_AddElement
<1>7. \A m : Decided(e, seat, m) = Cardinality(S(m))
    BY DEF Decided
<1> HIDE DEF S
<1> QED
    BY <1>2, <1>4, <1>5, <1>6, <1>7

\* The choice made at a step of an episode played alone.
LEMMA AloneStep ==
    ASSUME NEW e \in Episodes, NEW s \in Nat \ {0}, s <= Len(Seats[e])
    PROVE  /\ Seats[e][s] \in {"learner", "opponent"} /\ s \in DOMAIN AloneChoices(e)
           /\ AloneChoices(e)[s] = Draw(e, Seats[e][s], Decided(e, Seats[e][s], s - 1) + 1)
<1>1. Seats[e] \in Seq({"learner", "opponent"})
    BY Ranges
<1>2. s \in DOMAIN Seats[e] /\ Seats[e][s] \in {"learner", "opponent"}
    BY <1>1
<1>3. AloneChoices(e)[s] = Draw(e, Seats[e][s], Decided(e, Seats[e][s], s))
      /\ s \in DOMAIN AloneChoices(e)
    BY <1>2 DEF AloneChoices, Decided
<1>4. s - 1 \in Nat /\ (s - 1) + 1 = s
    OBVIOUS
<1>5. PICK m : m = s - 1
    OBVIOUS
<1>6. Decided(e, Seats[e][s], m + 1)
         = Decided(e, Seats[e][s], m) + (IF Seats[e][m + 1] = Seats[e][s] THEN 1 ELSE 0)
    BY <1>4, <1>5, DecidedCounts
<1>7. Decided(e, Seats[e][s], s) = Decided(e, Seats[e][s], s - 1) + 1
    BY <1>4, <1>5, <1>6
<1> QED
    BY <1>2, <1>3, <1>7

\* A game stays on course when its seat takes its next draw.
LEMMA CourseKept ==
    ASSUME NEW g \in Games, OnCourse(g), g.step <= Len(Seats[g.episode]),
           NEW h \in Games, h.episode = g.episode, h.step = g.step + 1,
           h.choices = Append(g.choices, Draw(g.episode, Seats[g.episode][g.step],
                           Decided(g.episode, Seats[g.episode][g.step], g.step - 1) + 1)),
           h.opponentDraws = g.opponentDraws
                             + (IF Seats[g.episode][g.step] = "opponent" THEN 1 ELSE 0)
    PROVE  /\ OnCourse(h)
           /\ Decided(h.episode, "learner", h.step - 1) = Decided(g.episode, "learner", g.step - 1)
                            + (IF Seats[g.episode][g.step] = "learner" THEN 1 ELSE 0)
<1>1. PICK e : e = g.episode
    OBVIOUS
<1>2. PICK s : s = g.step
    OBVIOUS
<1>3. e \in Episodes /\ s \in Nat \ {0} /\ g.choices \in Seq(Draws)
    BY <1>1, <1>2 DEF Games
<1>4. AloneChoices(e)[s] = Draw(e, Seats[e][s], Decided(e, Seats[e][s], s - 1) + 1)
    BY <1>1, <1>2, <1>3, AloneStep
<1>5. h.choices = Append(g.choices, AloneChoices(e)[s])
    BY <1>1, <1>2, <1>4
<1>6. Len(g.choices) = s - 1 /\ \A i \in 1 .. s - 1 : g.choices[i] = AloneChoices(e)[i]
    BY <1>1, <1>2 DEF OnCourse
<1>7. Len(h.choices) = s /\ \A i \in 1 .. s : h.choices[i] = AloneChoices(e)[i]
    <2>1. PICK c : c = AloneChoices(e)[s]
        OBVIOUS
    <2>2. h.choices = Append(g.choices, c)
        BY <1>5, <2>1
    <2>3. Len(h.choices) = (s - 1) + 1 /\ h.choices[(s - 1) + 1] = c
          /\ \A i \in 1 .. s - 1 : h.choices[i] = g.choices[i]
        BY <1>3, <1>6, <2>2
    <2>4. (s - 1) + 1 = s /\ \A i \in 1 .. s : i = s \/ i \in 1 .. s - 1
        BY <1>3
    <2> QED
        BY <1>6, <2>1, <2>3, <2>4
<1>8. ASSUME NEW seat
      PROVE  Decided(e, seat, s) = Decided(e, seat, s - 1) + (IF Seats[e][s] = seat THEN 1 ELSE 0)
    <2>1. PICK m : m = s - 1
        OBVIOUS
    <2>2. m \in Nat /\ m + 1 = s /\ e \in Episodes
        BY <1>3, <2>1
    <2>3. Decided(e, seat, m + 1) = Decided(e, seat, m) + (IF Seats[e][m + 1] = seat THEN 1 ELSE 0)
        BY ONLY <2>2, DecidedCounts
    <2> QED
        BY <2>1, <2>2, <2>3
<1>9. h.step - 1 = s /\ h.step = s + 1
    BY <1>2, <1>3
<1>10. h.opponentDraws = Decided(e, "opponent", s)
    BY <1>1, <1>2, <1>8 DEF OnCourse
<1>11. Len(Seats[e]) \in Nat
    BY <1>3, Ranges
<1>12. h.step <= Len(Seats[h.episode]) + 1
    BY <1>1, <1>2, <1>3, <1>9, <1>11
<1>13. OnCourse(h)
    BY <1>1, <1>7, <1>9, <1>10, <1>12 DEF OnCourse
<1> QED
    BY <1>1, <1>2, <1>8, <1>9, <1>13

\* Who decides, from the answer of the session.
LEMMA Deciding ==
    ASSUME NEW g \in Games
    PROVE  /\ Response(g) \in {"terminal", "learner", "opponent"}
           /\ Response(g) = "terminal" <=> g.step > Len(Seats[g.episode])
           /\ Response(g) # "terminal" => g.step <= Len(Seats[g.episode])
                                          /\ Response(g) = Seats[g.episode][g.step]
           /\ MessageOf(g).kind = IF Response(g) = "terminal" THEN "terminal" ELSE "decision"
<1>1. g.episode \in Episodes /\ g.step \in Nat \ {0}
    BY DEF Games
<1>2. Seats[g.episode] \in Seq({"learner", "opponent"}) /\ Len(Seats[g.episode]) \in Nat
    BY <1>1, Ranges
<1>3. g.step <= Len(Seats[g.episode]) => Seats[g.episode][g.step] \in {"learner", "opponent"}
    BY <1>1, AloneStep
<1> QED
    BY <1>1, <1>2, <1>3 DEF Response, MessageOf

\* A lane nothing happens to keeps its stream.
LEMMA StreamKept ==
    ASSUME NEW k \in Lanes, StreamInv(k),
           state'[k] = state[k], at'[k] = at[k], game'[k] = game[k], action'[k] = action[k],
           bpc' \in Active => bpc \in Active /\ bound'[k] = bound[k]
                              /\ (k \in Requested' <=> k \in Requested)
    PROVE  StreamInv(k)'
<1>1. Answered(k)' = Answered(k) \/ bpc' \notin Active
    BY DEF Answered
<1>2. Playing(k)' <=> Playing(k)
    BY DEF Playing, Acked
<1>3. Acked(k)' <=> Acked(k)
    BY DEF Acked
<1>4. bpc' \in Active /\ Playing(k)' => StreamAt(k)'
    BY <1>1, <1>2 DEF Claiming, StreamInv, StreamAt
<1> QED
    BY <1>2, <1>3, <1>4 DEF Claiming, StreamInv

\* A worker's step keeps its game on course and in step with its stream.
LEMMA WorkerStreams ==
    ASSUME TypeOK, Handover, Streams, NEW l \in Lanes, Worker(l)
    PROVE  Streams'
<1>1. UNCHANGED <<brokerVars, start, cancel, action>>
    BY WorkerIsLocal
<1>2. bpc' = bpc /\ requests' = requests /\ bound' = bound /\ collected' = collected
      /\ action' = action /\ Requested' = Requested
    BY <1>1 DEF brokerVars, Requested
<1>3. \A k \in Lanes : k # l => state'[k] = state[k] /\ at'[k] = at[k] /\ game'[k] = game[k]
    BY WorkerIsLocal
<1>4. ASSUME NEW k \in Lanes, k # l PROVE StreamInv(k)'
    BY <1>2, <1>3, <1>4, StreamKept DEF Streams
<1>5. bpc \in Active => l \notin Requested /\ ~ cancel
    BY WorkerIsFree DEF Requested, Handover, PostInv
<1>6. bpc' \in Active => \A i \in DOMAIN requests' : requests'[i].draw = LearnerDraw(game'[requests'[i].lane])
    <2> SUFFICES ASSUME bpc \in Active, NEW i \in DOMAIN requests
                 PROVE  requests[i].draw = LearnerDraw(game'[requests[i].lane])
        BY <1>2
    <2>1. requests[i].lane \in Lanes
        BY RequestLanes
    <2>2. requests[i].lane # l
        BY WorkerIsFree
    <2>3. game'[requests[i].lane] = game[requests[i].lane]
        BY <1>3, <2>1, <2>2
    <2> QED
        BY <2>3 DEF Streams
<1>7. \A i \in DOMAIN collected' : collected'[i].choices = AloneChoices(collected'[i].episode)
    BY <1>2 DEF Streams
<1>8. StreamInv(l)'
    <2>1. StreamInv(l) /\ MailInv(l) /\ MailInv(l)'
        BY WorkerMail DEF Streams, Handover
    <2>2. bpc' = bpc /\ bound'[l] = bound[l] /\ action'[l] = action[l]
          /\ (bpc \in Active => l \notin Requested /\ l \notin Requested')
        BY <1>2, <1>5
    <2>3. game[l] \in Games => Sent(l) \in {"terminal", "decision"}
        BY GameTypes, NoneAssumption DEF Sent
    <2> USE DEF TypeOK, MailType, WorkerType, mailboxVars, sharedVars, Goto
    <2>4. CASE Enter(l) \/ PassGate(l) \/ Cancelled(l) \/ Publish(l) \/ TerminalAck(l)
        <3>1. state'[l] = state[l] /\ game'[l] = game[l]
            BY <2>4 DEF Enter, PassGate, Cancelled, Publish, TerminalAck, Gone
        <3>2. \/ at[l] = "spawned" /\ at'[l] = "gate"
              \/ at[l] = "gate" /\ at'[l] = "claim"
              \/ at'[l] = "gone"
              \/ at[l] = "play" /\ at'[l] = "write" /\ Response(game[l]) # "opponent"
              \/ Acked(l) /\ at'[l] = "claim"
            BY <2>4 DEF Enter, PassGate, Cancelled, Publish, TerminalAck, Gone, Acked
        <3> QED
            BY <2>1, <2>2, <3>1, <3>2 DEF Claiming, StreamInv, Playing, Acked, StreamAt, Answered
    <2>5. CASE LoadCounter(l) \/ LostExchange(l)
        <3>1. /\ at[l] \in {"claim", "exchange"}
              /\ \/ at'[l] = "store" /\ game'[l] = None
                 \/ at'[l] = "exchange" /\ game'[l] = game[l]
            BY <2>5 DEF LoadCounter, LostExchange
        <3> QED
            BY <2>1, <2>2, <3>1 DEF Claiming, StreamInv, Playing, Acked
    <2>6. CASE CompareExchange(l)
        <3>1. game'[l] = NewGame(seen[l]) /\ seen[l] \in Episodes
            BY <2>1, <2>6, Ranges DEF CompareExchange, MailInv, SharedType
        <3>2. at[l] = "exchange" /\ at'[l] \in {"play", "fail"}
            BY <2>6 DEF CompareExchange, FailIn
        <3>3. PICK g : g = game'[l]
            OBVIOUS
        <3>4. g.episode \in Episodes /\ g.step = 1 /\ g.step - 1 = 0 /\ g.opponentDraws = 0
              /\ g.choices = <<>>
            BY <3>1, <3>3 DEF NewGame
        <3>5. \A seat : Decided(g.episode, seat, 0) = 0
            <4> TAKE seat
            <4> QED
                BY <3>4, DecidedCounts
        <3>6. Len(Seats[g.episode]) \in Nat
            BY <3>4, Ranges
        <3>7. OnCourse(g) /\ \A seat : Decided(g.episode, seat, g.step - 1) = 0
            BY <3>4, <3>5, <3>6 DEF OnCourse
        <3> QED
            BY <2>1, <2>2, <3>2, <3>3, <3>7 DEF Claiming, StreamInv, Playing, Acked, StreamAt, Answered
    <2>7. CASE OpponentStep(l)
        <3>1. at[l] = "play" /\ game[l] \in Games /\ Response(game[l]) = "opponent"
            BY <2>7, GameSteps DEF OpponentStep, Handover
        <3>2. CASE game'[l] = game[l]
            <4>1. at'[l] = "fail" \/ (at'[l] = "play" /\ state' = state)
                BY <2>7, <3>1, GameSteps DEF OpponentStep, Handover
            <4> QED
                BY <2>1, <2>2, <3>1, <3>2, <4>1 DEF Claiming, StreamInv, Playing, Acked, StreamAt, Answered
        <3>3. CASE game'[l] # game[l]
            <4>1. game'[l] = OpponentMoved(game[l]) /\ OpponentMoved(game[l]) \in Games /\ at'[l] = "play"
                BY <2>7, <3>1, <3>3, GameSteps DEF Handover
            <4>2. PICK g : g = game[l]
                OBVIOUS
            <4>3. PICK h : h = game'[l]
                OBVIOUS
            <4>4. g \in Games /\ h \in Games /\ OnCourse(g) /\ Response(g) = "opponent"
                BY <2>1, <3>1, <4>1, <4>2, <4>3, NoneAssumption DEF Claiming, StreamInv
            <4>5. g.step <= Len(Seats[g.episode]) /\ Seats[g.episode][g.step] = "opponent"
                BY <4>4, Deciding
            <4>6. g.opponentDraws = Decided(g.episode, "opponent", g.step - 1)
                BY <4>4 DEF OnCourse
            <4>7. h.episode = g.episode /\ h.step = g.step + 1
                  /\ h.choices = Append(g.choices, Draw(g.episode, "opponent", g.opponentDraws + 1))
                  /\ h.opponentDraws = g.opponentDraws + 1
                BY <4>1, <4>2, <4>3 DEF OpponentMoved
            <4>8. /\ OnCourse(h)
                  /\ Decided(h.episode, "learner", h.step - 1) = Decided(g.episode, "learner", g.step - 1)
                            + (IF Seats[g.episode][g.step] = "learner" THEN 1 ELSE 0)
                <5>1. h.choices = Append(g.choices, Draw(g.episode, Seats[g.episode][g.step],
                           Decided(g.episode, Seats[g.episode][g.step], g.step - 1) + 1))
                    BY <4>5, <4>6, <4>7
                <5>2. h.opponentDraws = g.opponentDraws
                             + (IF Seats[g.episode][g.step] = "opponent" THEN 1 ELSE 0)
                    BY <4>5, <4>7
                <5> QED
                    BY <4>4, <4>5, <4>7, <5>1, <5>2, CourseKept
            <4>9. Decided(g.episode, "learner", g.step - 1) \in Nat
                BY <4>4, DecidedCounts DEF Games
            <4>10. Decided(h.episode, "learner", h.step - 1) = Decided(g.episode, "learner", g.step - 1)
                BY <4>5, <4>8, <4>9
            <4>11. state[l] = "worker" /\ state' = state
                BY <2>1, <2>7 DEF OpponentStep, MailInv, Owning
            <4> QED
                BY <2>1, <2>2, <3>1, <4>1, <4>2, <4>3, <4>4, <4>7, <4>8, <4>10, <4>11, NoneAssumption
                DEF Claiming, StreamInv, Playing, Acked, StreamAt, Answered
        <3> QED
            BY <3>2, <3>3
    <2>8. CASE WriteMessage(l) \/ StoreState(l) \/ NotifyBroker(l)
        <3>1. game' = game /\ at[l] \in {"write", "store", "notify"}
              /\ at'[l] \in {"store", "notify", "await", "gone"}
            BY <2>8 DEF WriteMessage, StoreState, NotifyBroker
        <3>2. game[l] # None /\ at'[l] = "await" => state'[l] \in {"terminal", "decision"}
            BY <2>1, <2>3, <2>8 DEF WriteMessage, StoreState, NotifyBroker, MailInv
        <3>3. at'[l] = "await" => game[l] # None
            BY <2>1, <3>1 DEF MailInv
        <3> QED
            BY <2>1, <2>2, <3>1, <3>2, <3>3 DEF Claiming, StreamInv, Playing, Acked, StreamAt, Answered
    <2>9. CASE SeeAction(l)
        <3>1. at[l] = "await" /\ Sent(l) = "decision" /\ state[l] = "action"
            BY <2>1, <2>9 DEF SeeAction, MailInv
        <3>2. state' = state /\ game' = game /\ at'[l] = "read"
            BY <2>9, <3>1 DEF SeeAction
        <3> QED
            BY <2>1, <2>2, <3>1, <3>2 DEF Claiming, StreamInv, Playing, Acked, StreamAt, Answered
    <2>10. CASE ReadAction(l)
        <3>1. at[l] = "read" /\ game[l] \in Games /\ Sent(l) = "decision" /\ state[l] = "action"
            BY <2>1, <2>10, GameSteps DEF ReadAction, Handover, MailInv
        <3>2. state'[l] = "worker"
            BY <2>10, GameSteps DEF Handover
        <3>3. CASE at'[l] = "fail"
            <4>1. game' = game
                BY <2>10, <3>1, <3>3, GameSteps DEF Handover
            <4> QED
                BY <2>1, <3>3, <4>1 DEF Claiming, StreamInv, Playing, Acked
        <3>4. CASE at'[l] # "fail"
            <4>1. /\ game'[l] = Stepped(game[l], action[l].draw) /\ at'[l] = "play"
                  /\ game'[l] \in Games /\ action[l].draw \in Draws
                BY <2>10, <3>1, <3>4, GameSteps DEF Handover
            <4>2. PICK g : g = game[l]
                OBVIOUS
            <4>3. PICK h : h = game'[l]
                OBVIOUS
            <4>4. g \in Games /\ h \in Games /\ OnCourse(g) /\ Response(g) # "opponent"
                BY <2>1, <3>1, <4>1, <4>2, <4>3, NoneAssumption DEF Claiming, StreamInv
            <4>5. Response(g) # "terminal"
                BY <3>1, <4>2, <4>4, Deciding, NoneAssumption DEF Sent
            <4>6. g.step <= Len(Seats[g.episode]) /\ Seats[g.episode][g.step] = "learner"
                BY <4>4, <4>5, Deciding
            <4>7. action[l].draw
                     = Draw(g.episode, "learner", Decided(g.episode, "learner", g.step - 1) + 1)
                BY <2>1, <3>1, <4>2 DEF Claiming, StreamInv, LearnerDraw
            <4>8. h = [episode |-> g.episode, step |-> g.step + 1, opponentDraws |-> g.opponentDraws,
                       choices |-> Append(g.choices, action[l].draw)]
                BY <4>1, <4>2, <4>3, <4>4, GameTypes
            <4>9. h.episode = g.episode /\ h.step = g.step + 1
                  /\ h.choices = Append(g.choices, action[l].draw)
                  /\ h.opponentDraws = g.opponentDraws
                BY <4>8
            <4>10. h.opponentDraws = g.opponentDraws + 0
                BY <4>4, <4>9 DEF Games
            <4>11. /\ OnCourse(h)
                   /\ Decided(h.episode, "learner", h.step - 1) = Decided(g.episode, "learner", g.step - 1)
                            + (IF Seats[g.episode][g.step] = "learner" THEN 1 ELSE 0)
                <5>1. h.choices = Append(g.choices, Draw(g.episode, Seats[g.episode][g.step],
                           Decided(g.episode, Seats[g.episode][g.step], g.step - 1) + 1))
                    BY <4>6, <4>7, <4>9
                <5>2. h.opponentDraws = g.opponentDraws
                             + (IF Seats[g.episode][g.step] = "opponent" THEN 1 ELSE 0)
                    BY <4>6, <4>10
                <5> QED
                    BY <4>4, <4>6, <4>9, <5>1, <5>2, CourseKept
            <4>12. Decided(h.episode, "learner", h.step - 1)
                      = Decided(g.episode, "learner", g.step - 1) + 1
                BY <4>6, <4>11
            <4> QED
                BY <2>1, <2>2, <3>1, <3>2, <4>1, <4>2, <4>3, <4>4, <4>9, <4>11, <4>12, NoneAssumption
                DEF Claiming, StreamInv, Playing, Acked, StreamAt, Answered
        <3> QED
            BY <3>3, <3>4
    <2>11. CASE RecordFailure(l) \/ RaiseFailure(l)
        <3>1. game' = game /\ at'[l] \in {"raise", "gone"}
            BY <2>11 DEF RecordFailure, RaiseFailure
        <3> QED
            BY <2>1, <3>1 DEF Claiming, StreamInv, Playing, Acked
    <2> QED
        BY <2>4, <2>5, <2>6, <2>7, <2>8, <2>9, <2>10, <2>11 DEF Worker
<1> QED
    BY <1>4, <1>6, <1>7, <1>8 DEF Streams, LearnerDraw

\* An answered decision takes the draw the game is at; the broker's binding
\* is the game's, so bind never refuses.
LEMMA StreamBinds ==
    ASSUME TypeOK, Handover, Streams, NEW l \in Lanes, LookingAt(l), state[l] # "done"
    PROVE  LET b == Bind(bound[l], game[l].episode)
           IN  /\ ~ Answered(l) /\ Playing(l) /\ bpc \in Active
               /\ b.episode = game[l].episode
               /\ b.draws = Decided(game[l].episode, "learner", game[l].step - 1)
<1>1. bpc = "lane" /\ l \in remaining /\ state[l] \in {"decision", "terminal"}
      /\ game[l] \in Games /\ at[l] = "await"
    BY LookedAt
<1>2. l \notin Requested
    BY <1>1 DEF Handover, PostInv, Active, Waiting, Requested
<1>3. ~ Answered(l) /\ Playing(l) /\ bpc \in Active
    BY <1>1, <1>2, NoneAssumption DEF Answered, Playing, Acked, Active
<1>4. StreamAt(l)
    BY <1>3 DEF Streams, StreamInv
<1> QED
    BY <1>3, <1>4 DEF StreamAt, Bind

\* The broker keeps every stream where its game is.
LEMMA BrokerStreams ==
    ASSUME TypeOK, Handover, Streams, Broker
    PROVE  Streams'
<1> USE DEF mailboxVars, sharedVars, workerVars, brokerVars
<1>1. /\ \A k \in Lanes : StreamInv(k) /\ MailInv(k)
      /\ \A i \in DOMAIN collected : collected[i].choices = AloneChoices(collected[i].episode)
    BY DEF Streams, Handover
<1>2. bpc \in Active => \A i \in DOMAIN requests : requests[i].draw = LearnerDraw(game[requests[i].lane])
    BY DEF Streams
<1>3. ASSUME UNCHANGED <<state, action, at, game, requests, bound, collected>>,
             bpc' \in Active => bpc \in Active
      PROVE  Streams'
    <2>1. Requested' = Requested
        BY <1>3 DEF Requested
    <2>2. \A k \in Lanes : StreamInv(k)'
        BY <1>1, <1>3, <2>1, StreamKept
    <2> QED
        BY <1>1, <1>2, <1>3, <2>2 DEF Streams
<1>4. ASSUME NEW l \in Lanes, Spawn(l) PROVE Streams'
    <2>1. bpc = "spawn" /\ at[l] = "unborn"
        BY <1>4, SpawnsUnborn
    <2>2. UNCHANGED <<state, action, game, requests, bound, collected>>
        BY <1>4 DEF Spawn
    <2>3. Requested' = Requested /\ bpc \in Active
        BY <2>1, <2>2 DEF Requested, Active
    <2>4. \A k \in Lanes : at'[k] = at[k] \/ (k = l /\ at'[k] = "spawned")
        BY <1>4 DEF Spawn, Goto, TypeOK, WorkerType
    <2>5. ASSUME NEW k \in Lanes PROVE StreamInv(k)'
        <3>1. CASE at'[k] = at[k]
            BY <1>1, <2>2, <2>3, <3>1, StreamKept
        <3>2. CASE at'[k] # at[k]
            <4>1. k = l /\ at'[k] = "spawned"
                BY <2>4, <3>2
            <4> QED
                BY <1>1, <2>1, <2>2, <2>3, <4>1 DEF Claiming, StreamInv, Playing, Acked
        <3> QED
            BY <3>1, <3>2
    <2> QED
        BY <1>1, <1>2, <2>2, <2>3, <2>5 DEF Streams
<1>5. ASSUME NEW l \in Lanes, LookAt(l) PROVE Streams'
    <2>1. LookingAt(l)
        BY <1>5 DEF LookAt
    <2>2. bpc = "lane" /\ l \in remaining /\ bpc \in Active
        BY <2>1, LookedAt DEF Active
    <2>3. CASE AnswerDecision(l)
        <3>1. PICK b : b = Bind(bound[l], game[l].episode)
            OBVIOUS
        <3>2. /\ state[l] = "decision" /\ game[l] \in Games
              /\ UNCHANGED <<mailboxVars, sharedVars, workerVars, doneWorkers, collected>>
            BY <2>1, <2>3, Answers
        <3>3. PICK n : n = Decided(game[l].episode, "learner", game[l].step - 1)
            OBVIOUS
        <3>4. ~ Answered(l) /\ Playing(l) /\ b.episode = game[l].episode /\ b.draws = n
            BY <2>1, <3>1, <3>2, <3>3, StreamBinds
        <3>5. PICK q : q = RequestFor(l, n + 1)
            OBVIOUS
        <3>6. /\ bound' = [bound EXCEPT ![l] = [episode |-> game[l].episode, draws |-> n + 1]]
              /\ q \in Requests /\ requests' = InOrder(requests, q)
              /\ remaining' = remaining \ {l} /\ UNCHANGED <<bpc, outcome>>
            BY <2>1, <2>3, <3>1, <3>4, <3>5, Answers
        <3>7. PICK p \in 1 .. Len(requests) + 1 :
                 /\ requests' \in Seq(Requests) /\ Len(requests') = Len(requests) + 1
                 /\ \A i \in 1 .. Len(requests) + 1 : requests'[i] =
                        IF i < p THEN requests[i] ELSE IF i = p THEN q ELSE requests[i - 1]
            BY <3>6, InOrderInserts, ZenonT(40) DEF TypeOK, BrokerType
        <3>8. requests \in Seq(Requests) /\ Len(requests) \in Nat
              /\ DOMAIN requests = 1 .. Len(requests)
              /\ DOMAIN requests' = 1 .. Len(requests) + 1
            BY <3>7 DEF TypeOK, BrokerType
        <3>9. \A i \in DOMAIN requests' :
                 requests'[i] = q \/ \E j \in DOMAIN requests : requests'[i] = requests[j]
            BY <3>7, <3>8
        <3>10. q \in {requests'[i] : i \in DOMAIN requests'}
            BY <3>7, <3>8
        <3>11. \A j \in DOMAIN requests : \E i \in DOMAIN requests' : requests'[i] = requests[j]
            <4> SUFFICES ASSUME NEW j \in DOMAIN requests
                         PROVE  \E i \in DOMAIN requests' : requests'[i] = requests[j]
                OBVIOUS
            <4>1. CASE j < p
                BY <3>7, <3>8, <4>1
            <4>2. CASE j >= p
                <5>1. j + 1 \in 1 .. Len(requests) + 1 /\ ~ (j + 1 < p) /\ j + 1 # p /\ (j + 1) - 1 = j
                    BY <3>7, <3>8, <4>2
                <5>2. requests'[j + 1] = requests[(j + 1) - 1]
                    BY <3>7, <5>1
                <5> QED
                    BY <3>8, <5>1, <5>2
            <4> QED
                BY <3>7, <3>8, <4>1, <4>2
        <3>12. q.lane = l /\ q.draw = LearnerDraw(game[l])
            BY <3>3, <3>5 DEF RequestFor, LearnerDraw
        <3>13. \A k : k \in Requested' <=> k \in Requested \/ k = l
            <4>1. \A k : k \in Requested' => k \in Requested \/ k = l
                BY <3>9, <3>12 DEF Requested
            <4>2. l \in Requested'
                BY <3>10, <3>12 DEF Requested
            <4>3. \A k \in Requested : k \in Requested'
                BY <3>11 DEF Requested
            <4> QED
                BY <4>1, <4>2, <4>3
        <3>14. ASSUME NEW k \in Lanes PROVE StreamInv(k)'
            <4>1. CASE k # l
                <5>1. bound'[k] = bound[k]
                    BY <3>6, <4>1 DEF TypeOK, BrokerType
                <5> QED
                    BY <1>1, <3>2, <3>6, <3>13, <4>1, <5>1, StreamKept
            <4>2. CASE k = l
                <5>1. bound'[l] = [episode |-> game[l].episode, draws |-> n + 1]
                    BY <3>6 DEF TypeOK, BrokerType
                <5>2. n \in Nat /\ game[l].episode \in Episodes
                    BY <3>2, <3>3, DecidedCounts DEF Games
                <5>3. bound'[l] # None
                    BY <5>1, <5>2, NoneAssumption
                <5>4. Answered(l)'
                    BY <2>1, <3>2, <3>13, LookedAt DEF Answered
                <5>5. StreamAt(l)'
                    BY <3>2, <3>3, <5>1, <5>3, <5>4 DEF StreamAt
                <5>6. at[l] = "await" /\ state[l] = "decision"
                    BY <2>1, <3>2, LookedAt
                <5> QED
                    BY <1>1, <3>2, <4>2, <5>5, <5>6 DEF Claiming, StreamInv, Playing, Acked
            <4> QED
                BY <4>1, <4>2
        <3>15. \A i \in DOMAIN requests' : requests'[i].draw = LearnerDraw(game'[requests'[i].lane])
            BY <1>2, <2>2, <3>2, <3>9, <3>12
        <3> QED
            BY <1>1, <3>2, <3>14, <3>15 DEF Streams, LearnerDraw
    <2>4. CASE CollectTerminal(l)
        <3>1. PICK b : b = Bind(bound[l], game[l].episode)
            OBVIOUS
        <3>2. PICK t : t = [episode |-> game[l].episode, choices |-> game[l].choices]
            OBVIOUS
        <3>3. /\ state[l] = "terminal" /\ game[l] \in Games
              /\ UNCHANGED <<message, action, currentId, failure, sharedVars, workerVars,
                             requests, doneWorkers>>
            BY <2>1, <2>4, Collects
        <3>4. b.episode = game[l].episode
            BY <2>1, <3>1, <3>3, StreamBinds
        <3>5. CASE Len(collected) = EndEpisodeId
            <4>1. bpc' = "stop" /\ UNCHANGED <<bound, collected, remaining, state>>
                BY <2>1, <2>4, <3>5, Collects
            <4> QED
                BY <1>3, <3>3, <4>1 DEF Active
        <3>6. CASE Len(collected) # EndEpisodeId
            <4>1. /\ collected' = Append(collected, t)
                  /\ bound' = [bound EXCEPT ![l] = None]
                  /\ state' = [state EXCEPT ![l] = "worker"]
                  /\ remaining' = remaining \ {l} /\ UNCHANGED <<bpc, outcome>>
                BY <2>1, <2>4, <3>1, <3>2, <3>4, <3>6, Collects
            <4>2. Requested' = Requested
                BY <3>3 DEF Requested
            <4>3. ASSUME NEW k \in Lanes PROVE StreamInv(k)'
                <5>1. CASE k # l
                    <6>1. bound'[k] = bound[k] /\ state'[k] = state[k]
                        BY <4>1, <5>1 DEF TypeOK, MailType, BrokerType
                    <6> QED
                        BY <1>1, <3>3, <4>1, <4>2, <6>1, StreamKept
                <5>2. CASE k = l
                    <6>1. bound'[l] = None /\ state'[l] = "worker"
                        BY <4>1 DEF TypeOK, MailType, BrokerType
                    <6>2. at[l] = "await"
                        BY <2>1, <3>3, LookedAt
                    <6> QED
                        BY <1>1, <3>3, <5>2, <6>1, <6>2 DEF Claiming, StreamInv, Playing, Acked
                <5> QED
                    BY <5>1, <5>2
            <4>4. t.choices = AloneChoices(t.episode)
                <5>1. PICK g : g = game[l]
                    OBVIOUS
                <5>2. g \in Games /\ MessageOf(g).kind = "terminal" /\ OnCourse(g)
                    BY <1>1, <2>1, <3>3, <5>1, LookedAt, NoneAssumption DEF Claiming, StreamInv
                <5>3. PICK e : e = g.episode
                    OBVIOUS
                <5>4. e \in Episodes /\ g.step \in Nat /\ g.choices \in Seq(Draws)
                    BY <5>2, <5>3 DEF Games
                <5>5. Seats[e] \in Seq({"learner", "opponent"}) /\ Len(Seats[e]) \in Nat
                      /\ DOMAIN Seats[e] = 1 .. Len(Seats[e])
                    BY <5>4, Ranges
                <5>6. g.step > Len(Seats[e])
                    BY <5>2, <5>3, Deciding
                <5>7. g.step - 1 = Len(Seats[e])
                    BY <5>2, <5>3, <5>4, <5>5, <5>6 DEF OnCourse
                <5>8. Len(g.choices) = Len(Seats[e])
                      /\ \A i \in 1 .. Len(Seats[e]) : g.choices[i] = AloneChoices(e)[i]
                    BY <5>2, <5>3, <5>7 DEF OnCourse
                <5>9. PICK a : a = AloneChoices(e)
                    OBVIOUS
                <5>10. a = [i \in 1 .. Len(Seats[e]) |-> a[i]]
                    BY <5>5, <5>9 DEF AloneChoices
                <5>11. g.choices = [i \in 1 .. Len(Seats[e]) |-> g.choices[i]]
                    BY <5>4, <5>8
                <5>12. g.choices = a
                    BY <5>8, <5>9, <5>10, <5>11
                <5> QED
                    BY <3>2, <5>1, <5>3, <5>9, <5>12
            <4>5. \A i \in DOMAIN collected' : collected'[i] = t
                     \/ (i \in DOMAIN collected /\ collected'[i] = collected[i])
                BY <4>1 DEF TypeOK, BrokerType
            <4>6. \A i \in DOMAIN collected' : collected'[i].choices = AloneChoices(collected'[i].episode)
                BY <1>1, <4>4, <4>5
            <4> QED
                BY <1>2, <2>2, <3>3, <4>3, <4>6 DEF Streams
        <3> QED
            BY <3>5, <3>6
    <2>5. CASE CountDone(l) \/ Unexpected(l)
        BY <1>3, <2>2, <2>5 DEF CountDone, Unexpected
    <2> QED
        BY <1>5, <2>3, <2>4, <2>5 DEF LookAt
<1>6. ASSUME OpenGate \/ Swap \/ LoopEnds \/ Stop \/ Join PROVE Streams'
    BY <1>3, <1>6 DEF OpenGate, Swap, LoopEnds, Stop, Join, BGoto, Active
<1>7. ASSUME CheckSnapshot PROVE Streams'
    BY <1>3, <1>7, SnapshotWaits DEF Active
<1>8. ASSUME WriteActions PROVE Streams'
    <2>1. /\ bpc = "write" /\ bpc' = "release"
          /\ UNCHANGED <<state, at, game, requests, bound, collected>>
        BY <1>8, WritesRequested
    <2>2. Requested' = Requested
        BY <2>1 DEF Requested
    <2>3. \A k \in Lanes : action'[k] = action[k] \/ (at[k] = "await" /\ state[k] = "decision")
        <3>1. \A i \in DOMAIN requests :
                 at[requests[i].lane] = "await" /\ state[requests[i].lane] = "decision"
            BY <2>1 DEF Handover, PostInv, Active, Waiting
        <3> QED
            BY <1>8, <3>1, WritesRequested
    <2>4. ASSUME NEW k \in Lanes PROVE StreamInv(k)'
        <3>1. CASE action'[k] = action[k]
            BY <1>1, <2>1, <2>2, <3>1, StreamKept DEF Active
        <3>2. CASE at[k] = "await" /\ state[k] = "decision"
            <4>1. (Playing(k)' <=> Playing(k)) /\ (StreamAt(k)' <=> StreamAt(k)) /\ ~ Acked(k)'
                BY <2>1, <2>2, <3>2 DEF Playing, Acked, StreamAt, Answered
            <4> QED
                BY <1>1, <2>1, <3>2, <4>1 DEF Claiming, StreamInv, Active
        <3> QED
            BY <2>3, <3>1, <3>2
    <2> QED
        BY <1>1, <1>2, <2>1, <2>4 DEF Streams, Active
<1>9. ASSUME ReleaseAction PROVE Streams'
    <2>1. PICK r : r = requests[1]
        OBVIOUS
    <2>2. PICK l : l = r.lane
        OBVIOUS
    <2>3. /\ bpc = "release" /\ 1 \in DOMAIN requests
          /\ state' = [state EXCEPT ![l] = "action"]
          /\ \A i \in DOMAIN requests' : i + 1 \in DOMAIN requests /\ i + 1 # 1
                                         /\ requests'[i] = requests[i + 1]
          /\ UNCHANGED <<message, action, currentId, failure, sharedVars, workerVars,
                         remaining, bound, doneWorkers, collected, outcome>>
        BY <1>9, <2>1, <2>2, ReleasesFirst
    <2>4. bpc \in Active
        BY <2>3 DEF Active
    <2>5. l \in Lanes /\ Waiting(r) /\ Written(r) /\ r.draw = LearnerDraw(game[l])
        BY <1>2, <2>1, <2>2, <2>3, <2>4, RequestLanes DEF Handover, PostInv
    <2>6. \A k \in Lanes : k # l => (k \in Requested' <=> k \in Requested)
        <3>1. requests \in Seq(Requests) /\ requests' = Tail(requests) /\ requests # <<>>
            BY <1>9, <2>3 DEF ReleaseAction, TypeOK, BrokerType
        <3>2. \A j \in DOMAIN requests : j # 1 => j - 1 \in DOMAIN requests'
                                                /\ requests'[j - 1] = requests[j]
            BY <3>1
        <3>3. \A k : k # l /\ k \in Requested => k \in Requested'
            <4> SUFFICES ASSUME NEW k, k # l, k \in Requested PROVE k \in Requested'
                OBVIOUS
            <4>1. PICK j \in DOMAIN requests : requests[j].lane = k
                BY DEF Requested
            <4>2. j # 1
                BY <2>1, <2>2, <4>1
            <4> QED
                BY <3>2, <4>1, <4>2 DEF Requested
        <3>4. \A k : k \in Requested' => k \in Requested
            BY <2>3 DEF Requested
        <3> QED
            BY <3>3, <3>4
    <2>7. ASSUME NEW k \in Lanes PROVE StreamInv(k)'
        <3>1. CASE k # l
            <4>1. state'[k] = state[k]
                BY <2>3, <3>1 DEF TypeOK, MailType
            <4> QED
                BY <1>1, <2>3, <2>4, <2>6, <3>1, <4>1, StreamKept
        <3>2. CASE k = l
            <4>1. state'[l] = "action" /\ at[l] = "await" /\ state[l] = "decision"
                BY <2>2, <2>3, <2>5 DEF TypeOK, MailType, Waiting
            <4>2. l \in Requested
                BY <2>1, <2>2, <2>3 DEF Requested
            <4>3. Answered(l) /\ Answered(l)'
                BY <2>3, <4>1, <4>2 DEF Answered
            <4>4. StreamAt(l)' <=> StreamAt(l)
                BY <2>3, <4>3 DEF StreamAt
            <4>5. Playing(l)' <=> Playing(l)
                BY <2>3, <4>1 DEF Playing, Acked
            <4>6. action'[l].draw = LearnerDraw(game'[l])
                BY <2>2, <2>3, <2>5 DEF Written
            <4> QED
                BY <1>1, <2>3, <2>4, <3>2, <4>1, <4>4, <4>5, <4>6 DEF Claiming, StreamInv, Acked, LearnerDraw
        <3> QED
            BY <3>1, <3>2
    <2>8. \A i \in DOMAIN requests' : requests'[i].draw = LearnerDraw(game'[requests'[i].lane])
        BY <1>2, <2>3, <2>4
    <2> QED
        BY <1>1, <2>3, <2>7, <2>8 DEF Streams, LearnerDraw
<1> QED
    BY <1>4, <1>5, <1>6, <1>7, <1>8, <1>9 DEF Broker

-----------------------------------------------------------------------------
(* Third layer: the episodes                                               *)

\* What is collected belongs to one of the episodes.
LEMMA CollectedEpisodes ==
    ASSUME TypeOK, NEW i \in DOMAIN collected
    PROVE  collected[i].episode \in Episodes
<1>1. collected[i] \in Trajectories
    BY DEF TypeOK, BrokerType
<1> QED
    BY <1>1 DEF Trajectories

\* An uncollected episode leaves room in the vector of episodes.
LEMMA RoomLeft ==
    ASSUME TypeOK, Ledger, NEW e \in Episodes, e \notin CollectedIds
    PROVE  Len(collected) < EndEpisodeId
<1> DEFINE S == 1 .. Len(collected)
           T == Episodes \ {e}
           f == [i \in S |-> collected[i].episode]
<1>1. Len(collected) \in Nat /\ S = DOMAIN collected
    BY DEF TypeOK, BrokerType
<1>2. \A i \in S : collected[i].episode \in Episodes
    BY <1>1, CollectedEpisodes
<1>3. \A i \in S : collected[i].episode \in T
    BY <1>1, <1>2 DEF CollectedIds
<1>4. \A i, j \in S : f[i] = f[j] => i = j
    BY <1>1 DEF Ledger
<1>5. f \in Injection(S, T)
    BY <1>3, <1>4 DEF Injection, IsInjective
<1>6. IsFiniteSet(T) /\ Cardinality(T) = EndEpisodeId - 1
    <2>1. IsFiniteSet(Episodes) /\ Cardinality(Episodes) = EndEpisodeId
        BY Ranges
    <2>2. IsFiniteSet(Episodes \ {e})
          /\ Cardinality(Episodes \ {e}) = Cardinality(Episodes) - 1
        BY <2>1, FS_RemoveElement
    <2> QED
        BY <2>1, <2>2
<1>7. Cardinality(S) <= Cardinality(T)
    BY <1>5, <1>6, FS_Injection
<1>8. Cardinality(S) = Len(collected)
    <2>1. 1 \in Int /\ Len(collected) \in Int
        BY <1>1
    <2>2. Cardinality(S) = IF 1 > Len(collected) THEN 0 ELSE Len(collected) - 1 + 1
        BY <2>1, FS_Interval
    <2> QED
        BY <1>1, <2>2
<1> QED
    BY <1>1, <1>6, <1>7, <1>8, Ranges

\* When nobody has a game left and the counter is at its end, the vector is
\* the whole range of episodes.
LEMMA AllCollected ==
    ASSUME TypeOK, Ledger, \A l \in Lanes : state[l] = "done"
    PROVE  Complete
<1> DEFINE S == 1 .. Len(collected)
           f == [i \in S |-> collected[i].episode]
<1>1. Len(collected) \in Nat /\ S = DOMAIN collected
    BY DEF TypeOK, BrokerType
<1>2. \A i \in S : collected[i].episode \in Episodes
    BY <1>1, CollectedEpisodes
<1>3. nextEpisode = EndEpisodeId /\ \A l \in Lanes : game[l] = None
    BY Ranges DEF Ledger, HoldInv
<1>4. \A e \in Episodes : e \in CollectedIds
    BY <1>3, Ranges DEF Ledger
<1>5. CollectedIds = Episodes
    BY <1>1, <1>2, <1>4 DEF CollectedIds
<1>6. \A e \in Episodes : \E i \in S : f[i] = e
    BY <1>1, <1>4 DEF CollectedIds
<1>7. \A i, j \in S : f[i] = f[j] => i = j
    BY <1>1 DEF Ledger
<1>8. f \in Injection(S, Episodes) /\ f \in Surjection(S, Episodes)
    BY <1>2, <1>6, <1>7 DEF Injection, IsInjective, Surjection
<1>9. Cardinality(S) = EndEpisodeId
    BY <1>8, Ranges, FS_Injection
<1>10. Cardinality(S) = Len(collected)
    <2>1. 1 \in Int /\ Len(collected) \in Int
        BY <1>1
    <2>2. Cardinality(S) = IF 1 > Len(collected) THEN 0 ELSE Len(collected) - 1 + 1
        BY <2>1, FS_Interval
    <2> QED
        BY <1>1, <2>2
<1> QED
    BY <1>5, <1>9, <1>10 DEF Complete, CollectedIds

\* What a worker's step does to the episode of its lane: it claims the next
\* one, lets go of a collected one, or keeps its own.
LEMMA WorkerHolds ==
    ASSUME TypeOK, Handover, Ledger, NEW l \in Lanes, HoldInv(l), Worker(l)
    PROVE  /\ HoldInv(l)'
           /\ \/ /\ at[l] = "exchange" /\ nextEpisode < EndEpisodeId /\ nextEpisode' = nextEpisode + 1
                 /\ game'[l] # None /\ game'[l].episode = nextEpisode
              \/ /\ nextEpisode' = nextEpisode /\ at[l] \in {"claim", "exchange"}
                 /\ game'[l] = None /\ ~ Holds(l)'
              \/ /\ nextEpisode' = nextEpisode /\ (game'[l] = None <=> game[l] = None)
                 /\ (game[l] # None => game'[l].episode = game[l].episode)
                 /\ (Holds(l)' => Holds(l))
           /\ bpc \in Active /\ state'[l] = "done" /\ at'[l] = "gone" => l \in ready'
<1> DEFINE Kept == /\ nextEpisode' = nextEpisode /\ (game'[l] = None <=> game[l] = None)
                   /\ (game[l] # None => game'[l].episode = game[l].episode)
           Counts == bpc \in Active /\ state'[l] = "done" /\ at'[l] = "gone" => l \in ready'
<1>1. MailInv(l) /\ MailInv(l)' /\ (bpc \in Active => ~ cancel)
    BY WorkerMail DEF Handover, PostInv
<1>2. CollectedIds' = CollectedIds
    BY WorkerIsLocal DEF brokerVars, CollectedIds
<1>3. nextEpisode \in Nat /\ nextEpisode <= EndEpisodeId /\ EndEpisodeId \in Nat
    BY Ranges DEF TypeOK, SharedType
<1>4. game[l] \in Games => Sent(l) \in {"terminal", "decision"}
    BY GameTypes, NoneAssumption DEF Sent
<1> USE DEF TypeOK, MailType, WorkerType, mailboxVars, sharedVars, Goto
<1>5. CASE Enter(l) \/ PassGate(l) \/ Cancelled(l) \/ Publish(l) \/ TerminalAck(l)
    <2>1. Kept /\ state'[l] = state[l] /\ game'[l] = game[l] /\ phase'[l] = phase[l]
        BY <1>5 DEF Enter, PassGate, Cancelled, Publish, TerminalAck, Gone
    <2>2. \/ at[l] = "spawned" /\ at'[l] = "gate"
          \/ at[l] = "gate" /\ at'[l] = "claim"
          \/ at[l] \in {"gate", "claim", "play", "await", "fail"} /\ cancel /\ at'[l] = "gone"
          \/ at[l] = "play" /\ at'[l] = "write"
          \/ Acked(l) /\ at'[l] = "claim"
        BY <1>1, <1>5 DEF Enter, PassGate, Cancelled, Publish, TerminalAck, Gone, Acked, MailInv
    <2>3. state[l] = "done" => at[l] \in {"notify", "gone"}
        BY DEF HoldInv
    <2> QED
        BY <1>1, <1>2, <2>1, <2>2, <2>3 DEF HoldInv, Holds, Playing, Acked, Claiming
<1>6. CASE LoadCounter(l) \/ LostExchange(l)
    <2>1. /\ at[l] \in {"claim", "exchange"} /\ state'[l] = state[l] /\ phase'[l] = phase[l]
          /\ nextEpisode' = nextEpisode
          /\ \/ at'[l] = "store" /\ game'[l] = None /\ nextEpisode >= EndEpisodeId
             \/ at'[l] = "exchange" /\ game'[l] = game[l]
        BY <1>6 DEF LoadCounter, LostExchange
    <2>2. state[l] = "worker" /\ phase[l] = None
        BY <1>1, <2>1 DEF MailInv, HoldInv, Owning
    <2> QED
        BY <1>2, <1>3, <2>1, <2>2 DEF HoldInv, Holds, Playing, Acked, Claiming
<1>7. CASE CompareExchange(l)
    <2>1. game'[l] = NewGame(seen[l]) /\ seen[l] \in Episodes /\ nextEpisode = seen[l]
          /\ nextEpisode < EndEpisodeId
        BY <1>1, <1>7, Ranges DEF CompareExchange, MailInv, SharedType
    <2>2. at[l] = "exchange" /\ nextEpisode' = nextEpisode + 1 /\ state' = state
          /\ (at'[l] = "fail" \/ (at'[l] = "play" /\ phase' = phase))
        BY <1>7 DEF CompareExchange, FailIn
    <2>3. game'[l] # None /\ game'[l].episode = nextEpisode
        BY <2>1, GameTypes, NoneAssumption DEF NewGame
    <2>4. nextEpisode \notin CollectedIds
        <3>1. \A i \in DOMAIN collected : collected[i].episode \in Nat /\ collected[i].episode < nextEpisode
            BY CollectedEpisodes, Ranges DEF Ledger
        <3> QED
            BY <1>3, <3>1 DEF CollectedIds
    <2>5. state[l] = "worker" /\ phase[l] = None
        BY <1>1, <2>2 DEF MailInv, HoldInv, Owning
    <2> QED
        BY <1>2, <1>3, <2>1, <2>2, <2>3, <2>4, <2>5 DEF HoldInv, Holds, Playing, Acked, Claiming
<1>8. CASE OpponentStep(l) \/ ReadAction(l)
    <2>1. at[l] \in {"play", "read"} /\ at'[l] \in {"play", "fail"} /\ nextEpisode' = nextEpisode
          /\ (at'[l] = "play" => phase'[l] = phase[l])
        BY <1>8, GameSteps DEF OpponentStep, ReadAction, Handover
    <2>2. state'[l] = "worker"
        BY <1>1, <1>8, GameSteps DEF OpponentStep, MailInv, Owning, Handover
    <2>3. game[l] \in Games /\ game'[l] # None /\ game'[l].episode = game[l].episode
        <3>1. game[l] \in Games
            BY <2>1, GameSteps DEF Handover
        <3>2. OpponentMoved(game[l]).episode = game[l].episode
            BY DEF OpponentMoved
        <3>3. \A d \in Draws : Stepped(game[l], d).episode = game[l].episode
            BY <3>1, GameTypes
        <3>4. game'[l] = game[l]
              \/ (game'[l] = OpponentMoved(game[l]) /\ game'[l] \in Games)
              \/ (\E d \in Draws : game'[l] = Stepped(game[l], d) /\ game'[l] \in Games)
            BY <1>8, GameSteps DEF Handover
        <3> QED
            BY <3>1, <3>2, <3>3, <3>4, NoneAssumption
    <2>4. phase[l] = None /\ Holds(l)
        BY <1>1, <2>1, <2>3, NoneAssumption DEF HoldInv, Holds, Playing, Acked, MailInv
    <2> QED
        BY <1>2, <2>1, <2>2, <2>3, <2>4, NoneAssumption DEF HoldInv, Holds, Playing, Acked, Claiming
<1>9. CASE WriteMessage(l) \/ StoreState(l) \/ NotifyBroker(l)
    <2>1. Kept /\ game' = game /\ phase' = phase /\ at[l] \in {"write", "store", "notify"}
          /\ at'[l] \in {"store", "notify", "await", "gone"}
        BY <1>9 DEF WriteMessage, StoreState, NotifyBroker
    <2>2. at'[l] = "await" => game[l] # None /\ state'[l] = Sent(l)
        BY <1>1, <1>9 DEF WriteMessage, StoreState, NotifyBroker, MailInv
    <2>3. at'[l] = "gone" => game[l] = None /\ l \in ready'
        BY <1>4, <1>9 DEF NotifyBroker, WriteMessage, StoreState
    <2>4. \/ at[l] = "write" /\ at'[l] = "store" /\ state' = state /\ state[l] = "worker"
          \/ at[l] = "store" /\ at'[l] = "notify" /\ state'[l] = Sent(l)
          \/ at[l] = "notify" /\ at'[l] = (IF Sent(l) = "done" THEN "gone" ELSE "await")
                               /\ state' = state
        BY <1>1, <1>9 DEF WriteMessage, StoreState, NotifyBroker, MailInv, Owning
    <2>5. phase[l] = None
        BY <2>1 DEF HoldInv
    <2>6. at'[l] \in {"notify", "await", "gone"} => state'[l] = Sent(l)
        BY <1>1, <2>4 DEF MailInv
    <2>7. (game[l] = None => Sent(l) = "done") /\ (game[l] # None => Sent(l) \in {"terminal", "decision"})
        BY <1>4 DEF Sent
    <2>8. at[l] = "write" => game[l] # None
        BY <1>1 DEF MailInv
    <2>9. Holds(l) <=> game[l] # None
        BY <2>1 DEF Holds, Playing, Acked
    <2>10. Holds(l)' => Holds(l)
        BY <2>1, <2>9 DEF Holds, Playing
    <2>11. ~ Acked(l)'
        BY <2>2, <2>7 DEF Acked
    <2>12. game[l] = None => nextEpisode = EndEpisodeId
        BY <2>1, <2>8 DEF HoldInv
    <2>13. state'[l] = "done" => at'[l] \in {"notify", "gone"} /\ game[l] = None
        BY <2>1, <2>4, <2>6, <2>7
    <2>14. at'[l] = "store" => game[l] # None
        BY <2>4, <2>8
    <2>15. HoldInv(l)'
        BY <1>2, <2>1, <2>5, <2>9, <2>10, <2>11, <2>12, <2>13 DEF HoldInv, Claiming
    <2> QED
        BY <2>1, <2>3, <2>10, <2>15
<1>10. CASE SeeAction(l)
    <2>1. at[l] = "await" /\ Sent(l) = "decision" /\ state[l] = "action"
        BY <1>1, <1>10 DEF SeeAction, MailInv
    <2>2. Kept /\ state' = state /\ game' = game /\ at'[l] = "read" /\ phase' = phase
        BY <1>10, <2>1 DEF SeeAction
    <2> QED
        BY <1>2, <2>1, <2>2 DEF HoldInv, Holds, Playing, Acked, Claiming
<1>11. CASE RecordFailure(l) \/ RaiseFailure(l)
    <2>1. Kept /\ state' = state /\ game' = game /\ phase' = phase
          /\ at[l] \in {"fail", "raise"} /\ at'[l] \in {"raise", "gone"}
        BY <1>11 DEF RecordFailure, RaiseFailure
    <2>2. state[l] = "worker"
        BY <1>1, <2>1 DEF MailInv, Owning
    <2> QED
        BY <1>2, <2>1, <2>2 DEF HoldInv, Holds, Playing, Acked, Claiming
<1> QED
    BY <1>5, <1>6, <1>7, <1>8, <1>9, <1>10, <1>11 DEF Worker

\* A worker's step keeps the ledger of episodes.
LEMMA WorkerLedger ==
    ASSUME TypeOK, Handover, Ledger, NEW l \in Lanes, Worker(l)
    PROVE  Ledger'
<1>1. bpc' = bpc /\ remaining' = remaining /\ doneWorkers' = doneWorkers /\ collected' = collected
      /\ outcome' = outcome /\ CollectedIds' = CollectedIds
    BY WorkerIsLocal DEF brokerVars, CollectedIds
<1>2. \A k \in Lanes : k # l =>
         /\ state'[k] = state[k] /\ at'[k] = at[k] /\ game'[k] = game[k] /\ phase'[k] = phase[k]
         /\ (k \in ready' <=> k \in ready)
    BY WorkerIsLocal
<1>3. \A k \in Lanes : HoldInv(k)
    BY DEF Ledger
<1>4. HoldInv(l)'
    BY <1>3, WorkerHolds
<1> DEFINE Claims == /\ at[l] = "exchange" /\ nextEpisode < EndEpisodeId
                     /\ nextEpisode' = nextEpisode + 1
                     /\ game'[l] # None /\ game'[l].episode = nextEpisode
           Drops == /\ nextEpisode' = nextEpisode /\ at[l] \in {"claim", "exchange"}
                    /\ game'[l] = None /\ ~ Holds(l)'
           Keeps == /\ nextEpisode' = nextEpisode /\ (game'[l] = None <=> game[l] = None)
                    /\ (game[l] # None => game'[l].episode = game[l].episode)
                    /\ (Holds(l)' => Holds(l))
<1>5. Claims \/ Drops \/ Keeps
    BY <1>3, WorkerHolds
<1>6. nextEpisode \in Nat /\ EndEpisodeId \in Nat /\ nextEpisode <= EndEpisodeId
      /\ \A k \in Lanes : game[k] # None => game[k].episode \in Nat
    BY Ranges DEF TypeOK, SharedType, WorkerType, Games
<1>7. \A k \in Lanes : k # l => (Holds(k)' <=> Holds(k)) /\ (Acked(k)' <=> Acked(k))
    BY <1>2 DEF Holds, Playing, Acked
<1>8. \A k \in Lanes : Holds(k) => game[k] # None
    BY DEF Holds, Playing, Handover, MailInv
<1>9. \A k \in Lanes : HoldInv(k)'
    <2> SUFFICES ASSUME NEW k \in Lanes, k # l PROVE HoldInv(k)'
        BY <1>4
    <2>1. HoldInv(k) /\ (Holds(k)' <=> Holds(k)) /\ (Acked(k)' <=> Acked(k))
          /\ state'[k] = state[k] /\ at'[k] = at[k] /\ game'[k] = game[k] /\ phase'[k] = phase[k]
        BY <1>2, <1>3, <1>7
    <2>2. (nextEpisode = EndEpisodeId => nextEpisode' = EndEpisodeId) /\ nextEpisode' >= nextEpisode
          /\ nextEpisode' \in Nat
        BY <1>5, <1>6
    <2>3. Holds(k) => game[k].episode < nextEpisode'
        BY <1>6, <1>8, <2>1, <2>2 DEF HoldInv
    <2> QED
        BY <1>1, <2>1, <2>2, <2>3 DEF HoldInv
<1>10. \A j, k \in Lanes : Holds(j)' /\ Holds(k)' /\ game'[j].episode = game'[k].episode => j = k
    <2>1. \A j, k \in Lanes : Holds(j) /\ Holds(k) /\ game[j].episode = game[k].episode => j = k
        BY DEF Ledger
    <2>2. ASSUME NEW k \in Lanes, k # l, Holds(k)', Holds(l)' PROVE game'[l].episode # game'[k].episode
        <3>1. Holds(k) /\ game'[k] = game[k] /\ game[k].episode < nextEpisode
            BY <1>2, <1>3, <1>7, <2>2 DEF HoldInv
        <3>2. CASE Claims
            BY <1>6, <1>8, <3>1, <3>2
        <3>3. CASE Keeps
            BY <1>8, <2>1, <2>2, <3>1, <3>3
        <3> QED
            BY <1>5, <2>2, <3>2, <3>3
    <2>3. ASSUME NEW j \in Lanes, NEW k \in Lanes, j # l, k # l, Holds(j)', Holds(k)',
                 game'[j].episode = game'[k].episode
          PROVE  j = k
        BY <1>2, <1>7, <2>1, <2>3
    <2> QED
        BY <2>2, <2>3
<1>11. \A i \in DOMAIN collected : collected[i].episode < nextEpisode'
    <2>1. \A i \in DOMAIN collected : collected[i].episode \in Nat /\ collected[i].episode < nextEpisode
        BY CollectedEpisodes, Ranges DEF Ledger
    <2> QED
        BY <1>5, <1>6, <2>1
<1>12. \A e \in 0 .. nextEpisode' - 1 :
          e \in CollectedIds \/ \E k \in Lanes : game'[k] # None /\ game'[k].episode = e
    <2> SUFFICES ASSUME NEW e \in 0 .. nextEpisode' - 1, e \notin CollectedIds
                 PROVE  \E k \in Lanes : game'[k] # None /\ game'[k].episode = e
        OBVIOUS
    <2>1. CASE Claims /\ e = nextEpisode
        BY <2>1
    <2>2. CASE ~ (Claims /\ e = nextEpisode)
        <3>1. e \in 0 .. nextEpisode - 1
            BY <1>5, <1>6, <2>2
        <3>2. PICK k \in Lanes : game[k] # None /\ game[k].episode = e
            BY <3>1 DEF Ledger
        <3>3. CASE k # l
            BY <1>2, <3>2, <3>3
        <3>4. CASE k = l
            <4>1. at[l] \notin {"claim", "exchange"}
                BY <1>3, <3>2, <3>4 DEF HoldInv, Claiming
            <4>2. Keeps
                BY <1>5, <4>1
            <4> QED
                BY <3>2, <3>4, <4>2
        <3> QED
            BY <3>3, <3>4
    <2> QED
        BY <2>1, <2>2
<1>13. bpc \in Active => Counted' = Counted
    <2> SUFFICES ASSUME bpc \in Active PROVE Counted' = Counted
        OBVIOUS
    <2>1. at[l] # "gone"
        BY WorkerIsFree
    <2>2. ~ (state'[l] = "done" /\ at'[l] = "gone" /\ l \notin ready')
        BY <1>3, WorkerHolds
    <2> QED
        BY <1>1, <1>2, <2>1, <2>2 DEF Counted
<1>14. at[l] # "gone"
    BY DEF Worker, Enter, PassGate, Cancelled, LoadCounter, CompareExchange, LostExchange,
        OpponentStep, Publish, WriteMessage, StoreState, NotifyBroker, TerminalAck, SeeAction,
        ReadAction, RecordFailure, RaiseFailure
<1> HIDE DEF Claims, Drops, Keeps
<1>15. /\ \A i, j \in DOMAIN collected : collected[i].episode = collected[j].episode => i = j
       /\ bpc \in Active => doneWorkers = Cardinality(Counted)
       /\ bpc = "stop" => outcome # None
       /\ ~ (bpc = "join" /\ outcome = None)
    BY <1>14 DEF Ledger
<1> QED
    BY <1>1, <1>9, <1>10, <1>11, <1>12, <1>13, <1>15 DEF Ledger

\* The broker keeps the ledger of episodes, and counts the workers right.
LEMMA BrokerLedger ==
    ASSUME TypeOK, Handover, Streams, Ledger, Broker
    PROVE  Ledger'
<1> USE DEF mailboxVars, sharedVars, workerVars, brokerVars
<1> DEFINE Owned ==
               /\ \A l \in Lanes : HoldInv(l)
               /\ \A l, k \in Lanes :
                      Holds(l) /\ Holds(k) /\ game[l].episode = game[k].episode => l = k
               /\ \A i \in DOMAIN collected : collected[i].episode < nextEpisode
               /\ \A i, j \in DOMAIN collected :
                      collected[i].episode = collected[j].episode => i = j
               /\ \A e \in 0 .. nextEpisode - 1 :
                      e \in CollectedIds \/ \E l \in Lanes : game[l] # None /\ game[l].episode = e
           Tally ==
               /\ bpc \in Active => doneWorkers = Cardinality(Counted)
               /\ bpc = "stop" => outcome # None
               /\ bpc = "join" /\ outcome = None
                     => \A l \in Lanes : state[l] = "done" /\ at[l] = "gone"
<1>1. Owned /\ Tally
    BY DEF Ledger
<1>2. Owned' /\ Tally' => Ledger'
    BY DEF Ledger
<1>3. ASSUME UNCHANGED <<state, at, game, phase, nextEpisode, collected>> PROVE Owned'
    <2>1. CollectedIds' = CollectedIds
        BY <1>3 DEF CollectedIds
    <2>2. \A l \in Lanes : (Holds(l)' <=> Holds(l)) /\ (Acked(l)' <=> Acked(l))
        BY <1>3 DEF Holds, Playing, Acked
    <2>3. \A l \in Lanes : HoldInv(l)'
        BY <1>1, <1>3, <2>1, <2>2 DEF HoldInv
    <2> QED
        BY <1>1, <1>3, <2>1, <2>2, <2>3
<1>4. None \notin Results
    BY NoneAssumption
<1>5. ASSUME NEW l \in Lanes, Spawn(l) PROVE Owned' /\ Tally'
    <2>1. bpc = "spawn" /\ at[l] = "unborn"
        BY <1>5, SpawnsUnborn
    <2>2. UNCHANGED <<state, game, phase, nextEpisode, collected, ready, remaining, doneWorkers>>
        BY <1>5 DEF Spawn
    <2>3. \A k \in Lanes : at'[k] = at[k] \/ (k = l /\ at'[k] = "spawned")
        BY <1>5 DEF Spawn, Goto, TypeOK, WorkerType
    <2>4. CollectedIds' = CollectedIds
        BY <2>2 DEF CollectedIds
    <2>5. \A k \in Lanes : (Holds(k)' <=> Holds(k)) /\ (Acked(k)' <=> Acked(k))
        BY <2>1, <2>2, <2>3 DEF Holds, Playing, Acked
    <2>6. \A k \in Lanes : HoldInv(k)'
        BY <1>1, <2>1, <2>2, <2>3, <2>4, <2>5 DEF HoldInv, Claiming
    <2>7. Counted' = Counted
        BY <2>1, <2>2, <2>3 DEF Counted
    <2>8. bpc' \in {"spawn", "gather"} \/ (bpc' = "join" /\ outcome' \in Results)
        BY <1>5 DEF Spawn, BGoto, Results
    <2>9. Tally'
        BY <1>1, <1>4, <2>1, <2>2, <2>7, <2>8 DEF Active
    <2> QED
        BY <1>1, <2>2, <2>4, <2>5, <2>6, <2>9
<1>6. ASSUME NEW l \in Lanes, LookAt(l) PROVE Owned' /\ Tally'
    <2>1. LookingAt(l)
        BY <1>6 DEF LookAt
    <2>2. bpc = "lane" /\ bpc \in Active /\ l \in remaining /\ l \notin ready
        BY <2>1, LookedAt DEF Active, Handover, PostInv
    <2>3. CASE AnswerDecision(l)
        <3>1. PICK b : b = Bind(bound[l], game[l].episode)
            OBVIOUS
        <3>2. /\ state[l] = "decision"
              /\ UNCHANGED <<mailboxVars, sharedVars, workerVars, doneWorkers, collected>>
            BY <2>1, <2>3, Answers
        <3>3. b.episode = game[l].episode
            BY <2>1, <3>1, <3>2, StreamBinds
        <3>4. remaining' = remaining \ {l} /\ UNCHANGED <<bpc, outcome>>
            BY <2>1, <2>3, <3>1, <3>3, Answers
        <3>5. Counted' = Counted
            BY <3>2, <3>4 DEF Counted
        <3>6. Tally'
            BY <1>1, <2>2, <3>2, <3>4, <3>5
        <3> QED
            BY <1>3, <3>2, <3>6
    <2>4. CASE CollectTerminal(l)
        <3>1. PICK b : b = Bind(bound[l], game[l].episode)
            OBVIOUS
        <3>2. PICK t : t = [episode |-> game[l].episode, choices |-> game[l].choices]
            OBVIOUS
        <3>3. /\ state[l] = "terminal" /\ game[l] \in Games
              /\ UNCHANGED <<message, action, currentId, failure, sharedVars, workerVars,
                             requests, doneWorkers>>
            BY <2>1, <2>4, Collects
        <3>4. b.episode = game[l].episode /\ Playing(l)
            BY <2>1, <3>1, <3>3, StreamBinds
        <3>5. PICK e : e = game[l].episode
            OBVIOUS
        <3>6. e \in Episodes /\ e < nextEpisode /\ e \notin CollectedIds /\ Holds(l)
            BY <1>1, <3>3, <3>4, <3>5 DEF Games, HoldInv, Holds
        <3>7. Len(collected) # EndEpisodeId
            <4>1. Len(collected) < EndEpisodeId
                BY <3>6, RoomLeft
            <4>2. Len(collected) \in Nat /\ EndEpisodeId \in Nat
                BY Ranges DEF TypeOK, BrokerType
            <4> QED
                BY <4>1, <4>2
        <3>8. /\ collected' = Append(collected, t)
              /\ state' = [state EXCEPT ![l] = "worker"]
              /\ remaining' = remaining \ {l} /\ UNCHANGED <<bpc, outcome>>
            BY <2>1, <2>4, <3>1, <3>2, <3>4, <3>7, Collects
        <3>9. \A k \in Lanes : k # l => state'[k] = state[k]
            BY <3>8 DEF TypeOK, MailType
        <3>10. state'[l] = "worker" /\ at[l] = "await"
            BY <2>1, <3>3, <3>8, LookedAt DEF TypeOK, MailType
        <3>11. PICK n \in Nat : n = Len(collected)
            BY DEF TypeOK, BrokerType
        <3>12. /\ DOMAIN collected = 1 .. n /\ DOMAIN collected' = 1 .. (n + 1)
               /\ collected'[n + 1] = t /\ \A i \in 1 .. n : collected'[i] = collected[i]
            BY <3>8, <3>11 DEF TypeOK, BrokerType
        <3>13. t.episode = e
            BY <3>2, <3>5
        <3>14. CollectedIds' = CollectedIds \cup {e}
            <4>1. \A x : x \in CollectedIds' <=> \E i \in 1 .. (n + 1) : x = collected'[i].episode
                BY <3>12 DEF CollectedIds
            <4>2. \A x : x \in CollectedIds <=> \E i \in 1 .. n : x = collected[i].episode
                BY <3>12 DEF CollectedIds
            <4>3. n + 1 \in 1 .. (n + 1) /\ \A i \in 1 .. (n + 1) : i = n + 1 \/ i \in 1 .. n
                OBVIOUS
            <4>4. \A i \in 1 .. n : i \in 1 .. (n + 1)
                OBVIOUS
            <4>5. \A x : x \in CollectedIds' => x \in CollectedIds \/ x = e
                BY <3>12, <3>13, <4>1, <4>2, <4>3
            <4>6. \A x : x \in CollectedIds \/ x = e => x \in CollectedIds'
                BY <3>12, <3>13, <4>1, <4>2, <4>3, <4>4
            <4> QED
                BY <4>5, <4>6
        <3>15. \A k \in Lanes : k # l =>
                  (Holds(k)' <=> Holds(k)) /\ (Acked(k)' <=> Acked(k))
            BY <3>3, <3>9 DEF Holds, Playing, Acked
        <3>16. ~ Holds(l)' /\ Acked(l)'
            BY <3>3, <3>10 DEF Holds, Playing, Acked
        <3>17. \A k \in Lanes : HoldInv(k)'
            <4>1. HoldInv(l)'
                BY <1>1, <3>3, <3>5, <3>10, <3>14, <3>16 DEF HoldInv, Claiming
            <4>2. ASSUME NEW k \in Lanes, k # l PROVE HoldInv(k)'
                <5>1. Holds(k) => game[k].episode # e
                    BY <1>1, <3>5, <3>6, <4>2
                <5> QED
                    BY <1>1, <3>3, <3>9, <3>14, <3>15, <4>2, <5>1 DEF HoldInv
            <4> QED
                BY <4>1, <4>2
        <3>18. \A j, k \in Lanes :
                  Holds(j)' /\ Holds(k)' /\ game'[j].episode = game'[k].episode => j = k
            BY <1>1, <3>3, <3>15, <3>16
        <3>19. \A i \in 1 .. n : collected[i].episode # e
            BY <3>6, <3>12 DEF CollectedIds
        <3>20. /\ \A i \in DOMAIN collected' : collected'[i].episode < nextEpisode
               /\ \A i, j \in DOMAIN collected' :
                      collected'[i].episode = collected'[j].episode => i = j
            <4>1. \A i \in 1 .. (n + 1) : i = n + 1 \/ i \in 1 .. n
                OBVIOUS
            <4> QED
                BY <1>1, <3>6, <3>12, <3>13, <3>19, <4>1
        <3>21. Counted' = Counted
            BY <3>3, <3>8, <3>9, <3>10 DEF Counted
        <3>22. Tally'
            BY <1>1, <2>2, <3>3, <3>8, <3>21 DEF Active
        <3> QED
            BY <1>1, <3>3, <3>14, <3>17, <3>18, <3>20, <3>22
    <2>5. CASE CountDone(l)
        <3>1. /\ state[l] = "done" /\ doneWorkers' = doneWorkers + 1 /\ remaining' = remaining \ {l}
              /\ UNCHANGED <<mailboxVars, sharedVars, workerVars, bpc, collected, outcome>>
            BY <2>5 DEF CountDone
        <3>2. at[l] = "gone"
            BY <2>1, <3>1, LookedAt
        <3>3. Counted' = Counted \cup {l} /\ l \notin Counted
            BY <2>2, <3>1, <3>2 DEF Counted
        <3>4. IsFiniteSet(Counted)
            BY Ranges, FS_Subset DEF Counted
        <3>5. Cardinality(Counted') = Cardinality(Counted) + 1
            BY <3>3, <3>4, FS_AddElement
        <3>6. Tally'
            BY <1>1, <2>2, <3>1, <3>5 DEF Active
        <3> QED
            BY <1>3, <3>1, <3>6
    <2>6. CASE Unexpected(l)
        BY <2>1, <2>6, LookedAt DEF Unexpected
    <2> QED
        BY <1>6, <2>3, <2>4, <2>5, <2>6 DEF LookAt
<1>7. ASSUME OpenGate PROVE Owned' /\ Tally'
    <2>1. /\ bpc = "gather" /\ bpc' = "swap"
          /\ UNCHANGED <<mailboxVars, ready, nextEpisode, workerVars, remaining, doneWorkers,
                         collected, outcome>>
        BY <1>7 DEF OpenGate, BGoto
    <2>2. Counted' = Counted
        BY <2>1 DEF Counted
    <2>3. Tally'
        BY <1>1, <2>1, <2>2 DEF Active
    <2> QED
        BY <1>3, <2>1, <2>3
<1>8. ASSUME Swap PROVE Owned' /\ Tally'
    <2>1. /\ bpc = "swap" /\ ready' = {}
          /\ UNCHANGED <<mailboxVars, nextEpisode, workerVars, doneWorkers, collected>>
        BY <1>8 DEF Swap
    <2>2. remaining = {}
        BY <2>1 DEF Handover, PostInv, Active
    <2>3. CASE failed # {}
        <3>1. bpc' = "stop" /\ outcome' \in Results
            BY <1>8, <2>3, ReadsFailure DEF Swap, Failing, BGoto
        <3> QED
            BY <1>3, <1>4, <2>1, <3>1 DEF Active
    <2>4. CASE failed = {}
        <3>1. bpc' = "lane" /\ remaining' = ready
            BY <1>8, <2>4 DEF Swap, BGoto
        <3>2. Counted' = Counted
            BY <2>1, <2>2, <3>1 DEF Counted
        <3> QED
            BY <1>1, <1>3, <2>1, <3>1, <3>2 DEF Active
    <2> QED
        BY <2>3, <2>4
<1>9. ASSUME CheckSnapshot \/ WriteActions PROVE Owned' /\ Tally'
    <2>1. /\ bpc \in Active /\ bpc' \in {"swap", "write", "release"}
          /\ UNCHANGED <<state, sharedVars, workerVars, remaining, doneWorkers, collected, outcome>>
        BY <1>9, SnapshotWaits, WritesRequested DEF Active
    <2>2. Counted' = Counted
        BY <2>1 DEF Counted
    <2>3. Tally'
        BY <1>1, <2>1, <2>2
    <2> QED
        BY <1>3, <2>1, <2>3
<1>10. ASSUME ReleaseAction PROVE Owned' /\ Tally'
    <2>1. PICK l : l = requests[1].lane
        OBVIOUS
    <2>2. /\ bpc = "release" /\ bpc' \in {"swap", "release"} /\ 1 \in DOMAIN requests
          /\ state' = [state EXCEPT ![l] = "action"]
          /\ UNCHANGED <<sharedVars, workerVars, remaining, doneWorkers, collected, outcome>>
        BY <1>10, <2>1, ReleasesFirst
    <2>3. l \in Lanes /\ at[l] = "await" /\ state[l] = "decision"
        BY <2>1, <2>2, RequestLanes DEF Handover, PostInv, Active, Waiting
    <2>4. \A k \in Lanes : state'[k] = state[k] \/ (k = l /\ state'[k] = "action")
        BY <2>2 DEF TypeOK, MailType
    <2>5. \A k \in Lanes : (Holds(k)' <=> Holds(k)) /\ (Acked(k)' <=> Acked(k))
        BY <2>2, <2>3, <2>4 DEF Holds, Playing, Acked
    <2>6. CollectedIds' = CollectedIds
        BY <2>2 DEF CollectedIds
    <2>7. \A k \in Lanes : HoldInv(k)'
        BY <1>1, <2>2, <2>3, <2>4, <2>5, <2>6 DEF HoldInv
    <2>8. Counted' = Counted
        BY <2>2, <2>3, <2>4 DEF Counted
    <2>9. Tally'
        BY <1>1, <2>2, <2>8 DEF Active
    <2> QED
        BY <1>1, <2>2, <2>5, <2>6, <2>7, <2>9
<1>11. ASSUME LoopEnds PROVE Owned' /\ Tally'
    <2>1. /\ bpc = "swap" /\ doneWorkers = WorkerCount /\ bpc' = "join"
          /\ UNCHANGED <<mailboxVars, sharedVars, workerVars, collected>>
        BY <1>11 DEF LoopEnds, BGoto
    <2>2. Cardinality(Counted) = Cardinality(Lanes)
        BY <1>1, <2>1, Ranges DEF Active
    <2>3. Counted \in SUBSET Lanes /\ IsFiniteSet(Lanes)
        BY Ranges DEF Counted
    <2>4. Lanes = Counted
        BY <2>2, <2>3, FS_Subset
    <2>5. \A l \in Lanes : state[l] = "done" /\ at[l] = "gone"
        BY <2>4 DEF Counted
    <2> QED
        BY <1>3, <2>1, <2>5 DEF Active
<1>12. ASSUME Stop \/ Join PROVE Owned' /\ Tally'
    BY <1>1, <1>3, <1>12 DEF Stop, Join, BGoto, Active
<1> HIDE DEF Owned, Tally
<1> QED
    BY <1>2, <1>5, <1>6, <1>7, <1>8, <1>9, <1>10, <1>11, <1>12 DEF Broker

-----------------------------------------------------------------------------
(* Fourth layer: the reports                                               *)

\* A worker's step leaves true records: what it reports is its own episode
\* and phase, after a panic too.
LEMMA WorkerReports ==
    ASSUME TypeOK, Handover, Ledger, Reports, NEW l \in Lanes, Worker(l)
    PROVE  Reports'
<1>1. bpc' = bpc /\ outcome' = outcome
    BY WorkerIsLocal DEF brokerVars
<1>2. \A k \in Lanes : k # l =>
         /\ state'[k] = state[k] /\ currentId'[k] = currentId[k] /\ failure'[k] = failure[k]
         /\ at'[k] = at[k] /\ game'[k] = game[k] /\ phase'[k] = phase[k]
         /\ (k \in failed' <=> k \in failed)
    BY WorkerIsLocal
<1>3. FailInv(l) /\ MailInv(l) /\ HoldInv(l)
    BY DEF Reports, Handover, Ledger
<1>4. ASSUME NEW k \in Lanes, k # l PROVE FailInv(k)'
    <2>1. FailInv(k) /\ state'[k] = state[k] /\ currentId'[k] = currentId[k]
          /\ failure'[k] = failure[k] /\ at'[k] = at[k] /\ game'[k] = game[k]
          /\ phase'[k] = phase[k] /\ (k \in failed' <=> k \in failed)
        BY <1>2, <1>4 DEF Reports
    <2> QED
        BY ONLY <2>1 DEF FailInv, Holds, Playing, Acked
<1> USE DEF TypeOK, MailType, WorkerType, mailboxVars, sharedVars, Goto
<1>5. at[l] # "gone"
    BY DEF Worker, Enter, PassGate, Cancelled, LoadCounter, CompareExchange, LostExchange,
        OpponentStep, Publish, WriteMessage, StoreState, NotifyBroker, TerminalAck, SeeAction,
        ReadAction, RecordFailure, RaiseFailure
<1>6. CASE RecordFailure(l)
    <2>1. /\ at[l] = "fail" /\ at'[l] = "raise" /\ failed' = failed
          /\ UNCHANGED <<currentId, game, phase>>
          /\ failure' = [failure EXCEPT ![l] =
                 [episode |-> IF phase[l] = "Panic" THEN currentId[l] ELSE game[l].episode,
                  phase |-> phase[l]]]
        BY <1>6 DEF RecordFailure
    <2>2. game[l] \in Games /\ phase[l] \in Phases /\ currentId[l] = game[l].episode
        BY <1>3, <2>1 DEF MailInv, FailInv, Holds
    <2>3. failure'[l] = [episode |-> game[l].episode, phase |-> phase[l]]
        BY <2>1, <2>2
    <2>4. failure'[l] \in Failures
        BY <2>2, <2>3 DEF Failures, Games
    <2>5. FailInv(l)'
        BY <1>3, <2>1, <2>2, <2>3, <2>4, NoneAssumption DEF FailInv, Holds, Playing
    <2>6. failure[l] = None
        BY <1>3, <2>1 DEF FailInv
    <2>7. OutcomeInv'
        <3>1. OutcomeInv
            BY DEF Reports
        <3>2. outcome # None /\ outcome.error = "WorkerFailed" => outcome.lane \in Lanes
            BY DEF BrokerType, Results
        <3> QED
            BY <1>1, <1>2, <1>5, <2>6, <3>1, <3>2 DEF OutcomeInv
    <2> QED
        BY <1>4, <2>5, <2>7 DEF Reports
<1>7. CASE ~ RecordFailure(l)
    <2>1. failure' = failure
        BY <1>7 DEF Worker, Enter, PassGate, Cancelled, Gone, LoadCounter, CompareExchange, LostExchange,
            OpponentStep, Publish, WriteMessage, StoreState, NotifyBroker, TerminalAck, SeeAction,
            ReadAction, RaiseFailure
    <2>2. OutcomeInv'
        <3>1. OutcomeInv
            BY DEF Reports
        <3> QED
            BY <1>1, <1>2, <1>5, <2>1, <3>1 DEF OutcomeInv
    <2>3. FailInv(l)'
        <3>1. CASE RaiseFailure(l)
            <4>1. at[l] = "raise" /\ at'[l] = "gone" /\ UNCHANGED <<failure, game, phase>>
                BY <3>1 DEF RaiseFailure
            <4> QED
                BY <1>3, <4>1 DEF FailInv, Holds, Playing
        <3>2. CASE ~ RaiseFailure(l)
            <4>1. at[l] # "raise" /\ at'[l] # "raise" /\ failed' = failed
                BY <1>7, <3>2 DEF Worker, Enter, PassGate, Cancelled, Gone, LoadCounter,
                    CompareExchange, LostExchange, OpponentStep, Publish, WriteMessage, StoreState,
                    NotifyBroker, TerminalAck, SeeAction, ReadAction, RaiseFailure, FailIn
            <4>2. failure[l] = None /\ l \notin failed
                BY <1>3, <1>5, <4>1 DEF FailInv
            <4>3. Holds(l)' => currentId'[l] = game'[l].episode
                <5>1. CASE CompareExchange(l)
                    BY <5>1 DEF CompareExchange, NewGame
                <5>2. CASE ~ CompareExchange(l)
                    <6>1. nextEpisode' = nextEpisode
                        BY <1>7, <5>2 DEF Worker, Enter, PassGate, Cancelled, Gone, LoadCounter,
                            LostExchange, OpponentStep, Publish, WriteMessage, StoreState,
                            NotifyBroker, TerminalAck, SeeAction, ReadAction, RaiseFailure
                    <6>2. nextEpisode \in Nat
                        BY Ranges DEF SharedType
                    <6>3. \/ game'[l] = None /\ ~ Holds(l)'
                          \/ /\ (game'[l] = None <=> game[l] = None)
                             /\ (game[l] # None => game'[l].episode = game[l].episode)
                             /\ (Holds(l)' => Holds(l))
                        BY <1>3, <6>1, <6>2, WorkerHolds
                    <6>4. currentId'[l] = currentId[l] \/ game'[l] = None
                        BY <1>7, <5>2 DEF Worker, Enter, PassGate, Cancelled, Gone, LoadCounter,
                            LostExchange, OpponentStep, Publish, WriteMessage, StoreState,
                            NotifyBroker, TerminalAck, SeeAction, ReadAction, RaiseFailure
                    <6>5. (Holds(l) => game[l] # None) /\ (Holds(l)' => game'[l] # None)
                        BY WorkerMail DEF Holds, Playing, Handover, MailInv
                    <6> QED
                        BY <1>3, <6>3, <6>4, <6>5 DEF FailInv
                <5> QED
                    BY <5>1, <5>2
            <4> QED
                BY <2>1, <4>1, <4>2, <4>3 DEF FailInv
        <3> QED
            BY <3>1, <3>2
    <2> QED
        BY <1>4, <2>2, <2>3 DEF Reports
<1> QED
    BY <1>6, <1>7

\* The broker's result is what the records, or the finished ledger, say.
LEMMA BrokerReports ==
    ASSUME TypeOK, Handover, Streams, Ledger, Reports, Broker
    PROVE  Reports'
<1> USE DEF mailboxVars, sharedVars, workerVars, brokerVars
<1>1. OutcomeInv /\ \A k \in Lanes : FailInv(k) /\ HoldInv(k)
    BY DEF Reports, Ledger
<1>2. ASSUME UNCHANGED <<currentId, failure, game, phase>>, failed' \subseteq failed,
             \A k \in Lanes : (Holds(k)' => Holds(k)) /\ (at'[k] = at[k] \/ at[k] = "unborn")
                              /\ (at'[k] = "raise" => at[k] = "raise")
      PROVE  \A k \in Lanes : FailInv(k)'
    <2> SUFFICES ASSUME NEW k \in Lanes PROVE FailInv(k)'
        OBVIOUS
    <2>1. FailInv(k) /\ (Holds(k)' => Holds(k)) /\ (at'[k] = at[k] \/ at[k] = "unborn")
          /\ (at'[k] = "raise" => at[k] = "raise")
        BY <1>1, <1>2
    <2> QED
        BY <1>2, <2>1 DEF FailInv
<1>3. ASSUME UNCHANGED <<state, currentId, failure, at, game, phase>>, failed' \subseteq failed
      PROVE  \A k \in Lanes : FailInv(k)'
    <2>1. \A k \in Lanes : Holds(k)' => Holds(k)
        BY <1>3 DEF Holds, Playing, Acked
    <2> QED
        BY <1>2, <1>3, <2>1
<1>4. ASSUME UNCHANGED <<failure, phase, outcome>>, bpc \in Active, bpc' \in Active \cup {"join"}
      PROVE  OutcomeInv'
    BY <1>1, <1>4 DEF OutcomeInv, Active
<1>5. None \notin Results
    BY NoneAssumption
<1>6. ASSUME NEW l \in Lanes, Spawn(l) PROVE Reports'
    <2>1. bpc = "spawn" /\ at[l] = "unborn"
        BY <1>6, SpawnsUnborn
    <2>2. UNCHANGED <<state, currentId, failure, failed, game, phase>>
        BY <1>6 DEF Spawn
    <2>3. \A k \in Lanes : at'[k] = at[k] \/ (k = l /\ at'[k] = "spawned")
        BY <1>6 DEF Spawn, Goto, TypeOK, WorkerType
    <2>4. \A k \in Lanes : Holds(k)' => Holds(k)
        BY <2>1, <2>2, <2>3 DEF Holds, Playing, Acked
    <2>5. \A k \in Lanes : FailInv(k)'
        BY <1>2, <2>1, <2>2, <2>3, <2>4
    <2>6. OutcomeInv'
        <3>1. \/ bpc' \in {"spawn", "gather"} /\ outcome' = outcome
              \/ bpc' = "join" /\ outcome' = [error |-> "WorkerSpawnFailed", lane |-> l]
            BY <1>6 DEF Spawn, BGoto
        <3>2. CASE bpc' \in {"spawn", "gather"} /\ outcome' = outcome
            BY <1>4, <2>1, <2>2, <3>2 DEF Active
        <3>3. CASE bpc' = "join" /\ outcome' = [error |-> "WorkerSpawnFailed", lane |-> l]
            BY <3>3 DEF OutcomeInv, Active
        <3> QED
            BY <3>1, <3>2, <3>3
    <2> QED
        BY <2>5, <2>6 DEF Reports
<1>7. ASSUME NEW l \in Lanes, LookAt(l) PROVE Reports'
    <2>1. LookingAt(l)
        BY <1>7 DEF LookAt
    <2>2. bpc = "lane" /\ bpc \in Active
        BY <2>1, LookedAt DEF Active
    <2>3. CASE AnswerDecision(l)
        <3>1. PICK b : b = Bind(bound[l], game[l].episode)
            OBVIOUS
        <3>2. /\ state[l] = "decision"
              /\ UNCHANGED <<mailboxVars, sharedVars, workerVars, doneWorkers, collected>>
            BY <2>1, <2>3, Answers
        <3>3. b.episode = game[l].episode
            BY <2>1, <3>1, <3>2, StreamBinds
        <3>4. UNCHANGED <<bpc, outcome>>
            BY <2>1, <2>3, <3>1, <3>3, Answers
        <3> QED
            BY <1>3, <1>4, <2>2, <3>2, <3>4 DEF Reports
    <2>4. CASE CollectTerminal(l)
        <3>1. PICK b : b = Bind(bound[l], game[l].episode)
            OBVIOUS
        <3>2. /\ state[l] = "terminal" /\ game[l] \in Games
              /\ UNCHANGED <<message, action, currentId, failure, sharedVars, workerVars,
                             requests, doneWorkers>>
            BY <2>1, <2>4, Collects
        <3>3. b.episode = game[l].episode /\ Playing(l)
            BY <2>1, <3>1, <3>2, StreamBinds
        <3>4. game[l].episode \in Episodes /\ game[l].episode \notin CollectedIds
            BY <1>1, <3>2, <3>3 DEF Games, HoldInv, Holds
        <3>5. Len(collected) # EndEpisodeId
            <4>1. Len(collected) < EndEpisodeId
                BY <3>4, RoomLeft
            <4>2. Len(collected) \in Nat /\ EndEpisodeId \in Nat
                BY Ranges DEF TypeOK, BrokerType
            <4> QED
                BY <4>1, <4>2
        <3>6. /\ state' = [state EXCEPT ![l] = "worker"] /\ UNCHANGED <<bpc, outcome>>
            BY <2>1, <2>4, <3>1, <3>3, <3>5, Collects
        <3>7. \A k \in Lanes : state'[k] = state[k] \/ (k = l /\ state'[k] = "worker")
            BY <3>6 DEF TypeOK, MailType
        <3>8. \A k \in Lanes : Holds(k)' => Holds(k)
            BY <3>2, <3>3, <3>7 DEF Holds, Playing, Acked
        <3>9. \A k \in Lanes : FailInv(k)'
            BY <1>2, <3>2, <3>8
        <3> QED
            BY <1>4, <2>2, <3>2, <3>6, <3>9 DEF Reports
    <2>5. CASE CountDone(l)
        BY <1>3, <1>4, <2>2, <2>5 DEF CountDone, Reports
    <2>6. CASE Unexpected(l)
        BY <2>1, <2>6, LookedAt DEF Unexpected
    <2> QED
        BY <1>7, <2>3, <2>4, <2>5, <2>6 DEF LookAt
<1>8. ASSUME OpenGate \/ CheckSnapshot \/ WriteActions \/ LoopEnds PROVE Reports'
    <2>1. /\ UNCHANGED <<state, currentId, failure, failed, at, game, phase, outcome>>
          /\ bpc \in Active /\ bpc' \in Active \cup {"join"}
        BY <1>8, SnapshotWaits, WritesRequested DEF OpenGate, LoopEnds, BGoto, Active
    <2> QED
        BY <1>3, <1>4, <2>1 DEF Reports
<1>9. ASSUME Swap PROVE Reports'
    <2>1. /\ bpc = "swap" /\ bpc \in Active /\ failed' = {}
          /\ UNCHANGED <<mailboxVars, workerVars>>
        BY <1>9 DEF Swap, Active
    <2>2. \A k \in Lanes : FailInv(k)'
        BY <1>3, <2>1
    <2>3. CASE failed = {}
        <3>1. bpc' = "lane" /\ outcome' = outcome
            BY <1>9, <2>3 DEF Swap, BGoto
        <3> QED
            BY <1>4, <2>1, <2>2, <3>1 DEF Reports, Active
    <2>4. CASE failed # {}
        <3>1. PICK m : m = Min(failed)
            OBVIOUS
        <3>2. m \in Lanes /\ m \in failed
            BY <2>4, <3>1, ReadsFailure
        <3>3. failure[m] # None
            BY <1>1, <3>2 DEF FailInv
        <3>4. bpc' = "stop" /\ outcome' = ReadFailure
            BY <1>9, <2>4 DEF Swap, Failing, BGoto
        <3>5. outcome' = [error |-> "WorkerFailed", lane |-> m, episode |-> failure[m].episode,
                          phase |-> failure[m].phase]
            BY <2>4, <3>1, <3>3, <3>4, ReadsFailure
        <3>6. outcome'.error = "WorkerFailed" /\ outcome'.lane = m
              /\ outcome'.episode = failure[m].episode /\ outcome'.phase = failure[m].phase
            BY <3>5
        <3>7. OutcomeInv'
            BY <2>1, <3>3, <3>4, <3>6 DEF OutcomeInv, Active
        <3> QED
            BY <2>2, <3>7 DEF Reports
    <2> QED
        BY <2>3, <2>4
<1>10. ASSUME ReleaseAction PROVE Reports'
    <2>1. PICK l : l = requests[1].lane
        OBVIOUS
    <2>2. /\ bpc = "release" /\ bpc' \in {"swap", "release"} /\ 1 \in DOMAIN requests
          /\ state' = [state EXCEPT ![l] = "action"]
          /\ UNCHANGED <<currentId, failure, sharedVars, workerVars, outcome>>
        BY <1>10, <2>1, ReleasesFirst
    <2>3. l \in Lanes /\ at[l] = "await" /\ state[l] = "decision"
        BY <2>1, <2>2, RequestLanes DEF Handover, PostInv, Active, Waiting
    <2>4. \A k \in Lanes : state'[k] = state[k] \/ (k = l /\ state'[k] = "action")
        BY <2>2 DEF TypeOK, MailType
    <2>5. \A k \in Lanes : Holds(k)' => Holds(k)
        BY <2>2, <2>3, <2>4 DEF Holds, Playing, Acked
    <2>6. \A k \in Lanes : FailInv(k)'
        BY <1>2, <2>2, <2>5
    <2> QED
        BY <1>4, <2>2, <2>6 DEF Reports, Active
<1>11. ASSUME Stop PROVE Reports'
    <2>1. UNCHANGED <<state, currentId, failure, failed, at, game, phase, outcome>>
          /\ bpc' = "join"
        BY <1>11 DEF Stop, BGoto
    <2>2. OutcomeInv'
        BY <1>1, <2>1 DEF OutcomeInv, Active
    <2> QED
        BY <1>3, <2>1, <2>2 DEF Reports
<1>12. ASSUME Join PROVE Reports'
    <2>1. /\ bpc = "join" /\ bpc' = "returned"
          /\ UNCHANGED <<state, currentId, failure, failed, at, game, phase>>
        BY <1>12 DEF Join, BGoto
    <2>2. CASE outcome # None
        <3>1. outcome' = outcome
            BY <1>12, <2>2 DEF Join
        <3>2. OutcomeInv'
            BY <1>1, <2>1, <2>2, <3>1 DEF OutcomeInv, Active
        <3> QED
            BY <1>3, <2>1, <3>2 DEF Reports
    <2>3. CASE outcome = None
        <3>1. \A l \in Lanes : state[l] = "done" /\ at[l] = "gone"
            BY <2>1, <2>3 DEF Ledger
        <3>2. Complete
            BY <3>1, AllCollected
        <3>3. outcome' = [error |-> "Ok"]
            BY <1>12, <2>3, <3>2 DEF Join
        <3>4. outcome' # None /\ outcome'.error = "Ok"
            BY <1>5, <3>3 DEF Results
        <3>5. \A l \in Lanes : phase[l] = None
            BY <1>1, <3>1 DEF HoldInv
        <3>6. OutcomeInv'
            BY <2>1, <3>1, <3>4, <3>5 DEF OutcomeInv, Active
        <3> QED
            BY <1>3, <2>1, <3>6 DEF Reports
    <2> QED
        BY <2>2, <2>3
<1> QED
    BY <1>6, <1>7, <1>8, <1>9, <1>10, <1>11, <1>12 DEF Broker

-----------------------------------------------------------------------------
(* Theorems                                                                *)

\* Every layer holds when the rollout starts.
LEMMA RolloutStart ==
    ASSUME Init
    PROVE  IInv
<1>1. TypeOK /\ Handover
    BY HandoverStart
<1>2. \A l \in Lanes : at[l] = "unborn" /\ state[l] = "worker" /\ game[l] = None /\ phase[l] = None
                       /\ bound[l] = None /\ failure[l] = None
    BY DEF Init
<1>3. bpc = "spawn" /\ requests = <<>> /\ collected = <<>> /\ nextEpisode = 0 /\ doneWorkers = 0
      /\ outcome = None /\ failed = {}
    BY DEF Init
<1>4. Streams
    BY <1>2, <1>3 DEF Streams, StreamInv, Playing, Acked, Claiming
<1>5. Ledger
    <2>1. Counted = {} /\ Cardinality({}) = 0
        BY <1>2, FS_EmptySet DEF Counted
    <2>2. \A l \in Lanes : HoldInv(l) /\ ~ Holds(l)
        BY <1>2 DEF HoldInv, Holds, Playing, Acked, Claiming
    <2> QED
        BY <1>3, <2>1, <2>2 DEF Ledger
<1>6. Reports
    BY <1>2, <1>3 DEF Reports, FailInv, OutcomeInv, Holds, Playing
<1> QED
    BY <1>1, <1>4, <1>5, <1>6 DEF IInv

\* Every step of a thread keeps every layer.
LEMMA RolloutStep ==
    ASSUME IInv, [Next]_vars
    PROVE  IInv'
<1>1. TypeOK /\ Handover /\ Streams /\ Ledger /\ Reports
    BY DEF IInv
<1>2. TypeOK' /\ Handover'
    BY <1>1, HandoverStep
<1>3. CASE Broker
    BY <1>1, <1>2, <1>3, BrokerStreams, BrokerLedger, BrokerReports DEF IInv
<1>4. ASSUME NEW l \in Lanes, Worker(l) PROVE IInv'
    BY <1>1, <1>2, <1>4, WorkerStreams, WorkerLedger, WorkerReports DEF IInv
<1>5. CASE UNCHANGED vars
    <2> USE <1>5 DEF vars, mailboxVars, sharedVars, workerVars, brokerVars
    <2>1. Requested' = Requested /\ CollectedIds' = CollectedIds /\ Counted' = Counted
        BY DEF Requested, CollectedIds, Counted
    <2>2. \A l \in Lanes : StreamInv(l)'
        BY <1>1, <2>1, StreamKept DEF Streams
    <2>3. Streams'
        BY <1>1, <2>2 DEF Streams
    <2>4. \A l \in Lanes : (Holds(l)' <=> Holds(l)) /\ (Acked(l)' <=> Acked(l))
        BY DEF Holds, Playing, Acked
    <2>5. \A l \in Lanes : HoldInv(l)' /\ FailInv(l)'
        BY <1>1, <2>1, <2>4 DEF Ledger, HoldInv, Reports, FailInv
    <2>6. Ledger'
        BY <1>1, <2>1, <2>4, <2>5 DEF Ledger
    <2>7. OutcomeInv'
        BY <1>1 DEF Reports, OutcomeInv
    <2> QED
        BY <1>2, <2>3, <2>5, <2>6, <2>7 DEF IInv, Reports
<1> QED
    BY <1>3, <1>4, <1>5 DEF Next

\* The invariant of the rollout: mailboxes, streams, episodes and reports.
THEOREM Inductive == Spec => []IInv
<1>1. Init => IInv
    BY RolloutStart
<1>2. IInv /\ [Next]_vars => IInv'
    BY RolloutStep
<1> QED
    BY <1>1, <1>2, PTL DEF Spec

\* No interleaving of the threads makes the broker report a protocol
\* violation or a mismatched binding, or a worker refuse its action.
THEOREM ProtocolIsKept == Spec => []ProtocolHolds
<1>1. IInv => ProtocolHolds
    BY DEF IInv, Reports, OutcomeInv, Handover, MailInv, ProtocolHolds
<1> QED
    BY <1>1, Inductive, PTL

\* What an episode's trajectory is depends on its seeds alone: not on the
\* worker, the lane, the snapshot it shared or what was played before it; and
\* no episode is collected twice.
THEOREM TrajectoriesAreReproducible == Spec => []TrajectoriesScheduleFree
<1>1. IInv => TrajectoriesScheduleFree
    BY DEF IInv, Streams, Ledger, TrajectoriesScheduleFree
<1> QED
    BY <1>1, Inductive, PTL

\* The call's result is true: a reported failure is the named worker's, with
\* its episode and phase, and success means that no worker failed.
THEOREM ResultsAreHonest == Spec => []OutcomeHonest
<1>1. IInv => OutcomeHonest
    <2> SUFFICES ASSUME IInv, bpc = "returned"
                 PROVE  /\ outcome.error = "WorkerFailed" =>
                              /\ outcome.phase = phase[outcome.lane]
                              /\ outcome.episode = game[outcome.lane].episode
                        /\ outcome.error = "Ok" => \A l \in Lanes : phase[l] = None
        BY DEF OutcomeHonest
    <2>1. OutcomeInv /\ outcome # None /\ \A l \in Lanes : FailInv(l)
        BY DEF IInv, Reports, OutcomeInv
    <2>2. outcome.error = "WorkerFailed" => outcome.lane \in Lanes
        BY <2>1 DEF IInv, TypeOK, BrokerType, Results
    <2> QED
        BY <2>1, <2>2 DEF OutcomeInv, FailInv
<1> QED
    BY <1>1, Inductive, PTL
=============================================================================
