---------------------------- MODULE HandoffDelivery ----------------------------
(***************************************************************************)
(* The handoff queue of packages/core/src/handoff-queue.ts and the server- *)
(* sent event sessions of packages/core/src/handoff-sse.ts that deliver    *)
(* its packets to one receiving tool.                                      *)
(*                                                                         *)
(* A send is one call of enqueue; sends are numbered in the order of their *)
(* queuedAt.  Two sends may carry the same packetId: the later one takes   *)
(* the place of the earlier one in the queue.                              *)
(***************************************************************************)
EXTENDS Integers, FiniteSets, Sequences, SequencesExt

CONSTANTS Packets,      \* packet ids
          Sessions,     \* the event-stream connections of the tool
          MaxSends,     \* bound: how many calls of enqueue are made
          ReplayLimit,  \* options.replayLimit
          Retention,    \* retentionMs, in ticks of the clock
          PollLimits    \* the limits a tool that polls by itself passes

ASSUME HandoffAssumption ==
    /\ MaxSends \in Nat
    /\ ReplayLimit \in Nat \ {0}
    /\ Retention \in Nat \ {0}
    /\ PollLimits \subseteq Nat

Send == 1..MaxSends

VARIABLES sends,       \* how many sends were made
          packet,      \* the packetId of each send
          entry,       \* the send each packetId has in the queue's map, or 0
          status,      \* the status of that record
          ttl,         \* how many ticks that record is from its expiresAt
          stage,       \* how far each session is
          replay,      \* the polled packets each session has yet to write
          subscribers, \* the sessions subscribed, in the order they did
          microtasks,  \* the handler calls queueMicrotask has scheduled
          received,    \* the sends whose packet each session's client received
          collected,   \* the sends whose packet a poll of the tool's returned
          dropped      \* history: sends that were overwritten, pruned, or lost
                       \* with the connection they were being replayed on

queueVars == <<sends, packet, entry, status, ttl>>
vars == <<sends, packet, entry, status, ttl, stage, replay, subscribers,
          microtasks, received, collected, dropped>>

Init ==
    /\ sends = 0
    /\ packet = <<>>
    /\ entry = [p \in Packets |-> 0]
    /\ status = [p \in Packets |-> "queued"]
    /\ ttl = [p \in Packets |-> 0]
    /\ stage = [s \in Sessions |-> "new"]
    /\ replay = [s \in Sessions |-> <<>>]
    /\ subscribers = <<>>
    /\ microtasks = <<>>
    /\ received = [s \in Sessions |-> <<>>]
    /\ collected = {}
    /\ dropped = {}

-----------------------------------------------------------------------------
(* The queue.                                                              *)

\* Mutant of enqueue that counts a scheduled handler call as a delivery.
EnqueueAsDelivered(p) ==
    /\ sends < MaxSends
    /\ sends' = sends + 1
    /\ packet' = Append(packet, p)
    /\ entry' = [entry EXCEPT ![p] = sends + 1]
    /\ status' = [status EXCEPT ![p] = IF subscribers = <<>> THEN "queued" ELSE "delivered"]
    /\ ttl' = [ttl EXCEPT ![p] = Retention]
    /\ microtasks' = microtasks \o [k \in DOMAIN subscribers |->
                                      [session |-> subscribers[k], send |-> sends + 1]]
    /\ dropped' = IF entry[p] # 0 THEN dropped \cup {entry[p]} ELSE dropped
    /\ UNCHANGED <<stage, replay, subscribers, received, collected>>

\* Every subscriber's handler is scheduled; the record stays "queued".
Enqueue(p) ==
    /\ sends < MaxSends
    /\ sends' = sends + 1
    /\ packet' = Append(packet, p)
    /\ entry' = [entry EXCEPT ![p] = sends + 1]
    /\ status' = [status EXCEPT ![p] = "queued"]
    /\ ttl' = [ttl EXCEPT ![p] = Retention]
    /\ microtasks' = microtasks \o [k \in DOMAIN subscribers |->
                                      [session |-> subscribers[k], send |-> sends + 1]]
    /\ dropped' = IF entry[p] # 0 THEN dropped \cup {entry[p]} ELSE dropped
    /\ UNCHANGED <<stage, replay, subscribers, received, collected>>

\* Mutant of poll's filter that takes packets already delivered.
PollableAgain == {entry[p] : p \in {q \in Packets : entry[q] # 0 /\ ttl[q] > 0}}

\* The sends that poll may return.
Pollable ==
    {entry[p] : p \in {q \in Packets :
                         entry[q] # 0 /\ status[q] = "queued" /\ ttl[q] > 0}}

\* How many of them that is.
PollSize(limit) == IF limit < Cardinality(Pollable) THEN limit ELSE Cardinality(Pollable)

\* Mutant of poll's sort, newest first.
PolledNewestFirst(limit) ==
    {polled \in [1..PollSize(limit) -> Pollable] :
       /\ \A i, j \in DOMAIN polled : i < j => polled[i] > polled[j]
       /\ \A m \in Pollable \ ToSet(polled), n \in ToSet(polled) : n > m}

\* The result of poll, the one sequence of the oldest limit of them.
Polled(limit) ==
    {polled \in [1..PollSize(limit) -> Pollable] :
       /\ \A i, j \in DOMAIN polled : i < j => polled[i] < polled[j]
       /\ \A m \in Pollable \ ToSet(polled), n \in ToSet(polled) : n < m}

\* What poll does to the records of the sends it returns.
MarkDelivered(polled) ==
    status' = [p \in Packets |->
                 IF entry[p] \in ToSet(polled) THEN "delivered" ELSE status[p]]

PollDirectly(limit) ==
    /\ Pollable # {}
    /\ \E polled \in Polled(limit) :
         /\ MarkDelivered(polled)
         /\ collected' = collected \cup ToSet(polled)
    /\ UNCHANGED <<sends, packet, entry, ttl, stage, replay, subscribers,
                   microtasks, received, dropped>>

PruneExpired ==
    LET old == {p \in Packets : entry[p] # 0 /\ ttl[p] = 0}
    IN  /\ old # {}
        /\ entry' = [p \in Packets |-> IF p \in old THEN 0 ELSE entry[p]]
        /\ dropped' = dropped \cup {entry[p] : p \in old}
        /\ UNCHANGED <<sends, packet, status, ttl, stage, replay, subscribers,
                       microtasks, received, collected>>

Tick ==
    /\ \E p \in Packets : ttl[p] > 0
    /\ ttl' = [p \in Packets |-> IF ttl[p] > 0 THEN ttl[p] - 1 ELSE 0]
    /\ UNCHANGED <<sends, packet, entry, status, stage, replay, subscribers,
                   microtasks, received, collected, dropped>>

-----------------------------------------------------------------------------
(* Sessions: start up to each of its awaits.                               *)

\* start writes the ready event and awaits it.
Open(s) ==
    /\ stage[s] = "new"
    /\ stage' = [stage EXCEPT ![s] = "opening"]
    /\ UNCHANGED <<queueVars, replay, subscribers, microtasks, received,
                   collected, dropped>>

\* The ready event is written: the backlog is polled, and its packets are
\* marked delivered before any of them is written.
PollBacklog(s) ==
    /\ stage[s] = "opening"
    /\ stage' = [stage EXCEPT ![s] = "replaying"]
    /\ \E polled \in Polled(ReplayLimit) :
         /\ replay' = [replay EXCEPT ![s] = polled]
         /\ MarkDelivered(polled)
    /\ UNCHANGED <<sends, packet, entry, ttl, subscribers, microtasks, received,
                   collected, dropped>>

\* One packet of the backlog is written.
ReplayWritten(s) ==
    /\ stage[s] = "replaying"
    /\ replay[s] # <<>>
    /\ received' = [received EXCEPT ![s] = Append(@, Head(replay[s]))]
    /\ replay' = [replay EXCEPT ![s] = Tail(@)]
    /\ UNCHANGED <<queueVars, stage, subscribers, microtasks, collected, dropped>>

\* A write fails: start rejects, and nobody holds the packets it polled.
OpenFails(s) ==
    /\ stage[s] \in {"opening", "replaying"}
    /\ stage' = [stage EXCEPT ![s] = "closed"]
    /\ dropped' = dropped \cup ToSet(replay[s])
    /\ replay' = [replay EXCEPT ![s] = <<>>]
    /\ UNCHANGED <<queueVars, subscribers, microtasks, received, collected>>

\* The backlog is written: only now does the session subscribe.
GoLive(s) ==
    /\ stage[s] = "replaying"
    /\ replay[s] = <<>>
    /\ stage' = [stage EXCEPT ![s] = "live"]
    /\ subscribers' = Append(subscribers, s)
    /\ UNCHANGED <<queueVars, replay, microtasks, received, collected, dropped>>

\* Mutant of unsubscribe that leaves the handler in the set.
CloseStillSubscribed(s) ==
    /\ stage[s] = "live"
    /\ stage' = [stage EXCEPT ![s] = "closed"]
    /\ UNCHANGED <<queueVars, replay, subscribers, microtasks, received, collected, dropped>>

\* The cleanup that start returns.  Handler calls already scheduled still run.
Close(s) ==
    /\ stage[s] = "live"
    /\ stage' = [stage EXCEPT ![s] = "closed"]
    /\ \E k \in DOMAIN subscribers :
         subscribers[k] = s /\ subscribers' = RemoveAt(subscribers, k)
    /\ UNCHANGED <<queueVars, replay, microtasks, received, collected, dropped>>

\* The next scheduled handler call: a closed session writes nothing, and a
\* failed write is swallowed.
RunHandler ==
    LET task == Head(microtasks)
    IN  /\ microtasks # <<>>
        /\ microtasks' = Tail(microtasks)
        /\ received' \in
             {received} \cup
             (IF stage[task.session] = "live"
              THEN {[received EXCEPT ![task.session] = Append(@, task.send)]}
              ELSE {})
        /\ UNCHANGED <<queueVars, stage, replay, subscribers, collected, dropped>>

-----------------------------------------------------------------------------

Next ==
    \/ \E p \in Packets : Enqueue(p)
    \/ \E l \in PollLimits : PollDirectly(l)
    \/ PruneExpired
    \/ Tick
    \/ \E s \in Sessions :
          \/ Open(s) \/ PollBacklog(s) \/ ReplayWritten(s)
          \/ OpenFails(s) \/ GoLive(s) \/ Close(s)
    \/ RunHandler

\* Awaited writes end, in success or failure, and microtasks run.
Fairness ==
    /\ \A s \in Sessions :
          /\ WF_vars(PollBacklog(s) \/ OpenFails(s))
          /\ WF_vars(ReplayWritten(s) \/ OpenFails(s))
          /\ WF_vars(GoLive(s))
    /\ WF_vars(RunHandler)

Spec == Init /\ [][Next]_vars /\ Fairness

-----------------------------------------------------------------------------
(* Properties.                                                             *)

TypeOK ==
    /\ sends \in 0..MaxSends
    /\ packet \in Seq(Packets) /\ Len(packet) = sends
    /\ entry \in [Packets -> 0..sends]
    /\ status \in [Packets -> {"queued", "delivered"}]
    /\ ttl \in [Packets -> 0..Retention]
    /\ stage \in [Sessions -> {"new", "opening", "replaying", "live", "closed"}]
    /\ replay \in [Sessions -> Seq(1..sends)]
    /\ received \in [Sessions -> Seq(1..sends)]
    /\ subscribers \in Seq(Sessions)
    /\ ToSet(subscribers) = {s \in Sessions : stage[s] = "live"}
    /\ microtasks \in Seq([session : Sessions, send : 1..sends])
    /\ collected \subseteq 1..sends
    /\ dropped \subseteq 1..sends

Queued(m) == \E p \in Packets : entry[p] = m /\ status[p] = "queued"
Replaying(m) == \E s \in Sessions : m \in ToSet(replay[s])
Seen(m) == m \in collected \/ \E s \in Sessions : m \in ToSet(received[s])

\* At least once: a send the tool has not seen is still queued or is being
\* replayed, unless it was overwritten or pruned, or its connection broke
\* during the replay.  Live delivery alone never takes a packet off the queue.
NoSendVanishes ==
    \A m \in 1..sends : Queued(m) \/ Replaying(m) \/ Seen(m) \/ m \in dropped

\* A send is taken off the queue by one poll only: no two sessions replay it,
\* and what is replayed or was collected is not queued any more.
PolledOnce ==
    /\ \A s \in Sessions, m \in 1..sends :
          m \in ToSet(replay[s]) =>
             /\ ~Queued(m)
             /\ m \notin collected
             /\ \A t \in Sessions \ {s} : m \notin ToSet(replay[t])
    /\ \A m \in collected : ~Queued(m)

\* One session delivers in the order of the sends and no send twice: the
\* replayed backlog first, then what is sent while it is live, although both
\* come from different code paths.
InOrderPerSession ==
    \A s \in Sessions :
       \A i, j \in DOMAIN received[s] : i < j => received[s][i] < received[s][j]

\* What docs/handoff-sse.md says of the handoff event, "sent for replayed
\* queued packets and new live packets": a packet sent while a session is
\* connected reaches it, or the connection ends.  A packet enqueued after the
\* backlog was polled and before the session subscribes does not (no run keeps
\* this trace; the README gives it).
ConnectedSessionSeesNewPackets ==
    \A s \in Sessions, m \in Send :
       (sends = m /\ stage[s] \in {"opening", "replaying", "live"}
                  /\ m \in Pollable /\ m \notin ToSet(received[s]))
          ~> (stage[s] = "closed" \/ m \in ToSet(received[s]) \/ m \notin Pollable)
=============================================================================
