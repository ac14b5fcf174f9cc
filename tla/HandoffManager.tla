----------------------------- MODULE HandoffManager -----------------------------
(***************************************************************************)
(* HandoffManager.send (handoff-manager.ts) over a handoff history storage *)
(* (handoff-history.ts): concurrent sends, awaited acknowledgements with   *)
(* their timeout, and the storage calls between them, each of which may    *)
(* fail.                                                                   *)
(*                                                                         *)
(* The two storages differ in what they take for the latest event of a     *)
(* packet when several have its time: any of them here.                    *)
(***************************************************************************)
EXTENDS Integers

CONSTANTS Sends,       \* calls of send
          SentPackets,     \* packet ids: a packet may be sent again
          HistoryRetention,   \* MIN_HANDOFF_HISTORY_RETENTION_MONTHS, in ticks
          HmMaxTime    \* bound on the clock

ASSUME HandoffManagerAssumption == HistoryRetention \in Nat /\ HmMaxTime \in Nat

VARIABLES hmSend,      \* where each call is
          hmHistory,   \* the manager's own entries
          hmStore,     \* the stored events; no two are the same
          hmPruned,    \* history: stored events removed by prune, with the time of that
          hmClock

hmVars == <<hmSend, hmHistory, hmStore, hmPruned, hmClock>>

Ends == {"acknowledged", "rejected", "expired"}
Statuses == {"sent", "received"} \cup Ends
HmEvent == [packet : SentPackets, status : Statuses, eventAt : 0..HmMaxTime,
            sentAt : 0..HmMaxTime, by : Sends]

Unsent == [state |-> "unsent"]

HmInit == /\ hmSend = [s \in Sends |-> Unsent]
          /\ hmHistory = {}
          /\ hmStore = {}
          /\ hmPruned = {}
          /\ hmClock = 0

In(s, state) == hmSend[s].state = state
Goto(s, state) == hmSend' = [hmSend EXCEPT ![s].state = state]

(* The outcome of a call of send and, for one that is noted, its own entry. *)
Enter(s, status) == hmHistory' = hmHistory \cup {[by |-> s, status |-> status]}

-----------------------------------------------------------------------------
(* The history storage *)

EventsOf(p) == {e \in hmStore : e.packet = p}

(* getBaseline: a latest event of the packet, whichever send it came from. *)
Baselines(p) == {e \in EventsOf(p) : \A f \in EventsOf(p) : f.eventAt <= e.eventAt}

AppendEvent(s, status, eventAt, sentAt) ==
  hmStore' = hmStore \cup {[packet |-> hmSend[s].packet, status |-> status,
                            eventAt |-> eventAt, sentAt |-> sentAt, by |-> s]}

RecordSent(s) == AppendEvent(s, "sent", hmSend[s].sentAt, hmSend[s].sentAt)

(* A status needs an event of its packet to take the tools, the summary and
   the time of sending from. *)
RecordStatus(s, status, eventAt) ==
  \E b \in Baselines(hmSend[s].packet) : AppendEvent(s, status, eventAt, b.sentAt)

(* A mistake in PruneBefore. *)
PruneAsAsked(before) == before

(* effectivePruneBefore: never later than the retention period asks for. *)
PruneBefore(before) == IF before < hmClock - HistoryRetention THEN before ELSE hmClock - HistoryRetention

Prune(before) ==
  LET gone == {e \in hmStore : e.eventAt < PruneBefore(before)}
  IN  /\ gone # {}
      /\ hmStore' = hmStore \ gone
      /\ hmPruned' = hmPruned \cup {[event |-> e, at |-> hmClock] : e \in gone}
      /\ UNCHANGED <<hmSend, hmHistory, hmClock>>

-----------------------------------------------------------------------------
(* send *)

StartSend(s, packet, mode) ==
  /\ In(s, "unsent")
  /\ hmSend' = [hmSend EXCEPT ![s] = [state |-> "recordingSent", packet |-> packet, mode |-> mode,
                                      sentAt |-> hmClock, eventAt |-> hmClock, end |-> "none"]]
  /\ UNCHANGED <<hmHistory, hmStore, hmPruned, hmClock>>

(* Only after the event is stored does send find that it has no queue, or
   nothing to wait for. *)
SentRecorded(s) ==
  /\ In(s, "recordingSent")
  /\ RecordSent(s)
  /\ \/ Goto(s, IF hmSend[s].mode = "async" THEN "enqueueing" ELSE "waiting")
     \/ Goto(s, "thrown")
  /\ UNCHANGED <<hmHistory, hmPruned, hmClock>>

Enqueued(s) ==
  /\ In(s, "enqueueing")
  /\ Enter(s, "sent")
  /\ Goto(s, "sent")
  /\ UNCHANGED <<hmStore, hmPruned, hmClock>>

EnqueueFails(s) ==
  /\ In(s, "enqueueing")
  /\ Goto(s, "thrown")
  /\ UNCHANGED <<hmHistory, hmStore, hmPruned, hmClock>>

(* The time of an acknowledgement is its sender's; its packet is not looked at. *)
Acked(s, end, at) ==
  /\ In(s, "waiting")
  /\ hmSend' = [hmSend EXCEPT ![s].state = "recordingReceived", ![s].end = end, ![s].eventAt = at]
  /\ UNCHANGED <<hmHistory, hmStore, hmPruned, hmClock>>

(* waitForAck itself rejects: the error is passed on and nothing is noted. *)
WaitFails(s) ==
  /\ In(s, "waiting")
  /\ Goto(s, "thrown")
  /\ UNCHANGED <<hmHistory, hmStore, hmPruned, hmClock>>

(* The timer wins: an acknowledgement that comes later is not seen. *)
TimesOut(s) ==
  /\ In(s, "waiting")
  /\ hmSend' = [hmSend EXCEPT ![s].state = "recordingEnd", ![s].end = "expired",
                              ![s].eventAt = hmClock]
  /\ UNCHANGED <<hmHistory, hmStore, hmPruned, hmClock>>

ReceivedRecorded(s) ==
  /\ In(s, "recordingReceived")
  /\ RecordStatus(s, "received", hmSend[s].eventAt)
  /\ Goto(s, "recordingEnd")
  /\ UNCHANGED <<hmHistory, hmPruned, hmClock>>

(* The entry is made after the end is stored; a send that timed out then
   throws all the same. *)
EndRecorded(s) ==
  /\ In(s, "recordingEnd")
  /\ RecordStatus(s, hmSend[s].end, hmSend[s].eventAt)
  /\ Enter(s, hmSend[s].end)
  /\ Goto(s, hmSend[s].end)
  /\ UNCHANGED <<hmPruned, hmClock>>

Recording(s) == \E state \in {"recordingSent", "recordingReceived", "recordingEnd"} : In(s, state)

(* A storage call rejects: before it stored anything, for want of a baseline
   too, or after it, when the audit entry cannot be written. *)
RecordingFails(s) ==
  /\ Recording(s)
  /\ \/ UNCHANGED hmStore
     \/ In(s, "recordingSent") /\ RecordSent(s)
     \/ In(s, "recordingReceived") /\ RecordStatus(s, "received", hmSend[s].eventAt)
     \/ In(s, "recordingEnd") /\ RecordStatus(s, hmSend[s].end, hmSend[s].eventAt)
  /\ Goto(s, "thrown")
  /\ UNCHANGED <<hmHistory, hmPruned, hmClock>>

HmTick == /\ hmClock < HmMaxTime
          /\ hmClock' = hmClock + 1
          /\ UNCHANGED <<hmSend, hmHistory, hmStore, hmPruned>>

HmNext == \/ \E s \in Sends :
               \/ \E p \in SentPackets, mode \in {"sync", "async"} : StartSend(s, p, mode)
               \/ SentRecorded(s) \/ Enqueued(s) \/ EnqueueFails(s)
               \/ \E end \in {"acknowledged", "rejected"}, at \in 0..hmClock : Acked(s, end, at)
               \/ WaitFails(s) \/ TimesOut(s) \/ ReceivedRecorded(s) \/ EndRecorded(s)
               \/ RecordingFails(s)
          \/ Prune(hmClock)
          \/ HmTick

HmSpec == HmInit /\ [][HmNext]_hmVars

Call == [state : {"recordingSent", "enqueueing", "waiting", "recordingReceived",
                  "recordingEnd", "sent", "thrown"} \cup Ends,
         packet : SentPackets, mode : {"sync", "async"}, sentAt : 0..HmMaxTime,
         eventAt : 0..HmMaxTime, end : {"none"} \cup Ends]

HmTypeOK == /\ hmSend \in [Sends -> {Unsent} \cup Call]
            /\ hmHistory \subseteq [by : Sends, status : {"sent"} \cup Ends]
            /\ hmStore \subseteq HmEvent
            /\ hmPruned \subseteq [event : HmEvent, at : 0..HmMaxTime]
            /\ hmClock \in 0..HmMaxTime

-----------------------------------------------------------------------------
AllEvents == hmStore \cup {p.event : p \in hmPruned}
Stored(s) == {e.status : e \in {f \in AllEvents : f.by = s}}

(* The storage and the manager's own history agree on how a send ended: an
   entry of the history has its end stored after all that led to it; what was
   stored of a send without an entry is no end, unless the very call that
   stored it failed; and no send has two ends. *)
StoreTellsHistory ==
  /\ \A h \in hmHistory :
       /\ Stored(h.by) = CASE h.status = "sent" -> {"sent"}
                           [] h.status = "expired" -> {"sent", "expired"}
                           [] OTHER -> {"sent", "received", h.status}
       /\ \A g \in hmHistory : g.by = h.by => g = h
  /\ \A s \in Sends : (\A h \in hmHistory : h.by # s) =>
       (Stored(s) \cap Ends # {} => In(s, "thrown"))

(* An event says when its packet was sent: the time of its own send, except
   when the same packet was sent more than once. *)
OnlyResendingMixesSentAt ==
  \A e \in AllEvents : \/ e.sentAt = hmSend[e.by].sentAt
                       \/ \E t \in Sends \ {e.by} : /\ ~In(t, "unsent")
                                                    /\ hmSend[t].packet = e.packet

(* Nothing is pruned before its retention period is over, however early it is
   asked for. *)
RetentionKept == \A p \in hmPruned : p.at - p.event.eventAt > HistoryRetention

(* The history of handoffs is what happened. *)
HandoffHistorySound == StoreTellsHistory /\ OnlyResendingMixesSentAt /\ RetentionKept
=============================================================================
