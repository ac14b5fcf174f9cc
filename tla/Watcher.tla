-------------------------------- MODULE Watcher --------------------------------
(***************************************************************************)
(* The file watcher of packages/config-hub/src/index.ts and the sync of    *)
(* the SyncEngine it runs: changes of the canonical instruction file are   *)
(* debounced, rendered and written by one adapter per tool, and retried    *)
(* for the tools that failed.                                              *)
(*                                                                         *)
(* An action is one callback of the event loop; propagate has no await, so *)
(* a whole attempt is one action.  Timers are untimed: debounceMs and      *)
(* retryBaseMs are the client's, and any order in which armed timers fire  *)
(* is some choice of them.  A chain is one debounced change with its       *)
(* retries; it has at most one armed timer.                                *)
(***************************************************************************)
EXTENDS Naturals

CONSTANTS Tools,           \* the configured tools
          MaxRetries,      \* options.maxRetries
          MaxEdits,        \* bound: how often the source file is changed
          MaxChains,       \* bound: how many chains have a retry armed at a time
          ListenerMayStop  \* whether a 'propagated' listener may call stop

ASSUME WatcherAssumption ==
    /\ MaxRetries \in Nat
    /\ MaxEdits \in Nat
    /\ MaxChains \in Nat \ {0}
    /\ ListenerMayStop \in BOOLEAN

VARIABLES content,   \* the version of the source file
          valid,     \* whether that version parses
          output,    \* the version each tool's files were written from
          up,        \* the tools whose adapter renders and writes without error
          watching,  \* whether fsWatcher is set
          event,     \* whether a notification of fsWatcher is on its way
          debounce,  \* whether debounceTimer is armed
          retry,     \* the armed retry timer of each chain
          handle,    \* the chain whose timer retryTimer holds, or 0
          excused    \* history: the tools whose last change was given up, by
                     \* an 'error' event, by stop, or for want of a watcher

vars == <<content, valid, output, up, watching, event, debounce, retry,
          handle, excused>>

Version == 1..(MaxEdits + 1)
Chain == 1..MaxChains
Retry == [attempt: 1..MaxRetries, tools: SUBSET Tools]
NoRetry == [attempt |-> 0, tools |-> {}]
Torn == 0   \* the tool's files are not all there, or not of one version

TypeOK ==
    /\ content \in Version
    /\ valid \in BOOLEAN
    /\ output \in [Tools -> Version \cup {Torn}]
    /\ up \subseteq Tools
    /\ watching \in BOOLEAN
    /\ event \in BOOLEAN
    /\ debounce \in BOOLEAN
    /\ retry \in [Chain -> Retry \cup {NoRetry}]
    /\ handle \in 0..MaxChains
    /\ excused \subseteq Tools

\* A watcher is made for a file that exists; nothing is known of the outputs.
Init ==
    /\ content = 1
    /\ valid \in BOOLEAN
    /\ output \in [Tools -> {content, Torn}]
    /\ up = Tools
    /\ watching = FALSE
    /\ event = FALSE
    /\ debounce = FALSE
    /\ retry = [c \in Chain |-> NoRetry]
    /\ handle = 0
    /\ excused = Tools

-----------------------------------------------------------------------------
(* The environment: the source file and the adapters.                      *)

Edit ==
    /\ content <= MaxEdits
    /\ content' = content + 1
    /\ valid' \in BOOLEAN
    /\ event' = watching
    /\ excused' = IF watching THEN {} ELSE Tools
    /\ UNCHANGED <<output, up, watching, debounce, retry, handle>>

AdapterFlips(t) ==
    /\ up' = IF t \in up THEN up \ {t} ELSE up \cup {t}
    /\ UNCHANGED <<content, valid, output, watching, event, debounce,
                   retry, handle, excused>>

-----------------------------------------------------------------------------
(* start, stop and handleChange.                                           *)

Start ==
    /\ ~watching
    /\ watching' = TRUE
    /\ UNCHANGED <<content, valid, output, up, event, debounce, retry,
                   handle, excused>>

\* The retry timers after clearTimeout(this.retryTimer).
Cleared(armed, held) == [c \in Chain |-> IF c = held THEN NoRetry ELSE armed[c]]

Stop ==
    /\ watching' = FALSE
    /\ event' = FALSE
    /\ debounce' = FALSE
    /\ retry' = Cleared(retry, handle)
    /\ handle' = 0
    /\ excused' = Tools
    /\ UNCHANGED <<content, valid, output, up>>

HandleChange ==
    /\ debounce' = TRUE
    /\ excused' = {}
    /\ UNCHANGED <<content, valid, output, up, watching, retry, handle>>

TriggerSync == HandleChange /\ UNCHANGED event

FsEvent == event /\ event' = FALSE /\ HandleChange

-----------------------------------------------------------------------------
(* propagate.                                                              *)

\* The tools of ts that engine.sync leaves failed: all of them when the source
\* does not parse, else those whose adapter throws.  Adapters fail alone.
FailedTools(ts) == IF valid THEN ts \ up ELSE ts

\* engine.sync: a failing adapter may have written part of its files.
Sync(ts) ==
    output' \in {o \in [Tools -> Version \cup {Torn}] :
                   \A t \in Tools :
                      IF valid /\ t \in ts \cap up THEN o[t] = content
                      ELSE IF valid /\ t \in ts THEN o[t] \in {output[t], Torn}
                      ELSE o[t] = output[t]}

\* Mutant of scheduleRetry that returns at the limit without an 'error' event.
ScheduleRetrySilently(c, attempt, failed, armed, held, given) ==
    IF attempt > MaxRetries
    THEN retry' = armed /\ handle' = held /\ excused' = given
    ELSE /\ retry' = [armed EXCEPT ![c] = [attempt |-> attempt, tools |-> failed]]
         /\ handle' = c
         /\ excused' = given

\* Mutant of scheduleRetry that retries without a limit.
ScheduleRetryForever(c, attempt, failed, armed, held, given) ==
    /\ retry' = [armed EXCEPT ![c] = [attempt |-> 1, tools |-> failed]]
    /\ handle' = c
    /\ excused' = given

\* Mutant of scheduleRetry with attempt - 1 for attempt: one retry too many.
ScheduleRetryOnceMore(c, attempt, failed, armed, held, given) ==
    IF attempt > MaxRetries + 1
    THEN retry' = armed /\ handle' = held /\ excused' = given \cup failed
    ELSE /\ retry' = [armed EXCEPT ![c] = [attempt |-> attempt, tools |-> failed]]
         /\ handle' = c
         /\ excused' = given

\* scheduleRetry after the given attempt of chain c: armed and held are the
\* retry timers and retryTimer it finds, given the tools excused so far.  An
\* earlier timer that retryTimer held stays armed.
ScheduleRetry(c, attempt, failed, armed, held, given) ==
    IF attempt > MaxRetries
    THEN retry' = armed /\ handle' = held /\ excused' = given \cup failed
    ELSE /\ retry' = [armed EXCEPT ![c] = [attempt |-> attempt, tools |-> failed]]
         /\ handle' = c
         /\ excused' = given

\* One attempt of chain c for the tools ts, with the timers armed and held
\* when it runs.  Listeners run inside emit, before the retry is scheduled.
Propagate(c, attempt, ts, armed, held, pending) ==
    LET failed == FailedTools(ts)
        done   == ts \ failed
    IN  /\ Sync(ts)
        /\ \/ /\ debounce' = pending
              /\ UNCHANGED <<watching, event>>
              /\ IF failed = {}
                 THEN retry' = armed /\ handle' = held /\ excused' = excused \ done
                 ELSE ScheduleRetry(c, attempt, failed, armed, held, excused \ done)
           \/ /\ ListenerMayStop
              /\ watching' = FALSE /\ event' = FALSE /\ debounce' = FALSE
              /\ IF failed = {}
                 THEN retry' = Cleared(armed, held) /\ handle' = 0 /\ excused' = Tools
                 ELSE ScheduleRetry(c, attempt, failed, Cleared(armed, held), 0, Tools)
        /\ UNCHANGED <<content, valid, up>>

\* The debounce timer starts a chain: c names one that has no retry armed.
DebounceFires(c) ==
    /\ debounce
    /\ retry[c] = NoRetry
    /\ Propagate(c, 1, Tools, retry, handle, FALSE)

\* The callback of a retry timer forgets retryTimer, whichever timer it held.
RetryFires(c) ==
    /\ retry[c] # NoRetry
    /\ Propagate(c, retry[c].attempt + 1, retry[c].tools,
                 [retry EXCEPT ![c] = NoRetry], 0, debounce)

-----------------------------------------------------------------------------

Next ==
    \/ Edit
    \/ \E t \in Tools : AdapterFlips(t)
    \/ Start
    \/ Stop
    \/ TriggerSync
    \/ FsEvent
    \/ \E c \in Chain : DebounceFires(c) \/ RetryFires(c)

\* Notifications arrive and armed timers fire.
Fairness ==
    /\ WF_vars(FsEvent)
    /\ WF_vars(\E c \in Chain : DebounceFires(c))
    /\ \A c \in Chain : WF_vars(RetryFires(c))

Spec == Init /\ [][Next]_vars /\ Fairness

-----------------------------------------------------------------------------
(* Properties.                                                             *)

\* A tool is covered when a notification, the debounce timer or a retry that
\* names it is still to come.
Covered(t) ==
    event \/ debounce \/ \E c \in Chain : t \in retry[c].tools

\* No change is lost silently: a tool whose files are not those of the present
\* source is still to be synced, or its last change was given up aloud (an
\* 'error' event), by stop, or made while nobody watched.  Overlapping chains,
\* partial failures and torn writes never leave a stale tool forgotten.
NoChangeForgotten ==
    \A t \in Tools : output[t] = content \/ Covered(t) \/ t \in excused

\* A change made while the watcher runs ends: each tool has the present
\* content, or has been given up.
ChangeSettles ==
    \A t \in Tools : event ~> (output[t] = content \/ t \in excused)

\* What the comment of stop says, "Stop watching and cancel any pending
\* debounce or retry timers": no timer is armed once stop was called.
StopCancelsTimers ==
    [][watching /\ ~watching' =>
          ~debounce' /\ \A c \in Chain : retry'[c] = NoRetry]_vars
=============================================================================
