---------------------------- MODULE ProgressBus ----------------------------
(***************************************************************************)
(* The progress bus (core/progress.py) with the event streams of the UI    *)
(* (cli/local/runtime.py event_stream) and the task logs that listen to it *)
(* (repository/task_logs.py).                                              *)
(*                                                                         *)
(* emit takes the lock to number and append the event, to trim the log and *)
(* to copy the list of listeners; it delivers to the copies after the lock *)
(* is given back, one at a time, and drops the event for a listener whose  *)
(* queue is full.  A stream listens first and replays the log second.  An  *)
(* event carries the number of clears before it, since clear starts the    *)
(* ids again at 1.                                                         *)
(***************************************************************************)
EXTENDS Naturals, Sequences, FiniteSets, SequencesExt

CONSTANTS
  Emitters,      \* threads that emit
  EventTypes,    \* what they emit: status events, and others
  TaskThreads,   \* those of them that run a task
  Streams,       \* UI clients
  LogSize,     \* length of the log (5000 in the code)
  InboxSize,     \* length of a listener's queue (1000 in the code)
  EmitLimit,     \* bound: events emitted in all
  ClearLimit     \* bound: clears in all

ASSUME BusAssumption ==
  /\ TaskThreads \subseteq Emitters
  /\ {LogSize, InboxSize} \subseteq Nat \ {0}
  /\ {EmitLimit, ClearLimit} \subseteq Nat

VARIABLES
  log,        \* the events kept, oldest first
  nextId,
  clears,     \* how often clear was called
  stats,      \* the status that the last status event left
  listeners,  \* streams that are registered
  sending,    \* emitter -> the event it is handing out, and to whom
  stream,     \* stream -> where it is and what it was given
  taskLog,    \* emitter -> events written to the log of its task
  emitted     \* number of events emitted

busVars == <<log, nextId, clears, stats, listeners, sending, stream, taskLog, emitted>>

Idle == [event |-> <<>>, to |-> {}]

StatsOf(type) == CASE type = "pipeline_start" -> "running"
                   [] type = "pipeline_done" -> "done"
                   [] OTHER -> stats

BusInit ==
  /\ log = <<>> /\ nextId = 1 /\ clears = 0 /\ stats = "none" /\ emitted = 0
  /\ listeners = {}
  /\ sending = [e \in Emitters |-> Idle]
  /\ stream = [s \in Streams |-> [at |-> "off", shown |-> {}, inbox |-> <<>>, dropped |-> {}]]
  /\ taskLog = [e \in Emitters |-> <<>>]

\* The part of emit under the lock.
Emit(e, type) ==
  LET event == [id |-> nextId, type |-> type, ts |-> clears]
      grown == Append(log, event)
  IN /\ sending[e] = Idle /\ emitted < EmitLimit
     /\ nextId' = nextId + 1 /\ emitted' = emitted + 1
     /\ log' = IF Len(grown) > LogSize THEN Tail(grown) ELSE grown
     /\ stats' = StatsOf(type)
     /\ sending' = [sending EXCEPT ![e] = [event |-> event, to |-> listeners]]
     /\ UNCHANGED <<clears, listeners, stream, taskLog>>

\* A fault for the mutants: a full queue ends the loop over the listeners.
DeliverUntilFull(e, s) ==
  LET full == Len(stream[s].inbox) >= InboxSize
  IN /\ s \in sending[e].to
     /\ sending' = [sending EXCEPT ![e].to = IF full THEN {} ELSE @ \ {s}]
     /\ stream' = IF full THEN stream
                  ELSE [stream EXCEPT ![s].inbox = Append(@, sending[e].event)]
     /\ UNCHANGED <<log, nextId, clears, stats, listeners, taskLog, emitted>>

\* put_nowait on the next of the copied listeners.
Deliver(e, s) ==
  LET event == sending[e].event
      full == Len(stream[s].inbox) >= InboxSize
  IN /\ s \in sending[e].to
     /\ sending' = [sending EXCEPT ![e].to = @ \ {s}]
     /\ stream' = IF full THEN [stream EXCEPT ![s].dropped = @ \cup {event}]
                          ELSE [stream EXCEPT ![s].inbox = Append(@, event)]
     /\ UNCHANGED <<log, nextId, clears, stats, listeners, taskLog, emitted>>

\* The loggers run last, in the emitting thread, when it runs a task.
LogEvent(e) ==
  /\ sending[e] # Idle /\ sending[e].to = {}
  /\ taskLog' = IF e \in TaskThreads
                THEN [taskLog EXCEPT ![e] = Append(@, sending[e].event)] ELSE taskLog
  /\ sending' = [sending EXCEPT ![e] = Idle]
  /\ UNCHANGED <<log, nextId, clears, stats, listeners, stream, emitted>>

ClearBus ==
  /\ clears < ClearLimit
  /\ log' = <<>> /\ stats' = "none" /\ nextId' = 1 /\ clears' = clears + 1
  /\ UNCHANGED <<listeners, sending, stream, taskLog, emitted>>

\* A stream is off, listening, live or closed, in this order.
Listen(s) ==
  /\ stream[s].at = "off"
  /\ listeners' = listeners \cup {s}
  /\ stream' = [stream EXCEPT ![s].at = "listening"]
  /\ UNCHANGED <<log, nextId, clears, stats, sending, taskLog, emitted>>

Replay(s) ==
  /\ stream[s].at = "listening"
  /\ stream' = [stream EXCEPT ![s].at = "live", ![s].shown = ToSet(log)]
  /\ UNCHANGED <<log, nextId, clears, stats, listeners, sending, taskLog, emitted>>

Receive(s) ==
  /\ stream[s].at = "live" /\ stream[s].inbox # <<>>
  /\ stream' = [stream EXCEPT ![s].shown = @ \cup {Head(stream[s].inbox)},
                              ![s].inbox = Tail(@)]
  /\ UNCHANGED <<log, nextId, clears, stats, listeners, sending, taskLog, emitted>>

Unlisten(s) ==
  /\ stream[s].at \in {"listening", "live"}
  /\ listeners' = listeners \ {s}
  /\ stream' = [stream EXCEPT ![s].at = "closed"]
  /\ UNCHANGED <<log, nextId, clears, stats, sending, taskLog, emitted>>

BusNext ==
  \/ \E e \in Emitters, type \in EventTypes : Emit(e, type)
  \/ \E e \in Emitters, s \in Streams : Deliver(e, s)
  \/ \E e \in Emitters : LogEvent(e)
  \/ \E s \in Streams : Listen(s) \/ Replay(s) \/ Receive(s) \/ Unlisten(s)
  \/ ClearBus

BusSpec == BusInit /\ [][BusNext]_busVars

-----------------------------------------------------------------------------

OnItsWay(event, s) ==
  \/ event \in ToSet(stream[s].inbox)
  \/ \E e \in Emitters : sending[e].event = event /\ s \in sending[e].to

\* A client that has been given the replay has no gap: each event the log still
\* keeps was shown to it, waits in its queue, is still being handed out, or was
\* dropped since the queue was full, whichever threads emit meanwhile, and
\* however the log was trimmed or cleared (progress.py emit, event_stream).
\* And the log of a task lists the task's events in the order they happened.
StreamsMissNothing ==
  /\ \A s \in Streams : stream[s].at = "live" =>
       \A event \in ToSet(log) \ (stream[s].shown \cup stream[s].dropped) : OnItsWay(event, s)
  /\ \A e \in Emitters : \A i, j \in 1..Len(taskLog[e]) :
       i < j => \/ taskLog[e][i].ts < taskLog[e][j].ts
                \/ /\ taskLog[e][i].ts = taskLog[e][j].ts
                   /\ taskLog[e][i].id < taskLog[e][j].id
=============================================================================
