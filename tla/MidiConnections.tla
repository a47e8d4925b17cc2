--------------------------- MODULE MidiConnections ---------------------------
(***************************************************************************)
(* The connection registry (packages/core/src/server-shared/connections.ts)*)
(* for one port label, with the calls that use the handle it gives out     *)
(* (dispatcher/core.ts openCtx, am4/src/shared/wireOps.ts), reconnect_midi *)
(* and a device that is unplugged and plugged in again.                    *)
(*                                                                         *)
(* A call keeps the handle it was given for all its requests, while other  *)
(* calls and reconnect_midi may replace it; the outcome of a write is      *)
(* charged to whatever handle the registry holds when the outcome arrives. *)
(***************************************************************************)
EXTENDS Naturals

CONSTANTS
  Handles,        \* port handles; a closed one no call holds may be used again
  Calls,          \* tool calls that may be in flight together
  None,           \* no handle
  STALE_HANDLE_TIMEOUT_THRESHOLD,
  SendThrows,     \* may a send on a handle without its device throw?
  MaxRequests     \* bound: requests of one call

ASSUME MidiConnectionsConstants ==
  /\ None \notin Handles
  /\ STALE_HANDLE_TIMEOUT_THRESHOLD \in Nat \ {0}
  /\ SendThrows \in BOOLEAN
  /\ MaxRequests \in Nat \ {0}

VARIABLES
  plugged,     \* the port can be found and opened
  open,        \* handles opened and not closed
  live,        \* those still attached to the device
  conn,        \* connections.get(label).conn, or None
  timeouts,    \* connections.get(label).consecutiveTimeouts
  error,       \* is an error cached in connectionErrors?
  call,        \* the state of each tool call
  orphan,      \* is a receive pending that nobody awaits?
  missed       \* history: unacknowledged writes in a row on handle conn itself

ports == <<plugged, open, live>>
registry == <<conn, timeouts, error>>
vars == <<ports, registry, call, orphan, missed>>

\* handle: the one the call was given; write: is the request awaited one whose
\* outcome is recorded?
Idle == [pc |-> "idle", handle |-> None, write |-> FALSE, left |-> 0]

\* The counter is only compared with the threshold, and stops there.
Counter == 0..STALE_HANDLE_TIMEOUT_THRESHOLD
Counted(n) == IF n = STALE_HANDLE_TIMEOUT_THRESHOLD THEN n ELSE n + 1

TypeOK ==
  /\ plugged \in BOOLEAN /\ error \in BOOLEAN /\ orphan \in BOOLEAN
  /\ open \subseteq Handles /\ live \subseteq open
  /\ conn \in Handles \cup {None}
  /\ timeouts \in Counter /\ missed \in Counter
  /\ call \in [Calls -> [pc : {"idle", "answer"}, handle : Handles \cup {None},
                         write : BOOLEAN, left : 0..MaxRequests]]
  /\ \A c \in Calls : call[c].pc = "answer" => call[c].handle # None
  /\ live # {} => plugged
  /\ conn = None => timeouts = 0

Init ==
  /\ plugged \in BOOLEAN
  /\ open = {} /\ live = {}
  /\ conn = None /\ timeouts = 0 /\ error = FALSE
  /\ call = [c \in Calls |-> Idle]
  /\ orphan = FALSE
  /\ missed = 0

----------------------------------------------------------------------------

Held == {call[c].handle : c \in Calls}

stale == conn # None /\ timeouts >= STALE_HANDLE_TIMEOUT_THRESHOLD

\* Mutant: the handle is taken out of the registry without being closed.
DropUnclosed(h) == open

\* The handles left open when ensureConnection drops h.
Drop(h) == open \ {h}

\* The factory is called: a fresh handle got is opened, or without the port it
\* throws and the error is kept.
Factory(got) ==
  /\ IF plugged THEN got \in Handles \ (open \cup Held) ELSE got = None
  /\ conn' = got
  /\ timeouts' = 0 /\ missed' = 0
  /\ error' = (got = None)
  /\ open' = Drop(conn) \cup ({got} \ {None})
  /\ live' = (live \cap open') \cup ({got} \ {None})
  /\ UNCHANGED plugged

\* ensureConnection(label, force) returns got, or throws (None).
ensureConnection(force, got) ==
  CASE conn # None /\ ~force /\ ~stale ->
         got = conn /\ UNCHANGED <<ports, registry, missed>>
    [] conn = None /\ error /\ ~force ->
         got = None /\ UNCHANGED <<ports, registry, missed>>
    [] OTHER -> Factory(got)

\* A receive is set up, then the request is sent: on a handle without its
\* device the send may throw, and nobody awaits the receive.
Send(c, h, write, left) ==
  \/ /\ call' = [call EXCEPT ![c] = [pc |-> "answer", handle |-> h,
                                     write |-> write, left |-> left]]
     /\ UNCHANGED orphan
  \/ /\ SendThrows /\ h \notin live'
     /\ call' = [call EXCEPT ![c] = Idle]
     /\ orphan' = TRUE

\* A tool call: openCtx, and the first request on the handle it gives.
Start(c, got, write) ==
  /\ call[c] = Idle
  /\ ensureConnection(FALSE, got)
  /\ IF got = None THEN UNCHANGED <<call, orphan>>
                   ELSE \E n \in 1..MaxRequests : Send(c, got, write, n - 1)

StartWriting(c) == \E got \in Handles \cup {None} : Start(c, got, TRUE)
StartReading(c) == \E got \in Handles \cup {None} : Start(c, got, FALSE)

\* Mutant: an unacknowledged write resets the counter too.
recordAckOutcomeResets(acked) ==
  IF conn = None THEN UNCHANGED timeouts ELSE timeouts' = 0

\* Mutant: an outcome is counted although the registry holds no handle.
recordAckOutcomeAnyway(acked) == timeouts' = IF acked THEN 0 ELSE Counted(timeouts)

\* recordAckOutcome: charged to the handle of the registry.
recordAckOutcome(acked) ==
  IF conn = None THEN UNCHANGED timeouts
  ELSE timeouts' = IF acked THEN 0 ELSE Counted(timeouts)

\* The answer arrives or its timeout ends; then the next request, or the end.
\* No answer comes through a closed handle: its handlers are gone.
Answered(c, acked) ==
  /\ call[c].pc = "answer"
  /\ acked => call[c].handle \in live
  /\ IF call[c].write
     THEN /\ recordAckOutcome(acked)
          /\ missed' = IF call[c].handle # conn THEN missed
                       ELSE IF acked THEN 0 ELSE Counted(missed)
     ELSE UNCHANGED <<timeouts, missed>>
  /\ UNCHANGED <<ports, conn, error>>
  /\ \/ call' = [call EXCEPT ![c] = Idle] /\ UNCHANGED orphan
     \/ /\ call[c].left > 0
        /\ \E write \in BOOLEAN :
             Send(c, call[c].handle, write, call[c].left - 1)

\* reconnect_midi
Reconnect ==
  /\ \E got \in Handles \cup {None} : ensureConnection(TRUE, got)
  /\ UNCHANGED <<call, orphan>>

\* The device is unplugged or switched off: its handles are dead for good.
Unplug ==
  /\ plugged
  /\ plugged' = FALSE
  /\ live' = {}
  /\ UNCHANGED <<open, registry, call, orphan, missed>>

Plug ==
  /\ ~plugged
  /\ plugged' = TRUE
  /\ UNCHANGED <<open, live, registry, call, orphan, missed>>

\* The receive nobody awaits times out: an unhandled rejection ends the
\* process, which the client starts again.
ProcessExit ==
  /\ orphan
  /\ open' = {} /\ live' = {}
  /\ conn' = None /\ timeouts' = 0 /\ error' = FALSE
  /\ call' = [c \in Calls |-> Idle]
  /\ orphan' = FALSE /\ missed' = 0
  /\ UNCHANGED plugged

Next ==
  \/ \E c \in Calls : \/ StartWriting(c)
                      \/ StartReading(c)
                      \/ \E acked \in BOOLEAN : Answered(c, acked)
  \/ Reconnect
  \/ Unplug
  \/ Plug
  \/ ProcessExit

Spec == Init /\ [][Next]_vars

\* Every await ends; the client does not stop calling tools that write.
FairSpec ==
  /\ Spec
  /\ WF_vars(ProcessExit)
  /\ \A c \in Calls : /\ WF_vars(\E acked \in BOOLEAN : Answered(c, acked))
                      /\ SF_vars(StartWriting(c))

----------------------------------------------------------------------------
(* Properties.                                                             *)

\* However the handles of concurrent calls, reconnects and failed connects
\* interleave, no port is left open but the one the registry gives out, and a
\* cached error never hides an open port (connections.ts:94-119).
OneOpenHandle ==
  /\ open = {conn} \ {None}
  /\ error => conn = None

\* No outcome of a call on an older handle hides a dead one: the counter is
\* never below the writes that went unanswered in a row on the registry's own
\* handle (it may be above: older handles' timeouts are charged to it).
MissesAreCounted == timeouts >= missed

\* wireOps.ts:83: the server "auto-reconnects after 2 consecutive ack-less
\* writes".  A client that goes on writing to a device that is back does not
\* stay on a dead handle, however many calls still hold older ones.
DeadHandleDropped == conn \notin live \cup {None} ~> conn \in live \cup {None}

\* midi-control.ts:86-89: because of that, "manual use is only needed when you
\* want to force it sooner": a client that goes on writing to a device that is
\* back gets a live handle without reconnect_midi.  It does not hold: an
\* attempt made while the port was away leaves an error no write clears.
AutoReconnects == <>[]plugged => []<>(conn \in live)
=============================================================================
