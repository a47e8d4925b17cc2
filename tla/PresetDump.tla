----------------------------- MODULE PresetDump -----------------------------
(***************************************************************************)
(* The AM4 working-buffer dump: receivePresetDumpStream in                 *)
(* packages/am4/src/presetDump.ts over the reassembled input of a          *)
(* connection (SysExAssembler).  It is what the dirty gate fingerprints    *)
(* and what the dump tool returns.                                         *)
(*                                                                         *)
(* A dump is a header, CHUNKS_PER_PRESET chunks and a footer.  Each call   *)
(* that waits for one listens to everything that arrives, so dumps asked   *)
(* for by other calls, late ones of calls that timed out, mangled messages *)
(* and acknowledgements of edits all reach it.                             *)
(***************************************************************************)
EXTENDS SysExAssembler

CONSTANTS
  Calls,               \* tool calls that may wait for a dump together
  CHUNKS_PER_PRESET,
  ChunkLength,         \* bytes of a chunk; other messages have two
  MaxDumps, MaxEdits   \* bounds: dumps asked for, edits made

ASSUME PresetDumpConstants ==
  /\ CHUNKS_PER_PRESET \in Nat \ {0}
  /\ ChunkLength \in Nat \ (0..1)
  /\ MaxDumps \in Nat /\ MaxEdits \in Nat

VARIABLES
  version,   \* device: the content of the working buffer
  dumps,     \* number of dumps asked for
  known,     \* the newest edit whose acknowledgement has been dispatched
  call       \* server: what each waiting call has received

vars == <<medium, version, dumps, known, call>>

DumpKinds == {"header", "chunk", "footer"}

\* A message: its kind, the dump it belongs to, the content it was taken from
\* and its number among the chunks.
Message(kind, dump, content, i) ==
  [kind |-> kind, dump |-> dump, content |-> content, i |-> i]

MessageLength(m) == IF m.kind = "chunk" THEN ChunkLength ELSE 2

\* The messages of the device, and each as long as it is.
Messages ==
  [kind : DumpKinds \cup {"ack"}, dump : 0..MaxDumps, content : 0..MaxEdits,
   i : 0..CHUNKS_PER_PRESET]

ASSUME MessageLengths == \A m \in Messages : Length(m) = MessageLength(m)

DumpStream(dump, content) ==
  [i \in 1..(CHUNKS_PER_PRESET + 2) |->
     CASE i = 1 -> Message("header", dump, content, 0)
       [] i = CHUNKS_PER_PRESET + 2 -> Message("footer", dump, content, 0)
       [] OTHER -> Message("chunk", dump, content, i - 1)]

\* The bytes of its messages, one message after the other.
DumpBytes(dump, content) ==
  Bytes(Message("header", dump, content, 0))
    \o [k \in 1..(CHUNKS_PER_PRESET * ChunkLength) |->
          [of |-> Message("chunk", dump, content, ((k - 1) \div ChunkLength) + 1),
           at |-> ((k - 1) % ChunkLength) + 1]]
    \o Bytes(Message("footer", dump, content, 0))

\* since: the newest edit known to have landed when the dump was asked for;
\* listening: is the handler registered on the open handle?
Idle == [pc |-> "idle", since |-> 0, listening |-> FALSE, header |-> <<>>,
         chunks |-> <<>>, footer |-> <<>>]

CallOK(r) ==
  /\ r.pc \in {"idle", "waiting", "resolved"}
  /\ r.since \in Nat
  /\ r.listening => r.pc = "waiting"
  /\ r.header = <<>> \/ Whole(r.header)
  /\ r.header = <<>> => r.chunks = <<>>
  /\ Len(r.chunks) <= CHUNKS_PER_PRESET
  /\ r.footer # <<>> <=> r.pc = "resolved"

\* State of the right shape; a call that waits has received a prefix of a dump.
TypeOK ==
  /\ version \in Nat /\ dumps \in 0..MaxDumps
  /\ known \in 0..version
  /\ AccumulatorOK
  /\ \A c \in Calls : CallOK(call[c])

Init ==
  /\ MediumInit
  /\ version = 0 /\ dumps = 0 /\ known = 0
  /\ call = [c \in Calls |-> Idle]

----------------------------------------------------------------------------

\* Mutant: a dump another call has just received is handed out again.
StartDumpShares(c) ==
  /\ call[c] = Idle
  /\ dumps < MaxDumps
  /\ dumps' = dumps + 1
  /\ IF \E d \in Calls : call[d].pc = "resolved"
     THEN /\ \E d \in Calls : /\ call[d].pc = "resolved"
                              /\ call' = [call EXCEPT ![c] =
                                            [call[d] EXCEPT !.since = known]]
          /\ UNCHANGED medium
     ELSE /\ call' = [call EXCEPT ![c] = [Idle EXCEPT !.pc = "waiting",
                                            !.since = known, !.listening = TRUE]]
          /\ Transmit(DumpBytes(dumps', version))
  /\ UNCHANGED <<version, known>>

\* The listener is registered and the request sent; the device answers with the
\* buffer as it is, or not at all.
StartDump(c) ==
  /\ call[c] = Idle
  /\ dumps < MaxDumps
  /\ dumps' = dumps + 1
  /\ call' = [call EXCEPT ![c] = [Idle EXCEPT !.pc = "waiting", !.since = known,
                                              !.listening = TRUE]]
  /\ \/ Transmit(DumpBytes(dumps', version))
     \/ UNCHANGED medium
  /\ UNCHANGED <<version, known>>

\* An edit lands and is acknowledged.
Edit ==
  /\ version < MaxEdits
  /\ version' = version + 1
  /\ Transmit(Bytes(Message("ack", 0, version', 0)))
  /\ UNCHANGED <<dumps, known, call>>

\* Mutant: the length and the checksum are not checked.
FitsAnyLength(r, msg) ==
  CASE msg[1].of.kind = "header" -> r.header = <<>>
    [] msg[1].of.kind = "chunk" -> /\ r.header # <<>>
                                   /\ Len(r.chunks) < CHUNKS_PER_PRESET
    [] msg[1].of.kind = "footer" -> /\ r.header # <<>>
                                    /\ Len(r.chunks) = CHUNKS_PER_PRESET

\* The message is the one the receiver waits for, and in one piece
\* (assertDumpMessageShape).
Fits(r, msg) ==
  /\ Whole(msg)
  /\ CASE msg[1].of.kind = "header" -> r.header = <<>>
       [] msg[1].of.kind = "chunk" -> /\ r.header # <<>>
                                      /\ Len(r.chunks) < CHUNKS_PER_PRESET
       [] msg[1].of.kind = "footer" -> /\ r.header # <<>>
                                       /\ Len(r.chunks) = CHUNKS_PER_PRESET

Take(r, msg) ==
  CASE msg[1].of.kind = "header" -> [r EXCEPT !.header = msg]
    [] msg[1].of.kind = "chunk" -> [r EXCEPT !.chunks = Append(@, msg)]
    [] msg[1].of.kind = "footer" -> [r EXCEPT !.footer = msg, !.pc = "resolved",
                                              !.listening = FALSE]

\* The handler: other messages pass by, one that does not fit rejects the dump.
onMessage(r, msg) ==
  IF ~r.listening \/ msg = <<>> \/ ~IsF0(msg[1]) \/ msg[1].of.kind \notin DumpKinds THEN r
  ELSE IF Fits(r, msg) THEN Take(r, msg)
  ELSE Idle

\* A fragment comes up; what it completes reaches every listener.
Arrive(bytes) ==
  /\ \E msg \in {dispatch(bytes)} :
       /\ HandUp(bytes, msg)
       /\ call' = [c \in Calls |-> onMessage(call[c], msg)]
       /\ known' = IF msg # <<>> /\ Whole(msg) /\ msg[1].of.kind = "ack"
                   THEN msg[1].of.content ELSE known
  /\ UNCHANGED <<version, dumps>>

LoseFragment(bytes) == Lose(bytes) /\ UNCHANGED <<version, dumps, known, call>>

Timeout(c) ==
  /\ call[c].pc = "waiting"
  /\ call' = [call EXCEPT ![c] = Idle]
  /\ UNCHANGED <<medium, version, dumps, known>>

\* The caller goes on with the dump it was given.
Use(c) ==
  /\ call[c].pc = "resolved"
  /\ call' = [call EXCEPT ![c] = Idle]
  /\ UNCHANGED <<medium, version, dumps, known>>

\* reconnect_midi or a stale handle: the old handle loses its handlers, and the
\* calls waiting on it are left to their timeouts.
Reconnect ==
  /\ Reopen
  /\ call' = [c \in Calls |-> [call[c] EXCEPT !.listening = FALSE]]
  /\ UNCHANGED <<version, dumps, known>>

Next ==
  \/ \E c \in Calls : StartDump(c) \/ Timeout(c) \/ Use(c)
  \/ Edit
  \/ \E bytes \in Fragments : Arrive(bytes) \/ LoseFragment(bytes)
  \/ Reconnect

Spec == Init /\ [][Next]_vars

----------------------------------------------------------------------------
(* Properties.                                                             *)

\* A dump that is given out is one dump: whole messages, all of the same
\* request, each chunk once and in order, whatever other dumps, mangled
\* messages and losses came in between.  (Mixing two takes CHUNKS_PER_PRESET + 2
\* losses in a row, the number of messages of a dump; MaxLosses stays below.)
DumpIsOnePiece ==
  \A c \in Calls : call[c].pc = "resolved" =>
    LET of == call[c].header[1].of
        stream == DumpStream(of.dump, of.content)
    IN  <<call[c].header>> \o call[c].chunks \o <<call[c].footer>>
          = [i \in DOMAIN stream |-> Bytes(stream[i])]

\* A dump may be the late answer to an older request, and yet it shows every
\* edit whose acknowledgement had arrived when it was asked for: this is what
\* lets the dirty gate trust it.
DumpShowsKnownEdits ==
  \A c \in Calls : call[c].pc = "resolved" =>
    call[c].header[1].of.content >= call[c].since
=============================================================================
