----------------------------- MODULE MidiStream -----------------------------
(***************************************************************************)
(* The tools that send plain MIDI and await no answer: play_note and       *)
(* play_chord (packages/core/src/protocol-generic/dispatcher/audition.ts), *)
(* set_param, set_params and switch_preset of the Hydrasynth               *)
(* (packages/hydrasynth-explorer/src/descriptor/writer.ts), and those of    *)
(* the send_* primitives that play notes, address parameters or load       *)
(* presets: send_note, send_cc, send_program_change, send_nrpn and         *)
(* send_panic (packages/server-all/src/server/tools/midi-primitives.ts).   *)
(*                                                                         *)
(* Several such calls may be in flight.  Each runs without a pause up to   *)
(* its next await, so it is a script of segments, a segment being the      *)
(* messages sent in one go; between two segments other calls send theirs   *)
(* to the same synthesizer, which remembers a half-finished NRPN address,  *)
(* a bank and the notes that are down.                                     *)
(***************************************************************************)
EXTENDS Naturals, SequencesExt

CONSTANTS
  Calls,        \* tool calls that may be in flight together
  Notes,        \* two or more notes
  Bytes,        \* data bytes of addresses, values, banks and programs
  Controllers,  \* the controllers send_cc is given
  Chords,       \* the lists of notes play_chord is given
  Lists,        \* the lists of values set_params is given; an empty one
                \* sends nothing
  MaxHandles    \* bound: handles opened in a behaviour

ASSUME MidiStreamConstants ==
  /\ Bytes \subseteq Nat \ {0}
  /\ MaxHandles \in Nat \ {0}
  /\ Controllers \subseteq {"cc0", "cc6", "cc32", "cc38", "cc98", "cc99", "cc120", "allOff"}
  /\ Chords \subseteq Seq(Notes) /\ Lists \subseteq Seq(Bytes)
  /\ <<>> \notin Chords \cup Lists

VARIABLES
  synth,      \* the synthesizer
  live,       \* the handle the registry holds, 0 when it holds none
  opened,     \* handles opened so far
  call,       \* the state of each tool call
  abandoned   \* history: notes left down by a call that failed

vars == <<synth, live, opened, call, abandoned>>

-----------------------------------------------------------------------------
(***************************************************************************)
(* Messages and what the synthesizer does with them.  A parameter is an    *)
(* address of two bytes and takes a value of two bytes; the callers here   *)
(* give the parameter <<b, b>> the value <<b, b>> and ask for program b of *)
(* the bank <<b, b>>, or <<0, b>>, so that bytes of different requests     *)
(* never fit together.  The last message of a request that names all of    *)
(* what it wants done carries that as "asked"; a send_cc, or a program     *)
(* change without the whole bank, builds on what the synthesizer holds,    *)
(* and asks nothing that could come out wrong.                             *)
(***************************************************************************)
Message(kind, value) == [kind |-> kind, value |-> value, asked |-> <<>>]
Final(kind, value, asked) == [kind |-> kind, value |-> value, asked |-> asked]

Idle == [script |-> <<>>, handle |-> 0, batch |-> FALSE]

\* CC 99 and 98 choose the parameter, CC 6 keeps the high byte of a value, CC
\* 0 and 32 keep the bank.
Heard(s, m) ==
  CASE m.kind = "on"  -> [s EXCEPT !.down = @ \cup {m.value}]
    [] m.kind = "off" -> [s EXCEPT !.down = @ \ {m.value}]
    [] m.kind = "allOff" -> [s EXCEPT !.down = {}]
    [] m.kind = "cc99" -> [s EXCEPT !.msb = m.value]
    [] m.kind = "cc98" -> [s EXCEPT !.lsb = m.value]
    [] m.kind = "cc6"  -> [s EXCEPT !.high = m.value]
    [] m.kind = "cc0"  -> [s EXCEPT !.bankHigh = m.value]
    [] m.kind = "cc32" -> [s EXCEPT !.bank = m.value]
    [] OTHER -> s

\* CC 38 stores a value in a parameter, a Program Change loads a preset.
Done(s, m) ==
  CASE m.kind = "cc38" -> <<s.msb, s.lsb, s.high, m.value>>
    [] m.kind = "program" -> <<s.bankHigh, s.bank, m.value>>
    [] OTHER -> <<>>

\* mixed: has a request been made into another than was asked?
Hear(s, m) == [Heard(s, m) EXCEPT !.mixed = @ \/ m.asked \notin {<<>>, Done(s, m)}]

\* What has become of s after the first n messages.
After(s, messages, n) ==
  LET state[i \in 0 .. n] == IF i = 0 THEN s ELSE Hear(state[i - 1], messages[i])
  IN  state[n]

-----------------------------------------------------------------------------
(***************************************************************************)
(* Scripts                                                                 *)
(***************************************************************************)
On(n) == Message("on", n)
Off(n) == Message("off", n)

\* executePlayNote, send_note: Note On, sleep, Note Off.
PlayNote(n) == <<<<On(n)>>, <<Off(n)>>>>

\* Mutant: the loop of note-offs ends one note early.
ReleaseAllButLast(ns) == [i \in 1 .. Len(ns) - 1 |-> Off(ns[i])]

Release(ns) == [i \in DOMAIN ns |-> Off(ns[i])]

\* executePlayChord: with strum_ms a sleep between the notes, then a sleep
\* and every note-off in one go.
PlayChord(ns, strum) ==
  (IF strum THEN [i \in DOMAIN ns |-> <<On(ns[i])>>]
            ELSE <<[i \in DOMAIN ns |-> On(ns[i])]>>)
    \o <<Release(ns)>>

Address(b) == <<Message("cc99", b), Message("cc98", b)>>
Data(b) == <<Message("cc6", b), Final("cc38", b, <<b, b, b, b>>)>>

\* Mutant: the address is sent, then something is awaited.
NrpnInTwoParts(b) == <<Address(b), Data(b)>>

\* setParam: nrpnMessagesFor, each message its own send, no await between.
NrpnMessages(b) == <<Address(b) \o Data(b)>>

\* setParams: one setParam awaited after the other.
SetParams(bs) == FlattenSeq([i \in DOMAIN bs |-> NrpnMessages(bs[i])])

\* Program b of the bank <<high, b>>.
Load(high, b) ==
  <<Message("cc0", high), Message("cc32", b), Final("program", b, <<high, b, b>>)>>

\* switchPreset: the Hydrasynth's banks have no high byte.
SwitchPreset(b) == <<Load(0, b)>>

\* send_program_change: "bank arguments are optional and emitted only when
\* supplied"; without both of them the synthesizer uses what it was sent before.
SendProgramChange(b, highGiven, lowGiven) ==
  IF highGiven /\ lowGiven THEN <<Load(b, b)>>
  ELSE <<(IF highGiven THEN <<Message("cc0", b)>> ELSE <<>>)
           \o (IF lowGiven THEN <<Message("cc32", b)>> ELSE <<>>)
           \o <<Message("program", b)>>>>

SendCC(controller, b) == <<<<Message(controller, b)>>>>

\* send_nrpn hands all its bytes to one send; of those, "only the first CC
\* lands" (hydrasynth-explorer/src/encoding.ts).
SendNrpn(b) == <<<<Message("cc99", b)>>>>

\* send_panic; the sixteen channels are one here.
SendPanic == <<<<Message("cc120", 0), Message("allOff", 0)>>>>

Single == {PlayNote(n) : n \in Notes}
            \cup {PlayChord(ns, strum) : ns \in Chords, strum \in BOOLEAN}
            \cup {NrpnMessages(b) : b \in Bytes} \cup {SwitchPreset(b) : b \in Bytes}
            \cup {SendProgramChange(b, highGiven, lowGiven) :
                    b \in Bytes, highGiven \in BOOLEAN, lowGiven \in BOOLEAN}
            \cup {SendCC(controller, b) : controller \in Controllers, b \in Bytes}
            \cup {SendNrpn(b) : b \in Bytes} \cup {SendPanic}

Batches == {SetParams(bs) : bs \in Lists}

-----------------------------------------------------------------------------
(***************************************************************************)
(* Calls                                                                   *)
(***************************************************************************)
NotesOff(script) ==
  {n \in Notes : \E i \in DOMAIN script : Contains(script[i], Off(n))}

\* One segment on handle h: all of it is heard, or the send of some message
\* throws, the first one if the handle has been closed.  A batch notes the
\* failure of an operation and goes on with the next, every other call ends
\* and sends nothing more, its note-offs included.
Send(c, h, script, batch) ==
  \E heard \in 0 .. Len(script[1]) :
    LET whole == heard = Len(script[1])
        left == IF whole \/ batch THEN Tail(script) ELSE <<>>
        dropped == IF whole THEN {} ELSE NotesOff(script)
    IN  /\ h # live => heard = 0
        /\ synth' = After(synth, script[1], heard)
        /\ abandoned' = (abandoned \cup dropped) \cap synth'.down
        /\ call' = [call EXCEPT ![c] = IF left = <<>> THEN Idle
                      ELSE [script |-> left, handle |-> h, batch |-> batch]]

\* openCtx: the call keeps the handle it was given for all its segments.
Begin(c) ==
  /\ call[c] = Idle
  /\ \/ live # 0 /\ UNCHANGED <<live, opened>>
     \/ live = 0 /\ opened < MaxHandles /\ opened' = opened + 1 /\ live' = opened'
  /\ \/ \E script \in Single : Send(c, live', script, FALSE)
     \/ \E script \in Batches : Send(c, live', script, TRUE)

\* The sleep is over, or the operation awaited is done.
Continue(c) ==
  /\ call[c].script # <<>>
  /\ Send(c, call[c].handle, call[c].script, call[c].batch)
  /\ UNCHANGED <<live, opened>>

\* reconnect_midi closes the handle of the registry and opens another.
ReconnectMidi ==
  /\ opened < MaxHandles
  /\ live' \in {0, opened + 1}
  /\ opened' = IF live' = 0 THEN opened ELSE live'
  /\ UNCHANGED <<synth, call, abandoned>>

Init ==
  /\ synth = [down |-> {}, msb |-> 0, lsb |-> 0, high |-> 0, bankHigh |-> 0,
              bank |-> 0, mixed |-> FALSE]
  /\ live = 0
  /\ opened = 0
  /\ call = [c \in Calls |-> Idle]
  /\ abandoned = {}

Next == (\E c \in Calls : Begin(c) \/ Continue(c)) \/ ReconnectMidi

\* Timers fire and promises settle; nothing makes anybody call a tool.
Spec == Init /\ [][Next]_vars /\ \A c \in Calls : WF_vars(Continue(c))

-----------------------------------------------------------------------------
(***************************************************************************)
(* Properties                                                              *)
(***************************************************************************)
\* Whatever calls are in flight, whatever half-finished addresses and banks
\* others leave behind and wherever a send throws: a request that names its
\* parameter and value, or its bank and program, is carried out as asked or not
\* at all; the device never puts bytes of another request into it (writer.ts,
\* setParam and switchPreset).
RequestsArriveWhole == ~synth.mixed

\* Every note that is down comes up again, unless a call that was to release
\* it failed (audition.ts: Note On, sleep, Note Off, without a finally).
NotesComeUp ==
  \A n \in Notes : n \in synth.down ~> n \notin synth.down \/ n \in abandoned

=============================================================================
