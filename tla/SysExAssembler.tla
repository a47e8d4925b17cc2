--------------------------- MODULE SysExAssembler ---------------------------
(***************************************************************************)
(* The inbound seam of a MIDI connection: createSysExAssembler in          *)
(* packages/core/src/midi/transport.ts, fed by the operating system's MIDI *)
(* driver.  The driver hands a byte stream up in fragments of its own      *)
(* making; the assembler dispatches what should be one message at a time.  *)
(*                                                                         *)
(* A byte is its message and its place in it; the first one is F0, the     *)
(* last one F7.  What the bytes between them say is left to whoever        *)
(* defines the messages.                                                   *)
(***************************************************************************)
EXTENDS Naturals, SequencesExt

CONSTANTS
  Length(_),      \* the number of bytes of a message
  BufferSize,     \* RT_SYSEX_BUFFER_SIZE: the longest fragment
  CutAtF7,        \* does the driver end a fragment at every F7?
  MaxLosses       \* bound: fragments the driver loses

ASSUME SysExAssemblerConstants ==
  /\ BufferSize \in Nat \ {0}
  /\ CutAtF7 \in BOOLEAN
  /\ MaxLosses \in Nat

VARIABLES
  wire,          \* bytes the device sent and the driver has not handed up
  accumulator,   \* server: the open message, empty when there is none
  losses,        \* fragments lost so far
  glued          \* history: dispatched F0... that are not one whole message

medium == <<wire, accumulator, losses, glued>>

Bytes(message) == [i \in 1..Length(message) |-> [of |-> message, at |-> i]]

IsF0(b) == b.at = 1
IsF7(b) == b.at = Length(b.of)

Whole(msg) == msg = Bytes(msg[1].of)

MediumInit ==
  /\ wire = <<>> /\ accumulator = <<>>
  /\ losses = 0 /\ glued = 0

Transmit(bytes) ==
  /\ wire' = wire \o bytes
  /\ UNCHANGED <<accumulator, losses, glued>>

\* The fragments the driver may hand up next: WinMM fills a buffer or ends it
\* with the message; other drivers may go on past an F7.
Fragments ==
  {bytes \in {SubSeq(wire, 1, n) : n \in 1..BufferSize \cap DOMAIN wire} :
     CutAtF7 => ~\E i \in DOMAIN Front(bytes) : IsF7(bytes[i])}

\* Mutant: fragments are passed on as they come.
dispatchUnassembled(bytes) == bytes

\* What the assembler dispatches when bytes come up, <<>> for nothing: a fragment
\* F0...F7, or one that is not SysEx, passes at once while no message is open; an
\* open message is complete when a fragment ends in F7.  (The last F7 of what has
\* been gathered is then its last byte, so nothing ever trails it.)
dispatch(bytes) ==
  IF accumulator = <<>> /\ (IsF0(bytes[1]) => IsF7(Last(bytes))) THEN bytes
  ELSE IF IsF7(Last(bytes)) THEN accumulator \o bytes
  ELSE <<>>

\* Mutant: a fragment is kept whether or not it opens with F0.
accumulateAnything(bytes) ==
  accumulator' = IF IsF7(Last(bytes)) THEN <<>> ELSE accumulator \o bytes

\* What stays open: gathering starts at an F0 and ends with a dispatch.
accumulate(bytes) ==
  accumulator' = IF dispatch(bytes) = <<>> THEN accumulator \o bytes ELSE <<>>

IsGlued(msg) == msg # <<>> /\ IsF0(msg[1]) /\ ~Whole(msg)

\* The driver hands a fragment up and the assembler dispatches msg.
HandUp(bytes, msg) ==
  /\ bytes \in Fragments
  /\ msg = dispatch(bytes)
  /\ accumulate(bytes)
  /\ wire' = SubSeq(wire, Len(bytes) + 1, Len(wire))
  /\ glued' = IF IsGlued(msg) THEN glued + 1 ELSE glued
  /\ UNCHANGED losses

\* A fragment is lost: the driver had no buffer for it.
Lose(bytes) ==
  /\ losses < MaxLosses
  /\ bytes \in Fragments
  /\ wire' = SubSeq(wire, Len(bytes) + 1, Len(wire))
  /\ losses' = losses + 1
  /\ UNCHANGED <<accumulator, glued>>

\* A new handle has an assembler of its own; it hears what is still to come,
\* from somewhere in the middle of a message perhaps.
Reopen ==
  /\ wire' \in Suffixes(wire)
  /\ accumulator' = <<>>
  /\ UNCHANGED <<losses, glued>>

----------------------------------------------------------------------------
(* Properties.                                                             *)

\* What is open begins with an F0 and, under a driver that ends fragments at
\* every F7, holds no other end of a message.
AccumulatorOK ==
  accumulator # <<>> =>
    /\ IsF0(accumulator[1])
    /\ CutAtF7 => ~\E i \in DOMAIN accumulator : IsF7(accumulator[i])

\* Downstream parsers rely on one whole message per dispatch (transport.ts:66):
\* however the stream is cut, and wherever a new handle begins to listen, each
\* lost fragment mangles at most one dispatched message.
LossIsContained == glued <= losses

\* transport.ts:81-83: a fragment with an F7 in the middle "is split at the F7:
\* prefix is emitted as the completed message, trailing bytes open a new
\* accumulation if they start with F0", so without losses no dispatch holds more
\* than one message.  It does not hold: the fragment is passed on, or kept, whole.
SplitAtF7 == losses = 0 => glued = 0
=============================================================================
