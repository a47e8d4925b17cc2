----------------------------- MODULE AM4Channels -----------------------------
(***************************************************************************)
(* The AM4 channel cache (packages/am4/src/shared/channels.ts) and the     *)
(* tools that read and write it: set_param and set_params, the scene and   *)
(* preset switches, and apply_preset's wire pass                           *)
(* (packages/am4/src/descriptor/writer.ts, tools/applyExecutor.ts).        *)
(*                                                                         *)
(* Each of the amp, drive, reverb and delay blocks keeps four sets of      *)
(* parameters, its channels; a parameter write lands in the channel the    *)
(* block is on.  The server remembers the channel it last switched a block *)
(* to and skips the switch when a caller asks for the same one again.      *)
(* What matters is where parameters land and what the caller is told.      *)
(***************************************************************************)
EXTENDS Naturals

CONSTANTS
  Blocks,        \* CHANNEL_BLOCKS
  Channels,      \* A..D
  None,          \* no channel asked for, or none cached
  Calls,         \* tool calls that may be in flight together
  Outcomes,      \* what may happen to a write
  MaxWrites      \* bound: writes of one batch

SetTools == {"set_param", "set_params"}
NavTools == {"switch_scene", "switch_preset"}
ApplyTools == {"apply_buffer", "apply_at"}
AllTools == SetTools \cup NavTools \cup ApplyTools

\* "ok": the device acts and echoes; "mute": it acts, the echo is lost;
\* "lost": it never acts.
AllOutcomes == {"ok", "mute", "lost"}
Landed(out) == out \in {"ok", "mute"}

ASSUME AM4ChannelsConstants ==
  /\ None \notin Channels \cup Blocks
  /\ Outcomes \subseteq AllOutcomes
  /\ MaxWrites \in Nat

VARIABLES
  on,           \* device: the channel each block is on
  channel,      \* server: lastKnownChannel
  call,         \* server: the state of each tool call
  unsure,       \* history: blocks moved by a write whose echo was lost
  misreported,  \* history: tools that reported success and were wrong
  misled        \* history: ... because they trusted what is cached of an unsure block

vars == <<on, channel, call, unsure, misreported, misled>>

\* kind: the write awaited ("param", "channel" or "scene"); ask: the channel
\* the caller asked for; value: a channel written as a parameter; told: has
\* every write been acknowledged?  astray: did one not land, or land in
\* another channel than asked for?  misled: ... in an unsure block?  scenes: has
\* the wire pass reached the scenes?
Idle == [pc |-> "idle", tool |-> "none", block |-> None, kind |-> "param",
         ask |-> None, value |-> None, acked |-> FALSE, told |-> TRUE,
         astray |-> FALSE, misled |-> FALSE, scenes |-> FALSE, writes |-> 0]

CallRec == [pc : {"idle", "op", "chanAck", "paramAck", "navAck", "wires", "wireAck"},
            tool : AllTools \cup {"none"}, block : Blocks \cup {None},
            kind : {"param", "channel", "scene"},
            ask : Channels \cup {None}, value : Channels \cup {None},
            acked : BOOLEAN, told : BOOLEAN, astray : BOOLEAN, misled : BOOLEAN,
            scenes : BOOLEAN, writes : Nat]

\* A call that waits for a channel or parameter write is about a block.
TypeOK ==
  /\ on \in [Blocks -> Channels]
  /\ channel \in [Blocks -> Channels \cup {None}]
  /\ call \in [Calls -> CallRec]
  /\ \A c \in Calls :
       /\ call[c].pc \in {"chanAck", "paramAck"} => call[c].block # None
       /\ call[c].pc = "chanAck" => call[c].ask # None
       /\ call[c].pc = "wireAck" /\ call[c].kind = "channel"
          => call[c].block # None /\ call[c].value # None
  /\ unsure \subseteq Blocks
  /\ misreported \subseteq AllTools
  /\ misled \subseteq AllTools

Init ==
  /\ on \in [Blocks -> Channels]
  /\ channel = [b \in Blocks |-> None]
  /\ call = [c \in Calls |-> Idle]
  /\ unsure = {}
  /\ misreported = {}
  /\ misled = {}

----------------------------------------------------------------------------

Resume(c, r) == call' = [call EXCEPT ![c] = r]

\* A register of block b is set to channel l.
SendChannel(c, r, b, l, pc) ==
  \E out \in Outcomes :
    /\ on' = IF Landed(out) THEN [on EXCEPT ![b] = l] ELSE on
    /\ unsure' = IF out = "mute" THEN unsure \cup {b} ELSE unsure
    /\ Resume(c, [r EXCEPT !.pc = pc, !.acked = (out = "ok"),
                           !.astray = @ \/ ~Landed(out)])

\* The parameter of r lands in another channel than its caller asked for.
Elsewhere(r) == r.ask \notin {None, on[r.block]}

\* A parameter of r.block is set, in the channel the block is on.  The step
\* around it says what becomes of unsure.
SendParam(c, r, pc) ==
  /\ \E out \in Outcomes :
       Resume(c, [r EXCEPT !.pc = pc, !.acked = (out = "ok"),
                   !.astray = @ \/ ~Landed(out) \/ (Elsewhere(r) /\ r.block \notin unsure'),
                   !.misled = @ \/ (Elsewhere(r) /\ r.block \in unsure')])
  /\ UNCHANGED on

\* Another scene or preset puts every block on a channel of its own.  The
\* tools that switch forget all channels whatever they hear; a wire pass
\* that hears nothing does not.
SendNav(c, r, pc) ==
  \E out \in Outcomes :
    /\ IF Landed(out) THEN on' \in [Blocks -> Channels] ELSE UNCHANGED on
    /\ unsure' = IF out = "mute" /\ pc = "wireAck" THEN Blocks ELSE unsure
    /\ Resume(c, [r EXCEPT !.pc = pc, !.acked = (out = "ok"),
                           !.astray = @ \/ ~Landed(out)])

\* observeWrittenParam and the end of switchBlockChannel.
Observe(b, l) ==
  /\ channel' = [channel EXCEPT ![b] = l]
  /\ unsure' = unsure \ {b}

invalidateChannelCache ==
  /\ channel' = [b \in Blocks |-> None]
  /\ unsure' = {}

ChannelsKept == UNCHANGED <<channel, unsure>>

\* The tool's result: the set tools and a working-buffer apply count the
\* writes without an acknowledgement; apply_preset at a location does not.
Report(c, r) ==
  LET success == r.told \/ r.tool = "apply_at"
      With(tools, wrong) == IF wrong /\ success THEN tools \cup {r.tool} ELSE tools
  IN  /\ Resume(c, Idle)
      /\ misreported' = With(misreported, r.astray)
      /\ misled' = With(misled, r.misled)
      /\ UNCHANGED on

----------------------------------------------------------------------------
(* set_param, set_params.                                                  *)

StartSet(c, tool) ==
  /\ call[c] = Idle
  /\ Resume(c, [Idle EXCEPT !.pc = "op", !.tool = tool])
  /\ UNCHANGED <<on, channel, unsure, misreported, misled>>

MoreOps(r) == r.writes < IF r.tool = "set_param" THEN 1 ELSE MaxWrites

Op(c, b, ask) ==
  [call[c] EXCEPT !.block = b, !.ask = ask, !.value = None, !.kind = "param",
                  !.writes = @ + 1]

\* Mutant: the switch is skipped when any channel is cached.
SwitchNeededOnce(b, ask) == ask # None /\ channel[b] = None

\* switchBlockChannel: the write is skipped when the cache shows the channel.
SwitchNeeded(b, ask) == ask # None /\ channel[b] # ask

SetDirectly(c, b, ask) ==
  /\ call[c].pc = "op" /\ MoreOps(call[c])
  /\ ~SwitchNeeded(b, ask)
  /\ ChannelsKept
  /\ UNCHANGED <<misreported, misled>>
  /\ SendParam(c, Op(c, b, ask), "paramAck")

\* The parameter set is the block's channel register itself.
SetChannelParam(c, b, l) ==
  /\ call[c].pc = "op" /\ MoreOps(call[c])
  /\ UNCHANGED <<channel, misreported, misled>>
  /\ SendChannel(c, [Op(c, b, None) EXCEPT !.value = l], b, l, "paramAck")

SetAfterSwitch(c, b, ask) ==
  /\ call[c].pc = "op" /\ MoreOps(call[c])
  /\ SwitchNeeded(b, ask)
  /\ UNCHANGED <<channel, misreported, misled>>
  /\ SendChannel(c, Op(c, b, ask), b, ask, "chanAck")

\* The op is over: set_param returns, set_params goes on with the next.
OpOver(c, r) ==
  IF r.tool = "set_params"
  THEN Resume(c, [r EXCEPT !.pc = "op"]) /\ UNCHANGED <<on, misreported, misled>>
  ELSE Report(c, r)

ChannelSwitched(c) ==
  /\ call[c].pc = "chanAck"
  /\ call[c].acked
  /\ Observe(call[c].block, call[c].ask)
  /\ UNCHANGED <<misreported, misled>>
  /\ SendParam(c, call[c], "paramAck")

\* "The subsequent param write was NOT attempted".
SwitchFailed(c) ==
  /\ call[c].pc = "chanAck"
  /\ ~call[c].acked
  /\ ChannelsKept
  /\ OpOver(c, [call[c] EXCEPT !.told = FALSE])

ParamWritten(c) ==
  /\ call[c].pc = "paramAck"
  /\ IF call[c].acked /\ call[c].value # None
     THEN Observe(call[c].block, call[c].value) ELSE ChannelsKept
  /\ OpOver(c, [call[c] EXCEPT !.told = @ /\ call[c].acked])

SetDone(c) ==
  /\ call[c].pc = "op"
  /\ call[c].writes > 0
  /\ ChannelsKept
  /\ Report(c, call[c])

----------------------------------------------------------------------------
(* Scene and preset switches; save_preset's own switch is one of them.     *)

StartNav(c, tool) ==
  /\ call[c] = Idle
  /\ UNCHANGED <<channel, misreported, misled>>
  /\ SendNav(c, [Idle EXCEPT !.tool = tool], "navAck")

\* Mutant: the cache is invalidated only by an acknowledged switch.
NavOverIfAcked(c) ==
  /\ call[c].pc = "navAck"
  /\ IF call[c].acked THEN invalidateChannelCache ELSE ChannelsKept
  /\ UNCHANGED <<on, misreported, misled>>
  /\ Resume(c, IF call[c].tool = "apply_at" /\ call[c].acked
               THEN [call[c] EXCEPT !.pc = "wires"] ELSE Idle)

\* The cache is invalidated whether or not the switch was acknowledged; an
\* apply goes on only if it was.
NavOver(c) ==
  /\ call[c].pc = "navAck"
  /\ invalidateChannelCache
  /\ UNCHANGED <<on, misreported, misled>>
  /\ Resume(c, IF call[c].tool = "apply_at" /\ call[c].acked
               THEN [call[c] EXCEPT !.pc = "wires"] ELSE Idle)

----------------------------------------------------------------------------
(* apply_preset: at a location it switches first, else it goes straight to *)
(* the wire pass.  The slots come first, each with its channel (if any)    *)
(* and its parameters; then the scenes, each with its blocks' channels.    *)

StartApplyAt(c) ==
  /\ call[c] = Idle
  /\ UNCHANGED <<channel, misreported, misled>>
  /\ SendNav(c, [Idle EXCEPT !.tool = "apply_at"], "navAck")

StartApplyBuffer(c) ==
  /\ call[c] = Idle
  /\ UNCHANGED <<on, channel, unsure, misreported, misled>>
  /\ Resume(c, [Idle EXCEPT !.pc = "wires", !.tool = "apply_buffer"])

MoreWires(c) == call[c].pc = "wires" /\ call[c].writes < MaxWrites

\* Mutant: the wire does not carry the channel index the cache will observe.
WireChannelForgetsIndex(c, b, l) ==
  /\ MoreWires(c)
  /\ UNCHANGED <<channel, misreported, misled>>
  /\ SendChannel(c, [call[c] EXCEPT !.block = b, !.ask = l,
                                    !.kind = "channel", !.writes = @ + 1],
                 b, l, "wireAck")

\* A slot's channel write, or a block's channel in a scene.
WireChannel(c, b, l) ==
  /\ MoreWires(c)
  /\ UNCHANGED <<channel, misreported, misled>>
  /\ SendChannel(c, [call[c] EXCEPT !.block = b, !.ask = l, !.value = l,
                                    !.kind = "channel", !.writes = @ + 1],
                 b, l, "wireAck")

\* A parameter of the current slot, or of a new slot without a channel.
WireParam(c, b) ==
  /\ MoreWires(c) /\ ~call[c].scenes
  /\ ChannelsKept
  /\ UNCHANGED <<misreported, misled>>
  /\ SendParam(c, [call[c] EXCEPT !.block = b, !.kind = "param",
                                  !.ask = IF b = call[c].block THEN @ ELSE None,
                                  !.writes = @ + 1],
               "wireAck")

WireScene(c) ==
  /\ MoreWires(c)
  /\ UNCHANGED <<channel, misreported, misled>>
  /\ SendNav(c, [call[c] EXCEPT !.kind = "scene", !.scenes = TRUE,
                                !.writes = @ + 1], "wireAck")

\* Acknowledged or not, the pass goes on; the cache follows acknowledgements.
WireOver(c) ==
  /\ call[c].pc = "wireAck"
  /\ CASE call[c].acked /\ call[c].kind = "channel" ->
            Observe(call[c].block, call[c].value)
       [] call[c].acked /\ call[c].kind = "scene" -> invalidateChannelCache
       [] OTHER -> ChannelsKept
  /\ Resume(c, [call[c] EXCEPT !.pc = "wires", !.told = @ /\ call[c].acked])
  /\ UNCHANGED <<on, misreported, misled>>

ApplyDone(c) ==
  /\ call[c].pc = "wires"
  /\ ChannelsKept
  /\ Report(c, call[c])

----------------------------------------------------------------------------

\* reconnect_midi.
Reconnect ==
  /\ invalidateChannelCache
  /\ UNCHANGED <<on, call, misreported, misled>>

Begin(c) ==
  \/ \E tool \in SetTools : StartSet(c, tool)
  \/ \E tool \in NavTools : StartNav(c, tool)
  \/ StartApplyAt(c)
  \/ StartApplyBuffer(c)

Continue(c) ==
  \/ \E b \in Blocks, ask \in Channels \cup {None} : SetDirectly(c, b, ask)
  \/ \E b \in Blocks, ask \in Channels : SetAfterSwitch(c, b, ask)
  \/ \E b \in Blocks, l \in Channels : SetChannelParam(c, b, l)
  \/ ChannelSwitched(c) \/ SwitchFailed(c) \/ ParamWritten(c) \/ SetDone(c)
  \/ NavOver(c)
  \/ \E b \in Blocks, l \in Channels : WireChannel(c, b, l)
  \/ \E b \in Blocks : WireParam(c, b)
  \/ WireScene(c) \/ WireOver(c) \/ ApplyDone(c)

Next == (\E c \in Calls : Begin(c) \/ Continue(c)) \/ Reconnect

Spec == Init /\ [][Next]_vars

----------------------------------------------------------------------------
(* Properties.                                                             *)

\* A request that moves block b is out and the call has not heard of it.
Moving(r, b) ==
  \/ r.pc = "navAck"
  \/ r.pc = "wireAck" /\ r.kind = "scene"
  \/ r.block = b /\ \/ r.pc = "chanAck"
                    \/ r.pc = "paramAck" /\ r.value # None
                    \/ r.pc = "wireAck" /\ r.kind = "channel"

\* A cached channel is the one the block is on, through batches that fail half
\* way, scenes and presets that move every block and applies that move some;
\* but for a block that a channel write, or a scene switch of a wire pass, moved
\* without an echo, until its channel is heard of or forgotten.
CacheTruth ==
  \A b \in Blocks : \/ channel[b] \in {None, on[b]}
                    \/ b \in unsure
                    \/ \E c \in Calls : Moving(call[c], b)

\* A set_param, set_params or working-buffer apply all of whose writes were
\* acknowledged put every parameter in the channel its caller asked for
\* (channels.ts:152), whatever the writes before it left; but for the parameters
\* of a block whose last move was not heard.
SuccessIsTrue == misreported \cap {"set_param", "set_params", "apply_buffer"} = {}

\* channels.ts:152 stops the tools "to avoid writing to the wrong channel"
\* when a switch is not heard: none says later that a parameter is set when it
\* landed in another channel than the one asked for.
NeverMisled == misled \cap SetTools = {}

\* applyExecutor.ts:724: an empty list of skipped parameters in a successful
\* result means that "everything in the spec landed".
ApplyResultIsTrue == "apply_at" \notin misreported
=============================================================================
