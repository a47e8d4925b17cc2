--------------------------- MODULE AM4ApplyPreset ---------------------------
(***************************************************************************)
(* apply_preset on the AM4: how a preset specification becomes a list of   *)
(* wire writes (specToApplyInput in packages/am4/src/descriptor/writer.ts, *)
(* prepareApplyPresetWrites in tools/applyExecutor.ts) and what the list   *)
(* does to the working buffer once runApplyPresetWires has sent it.        *)
(*                                                                         *)
(* A parameter has no channel in its write: it lands in the channel its    *)
(* block is on in the active scene, and the writes that move the block     *)
(* between channels are the same ones that configure the scenes.  Whether  *)
(* a knob is sent at all is decided before anything is sent, from what the *)
(* server remembers of the block's type.  Here every write is echoed; lost *)
(* echoes, other calls and the channel cache are the subject of            *)
(* AM4Channels.  apply_preset at a location prepares the same list before  *)
(* its preset switch, so it is this call on the buffer the switch loads.   *)
(***************************************************************************)
EXTENDS Naturals, SequencesExt

CONSTANTS
  ChannelBlocks,  \* CHANNEL_BLOCKS: amp, drive, reverb, delay
  PlainBlocks,    \* blocks without channels
  Empty,          \* an empty slot (block type "none")
  Unset,          \* a field the caller left out, or a cache entry not there
  Types,          \* the values of a block's type
  Exposing,       \* the types that have the gated knob
  ChannelCount, SceneCount, PositionCount,
  Specs,          \* the specifications callers give
  Buffers,        \* the working buffers a call meets
  Memories        \* what lastKnownType may hold by then

SlotBlocks == ChannelBlocks \cup PlainBlocks
ChannelNumbers == 1 .. ChannelCount
Scenes == 1 .. SceneCount
Positions == 1 .. PositionCount

(***************************************************************************)
(* What a caller may ask.  The value a knob is asked to take is the        *)
(* channel it is asked on (the first, for a flat list), so that a write    *)
(* gone astray shows.                                                      *)
(***************************************************************************)
Params == [type : Types \cup {Unset}, knob : BOOLEAN]

NoParams == [type |-> Unset, knob |-> FALSE]

\* A listed slot has flat params or channel-nested ones, never both:
\* specToApplyInput tells them apart and rejects a mixture, and nested ones
\* on a block without channels.
SlotInputs ==
  [block : SlotBlocks, flat : Params, nested : {Unset}]
    \cup [block : ChannelBlocks, flat : {Unset}, nested : [ChannelNumbers -> Params]]

\* An entry that says nothing is rejected.
SceneInputs ==
  [channels : [ChannelBlocks -> ChannelNumbers \cup {Unset}],
   bypass : [SlotBlocks -> BOOLEAN \cup {Unset}],
   name : {"asked", Unset}]
    \ {[channels |-> [b \in ChannelBlocks |-> Unset],
        bypass |-> [b \in SlotBlocks |-> Unset], name |-> Unset]}

\* Slots at their position, no block twice.
SlotLists ==
  {l \in [Positions -> SlotInputs \cup {Unset}] :
     \A p, q \in Positions :
       p # q /\ l[p] # Unset /\ l[q] # Unset => l[p].block # l[q].block}

NoScenes == [x \in Scenes |-> Unset]

Askable == [slots : SlotLists, scenes : [Scenes -> SceneInputs \cup {Unset}],
            landing : Scenes, name : {"asked", Unset}]

Devices == [slots : [Positions -> SlotBlocks \cup {Empty}],
            active : Scenes,
            pointer : [Scenes -> [ChannelBlocks -> ChannelNumbers]],
            bypassed : [Scenes -> SUBSET SlotBlocks],
            sceneName : [Scenes -> {"old", "asked", "empty"}],
            name : {"old", "asked"},
            type : [SlotBlocks -> [ChannelNumbers -> Types]],
            knob : [SlotBlocks -> [ChannelNumbers -> {0} \cup ChannelNumbers]]]

ASSUME AM4ApplyPresetConstants ==
  /\ Exposing \subseteq Types
  /\ ChannelBlocks \cap PlainBlocks = {}
  /\ IsFiniteSet(ChannelBlocks) /\ IsFiniteSet(PlainBlocks)
  /\ {ChannelCount, SceneCount, PositionCount} \subseteq Nat \ {0}
  /\ Empty \notin SlotBlocks
  /\ Unset \notin SlotBlocks \cup Types /\ Unset \notin ChannelNumbers /\ Unset \notin BOOLEAN
  /\ Unset \notin {"asked", "empty"}
  /\ Unset \notin SlotInputs /\ Unset \notin SceneInputs /\ Unset \notin Askable
  /\ Unset \notin [ChannelNumbers -> Params]
  /\ Specs \subseteq Askable
  /\ Buffers \subseteq Devices
  /\ Memories \subseteq [SlotBlocks -> Types \cup {Unset}]

VARIABLES
  device,           \* the AM4's working buffer
  lastKnownType,    \* server: lastKnownType, per block
  asked,            \* the specification of the call
  before,           \* history: the buffer when the call began
  prepared,         \* the prepared writes
  skipped,          \* the knobs the applicability gate dropped
  sent              \* how many writes have been sent and echoed

applyVars == <<device, lastKnownType, asked, before, prepared, skipped, sent>>

-----------------------------------------------------------------------------
(***************************************************************************)
(* prepareApplyPresetWrites                                                *)
(***************************************************************************)
\* The type buildParamWrite gates a knob on: the last one this batch writes
\* to the block, on whichever channel, or the one cached for the block.
EffectiveType(types, slot, c) ==
  LET named == IF slot.nested = Unset
                 THEN {slot.flat.type} \ {Unset}
                 ELSE {d \in 1 .. c : slot.nested[d].type # Unset}
      last == CHOOSE d \in named : \A e \in named : e <= d
  IN  IF named = {} THEN types[slot.block]
      ELSE IF slot.nested = Unset THEN slot.flat.type
      ELSE slot.nested[last].type

\* checkApplicability: an unknown type excludes nothing.
Applicable(type) == type \in Exposing \cup {Unset}

\* The type goes first, then the knob unless the gate drops it.
BuildParamWrites(types, slot, p, c) ==
  (IF p.type = Unset THEN <<>>
   ELSE <<[kind |-> "type", block |-> slot.block, value |-> p.type]>>)
    \o (IF p.knob /\ Applicable(EffectiveType(types, slot, c))
          THEN <<[kind |-> "knob", block |-> slot.block, value |-> c]>>
          ELSE <<>>)

\* Mutant: the register counts channels from one less.
ChannelWriteFromZero(b, c) == [kind |-> "channel", block |-> b, value |-> c - 1]

ChannelWrite(b, c) == [kind |-> "channel", block |-> b, value |-> c]

\* Mutant: the list stays on the channel the block is on.
NestedWritesUnswitched(types, slot) ==
  FlattenSeq([c \in ChannelNumbers |-> BuildParamWrites(types, slot, slot.nested[c], c)])

\* Channels in letter order, the ones with nothing to write left out.
NestedWrites(types, slot) ==
  FlattenSeq([c \in ChannelNumbers |->
    IF slot.nested[c] = NoParams THEN <<>>
    ELSE <<ChannelWrite(slot.block, c)>>
           \o BuildParamWrites(types, slot, slot.nested[c], c)])

Place(b, p) == [kind |-> "place", block |-> b, value |-> p]

SlotWrites(types, s, p) ==
  <<Place(s.slots[p].block, p)>>
    \o (IF s.slots[p].nested = Unset
          THEN BuildParamWrites(types, s.slots[p], s.slots[p].flat, 1)
          ELSE NestedWrites(types, s.slots[p]))

ListedWrites(types, s) ==
  FlattenSeq([p \in Positions |->
    IF s.slots[p] = Unset THEN <<>> ELSE SlotWrites(types, s, p)])

\* Slots nobody listed are cleared.
ClearingWrites(s) ==
  FlattenSeq([p \in Positions |->
    IF s.slots[p] = Unset THEN <<Place(Empty, p)>> ELSE <<>>])

\* placedBlocks
Placed(s) == {s.slots[p].block : p \in {q \in Positions : s.slots[q] # Unset}}

SceneSwitch(x) == [kind |-> "scene", block |-> Empty, value |-> x]

\* The channel a scene is told to give a block: what the entry says, the
\* first one if the scene is not listed and the block is placed.
SceneChannel(s, x, b) ==
  IF s.scenes[x] # Unset THEN s.scenes[x].channels[b]
  ELSE IF b \in Placed(s) THEN 1 ELSE Unset

SceneChannelWrites(s, x) ==
  LET named == SetToSeq({b \in ChannelBlocks : SceneChannel(s, x, b) # Unset})
  IN  [i \in DOMAIN named |-> ChannelWrite(named[i], SceneChannel(s, x, named[i]))]

Bypass(b, on) == [kind |-> "bypass", block |-> b, value |-> on]

\* The bypasses the entry asks for, then every other placed block active.
BypassAsked(s, x) ==
  IF s.scenes[x] = Unset THEN {} ELSE {b \in SlotBlocks : s.scenes[x].bypass[b] # Unset}

SceneBypassWrites(s, x) ==
  LET explicit == SetToSeq(BypassAsked(s, x))
  IN  [i \in DOMAIN explicit |-> Bypass(explicit[i], s.scenes[x].bypass[explicit[i]])]
        \o FlattenSeq([p \in Positions |->
             IF s.slots[p] = Unset \/ s.slots[p].block \in BypassAsked(s, x) THEN <<>>
             ELSE <<Bypass(s.slots[p].block, FALSE)>>])

\* An unlisted scene loses its name, a listed one keeps it unless asked.
SceneNameWrite(s, x) ==
  LET name == IF s.scenes[x] = Unset THEN "empty" ELSE s.scenes[x].name
  IN  IF name = Unset THEN <<>>
      ELSE <<[kind |-> "sceneName", block |-> Empty, value |-> name]>>

\* Mutant: only the scenes the caller listed are written.
SceneWritesIfListed(s) ==
  FlattenSeq([x \in Scenes |-> IF s.scenes[x] = Unset THEN <<>>
    ELSE <<SceneSwitch(x)>> \o SceneChannelWrites(s, x)
           \o SceneBypassWrites(s, x) \o SceneNameWrite(s, x)])

\* Every scene, listed or not, in order.
SceneWrites(s) ==
  FlattenSeq([x \in Scenes |->
    <<SceneSwitch(x)>> \o SceneChannelWrites(s, x)
      \o SceneBypassWrites(s, x) \o SceneNameWrite(s, x)])

Rename(s) ==
  IF s.name = Unset THEN <<>>
  ELSE <<[kind |-> "rename", block |-> Empty, value |-> s.name]>>

Prepare(types, s) ==
  ListedWrites(types, s) \o ClearingWrites(s) \o SceneWrites(s)
    \o <<SceneSwitch(s.landing)>> \o Rename(s)

Asks(slot, c) ==
  IF slot.nested = Unset THEN c = 1 /\ slot.flat.knob ELSE slot.nested[c].knob

Skipped(types, s) ==
  {k \in Positions \X ChannelNumbers :
     /\ s.slots[k[1]] # Unset
     /\ Asks(s.slots[k[1]], k[2])
     /\ ~Applicable(EffectiveType(types, s.slots[k[1]], k[2]))}

-----------------------------------------------------------------------------
(***************************************************************************)
(* The device: what each write does to the working buffer.                 *)
(***************************************************************************)
\* The channel a block is on; a plain block has one.
OnChannel(d, b) == IF b \in ChannelBlocks THEN d.pointer[d.active][b] ELSE 1

Land(d, w) ==
  LET here == OnChannel(d, w.block)
  IN  CASE w.kind = "place" -> [d EXCEPT !.slots[w.value] = w.block]
        [] w.kind = "channel" -> [d EXCEPT !.pointer[d.active][w.block] = w.value]
        [] w.kind = "type" -> [d EXCEPT !.type[w.block][here] = w.value]
        [] w.kind = "knob" -> IF d.type[w.block][here] \in Exposing
                                THEN [d EXCEPT !.knob[w.block][here] = w.value]
                                ELSE d
        [] w.kind = "scene" -> [d EXCEPT !.active = w.value]
        [] w.kind = "sceneName" -> [d EXCEPT !.sceneName[d.active] = w.value]
        [] w.kind = "rename" -> [d EXCEPT !.name = w.value]
        [] OTHER -> [d EXCEPT !.bypassed[d.active] =
                       IF w.value THEN @ \cup {w.block} ELSE @ \ {w.block}]

\* Panel, scenes and presets change the types and the channels, and nothing
\* clears what is remembered of the types.
ApplyInit ==
  /\ device \in Buffers
  /\ lastKnownType \in Memories
  /\ asked = Unset
  /\ before = device
  /\ prepared = <<>>
  /\ skipped = {}
  /\ sent = 0

ApplyPreset ==
  /\ asked = Unset
  /\ asked' \in Specs
  /\ prepared' = Prepare(lastKnownType, asked')
  /\ skipped' = Skipped(lastKnownType, asked')
  /\ UNCHANGED <<device, lastKnownType, before, sent>>

\* runApplyPresetWires: one write and its echo; observeWrittenParam keeps
\* the type of a block.
SendNext ==
  /\ sent < Len(prepared)
  /\ LET w == prepared[sent + 1] IN
       /\ device' = Land(device, w)
       /\ lastKnownType' = IF w.kind = "type"
                             THEN [lastKnownType EXCEPT ![w.block] = w.value]
                             ELSE lastKnownType
  /\ sent' = sent + 1
  /\ UNCHANGED <<asked, before, prepared, skipped>>

ApplyNext == ApplyPreset \/ SendNext

ApplySpec == ApplyInit /\ [][ApplyNext]_applyVars

Done == asked # Unset /\ sent = Len(prepared)

-----------------------------------------------------------------------------
(***************************************************************************)
(* Properties                                                              *)
(***************************************************************************)
ApplyTypeOK ==
  /\ device \in Devices
  /\ before \in Devices
  /\ lastKnownType \in [SlotBlocks -> Types \cup {Unset}]
  /\ skipped \subseteq Positions \X ChannelNumbers
  /\ sent \in 0 .. Len(prepared)

\* The channel of a block a flat or nested entry means: flat parameters go
\* to the channel the block was on when the call began.
Meant(slot, c) ==
  IF slot.nested = Unset THEN OnChannel(before, slot.block) ELSE c

SlotOf(b) == {p \in Positions : asked.slots[p] # Unset /\ asked.slots[p].block = b}

\* What a channel of a block was asked to take.
Wanted(b, c) ==
  {[p |-> p, from |-> e, ask |-> IF asked.slots[p].nested = Unset
                                   THEN asked.slots[p].flat ELSE asked.slots[p].nested[e]] :
     p \in SlotOf(b), e \in {e \in ChannelNumbers :
        \E q \in SlotOf(b) : /\ Meant(asked.slots[q], e) = c
                             /\ asked.slots[q].nested = Unset => e = 1}}

\* When the list has been sent, each channel of each block holds the type it
\* was asked to take, and the knob unless it was dropped or its type does
\* not have it; every parameter nobody asked for is as it was, on every
\* channel.  The channel switches of the list and the scene in which they
\* are made must not let a value slip into a neighbouring channel
\* (prepareApplyPresetWrites, applyExecutor.ts).
ParamsLandWhereAsked ==
  Done => \A b \in SlotBlocks, c \in ChannelNumbers :
    LET types == {w \in Wanted(b, c) : w.ask.type # Unset}
        knobs == {w \in Wanted(b, c) : w.ask.knob /\ <<w.p, w.from>> \notin skipped}
    IN  /\ device.type[b][c] = IF types = {} THEN before.type[b][c]
                               ELSE (CHOOSE w \in types : TRUE).ask.type
        /\ device.knob[b][c] =
             IF knobs = {} \/ device.type[b][c] \notin Exposing THEN before.knob[b][c]
             ELSE (CHOOSE w \in knobs : TRUE).from

\* When the list has been sent, the slots are exactly the ones listed, the
\* landing scene is active, a placed block is bypassed only in a scene that
\* asks for it, an unlisted scene plays the first channel of every placed
\* block and has no name, and a listed one plays the channels it names
\* (applyExecutor.ts, the fresh-build clearing of slots and scenes).
ScenesAreFresh ==
  Done =>
    /\ \A p \in Positions :
         device.slots[p] = IF asked.slots[p] = Unset THEN Empty ELSE asked.slots[p].block
    /\ device.active = asked.landing
    /\ \A x \in Scenes : device.sceneName[x] =
         CASE asked.scenes[x] = Unset -> "empty"
           [] asked.scenes[x] # Unset /\ asked.scenes[x].name = Unset -> before.sceneName[x]
           [] OTHER -> "asked"
    /\ \A x \in Scenes, b \in SlotBlocks : SlotOf(b) # {} =>
         /\ b \in device.bypassed[x] <=>
              asked.scenes[x] # Unset /\ asked.scenes[x].bypass[b] = TRUE
         /\ b \in ChannelBlocks =>
              LET ch == SceneChannel(asked, x, b) IN ch # Unset => device.pointer[x][b] = ch

\* A knob is dropped only when its type really does not have it: "dropped
\* because its applies_only_when gate excludes the active (or in-batch)
\* block type" (applyExecutor.ts, ApplyPresetSkippedParam).
DroppedForItsType ==
  Done => \A k \in skipped :
    LET slot == asked.slots[k[1]]
    IN  device.type[slot.block][Meant(slot, k[2])] \notin Exposing

=============================================================================
