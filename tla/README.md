# A formal model of mcp-midi-tools

mcp-midi-tools is an MCP server that lets a language model play with guitar
processors and synthesizers over MIDI.  What it has to get right is not the
encoding of one command but what happens over many: the device's working buffer
is volatile, switching presets discards it, the server learns of its content
only through answers that may be late or missing, and nothing stops the client
from calling two tools at once.  These modules model that part of the system,
check it with TLC and prove the most important parts with TLAPS.

Run everything in this directory: `tlc -config X.cfg M`, `tlapm M.tla`.

## 1. The system

| Component (source) | State | Operations | Talks to | What makes it correct |
|---|---|---|---|---|
| Dispatcher (`core/src/protocol-generic/dispatcher`) | none | one `execute*` per tool: resolve names, gate, call a writer | descriptors, connection registry | the gate precedes every navigation; nothing is stored without `save_authorized` |
| AM4 gate (`am4/src/tools/safeEdit.ts`, `bufferFingerprint.ts`) | fingerprint per location; set of warmed connections | warm-up, refresh, guard | dump stream, AM4 writer | an edit is stored, waived or kept; a baseline never contains an unstored edit |
| AM4 writer (`am4/src/descriptor/writer.ts`, `tools/applyExecutor.ts`) | none of its own | switch, set, save, rename, apply, setlist, restore | gate, channels, wire | results say what landed |
| AM4 channels (`am4/src/shared/channels.ts`) | `lastKnownChannel`, `lastKnownType` | observe, switch, invalidate | writer | a skipped switch was unnecessary |
| Axe-Fx II gate (`axe-fx-ii/src/midi.ts`, `core/.../bufferDirty.ts`, `axe-fx-ii/src/tools/shared.ts`) | one dirty flag | mark on send, mark on broadcast, guard | writer, input handler | the flag is set whenever it has to be |
| Axe-Fx II writer (`descriptor/writer.ts`, `tools/applyExecutor.ts`, `tools/preset.ts`) | none | as for the AM4, plus test_apply and the grid tools | gate, wire | as for the AM4 |
| Connection registry (`core/src/server-shared/connections.ts`) | per port: handle, miss counter, last error | ensureConnection, recordAckOutcome, reconnect_midi | transport, every call | one open handle; a dead one is replaced |
| Transport (`core/src/midi/transport.ts`) | per handle: handlers, open SysEx message | connect, send, receive, close, reassembly | driver | one whole message per dispatch |
| AM4 dump stream (`am4/src/presetDump.ts`) | per waiting call: what has arrived | collect, reject, time out | transport | a dump is one dump, and not an outdated one |
| AM4 apply (`writer.ts` specToApplyInput, `applyExecutor.ts` prepareApplyPresetWrites) | none; reads `lastKnownType` | turn a specification into a list of writes, send it | channels, wire | a value lands in the channel it was asked for |
| Axe-Fx III (`axe-fx-iii/src`) | one dirty flag, two handles | mark on send, mark by the caller, mark on broadcast, guard | writer, input handler | the flag is set whenever it has to be |
| Hydrasynth patches (`hydrasynth-explorer/src/tools/patch.ts`, `shared.ts`) | one cached handle or its failure | bank/program dance, dump in chunks, write request, navigate, reconnect | wire | flash holds whole patches; "applied" is heard |
| Hydrasynth values (`encoding.ts`, `patchEncoder.ts`, `nrpn.ts`) | none | resolve a value, encode it for the wire, encode it for a patch | - | both ways mean the same value |
| Plain MIDI (`audition.ts`, `midi-primitives.ts`, Hydrasynth `writer.ts`) | none | notes, chords, NRPN, program changes, panic | registry | requests arrive whole; notes come up |
| Backups, location status (`am4/src/safety`) | cache of classifications | classify, invalidate, write | no caller yet | never stale, never overwritten |
| Resolvers, readers, discovery, CLI | none | pure lookups or requests | - | - |

A tool call is a chain of awaits.  JavaScript runs a handler alone from one await
to the next; between two of them anything may happen: another call (the MCP
server runs handlers concurrently and there is no lock), the input handler, the
player at the front panel, a time-out, a reconnect, the end of the process.  The
hard behaviours are therefore the check-then-act windows of the gates, requests
whose effect and whose answer fail separately, caches that outlive what they
describe, and handles replaced under a running call.  PROJECT.json lists the
hazards at their lines.

## 2. Modules and how they correspond to the code

`SafeEditContract` is the abstract specification: a working buffer, the stored
presets, and two facts, `guarded` (there are unstored edits the detector can see)
and `waived` (whoever moves the device has accepted to lose them).  It says what
`docs/SAFE-EDIT-WORKFLOW.md` promises: `Leave` needs `guarded => waived`.

`AM4SafeEdit` is the polled gate with all AM4 tools that change anything.
One action per step from an await to the next: it consumes the answer,
changes the server's state and sends the next request, whose effect on the device
happens in the same action because the device handles requests in order.  `call[c].pc`
names the await: `gateRead`, `gateDump`, `gateName`, `gateSaved` in
guardActiveAM4BufferOrSave; `warmRead`, `warmDump` in the warm-up; `refresh`;
`switchAck`, `renameAck`, `saveAck`, `postSwitchAck`, `writeAck` in the writer;
`entrySwitchAck`, `wiresAck`, `entrySaveAck`, `verify` in applyExecutor and the
setlist.  An outcome is `ok`, `mute` (it landed, the answer did not come) or `lost`.
restore_defaults waits in `preName`, `streaming` and `postName`: a location at a time, a stream that
nothing acknowledges, a name that may not come, a send that may throw, and after a
failed location either way of going on.  Preset contents are version numbers, a fingerprint is the version it was taken of.
`risk` and `lost` are history: which kinds of unstored edits the buffer holds, and
which were discarded by a tool that had no leave to.

`AxeFxIISafeEdit` is the flag gate in the same shape.  The flag changes when
the bytes are sent, and by `Deliver`, the input handler that sees a state
broadcast, which travels behind the edit it reports (`inflight`).  A microtask
separates the gate's answer from the tool's first send; `Deliver` is a task and
never falls between them.  STORE outcomes cover the device's refusal.
switch_scene (0x29) is not in the code's list of edits and is none here.

`AM4Channels` is the channel cache with every tool that reads or moves it.
Every write may land, land without its echo or be lost.
`misreported` collects tools that reported success though a write did not land, or
landed in another channel than the caller asked for.  A channel write whose echo is
lost leaves the cache behind the device, and so does a scene switch in an apply,
which unlike the tools that switch invalidates the cache only on an acknowledgement.
`unsure` holds the blocks so moved until news of them comes, `misled` the tools that
reported success after trusting the cache of one.

`MidiConnections` is the registry for one port.  A call keeps the handle it was
given while others replace it; `recordAckOutcome` charges whatever handle the
registry holds by then.  `live` says which open handles still reach the device.

`SysExAssembler` is the reassembly of a byte stream the driver cuts into
fragments, `PresetDump` extends it with the calls that collect a dump from what it
dispatches.  A byte is its message and its place in it.

`AM4ApplyPreset` is apply_preset on the AM4 as one function and its effect:
`Prepare` follows prepareApplyPresetWrites and gives the list of writes, `SendNext`
sends them one by one to a working buffer in which a parameter write lands in the
channel its block is on in the active scene.  A knob's value is the channel it
was asked for, so a write that goes astray shows.  `lastKnownType` decides which
knobs are sent; it may hold anything at the start of the call, because nothing ever
clears it.  Here every write is acknowledged; lost echoes are AM4Channels.  What callers
ask, the buffers they meet and what is remembered by then are constants
(`Specs` within `Askable`, `Buffers` within `Devices`, `Memories`): the proofs leave them
open, `MCAM4ApplyPreset` gives TLC a few.

`AxeFxIIISafeEdit` is the third gate.  A parameter write is the same bytes as a
read, so its caller marks the flag, after the 250 ms in which a rejection may
come (`pc = "watch"`); bypass and channel writes are marked by nobody; a
switch is a program change; silence counts as success.  The gate's verdict and
the switch it permits are one turn of the event loop, so the model runs any
number of calls at once.  Both
handles (the registry's and the package's) are there, with and without an input.

`HydrasynthPatch` is hydra_apply_patch, hydra_apply_init(_to), hydra_navigate_to and
hydra_reconnect_midi.  One action is one message; `turn` is the call that holds
the event loop, so that other calls only come in at an await.  A patch is a
function from chunks to the dump each chunk came from.  The device is external and
does what the code's comments quote of its protocol: it loads a slot's working
copy on a program change to another slot, ignores one to the slot it plays, takes
chunks into a receive buffer and may drop one that comes too fast, writes flash
for 3.5 seconds after a write request unless Protect is on, and is deaf meanwhile.  A message or
a power cut in that time may spoil what is written.  Dumps it takes whenever it listens, program
changes only with Pgm Chg RX on (`pgmRx`).

`HydrasynthValues` has one parameter of each kind of encoding and sends each value
both ways: names known and unknown, and numbers counted in halves, through the range,
around it and at the limits of the encodings.  `NrpnPosition` and `PatchPosition` are where
the device then stands, and `Display` is what it shows there,
as nrpn.ts, nrpnDisplay.ts and patchEncoder.ts record it.  `Regular` are the kinds the code treats
alike; `Ruled` the values it has a rule for, `Showable` those the device can display.

`MidiStream` has the tools that await no answer, of the send_* primitives those that play
notes, address parameters or load presets.  send_cc and a program change without its
bank leave half a request behind, or build on what another left; they ask nothing that
could come out wrong, but what they leave must not get into a request that names all it wants.  A call is a script of segments,
a segment being what is sent between two awaits; a segment may be cut short by a
send that throws, and `abandoned` collects notes whose release failed.

`X_proofs` holds the proofs about module `X`; `AM4Writes_proofs` those about AM4Channels
and AM4ApplyPreset, `Hydrasynth_proofs` those about HydrasynthPatch and HydrasynthValues.
Because these pairs meet in one module, AM4ApplyPreset and HydrasynthValues put `Apply` and
`Value` before the usual names (`ApplySpec`, `ValueSpec`).  `MCMidiStream` gives
`MidiStream` the lists TLC tries, as `MCAM4ApplyPreset` does for its module.

The devices, the player, the driver and Node's handling of a rejected promise are
external: they are modelled by what the code and its comments rely on, and marked
so in the map.

## 3. Runs

| Run | What it asks | Bounds |
|---|---|---|
| `AM4SafeEdit` | type and history invariants, the gate's promise, the inductive invariant `GateInv`, who may write a location, refinement of the contract, every call ends | 2 locations (ranges of 1 or 2), 1 call, all tools and modes, every outcome, versions start at 1 and no edit starts past 2 |
| `AxeFxIISafeEdit` | the flag tells the truth, the promise, `GateInv`, who may write a slot, refinement, every call ends | 2 slots, 1 call, 3 versions, refused and unanswered STOREs |
| `AM4Channels` | the cache is true, success is true | 2 blocks, 2 channels, 1 call, batches of 4 writes, every outcome of every write; blocks whose last move was not heard are exempt |
| `MidiConnections` | one open handle, misses are counted, a dead handle is dropped | 4 handles, 2 calls of 2 requests, threshold 2 as in the code |
| `PresetDump` | losses are contained, a dump is one piece, a dump shows the edits known | 2 calls, 2 dumps of 2 chunks of 3 bytes, fragments of 1 or 2 bytes, 2 losses, reconnects |
| `AM4ApplyPreset` | parameters land where they were asked, slots and scenes are what was asked | 1 block with channels and 1 without, 2 channels, 2 scenes, 2 positions, 2 types of which one has the gated knob; all parameters without scenes, or one listed scene |
| `AM4ApplyPreset_gate` | violated: a knob is dropped only when its type lacks it | the same |
| `AxeFxIIISafeEdit` | the flag tells the truth, the promise | 2 slots, 2 calls, STOREs stored, refused or ignored, 1 broadcast under way, a player who moves at any time |
| `HydrasynthPatch` | flash holds whole patches, is left alone while it is written, "applied" is heard | 2 slots (bounce; scratch, also as target), 1 recipe beside INIT and factory, 2 chunks, 1 call |
| `HydrasynthPatch_bounce` | violated: the same for a patch aimed at the bounce slot | 3 slots, targets A001 and E064 |
| `HydrasynthValues` | both encodings agree, or both refuse, and the device shows what was asked | 18 kinds of parameter; every name and one that is none, every half of the range and two units beyond it, and 22 numbers at the limits of 7, 8, 13, 14 and 16 bits; claimed of the 13 kinds treated alike and the values ruled, the rest are listed findings |
| `MidiStream` | requests arrive whole, notes come up | 2 calls, 2 notes, 2 data bytes, 2 handles, send_cc of CC 32, 38 and 99 (a bank, a value, an address), chords and batches of 1 or 2, none twice |

Why the bounds are enough.  The gates compare two locations (the one left, the one
gone to) and decide on one fact per buffer, so two locations and one or two
edits reach every combination of baseline, buffer and flash; setlists of two
entries reach "later entries".  The channel cache distinguishes "the channel asked
for" from "another"; two channels and two blocks do.  Two calls and four handles
give each call a handle of its own, one in the registry and one to open.  A
dump needs two chunks to have an order; mixing two dumps takes the loss of as many
messages as a dump has (CHUNKS_PER_PRESET + 2), so `MaxLosses` is kept below it,
as the checks of the code are meant for.
In AM4ApplyPreset a second channel, scene and position are what a write can slip into;
one block with channels and one without are the two ways the code treats a block.
A dump of 22 chunks has a first, a last and an await between; two chunks have
them too, and the proofs hold for any number.  Slots stand for banks: the
dance needs a target and the slot bounced off; a target that is neither the scratch slot
nor that one is in the violated run and in the proofs.
In MidiStream a data byte tells one request from another, so two of them show
every mixture.

One call in flight is an assumption, not a bound: with two the gate's promise does
not hold (see below).  `AxeFxIIISafeEdit`, `MidiConnections`, `PresetDump` and `MidiStream`
run two.  `PanelMidCall = FALSE` is the same
assumption about the player.  In the passing run of the AM4 gate the gate's
own unacknowledged save either lands or throws (`SaveFirstOutcomes`); a silent
loss is a listed finding.

Fairness.  `EveryCallEnds` assumes weak fairness of a call's own steps: every await
in the code ends with an answer, at a time-out of its own or after a fixed delay.
`DeadHandleDropped` also assumes a client that does not stop
calling tools that write (strong fairness of `StartWriting`: a call that fails at
once may be tried again) and that a rejected promise ends the process.
`NotesComeUp` assumes weak fairness of a call that is asleep: timers fire and promises
settle.  No fairness
is assumed of the device, the player, the port or reconnect_midi.

Deadlock is checked except in `AM4ApplyPreset` and `HydrasynthValues`, whose one
call ends.

Disagreements with the documents.  A violated run states what a comment or a
document says, quoted in PROJECT.json under "findings".  Others are found by a change of
the constants of a passing run; the property is in the module:

| To see | module, property | constants |
|---|---|---|
| two calls race through the gate | AM4SafeEdit, `WatchedEditsSurvive` | `Calls = {c1, c2}`, `Tools = {"switch_preset", "set_param"}`, `Modes = {"warn"}`, all outcomes `{"ok"}`, `PanelMoves = {}` |
| an audition is lost | AM4SafeEdit, `AuditionSurvives` | `Traced = {"audition"}`, `Tools = {"switch_preset", "set_param", "apply_preset"}`, `Modes = {"warn"}`, all outcomes `{"ok"}`, `PanelMoves = {}` |
| the gate's unacknowledged save is lost | AM4SafeEdit, `WatchedEditsSurvive` | `SaveFirstOutcomes = {"lost"}` |
| a refused STORE unprotects its edits | AxeFxIISafeEdit, `RefusedSaveStaysProtected` | `StoreOutcomes = {"ok", "lost"}`, `PanelMoves = {}` |
| a bypass is discarded | AxeFxIIISafeEdit, `SentEditsSurvive` | `Calls = {c1}`, `StoreOutcomes = {"stored"}` |
| after an unheard move a write goes to the wrong channel, as a success | AM4Channels, `NeverMisled` | as in the run |
| two batches meet in one block | AM4Channels, `SuccessIsTrue` | `Calls = {c1, c2}` |
| an apply that did not land is reported ok | AM4Channels, `ApplyResultIsTrue` | as in the run |
| a cached connect error is for ever | MidiConnections, `AutoReconnects` | `Calls = {c1}`, `Handles = {h1, h2}`, `SendThrows = FALSE`, `MaxRequests = 1` |
| a fragment is not split at its F7 | PresetDump, `SplitAtF7` | `CutAtF7 = FALSE`, `BufferSize = 4`, `MaxLosses = 0`, `Calls = {c1}` |
| two dumps mix in the flash | HydrasynthPatch, `FlashIsWhole`, `FlashIsLeftAlone` | `Calls = {c1, c2}` |
| the INIT patch is not heard, and said to be | HydrasynthPatch, `InitIsHeard` | as in the run |
| a number out of range or with a fraction is wrapped in one way and refused in the other | HydrasynthValues, `SameForAnyNumber` | none |
| a percentage or predelay is displayed off by a step | HydrasynthValues, `ShownExactly` | none |
| rates, curves, key tracking, negative cents and phases differ | HydrasynthValues, `SameEveryKind` | none |

Findings without a run were read in the code while it was modelled.

## 4. Proofs

`AM4SafeEdit_proofs!TypeCorrect` proves `Spec => []TypeOK` for all constants that
satisfy the module's assumption: any number of locations and of concurrent calls,
any outcome.  One lemma per send and per step of the gate, then one case per action.

The second part of the module proves `Spec => []GateInv` and from it `WatchedEditsSurvive`,
`PostSaveSwitchLosesNothing`, `BaselineExcludesEdits`, `NoSilentOverwrite` and
`ImplementsContract`, each under the assumption `Alone`: one call, a player who does not move while it is in flight, a gate's save
that lands or throws, and a history that follows watched edits.  Without each
of them TLC finds a counterexample.
`WatchedEditsSurvive` is not inductive: that a call navigates safely rests on what it
established several awaits ago.  `GateInv` adds what each await has learnt
(`Knows`): the location read is the active one, the dump taken is the buffer's, a
gate that passed found the buffer clean or its caller waives, an acknowledged
switch or save left nothing at risk; and `BaselineExcludesEdits`, which relates the
cache to the buffer.  It was checked by TLC before it was proved.
The last two follow from the invariant and the shape of a step: a step that writes a
location belongs to a call whose record says why it may (`MayStore`), and
a step that changes the device is one of the contract's (`Edit`, `Store`, `Overwrite`,
`Leave`, `Forget`), every other step leaves it alone; in a `Leave` the invariant gives
`guarded => waived`.

`AxeFxIISafeEdit_proofs` proves `TypeOK` and `FlagTellsTruth` for any number of calls
and moves of the player: the flag is set in the same turn as the bytes are sent, and
`FlagInv` needs nothing else.  `HeardEditsSurvive` and `GateInv` need `OneCall` and
`PanelMidCall = FALSE`; `PromiseInv` adds that no broadcast is under way which could
make an edit heard after the gate's STORE was acknowledged.  `NoSilentOverwrite` and
`ImplementsContract` follow as for the AM4, under the same assumptions.

`AxeFxIIISafeEdit_proofs` proves `TypeOK`, `FlagTellsTruth` and `HeardEditsSurvive` for any
number of calls, slots and broadcasts, and a player who moves at any time.  No
assumption of one call is needed, because the flag is read in the turn that
switches.  What the property leaves out are edits of a STORE or switch the
device did not carry out, after which the flag is clear ("cleared" in the module).

`AM4Writes_proofs` proves AM4Channels' `TypeOK` for all constants, and `CacheTruth` and
`SuccessIsTrue` under `OneCall`, whatever the outcomes of the writes.  Both properties exempt
the blocks of `unsure`, which `NeverMisled` shows to be necessary.  The invariant adds what a
call in the middle of a batch knows: an acknowledgement under way tells the truth about
the block, and without one the cache is right of it or it is unsure (`Pending`); a
write that went astray has been reported or will be (`Accounted`).

The second part of `AM4Writes_proofs` proves `ApplyTypeOK`, `ParamsLandWhereAsked` and
`ScenesAreFresh` of AM4ApplyPreset for any finite sets of blocks, any types, any numbers of
channels, scenes and positions, and any specifications, buffers and memories.  None of the
three is inductive: in the middle of a call scenes are half written and blocks on channels
nobody asked for.  The invariant (`ApplyInv`) says instead where the buffer comes from:
the list is the one prepared for what was asked, and the buffer is the one
the call met with the part sent so far run on it (`Run`, a recursive function over the
list).  What remains is a statement about running `Prepare(types, asked)` (`PrepareLands`).
The list is built in nested loops, over slots, over the channels of a slot, over scenes, and
within a scene over the blocks it moves and the ones it bypasses.  Each loop has an
invariant of its own, a set of buffers for each number of rounds, and a lemma that a round
leads from one set to the next: after `k` slots each block listed so far holds its
parameters on the channel meant (a flat list's is the one the block was on, which is why no
listed slot may be a block's second) and every other channel is as it was; after `k` scenes
those are as asked and none of their writes touches a parameter.  What is remembered
of types plays no part but that `Skipped` and the list are computed from the same memory.
`RunWithin` and `FlattenWithin` carry a write to all writes and a round to all rounds, by the
least number argument below.

That the writes are all echoed is in the model, not an assumption of the theorems: an
unanswered write and other calls are AM4Channels' subject.

`MidiConnections_proofs` proves `TypeOK`, `OneOpenHandle` and `MissesAreCounted` for any
number of handles and calls and any threshold, together: an answer counts for the registry's
handle only because no other one is open.

`Hydrasynth_proofs` proves HydrasynthPatch's `TypeOK` for any number of calls, with it that a write
request is only sent for a save somebody authorized; and, under `OneCall`, `FlashIsWhole` and
`FlashIsLeftAlone` for any number of chunks.  `DumpInv` says what the device has
received of the dump under way: as long as the handle it began on is good, the
device listens and has dropped none, the chunks sent so far, all of one recipe; that it writes
flash only while a call sleeps through the pause, and then, unless it dropped a chunk, a whole
recipe that call had leave to save.  `FlashIsWhole` leaves out the slots of `spoilt`: those last
written from a dump with a chunk dropped, or whose write lost its power.  Nothing the
code does could keep them whole.

`Hydrasynth_proofs` also proves `AppliedIsHeard`, under `OneCall`.  The invariant
follows the device through the dance: before each message it says where the device
is on its way (which slot it plays, what its working copies and its receive buffer
hold), for as long as the handle is good, the device listens, takes program changes, drops
no chunk and nothing else moves it; what the call may claim in the end is where that way
leads.  Pgm Chg RX is in the property because the code names it a precondition and cannot see it.

Its last part proves `SameEitherWay` and `ShowsWhatWasAsked` of HydrasynthValues.
The module has no constants and TLC tries every input, so the point of the proof is why they
hold and how far: that the two ways end together (`Placed` or `Rejected`) is shown for every
parameter of a shape, whatever its range, size and scale (`Ranged`: wire maxima up to 16383 and
any display range; `Dial`; `Indexed`: up to 8192 names; `LosesScale`: scales up to 64), and only
then the kinds are found to have those shapes.  A new parameter of such a shape needs no new check;
the irregular kinds have none of them.  `SameEitherWay` is about the values of `Ruled`: a name, known or
not, a displayable number, any number where the range is enforced, a whole number of
fourteen bits.  `ShowsWhatWasAsked` compares what was asked with `Display`, which is not the
encoder's formula but the device's: it cuts percentages down and begins the predelay at half a
millisecond, so these may be off by a step, and the property says by how much.  The arithmetic is that of the encoders: two bytes of seven or
eight bits give the number back, two's complement undoes the wrap, dividing undoes
multiplying, a rounded eighth is off by four at most, and a place in a range rounds
to a place in `0 .. wireMax` that is no further than half a step from it.

`PresetDump_proofs` proves `TypeOK`, `LossIsContained`, `DumpShowsKnownEdits` and
`DumpIsOnePiece` for any number of calls, dumps, edits, chunks and bytes per chunk, any
fragment size and reconnects at any byte.  Three arguments, each an invariant of its
own:

- The bytes on the wire are in order (`WireInv`): each is followed by the next one of its
  message, or is an F7 and is followed by an F0, except where a new handle begins to
  listen.  The open message fits what comes next unless a fragment was lost in
  between, and each loss spoils at most one message (`LossInv`).
- Everything on the wire was sent after everything that has arrived, so a dump still to
  come is at least as new as every acknowledgement that has been seen (`CallInv`): a late
  answer to an older request may be handed out, an outdated one never is.
- A call that has part of a dump and does not see the rest has missed messages, and
  each message that went by without being received has cost a loss (`PieceInv`).  To go on
  with another dump it would have to miss as many as a dump has.

The first three theorems assume `CutAtF7` (the WinMM driver the code is written for; see
`SplitAtF7` above for the other kind), the last one also
`MaxLosses < CHUNKS_PER_PRESET + 2`.  That bound is the best there is: with as many
losses as a dump has messages TLC finds two dumps mixed into one.

What the properties leave out on purpose, beside the findings above: edits that a gate let pass because
its read or dump timed out (`WatchedEditsSurvive` is about edits the gate could compare); the
edits in the buffer when the server process restarts, which nothing it keeps could tell; on
the Axe-Fx units the edits of a STORE the device did not carry out; notes whose releasing send
failed.  The end of the process by an orphaned receive is modelled as the registry starting anew.

The bounds of the models (`MaxEdits`, `MaxDumps`, `MaxLosses` and the like) are constants of
the theorems: they hold whatever their values, within the assumptions named.

`MidiStream_proofs` proves `RequestsArriveWhole` for any number of calls, handles, notes,
controllers and values, and chords and batches of any length.  The invariant is that every script in
flight is made of segments that ask for nothing, for one parameter or for one preset: a
segment that asks sets every byte it uses, so what an interrupted one or a primitive
left behind never counts.  What a segment does is a recursion over its messages (`After`), and a
batch a recursion over its operations; the induction theorems of the library cannot be
used with these provers, so the lemmas argue from the least number at which the claim
would fail (`LeastNumber`, from the well-foundedness of `<`).

Model-checked only: everything under fairness (`EveryCallEnds`, `DeadHandleDropped`,
`NotesComeUp`), which TLAPS does not reason about.  Every invariant and every safety action
property of a passing run is a theorem.

## 5. Not modelled

The repository's larger part is tables (effect types, parameter names, NRPN addresses),
scripts that extract or verify them, and wording.  They hold no state; a model would
repeat them.  Of the rest:

- Name and value resolution, discovery, layout and parameter dispatch: validation before
  one writer call.  The writers are modelled.
- The Axe-Fx II targeted apply and its grid layout beyond what the gate sees: each
  write marks the flag, which is what AxeFxIISafeEdit has of it.
- Hydrasynth system setup (fixed sequences of CCs to one page), macros and the batch of
  tools/params.ts, which is the loop of set_params on the package's own handle; the
  checksum and base-64 frame of a chunk; the wording of displays.
- The AM4 lineage, guidance texts, readers and diagnostics: they change no server state
  but `lastKnownType`, which AM4ApplyPreset lets be anything.
- Reports of setlists and restore ranges that fail half way: which locations the call may have
  stored by then, and that it ends, is checked in AM4SafeEdit; what the report counts and
  lists is not modelled.  Of a restore stream the six messages arrive together or not at all.
- Of the send_* primitives, pitch bend, pressure, clock, song position, controller reset and
  raw SysEx: one send each, which touches none of the state MidiStream follows.  A send on a
  stale handle that is dropped without throwing is not modelled there.
- Backups and location status, which no tool calls.
- Boot, command line, the mock transport.

Worth doing next: a mutual exclusion of calls per device, with which the promises that now
assume one call would hold for all.
