-------------------------- MODULE HydrasynthPatch --------------------------
(***************************************************************************)
(* Whole patches sent to the Hydrasynth Explorer: hydra_apply_patch,       *)
(* hydra_apply_init, hydra_apply_init_to, hydra_navigate_to and            *)
(* hydra_reconnect_midi (packages/hydrasynth-explorer/src/tools/), over    *)
(* the one cached handle of tools/shared.ts.                               *)
(*                                                                         *)
(* A dump is a header, the chunks of the patch, for a save a write request *)
(* and a long pause, and a footer; before and after it the bank/PC dance   *)
(* takes the device to the slot by way of another one.  The device answers *)
(* but nothing waits for the answers: they are counted for the reply.      *)
(*                                                                         *)
(* One action is one message (the three of a bank and program change are   *)
(* one).  The handler keeps the event loop from one await to the next:     *)
(* that is the variable turn.                                              *)
(***************************************************************************)
EXTENDS Naturals, FiniteSets

CONSTANTS
  Slots,        \* patch slots, each of a bank of its own
  Scratch,      \* the slot for a dump without one (H128)
  Bounce,       \* the slot the dance goes by (E064)
  Targets,      \* the slots named by the calls
  Recipes,      \* parameter lists of hydra_apply_patch
  Init0,        \* the INIT patch
  Factory,      \* what the slots hold at first
  NoChunk,      \* a chunk the device has not received
  ChunkCount,   \* chunks of a dump (22)
  Calls,        \* tool calls that may be in flight together
  None          \* no value

Chunks == 0 .. ChunkCount - 1
Sources == Recipes \cup {Init0, Factory, NoChunk}

\* A patch, told by who wrote each of its chunks.
Patches == [Chunks -> Sources]
Whole(r) == [k \in Chunks |-> r]
Nothing == Whole(NoChunk)

ASSUME HydrasynthConstants ==
  /\ Scratch \in Slots /\ Bounce \in Slots /\ Targets \subseteq Slots
  /\ Scratch # Bounce /\ None \notin Slots
  /\ Cardinality({Init0, Factory, NoChunk}) = 3
  /\ {Init0, Factory, NoChunk} \cap Recipes = {}
  /\ ChunkCount \in Nat \ {0}

VARIABLES
  handle,       \* server: shared.ts midi / midiError; "dead" when it went stale
  hasInput,     \* server: the handle has an input port
  turn,         \* server: the call whose handler holds the event loop, or None
  call,         \* server: the state of each call
  plugged,      \* device: enumerated by the host
  listening,    \* device: takes what comes at its port
  pgmRx,        \* device: takes program changes too (System Setup, Pgm Chg RX)
  active,       \* device: slot being played
  sound,        \* device: the patch being played
  ram,          \* device: working copy of each slot
  flash,        \* device: stored patch of each slot
  rx,           \* device: the dump being received or written, the slot it is
                \* for, and whether the device dropped a chunk of it
  busy,         \* device: writing its flash
  disturbed,    \* history: a message came while the device was busy
  spoilt,       \* history: slots last written from a dump with a chunk dropped,
                \* or whose write lost its power
  authorized    \* history: recipes some call had leave to save

server == <<handle, hasInput, turn, call>>
device == <<plugged, listening, pgmRx, active, sound, ram, flash, rx, busy>>
damage == <<disturbed, spoilt>>
vars == <<server, device, damage, authorized>>

Dances == {"none", "post", "both"}

\* i: the next chunk; input: had its handle an input?; heard: did anything come
\* in?; live: is that handle still good?; calm: since the call began, has
\* nothing else touched device or handle, and the device dropped no chunk?
Idle == [pc |-> "idle", recipe |-> Factory, slot |-> None, dance |-> "none",
         save |-> FALSE, i |-> 0, input |-> FALSE, heard |-> FALSE,
         live |-> FALSE, calm |-> FALSE, reply |-> "none"]

Points == {"idle", "bounceIn", "settleIn", "header", "chunk", "request",
           "footer", "bounceOut", "settleOut", "drain", "goto"}

CallRec == [pc : Points, recipe : Sources, slot : Slots \cup {None},
            dance : Dances, save : BOOLEAN, i : 0 .. ChunkCount,
            input : BOOLEAN, heard : BOOLEAN, live : BOOLEAN, calm : BOOLEAN,
            reply : {"none", "sent", "applied", "captured"}]

\* State of the right shape; a chunk is only sent while there is one, and the
\* write request only when there is none left.
TypeOK ==
  /\ handle \in {"none", "open", "dead", "failed"}
  /\ hasInput \in BOOLEAN
  /\ turn \in Calls \cup {None}
  /\ call \in [Calls -> CallRec]
  /\ plugged \in BOOLEAN /\ listening \in BOOLEAN /\ pgmRx \in BOOLEAN
  /\ active \in Slots /\ sound \in Patches
  /\ ram \in [Slots -> Patches] /\ flash \in [Slots -> Patches]
  /\ rx \in [slot : Slots \cup {None}, patch : Patches, lost : BOOLEAN]
  /\ busy \in BOOLEAN /\ disturbed \in BOOLEAN /\ spoilt \subseteq Slots
  /\ authorized \subseteq Recipes
  /\ \A c \in Calls :
       /\ call[c].pc # "idle" => call[c].slot \in Slots
       /\ call[c].pc = "chunk" => call[c].i < ChunkCount
       /\ call[c].pc = "request" => call[c].save /\ call[c].recipe \in authorized

NoDump == [slot |-> None, patch |-> Nothing, lost |-> FALSE]

Init ==
  /\ handle = "none" /\ hasInput = FALSE
  /\ turn = None
  /\ call = [c \in Calls |-> Idle]
  /\ plugged \in BOOLEAN /\ listening \in BOOLEAN /\ pgmRx \in BOOLEAN
  /\ active \in Slots
  /\ sound = Whole(Factory)
  /\ ram = [s \in Slots |-> Whole(Factory)]
  /\ flash = ram
  /\ rx = NoDump
  /\ busy = FALSE
  /\ disturbed = FALSE /\ spoilt = {}
  /\ authorized = {}

----------------------------------------------------------------------------
(* The device (external), as SysexEncoding.txt is quoted in the code.      *)

\* A bank and program change.  One to the active slot is entirely ignored.
Goto(s) ==
  /\ active' = s
  /\ sound' = IF s = active THEN sound ELSE ram[s]
  /\ UNCHANGED <<ram, flash, rx, busy>>

Header ==
  /\ rx' = NoDump
  /\ UNCHANGED <<active, sound, ram, flash, busy>>

\* Chunk 0 carries the bank and patch number.
Chunk(i, from, s) ==
  /\ rx' = [rx EXCEPT !.slot = IF i = 0 THEN s ELSE @, !.patch[i] = from]
  /\ UNCHANGED <<active, sound, ram, flash, busy>>

\* A chunk that came faster than the device could process the one before it.
Dropped ==
  /\ rx' = [rx EXCEPT !.lost = TRUE]
  /\ UNCHANGED <<active, sound, ram, flash, busy>>

\* The device begins to write the dump to its flash, which takes it some 3.5
\* seconds, or does not: System Menu, Protect is on.
WriteRequest ==
  /\ busy' \in BOOLEAN
  /\ UNCHANGED <<active, sound, ram, flash, rx>>

\* Only the working memory of the active bank is modified; it is heard once a
\* program change takes the device to the slot.
Footer ==
  /\ ram' = IF rx.slot = active THEN [ram EXCEPT ![active] = rx.patch] ELSE ram
  /\ rx' = NoDump
  /\ UNCHANGED <<active, sound, flash, busy>>

Ignored == UNCHANGED <<active, sound, ram, flash, rx, busy>>

\* A message to a device that writes its flash is ignored, and may spoil what
\* is being written.
Disturbs ==
  /\ disturbed' = TRUE
  /\ \/ UNCHANGED rx
     \/ \E k \in Chunks : rx' = [rx EXCEPT !.patch[k] = NoChunk]
  /\ UNCHANGED <<active, sound, ram, flash, busy, spoilt>>

----------------------------------------------------------------------------
(* Sends.                                                                  *)

\* A message reaches a device that takes it, which may answer it, or one that
\* does not; or the send throws: the handle is stale or the driver refuses.  A
\* throw ends the call.
Delivers(c, taken, effect, next, waits) ==
  /\ call[c].live
  /\ \/ ~busy /\ taken /\ effect /\ UNCHANGED damage
        /\ \E answered \in {FALSE, call[c].input} :
             call' = [call EXCEPT ![c] = [next EXCEPT !.heard = @ \/ answered]]
     \/ ~busy /\ ~taken /\ Ignored /\ UNCHANGED damage
        /\ call' = [call EXCEPT ![c] = next]
     \/ busy /\ Disturbs
        /\ call' = [call EXCEPT ![c] = next]
  /\ turn' = IF waits THEN None ELSE c

GoesOn(c, next) ==
  /\ call' = [call EXCEPT ![c] = next]
  /\ turn' = None
  /\ Ignored /\ UNCHANGED damage

Throws(c, next) ==
  /\ call' = [call EXCEPT ![c] = Idle]
  /\ turn' = None
  /\ Ignored /\ UNCHANGED damage

Sends(c, taken, effect, next, waits) ==
  /\ turn \in {None, c}
  /\ Delivers(c, taken, effect, next, waits) \/ Throws(c, next)
  /\ UNCHANGED <<handle, hasInput, plugged, listening, pgmRx, authorized>>

\* A message of a dump, and a program change, which Pgm Chg RX can turn off.
SendsDump(c, effect, next, waits) == Sends(c, listening, effect, next, waits)
SendsGoto(c, s, next) == Sends(c, listening /\ pgmRx, Goto(s), next, TRUE)

At(c, pc) == call[c].pc = pc
GoesTo(c, pc) == [call[c] EXCEPT !.pc = pc]

\* ensureMidi: the cached handle, the cached failure, or one attempt to open.
EnsureMidi ==
  \/ handle \in {"open", "dead"} /\ UNCHANGED <<handle, hasInput>>
  \/ /\ handle = "none" /\ plugged
     /\ handle' = "open" /\ hasInput' \in BOOLEAN

\* The attempt fails, or failed before: the tool throws.
CannotOpen ==
  /\ turn = None
  /\ handle \in {"none", "failed"} /\ (handle = "none" => ~plugged)
  /\ handle' = "failed" /\ hasInput' = FALSE
  /\ UNCHANGED <<turn, call, device, damage, authorized>>

HandleLive == handle \in {"none", "open"}

----------------------------------------------------------------------------
(* The tools.                                                              *)

\* The gate of save: with save_authorized only.
Permitted(save, leave) == save => leave

\* Another call takes part in what the device does from now on.
Alone(c) == \A d \in Calls \ {c} : call[d].pc = "idle"
Others(c, r) ==
  [d \in Calls |-> IF d = c THEN r ELSE [call[d] EXCEPT !.calm = FALSE]]

\* A dump begins, after the gate, the open and the encoding, which is done
\* before anything is sent.
Begin(c, recipe, slot, dance, save) ==
  /\ turn = None /\ At(c, "idle")
  /\ EnsureMidi
  /\ call' = Others(c,
       [Idle EXCEPT !.pc = IF dance = "both" THEN "bounceIn" ELSE "header",
                    !.recipe = recipe, !.slot = slot, !.dance = dance,
                    !.save = save, !.input = hasInput', !.live = HandleLive,
                    !.calm = Alone(c)])
  /\ turn' = c
  /\ UNCHANGED <<device, damage>>

\* hydra_apply_patch; a slot left out is the scratch slot.
ApplyPatch(c) ==
  \E recipe \in Recipes, slot \in Targets \cup {Scratch}, dance \in Dances,
     save \in BOOLEAN, leave \in BOOLEAN :
       /\ Permitted(save, leave)
       /\ Begin(c, recipe, slot, dance, save)
       /\ authorized' = IF leave THEN authorized \cup {recipe} ELSE authorized

\* hydra_apply_init, always to the scratch slot, and hydra_apply_init_to.
ApplyInit(c) ==
  /\ \/ Begin(c, Init0, Scratch, "both", FALSE)
     \/ \E slot \in Targets, dance \in Dances : Begin(c, Init0, slot, dance, FALSE)
  /\ UNCHANGED authorized

\* bankPcDance: to the bounce slot, wait, to the target, wait.
BounceIn(c) ==
  /\ At(c, "bounceIn")
  /\ SendsGoto(c, Bounce, GoesTo(c, "settleIn"))

SettleIn(c) ==
  /\ At(c, "settleIn")
  /\ SendsGoto(c, call[c].slot, GoesTo(c, "header"))

SendHeader(c) ==
  /\ At(c, "header")
  /\ SendsDump(c, Header, [call[c] EXCEPT !.pc = "chunk", !.i = 0], FALSE)

AlwaysRequest(r) == "request"
AfterChunks(r) == IF r.save THEN "request" ELSE "footer"

\* The next chunk; a wait of fixed length between two of them, whatever the
\* device answers, none after the last.
Last(r) == r.i = ChunkCount - 1
ChunkSent(r) == [r EXCEPT !.i = @ + 1,
                          !.pc = IF Last(r) THEN AfterChunks(r) ELSE "chunk"]

SendChunk(c) ==
  /\ At(c, "chunk")
  /\ \/ SendsDump(c, Chunk(call[c].i, call[c].recipe, call[c].slot),
                  ChunkSent(call[c]), ~Last(call[c]))
     \/ SendsDump(c, Dropped, [ChunkSent(call[c]) EXCEPT !.calm = FALSE], ~Last(call[c]))

SendWriteRequest(c) ==
  /\ At(c, "request")
  /\ SendsDump(c, WriteRequest, GoesTo(c, "footer"), TRUE)

AfterFooter(r) == IF r.dance = "none" THEN "drain" ELSE "bounceOut"

\* The pause after a write request is longer than the device is busy.
UnPaused(c) == TRUE
Paused(c) == call[c].save /\ turn = None => ~busy

SendFooter(c) ==
  /\ At(c, "footer") /\ Paused(c)
  /\ SendsDump(c, Footer, GoesTo(c, AfterFooter(call[c])), call[c].dance = "none")

BounceOut(c) ==
  /\ At(c, "bounceOut")
  /\ SendsGoto(c, Bounce, GoesTo(c, "settleOut"))

SettleOut(c) ==
  /\ At(c, "settleOut")
  /\ SendsGoto(c, call[c].slot, GoesTo(c, "drain"))

\* The reply of hydra_apply_patch: applied, unless an open input brought nothing
\* at all.  (The note on a call repeated within 30 seconds is text only.)  Those
\* of the INIT tools list what came in.
NeverSilent(c) == FALSE
Silent(c) == call[c].input /\ ~call[c].heard
Verdict(c) ==
  IF call[c].recipe = Init0 THEN "captured" ELSE IF Silent(c) THEN "sent" ELSE "applied"

Reply(c) ==
  /\ At(c, "drain") /\ turn = None
  /\ call' = [call EXCEPT ![c] = [@ EXCEPT !.pc = "idle", !.i = 0, !.heard = FALSE,
                                          !.live = FALSE, !.save = FALSE,
                                          !.reply = Verdict(c)]]
  /\ UNCHANGED <<handle, hasInput, turn, device, damage, authorized>>

\* hydra_navigate_to.
NavigateTo(c) ==
  /\ turn = None /\ At(c, "idle")
  /\ EnsureMidi
  /\ \E slot \in Targets :
       call' = Others(c, [Idle EXCEPT !.pc = "goto", !.slot = slot,
                                      !.live = HandleLive])
  /\ turn' = c
  /\ UNCHANGED <<device, damage, authorized>>

Navigate(c) ==
  /\ At(c, "goto")
  /\ SendsGoto(c, call[c].slot, Idle)

Shaken(live) == [c \in Calls |-> [call[c] EXCEPT !.calm = FALSE, !.live = @ /\ live]]

\* hydra_reconnect_midi: closes the handle, forgets the failure, opens anew.
ReconnectMidi ==
  /\ turn = None
  /\ call' = Shaken(FALSE)
  /\ \/ plugged /\ handle' = "open" /\ hasInput' \in BOOLEAN
     \/ ~plugged /\ handle' = "failed" /\ hasInput' = FALSE
  /\ UNCHANGED <<turn, device, damage, authorized>>

----------------------------------------------------------------------------
(* The device and its user.                                                *)

\* The write ends; one of a dump without its first chunk is of no slot.
FlashWritten ==
  /\ busy
  /\ busy' = FALSE
  /\ IF rx.slot = None
     THEN UNCHANGED <<flash, spoilt>>
     ELSE /\ flash' = [flash EXCEPT ![rx.slot] = rx.patch]
          /\ spoilt' = IF rx.lost THEN spoilt \cup {rx.slot} ELSE spoilt \ {rx.slot}
  /\ UNCHANGED <<server, plugged, listening, pgmRx, active, sound, ram, rx,
                 disturbed, authorized>>

\* ... or loses its power with some of the chunks written.
Torn ==
  IF busy /\ rx.slot # None
  THEN /\ \E written \in SUBSET Chunks :
            flash' = [flash EXCEPT ![rx.slot] =
                        [k \in Chunks |-> IF k \in written THEN rx.patch[k] ELSE @[k]]]
       /\ spoilt' = spoilt \cup {rx.slot}
  ELSE UNCHANGED <<flash, spoilt>>

\* The user goes to a slot, or, between calls, changes what the device takes.
PanelUsed ==
  /\ turn = None /\ ~busy
  /\ \/ \E s \in Slots : Goto(s) /\ UNCHANGED <<listening, pgmRx>>
     \/ /\ \A c \in Calls : At(c, "idle")
        /\ listening' \in BOOLEAN /\ pgmRx' \in BOOLEAN
        /\ Ignored
  /\ call' = Shaken(TRUE)
  /\ UNCHANGED <<handle, hasInput, turn, plugged, damage, authorized>>

\* Keys played or knobs turned: an input that is no answer.
PanelHeard ==
  /\ turn = None
  /\ call' = [c \in Calls |->
                [call[c] EXCEPT !.calm = FALSE,
                                !.heard = @ \/ (call[c].pc # "idle" /\ call[c].live
                                                 /\ call[c].input)]]
  /\ UNCHANGED <<handle, hasInput, turn, device, damage, authorized>>

\* Power off: working memory, the dump under way and the rest of a write are
\* gone.
PowerOff ==
  /\ turn = None /\ plugged
  /\ plugged' = FALSE
  /\ handle' = IF handle = "open" THEN "dead" ELSE handle
  /\ hasInput' = (hasInput /\ handle # "open")
  /\ call' = Shaken(FALSE)
  /\ Torn
  /\ ram' = flash'
  /\ rx' = NoDump
  /\ busy' = FALSE
  /\ active' \in Slots /\ sound' = flash'[active']
  /\ UNCHANGED <<turn, listening, pgmRx, disturbed, authorized>>

PowerOn ==
  /\ turn = None /\ ~plugged
  /\ plugged' = TRUE
  /\ UNCHANGED <<server, listening, pgmRx, active, sound, ram, flash, rx, busy,
                 damage, authorized>>

Step(c) ==
  \/ ApplyPatch(c) \/ ApplyInit(c) \/ NavigateTo(c)
  \/ BounceIn(c) \/ SettleIn(c) \/ SendHeader(c) \/ SendChunk(c)
  \/ SendWriteRequest(c) \/ SendFooter(c) \/ BounceOut(c) \/ SettleOut(c)
  \/ Reply(c) \/ Navigate(c)

Next ==
  \/ \E c \in Calls : Step(c)
  \/ CannotOpen \/ ReconnectMidi
  \/ FlashWritten \/ PanelUsed \/ PanelHeard \/ PowerOff \/ PowerOn

Spec == Init /\ [][Next]_vars

----------------------------------------------------------------------------
(* Properties.                                                             *)

\* What is stored is the factory patch or, whole, a recipe somebody asked to
\* save: chunks of two dumps never meet in the flash and nothing is sent into a
\* write, whatever throws, closes or loses power on the way (one call at a
\* time).  Two things the code cannot keep from spoiling a slot, and says
\* nothing of in its reply, are left out: a chunk the device drops, and a power
\* cut in the 3.5 seconds of the write itself.
FlashIsWhole ==
  \A s \in Slots \ spoilt :
    flash[s] \in {Whole(r) : r \in authorized \cup {Factory}}

\* Nothing is sent to the device while it writes its flash (one call at a
\* time): shared.ts asks for 3.5 seconds "before sending the Hydrasynth
\* anything else, including notes".
FlashIsLeftAlone == ~disturbed

\* A reply "Patch applied successfully" is the truth: with the full dance, its
\* "hard precondition" Pgm Chg RX, an open input and nothing else going on, the
\* device plays the recipe at the slot, whether or not its answers arrived.
Plays(c) == active = call[c].slot /\ sound = Whole(call[c].recipe)
Claims(c) == /\ call[c].reply = "applied" /\ call[c].dance = "both"
             /\ call[c].input /\ call[c].calm
AppliedIsHeard ==
  \A c \in Calls : Claims(c) /\ pgmRx /\ call[c].slot # Bounce => Plays(c)

\* The same for every slot: patch.ts says the full dance "Always works
\* regardless of where the device started".
EverySlotIsHeard == \A c \in Calls : Claims(c) /\ pgmRx => Plays(c)

\* What hydra_apply_init says of a device that takes its dump, whatever its
\* settings: patch.ts has "No device-mode preconditions" and "Active patch is now
\* H128".
InitIsHeard ==
  \A c \in Calls :
    /\ call[c].reply = "captured" /\ call[c].dance = "both" /\ call[c].calm
    /\ listening
    => Plays(c)
=============================================================================
