--------------------------- MODULE AxeFxIISafeEdit ---------------------------
(***************************************************************************)
(* The Axe-Fx II dirty gate: a flag kept by the connection layer           *)
(* (packages/axe-fx-ii/src/midi.ts over                                    *)
(* packages/core/src/server-shared/bufferDirty.ts) and read on the         *)
(* navigation seam (packages/axe-fx-ii/src/tools/shared.ts), with the      *)
(* tools that edit, navigate or save (descriptor/writer.ts,                *)
(* tools/applyExecutor.ts).                                                *)
(*                                                                         *)
(* The flag is set by every edit the server sends and by the device's      *)
(* state broadcast, which travels behind the edit it reports; it is        *)
(* cleared by every switch and every STORE the server sends, before the    *)
(* bytes leave and whatever becomes of them.  As in AM4SafeEdit a step of  *)
(* a call consumes one answer and sends the next request, which the        *)
(* device handles in order.                                                *)
(***************************************************************************)
EXTENDS Naturals

CONSTANTS
  Locations,       \* preset slots
  Calls,           \* tool calls that may be in flight together
  None,            \* no answer
  Modes,           \* on_active_preset_edited values the client passes
  StoreOutcomes,   \* what may happen to a STORE: see SendStore
  PanelMoves,      \* what the player does at the front panel
  PanelMidCall,    \* may the player move while a call is in flight?
  MaxEdits         \* bound: no edit starts beyond this version

AllTools == {"switch_preset", "set_param", "test_apply", "save_preset",
             "apply_preset", "apply_setlist"}
Gated == {"switch_preset", "test_apply", "apply_preset", "apply_setlist"}
Targeted == AllTools \ {"set_param", "test_apply"}
Batching == {"apply_preset", "apply_setlist"}
AllModes == {"warn", "discard", "save_active_first"}

\* Unstored edits: "tool" sent by the server; "heard" made at the front panel
\* and reported by a broadcast that arrived; "unheard" made at the front
\* panel and not (yet) reported; "cleared" left in the buffer by a switch or
\* a STORE the device did not carry out.
Kinds == {"tool", "heard", "unheard", "cleared"}
Known == {"tool", "heard"}

ASSUME AxeFxIIConstants ==
  /\ None \notin Locations
  /\ Modes \subseteq AllModes
  /\ StoreOutcomes \subseteq {"ok", "mute", "lost"} /\ "ok" \in StoreOutcomes
  /\ PanelMoves \subseteq {"edit", "switch", "save"}
  /\ PanelMidCall \in BOOLEAN
  /\ MaxEdits \in Nat

VARIABLES
  active,     \* device: active slot
  buffer,     \* device: content of the working buffer
  flash,      \* device: stored content per slot
  version,    \* the newest content made so far
  inflight,   \* wire: state broadcasts sent by the device, not yet delivered
  dirty,      \* server: dirtyByLabel['axe-fx-ii']
  listening,  \* server: is a connection with an input port open?
  call,       \* server: the state of each tool call
  risk,       \* history: kinds of unstored edits in the buffer
  lost        \* history: edits a tool discarded unannounced, with its mode

device == <<active, buffer, flash, version>>
history == <<risk, lost>>
vars == <<device, inflight, dirty, listening, call, history>>

Content == Nat
NavModes == AllModes \cup {"reported"}

Asking == {"gateNumber", "gateName"}
Entry == {"grid", "storeAck", "verify"}
Awaits == Asking \cup {"gateStore", "checked", "settle", "write"} \cup Entry

\* target and more: the slots the call navigates to or saves, now and later;
\* at: the slot the gate read; acked: was the last request answered (or, for
\* a request without an answer, sent)?
Idle == [pc |-> "idle", tool |-> "none", mode |-> "warn", target |-> None,
         more |-> {}, save |-> FALSE, at |-> None, acked |-> FALSE]

CallRec == [pc : Awaits \cup {"idle"}, tool : AllTools \cup {"none"},
            mode : NavModes, target : Locations \cup {None},
            more : SUBSET Locations, save : BOOLEAN,
            at : Locations \cup {None}, acked : BOOLEAN]

\* A call has what its next step needs.
Ready(r) ==
  /\ r.tool \in Targeted => r.target # None
  /\ r.pc \in Entry => r.tool \in Targeted
  /\ r.pc \in Asking \cup {"gateStore", "checked"} => r.tool \in Gated
  /\ r.pc = "gateStore" => r.at # None
  /\ r.save \/ r.more # {} => r.tool \in Batching

DeviceOK ==
  /\ active \in Locations
  /\ buffer \in Content /\ version \in Nat /\ inflight \in Nat
  /\ flash \in [Locations -> Content]

\* State of the right shape; a call is ready for its next step.
TypeOK ==
  /\ DeviceOK
  /\ dirty \in BOOLEAN /\ listening \in BOOLEAN
  /\ call \in [Calls -> CallRec] /\ \A c \in Calls : Ready(call[c])
  /\ risk \subseteq Kinds /\ lost \subseteq Kinds \X NavModes

Init ==
  /\ active \in Locations
  /\ flash \in [Locations -> {0, 1}]
  /\ buffer = flash[active]
  /\ version = 1
  /\ inflight = 0
  /\ dirty = FALSE
  /\ listening = FALSE
  /\ call = [c \in Calls |-> Idle]
  /\ risk = {}
  /\ lost = {}

----------------------------------------------------------------------------
(* Sends.  The flag is set or cleared before out.sendMessage.              *)

Waives(r) == r.mode \in {"discard", "reported"}

\* What is left at risk when the flag is cleared over edits that stay.
Uncovered(kinds) ==
  IF kinds \cap Known = {} THEN kinds ELSE (kinds \ Known) \cup {"cleared"}

Resume(c, r) == call' = [call EXCEPT ![c] = r]

Finish(c) == Resume(c, Idle) /\ UNCHANGED <<device, inflight, dirty, history>>

\* A request for the preset number or name, which changes nothing.
Ask(c, r, pc) ==
  /\ \E answered \in BOOLEAN :
       /\ answered => listening'
       /\ Resume(c, [r EXCEPT !.pc = pc, !.acked = answered])
  /\ UNCHANGED <<device, inflight, dirty, history>>

\* The device may report the server's own edit too; it does not always.
Broadcast == \E n \in {0, 1} : /\ n = 1 => listening'
                               /\ inflight' = inflight + n

\* Mutant: the outbound mark is taken out, the broadcast is relied upon.
SendEditUnmarked(c, r) ==
  /\ UNCHANGED <<active, flash, lost, dirty>>
  /\ version' = version + 1
  /\ buffer' = version + 1
  /\ risk' = risk \cup {"tool"}
  /\ Broadcast
  /\ Resume(c, [r EXCEPT !.pc = "write", !.acked = TRUE])

\* An edit function goes out; the port may be gone ("lost", or a throw).
SendEdit(c, r) ==
  /\ dirty' = TRUE
  /\ UNCHANGED <<active, flash, lost>>
  /\ \/ /\ version' = version + 1
        /\ buffer' = version + 1
        /\ risk' = risk \cup {"tool"}
        /\ Broadcast
        /\ Resume(c, [r EXCEPT !.pc = "write", !.acked = TRUE])
     \/ /\ UNCHANGED <<version, buffer, risk, inflight>>
        /\ Resume(c, [r EXCEPT !.pc = "write", !.acked = FALSE])

\* A switch goes out, without an answer to wait for.
SendSwitch(c, r, pc) ==
  /\ dirty' = FALSE
  /\ UNCHANGED <<flash, version, inflight>>
  /\ \/ /\ active' = r.target
        /\ buffer' = flash[r.target]
        /\ risk' = {}
        /\ lost' = IF Waives(r) THEN lost ELSE lost \cup (risk \X {r.mode})
        /\ Resume(c, [r EXCEPT !.pc = pc, !.acked = TRUE])
     \/ /\ risk' = Uncovered(risk)
        /\ UNCHANGED <<active, buffer, lost>>
        /\ Resume(c, [r EXCEPT !.pc = pc, !.acked = FALSE])

\* A STORE of the buffer in slot l goes out.  "ok": stored and acknowledged;
\* "mute": stored, the answer is lost; "lost": refused by the device (a result
\* code other than 0) or never handled.
SendStore(c, r, l, pc) ==
  /\ dirty' = FALSE
  /\ UNCHANGED <<active, buffer, version, inflight, lost>>
  /\ \E out \in StoreOutcomes :
       /\ IF out # "lost"
          THEN flash' = [flash EXCEPT ![l] = buffer] /\ risk' = {}
          ELSE UNCHANGED flash /\ risk' = Uncovered(risk)
       /\ Resume(c, [r EXCEPT !.pc = pc, !.acked = (out = "ok") /\ listening'])

----------------------------------------------------------------------------
(* A tool call begins.                                                     *)

\* openCtx opens a connection if none is open; it may find no input port.
Open == listening' \in BOOLEAN /\ (listening => listening')

CanStart(c, tool) ==
  /\ call[c] = Idle
  /\ tool = "switch_preset" \/ version < MaxEdits
  /\ Open

New(tool) == [Idle EXCEPT !.tool = tool]

\* Mutant: any mode but "warn" skips the gate.
GateWarnOnly(c, r) ==
  IF ~dirty \/ r.mode # "warn"
  THEN /\ Resume(c, [r EXCEPT !.pc = "checked"])
       /\ UNCHANGED <<device, inflight, dirty, history>>
  ELSE /\ \E answered \in BOOLEAN :
            Resume(c, [r EXCEPT !.pc = "gateNumber",
                                !.at = IF answered THEN active ELSE None])
       /\ UNCHANGED <<device, inflight, dirty, history>>

\* guardActiveBufferOrSave up to its first await: a clean flag or "discard"
\* lets the call pass, else the active slot's number is asked for.
Gate(c, r) ==
  IF ~dirty \/ r.mode = "discard"
  THEN /\ Resume(c, [r EXCEPT !.pc = "checked"])
       /\ UNCHANGED <<device, inflight, dirty, history>>
  ELSE /\ \E answered \in BOOLEAN :
            /\ answered => listening'
            /\ Resume(c, [r EXCEPT !.pc = "gateNumber",
                                   !.at = IF answered THEN active ELSE None])
       /\ UNCHANGED <<device, inflight, dirty, history>>

StartSwitchPreset(c, l, m) ==
  /\ CanStart(c, "switch_preset")
  /\ Gate(c, [New("switch_preset") EXCEPT !.target = l, !.mode = m])

\* set_param, set_params, set_block, set_bypass, rename, a working-buffer
\* apply_preset and the axefx2_set_* tools: edits, without a gate.
StartSetParam(c) ==
  /\ CanStart(c, "set_param")
  /\ SendEdit(c, New("set_param"))

\* axefx2_test_apply: gated, though it does not navigate.
StartTestApply(c, m) ==
  /\ CanStart(c, "test_apply")
  /\ Gate(c, [New("test_apply") EXCEPT !.mode = m])

StartApplyPreset(c, l, m, authorized) ==
  /\ CanStart(c, "apply_preset")
  /\ Gate(c, [New("apply_preset") EXCEPT !.target = l, !.mode = m,
                                         !.save = authorized])

StartApplySetlist(c, l, more, m) ==
  /\ CanStart(c, "apply_setlist")
  /\ l \notin more
  /\ Gate(c, [New("apply_setlist") EXCEPT !.target = l, !.more = more,
                                          !.mode = m, !.save = TRUE])

Saving(l) == [New("save_preset") EXCEPT !.target = l]

StartSavePreset(c, l) ==
  /\ CanStart(c, "save_preset")
  /\ SendStore(c, Saving(l), l, "storeAck")

\* With a name the rename and the STORE leave in one step; only the flag the
\* STORE leaves behind is seen.
StartSaveNamed(c, l) ==
  /\ CanStart(c, "save_preset")
  /\ dirty' = FALSE
  /\ UNCHANGED <<active, lost>>
  /\ version' = version + 1
  /\ buffer' = version + 1
  /\ Broadcast
  /\ \E out \in StoreOutcomes :
       /\ IF out # "lost"
          THEN flash' = [flash EXCEPT ![l] = buffer'] /\ risk' = {}
          ELSE UNCHANGED flash /\ risk' = Uncovered(risk \cup {"tool"})
       /\ Resume(c, [Saving(l) EXCEPT !.pc = "storeAck",
                                      !.acked = (out = "ok") /\ listening'])

\* The rename could not be sent: the flag is set, nothing else happens.
SaveRenameThrows(c) ==
  /\ CanStart(c, "save_preset")
  /\ dirty' = TRUE
  /\ UNCHANGED <<device, inflight, call, history>>

----------------------------------------------------------------------------
(* The gate, resumed.                                                      *)

GateNumber(c) ==
  /\ call[c].pc = "gateNumber"
  /\ UNCHANGED listening
  /\ Ask(c, call[c], "gateName")

\* Mutant: a gate that cannot read the slot neither saves nor refuses.
RefuseWarnOnly(c) ==
  /\ call[c].pc = "gateName"
  /\ call[c].mode = "warn"
  /\ UNCHANGED listening
  /\ Finish(c)

\* mode "warn", or nowhere to save to: the call is refused.
Refuse(c) ==
  /\ call[c].pc = "gateName"
  /\ call[c].mode = "warn" \/ call[c].at = None
  /\ UNCHANGED listening
  /\ Finish(c)

\* Mutant: the gate stores although it could not read the active slot.
SaveActiveFirstBlind(c) ==
  /\ call[c].pc = "gateName"
  /\ call[c].mode = "save_active_first"
  /\ UNCHANGED listening
  /\ SendStore(c, call[c], call[c].at, "gateStore")

\* mode "save_active_first": STORE the buffer in the slot just read.
SaveActiveFirst(c) ==
  /\ call[c].pc = "gateName"
  /\ call[c].mode = "save_active_first" /\ call[c].at # None
  /\ UNCHANGED listening
  /\ SendStore(c, call[c], call[c].at, "gateStore")

\* Mutant: the gate navigates without waiting for the STORE's result.
ActiveSavedUnchecked(c) ==
  /\ call[c].pc = "gateStore"
  /\ UNCHANGED listening
  /\ Resume(c, [call[c] EXCEPT !.pc = "checked"])
  /\ UNCHANGED <<device, inflight, dirty, history>>

\* The STORE was acknowledged: the call may navigate.
ActiveSaved(c) ==
  /\ call[c].pc = "gateStore"
  /\ call[c].acked
  /\ UNCHANGED listening
  /\ Resume(c, [call[c] EXCEPT !.pc = "checked"])
  /\ UNCHANGED <<device, inflight, dirty, history>>

\* "Edits NOT saved; refusing to navigate", or no answer.
ActiveNotSaved(c) ==
  /\ call[c].pc = "gateStore"
  /\ ~call[c].acked
  /\ UNCHANGED listening
  /\ Finish(c)

\* The microtask after the gate's: the first request of the tool's body.
Navigate(c) ==
  /\ call[c].pc = "checked"
  /\ UNCHANGED listening
  /\ CASE call[c].tool = "switch_preset" -> SendSwitch(c, call[c], "settle")
       [] call[c].tool = "test_apply" -> SendEdit(c, call[c])
       [] OTHER -> SendSwitch(c, call[c], "grid")

----------------------------------------------------------------------------
(* The bodies, resumed.                                                    *)

Settled(c) ==
  /\ call[c].pc = "settle"
  /\ UNCHANGED listening
  /\ Finish(c)

\* The grid was read after the switch, or not: write cells and parameters.
GridRead(c) ==
  /\ call[c].pc = "grid"
  /\ UNCHANGED listening
  /\ SendEdit(c, call[c])

WriteNext(c) ==
  /\ call[c].pc = "write"
  /\ version < MaxEdits
  /\ UNCHANGED listening
  /\ SendEdit(c, call[c])

\* An entry failed or is done: the call ends, or a setlist goes on.
EntryOver(c, ok) ==
  \/ /\ call[c].more = {} \/ ~ok       \* the last one, or on_error = "stop"
     /\ Finish(c)
  \/ \E l \in call[c].more :
       SendSwitch(c, [call[c] EXCEPT !.target = l, !.more = @ \ {l},
                                     !.mode = "reported"], "grid")

\* Mutant: a working-buffer build or an audition is stored.
WriteDoneStores(c) ==
  /\ call[c].pc = "write"
  /\ UNCHANGED listening
  /\ IF call[c].tool \in Targeted
     THEN SendStore(c, call[c], call[c].target, "storeAck") ELSE Finish(c)

\* All writes are out: the STORE op, unless the audition stripped it.
WriteDone(c) ==
  /\ call[c].pc = "write"
  /\ UNCHANGED listening
  /\ IF call[c].save
     THEN SendStore(c, call[c], call[c].target, "storeAck") ELSE Finish(c)

\* A send threw in the middle of an entry: the rest of it is not sent.
SendThrew(c) ==
  /\ call[c].pc \in {"grid", "write"}
  /\ ~call[c].acked
  /\ UNCHANGED listening
  /\ EntryOver(c, FALSE)

\* applySetlist may read the name back from the device.
StoreVerify(c) ==
  /\ call[c].pc = "storeAck"
  /\ call[c].acked /\ call[c].tool = "apply_setlist"
  /\ UNCHANGED listening
  /\ Ask(c, call[c], "verify")

StoreOver(c) ==
  /\ call[c].pc \in {"storeAck", "verify"}
  /\ UNCHANGED listening
  /\ EntryOver(c, call[c].acked)

----------------------------------------------------------------------------
(* The player, the wire, the connection and the process.                   *)

Quiet == \A c \in Calls : call[c] = Idle
PanelMay(move) == move \in PanelMoves /\ (PanelMidCall \/ Quiet)

PanelEdit ==
  /\ PanelMay("edit")
  /\ version < MaxEdits
  /\ version' = version + 1
  /\ buffer' = version + 1
  /\ inflight' = IF listening THEN inflight + 1 ELSE inflight
  /\ risk' = risk \cup {"unheard"}
  /\ UNCHANGED <<active, flash, dirty, listening, call, lost>>

PanelSwitch(l) ==
  /\ PanelMay("switch")
  /\ active' = l
  /\ buffer' = flash[l]
  /\ risk' = {}
  /\ UNCHANGED <<flash, version, inflight, dirty, listening, call, lost>>

PanelSave ==
  /\ PanelMay("save")
  /\ flash' = [flash EXCEPT ![active] = buffer]
  /\ risk' = {}
  /\ UNCHANGED <<active, buffer, version, inflight, dirty, listening, call, lost>>

\* The input handler sees a state broadcast.  It is a task of its own: never
\* between the gate's answer and the navigation.
Deliver ==
  /\ inflight > 0
  /\ \A c \in Calls : call[c].pc # "checked"
  /\ inflight' = inflight - 1
  /\ dirty' = TRUE
  /\ risk' = IF "unheard" \in risk THEN (risk \ {"unheard"}) \cup {"heard"} ELSE risk
  /\ UNCHANGED <<device, listening, call, lost>>

\* reconnect_midi, axefx2_reconnect_midi: a new handle, perhaps without an
\* input; broadcasts under way to the old one may be lost.  The flag stays.
Reconnect ==
  /\ Quiet
  /\ listening
  /\ listening' \in BOOLEAN
  /\ inflight' \in 0..inflight
  /\ ~listening' => inflight' = 0
  /\ UNCHANGED <<device, dirty, call, history>>

\* The server process ends and starts again.
Restart ==
  /\ inflight' = 0
  /\ dirty' = FALSE
  /\ listening' = FALSE
  /\ call' = [c \in Calls |-> Idle]
  /\ risk' = {}
  /\ UNCHANGED <<device, lost>>

----------------------------------------------------------------------------

Begin(c) ==
  \/ \E l \in Locations, m \in Modes : StartSwitchPreset(c, l, m)
  \/ StartSetParam(c)
  \/ \E m \in Modes : StartTestApply(c, m)
  \/ \E l \in Locations, m \in Modes, s \in BOOLEAN : StartApplyPreset(c, l, m, s)
  \/ \E l \in Locations, more \in SUBSET Locations, m \in Modes :
       StartApplySetlist(c, l, more, m)
  \/ \E l \in Locations : StartSavePreset(c, l)
  \/ \E l \in Locations : StartSaveNamed(c, l)
  \/ SaveRenameThrows(c)

Continue(c) ==
  \/ GateNumber(c) \/ Refuse(c) \/ SaveActiveFirst(c)
  \/ ActiveSaved(c) \/ ActiveNotSaved(c) \/ Navigate(c)
  \/ Settled(c) \/ GridRead(c) \/ WriteNext(c) \/ WriteDone(c)
  \/ SendThrew(c) \/ StoreVerify(c) \/ StoreOver(c)

Environment ==
  \/ PanelEdit
  \/ \E l \in Locations : PanelSwitch(l)
  \/ PanelSave
  \/ Deliver
  \/ Reconnect
  \/ Restart

Next == (\E c \in Calls : Begin(c) \/ Continue(c)) \/ Environment

Spec == Init /\ [][Next]_vars

\* Every await ends: with its answer, at its timeout or after its delay.
FairSpec == Spec /\ \A c \in Calls : WF_vars(Continue(c))

----------------------------------------------------------------------------
(* Properties.                                                             *)

\* The flag tells the truth: whatever calls, broadcasts and moves of the
\* player interleave, it is set while edits the server sent or heard of are in
\* the buffer, unless a request to store or leave them was not carried out.
FlagTellsTruth == risk \cap Known # {} => dirty

\* The gate's promise (docs/SAFE-EDIT-WORKFLOW.md:6): a call that navigates in
\* mode "warn" or "save_active_first" never discards an edit the server sent
\* or heard of.
HeardEditsSurvive == lost \cap (Known \X {"warn", "save_active_first"}) = {}

\* midi.ts:75 and bufferDirty.ts:41: the gate errs "toward extra confirmation",
\* never toward "silently discarding the user's tweak on the next
\* switch_preset": edits whose STORE failed stay protected from a navigation in
\* mode "warn".  It does not hold: sending the STORE has cleared the flag.
RefusedSaveStaysProtected == lost \cap ({"cleared"} \X {"warn"}) = {}

\* The inductive invariant of the gate: a call it has let through has nothing
\* the server knows of to lose, and one whose STORE was acknowledged neither;
\* the slot a gate has read is still the active one.
GateInv ==
  /\ FlagTellsTruth
  /\ HeardEditsSurvive
  /\ \A c \in Calls :
       \/ call[c].pc = "checked"
       \/ call[c].pc = "gateStore" /\ call[c].acked
       => risk \cap Known = {} \/ Waives(call[c])
  /\ \A c \in Calls : call[c].pc \in Asking => call[c].at \in {None, active}

\* Who may write a slot: the tool whose caller named it and authorized saving,
\* the gate for the preset being left, or the player.
MayStore(r, l) ==
  \/ l = r.target /\ r.tool = "save_preset"
  \/ l = r.target /\ r.tool \in Batching /\ r.save
  \/ l = r.at /\ l = active /\ r.mode = "save_active_first"

NoSilentOverwrite ==
  [][\A l \in Locations : flash'[l] # flash[l] =>
       \/ \E c \in Calls : MayStore(call'[c], l)
       \/ PanelSave /\ l = active]_vars

\* Every call ends, whatever the device fails to answer.
EveryCallEnds == \A c \in Calls : call[c] # Idle ~> call[c] = Idle

\* The gate implements the abstract contract.
Abstract == INSTANCE SafeEditContract WITH
  guarded <- risk \cap Known # {},
  waived <- \/ Quiet
            \/ \E c \in Calls : Waives(call[c])
            \/ risk \cap Known = {} /\ "cleared" \in risk

ImplementsContract == Abstract!Contract
=============================================================================
