-------------------------- MODULE AxeFxIIISafeEdit --------------------------
(***************************************************************************)
(* The Axe-Fx III dirty gate: the third flag of                            *)
(* packages/core/src/server-shared/bufferDirty.ts, set and cleared by the  *)
(* send wrapper and the input handler of packages/axe-fx-iii/src/midi.ts   *)
(* and by the handlers that set parameters, read on the navigation seam    *)
(* (tools/shared.ts).                                                      *)
(*                                                                         *)
(* It differs from the Axe-Fx II in what the wire can tell.  A SET and a   *)
(* GET of a parameter are the same bytes, so a parameter write is marked   *)
(* by its caller, after the wait for a rejection; bypass and channel       *)
(* writes are marked by nobody; a preset switch is a program change; and   *)
(* a request is taken to be carried out unless a rejection comes.          *)
(*                                                                         *)
(* The gate and the switch it permits run in one turn of the event loop,   *)
(* so they are one action; any number of calls may be in flight.           *)
(***************************************************************************)
EXTENDS Naturals

CONSTANTS
  Locations,       \* preset slots
  Calls,           \* tool calls that may be in flight together
  None,            \* no answer
  StoreOutcomes,   \* what may happen to a STORE: see SendStore
  MaxInflight      \* bound: broadcasts under way at a time

Modes == {"warn", "discard", "save_active_first"}

\* The server opens two handles: the registry's, for the unified tools, and
\* the package's own, for the axefx3_* tools and the gate's requests.
Handles == {"registry", "package"}

\* Writes to the working buffer.  "block" and "name" are marked before they are
\* sent, "param" after the wait, "switch" (bypass, channel) never.
WriteKinds == {"block", "name", "param", "switch"}
MarkedFirst == {"block", "name"}

\* "write" is any tool of one write: set_param and axefx3_set_parameter,
\* set_block, rename, set_bypass and axefx3_set_channel.
AllTools == {"switch_preset", "write", "set_params", "apply_preset"}

\* Unstored edits: "tool" sent and marked; "late" sent, its caller about to
\* mark it; "unmarked" sent and never to be marked; "heard" and "unheard" made
\* at the front panel and reported or not; "cleared" left in the buffer by a
\* switch or STORE the device did not carry out.
Kinds == {"tool", "late", "unmarked", "heard", "unheard", "cleared"}
Known == {"tool", "heard"}

ASSUME AxeFxIIIConstants ==
  /\ None \notin Locations
  /\ StoreOutcomes \subseteq {"stored", "refused", "ignored"}
  /\ "stored" \in StoreOutcomes
  /\ MaxInflight \in Nat

VARIABLES
  active,     \* device: active slot
  inflight,   \* wire: state broadcasts sent by the device, not yet delivered
  dirty,      \* server: dirtyByLabel['axe-fx-iii']
  open,       \* server: handles with an open input port
  call,       \* server: the state of each tool call
  risk,       \* device: kinds of edits in the working buffer that the active
              \* slot does not hold; empty when buffer and slot agree
  lost        \* history: the edits the last step discarded without leave, each
              \* with the mode the tool was given

vars == <<active, inflight, dirty, open, call, risk, lost>>

\* target: the slot to go to; at: the slot the gate read; write: the write
\* under way; sent: did its send return?; refused: did a rejection come?
Idle == [pc |-> "idle", tool |-> "none", mode |-> "warn", target |-> None,
         at |-> None, write |-> "none", sent |-> FALSE, refused |-> FALSE]

CallRec == [pc : {"idle", "gateName", "gateStore", "watch"},
            tool : AllTools \cup {"none"}, mode : Modes,
            target : Locations \cup {None}, at : Locations \cup {None},
            write : WriteKinds \cup {"none"}, sent : BOOLEAN, refused : BOOLEAN]

\* A call has what its next step needs.
Ready(r) ==
  /\ r.pc \in {"gateName", "gateStore"} => r.tool = "switch_preset" /\ r.target # None
  /\ r.pc = "gateStore" => r.at # None /\ r.mode = "save_active_first"
  /\ r.pc = "watch" => r.write # "none"

\* State of the right shape; a call is ready for its next step.
TypeOK ==
  /\ active \in Locations
  /\ inflight \in Nat
  /\ dirty \in BOOLEAN /\ open \subseteq Handles
  /\ call \in [Calls -> CallRec] /\ \A c \in Calls : Ready(call[c])
  /\ risk \subseteq Kinds /\ lost \subseteq Kinds \X Modes

Init ==
  /\ active \in Locations
  /\ inflight = 0
  /\ dirty = FALSE
  /\ open = {}
  /\ call = [c \in Calls |-> Idle]
  /\ risk = {}
  /\ lost = {}

----------------------------------------------------------------------------
(* Sends.                                                                  *)

Resume(c, r) == call' = [call EXCEPT ![c] = r]

\* What is left at risk when the flag is cleared over edits that stay.
Uncovered(kinds) ==
  IF kinds \cap Known = {} THEN kinds ELSE (kinds \ Known) \cup {"cleared"}

\* Opening a handle may find no input port.
Opens(h) == open' \in {open, open \cup {h}}

RiskOf(write) ==
  CASE write \in MarkedFirst -> "tool"
    [] write = "param" -> "late"
    [] OTHER -> "unmarked"

\* The edits whose caller marks the flag now are covered by it.
Covered(kinds, marks) ==
  IF marks /\ "late" \in kinds THEN (kinds \ {"late"}) \cup {"tool"} ELSE kinds

\* The device may report an edit to the handles that listen.
MayReport ==
  \/ UNCHANGED inflight
  \/ open' # {} /\ inflight < MaxInflight /\ inflight' = inflight + 1

\* A write leaves; marks: does the caller mark its previous write first?
\* It lands and may be reported; or the device rejects or drops it; or the
\* send throws.
SendWrite(c, r, write, marks) ==
  /\ dirty' = (dirty \/ marks \/ write \in MarkedFirst)
  /\ lost' = {}
  /\ UNCHANGED active
  /\ \/ /\ risk' = Covered(risk, marks) \cup {RiskOf(write)}
        /\ MayReport
        /\ Resume(c, [r EXCEPT !.pc = "watch", !.write = write, !.sent = TRUE])
     \/ /\ risk' = Covered(risk, marks)
        /\ UNCHANGED inflight
        /\ \E sent \in BOOLEAN :
             Resume(c, [r EXCEPT !.pc = "watch", !.write = write, !.sent = sent])

\* The program change leaves, and the call ends; it may not take effect (a
\* closed port, another MIDI channel).
SendSwitch(c, r) ==
  /\ dirty' = FALSE
  /\ UNCHANGED inflight
  /\ \/ /\ active' = r.target
        /\ risk' = {}
        /\ lost' = IF r.mode = "discard" THEN {} ELSE risk \X {r.mode}
     \/ /\ risk' = Uncovered(risk)
        /\ lost' = {}
        /\ UNCHANGED active
  /\ Resume(c, Idle)

\* The gate's STORE leaves: "stored", "refused" by a rejection that may come
\* in time, or "ignored"; or the send throws, which refuses like a rejection.
SendStore(c, r) ==
  /\ dirty' = FALSE
  /\ lost' = {}
  /\ UNCHANGED <<active, inflight>>
  /\ \/ /\ risk' = IF r.at = active THEN {} ELSE Uncovered(risk)
        /\ Resume(c, [r EXCEPT !.pc = "gateStore", !.refused = FALSE])
     \/ /\ StoreOutcomes # {"stored"}
        /\ risk' = Uncovered(risk)
        /\ \E refused \in BOOLEAN :
             /\ refused => "refused" \in StoreOutcomes /\ "package" \in open'
             /\ Resume(c, [r EXCEPT !.pc = "gateStore", !.refused = refused])
     \/ /\ risk' = Uncovered(risk)
        /\ Resume(c, [r EXCEPT !.pc = "gateStore", !.refused = TRUE])

----------------------------------------------------------------------------
(* switch_preset: the gate, then the program change.                       *)

New(tool) == [Idle EXCEPT !.tool = tool]

\* The flag is clear or the caller said "discard": the call goes on at once.
StartSwitchPreset(c, l, m) ==
  /\ call[c] = Idle
  /\ Opens("registry")
  /\ ~dirty \/ m = "discard"
  /\ SendSwitch(c, [New("switch_preset") EXCEPT !.target = l, !.mode = m])

\* The flag is set: the gate asks for the active slot on the package's handle.
StartGate(c, l, m) ==
  /\ call[c] = Idle
  /\ dirty /\ m # "discard"
  /\ open' \in {open \cup hs : hs \in SUBSET Handles}
  /\ \E answered \in BOOLEAN :
       /\ answered => "package" \in open'
       /\ Resume(c, [New("switch_preset") EXCEPT
                      !.pc = "gateName", !.target = l, !.mode = m,
                      !.at = IF answered THEN active ELSE None])
  /\ lost' = {}
  /\ UNCHANGED <<active, inflight, dirty, risk>>

\* Mutant: a gate that cannot read the active slot gives way.
RefuseIfRead(c) ==
  /\ call[c].pc = "gateName"
  /\ call[c].mode = "warn" \/ call[c].at = None
  /\ UNCHANGED open
  /\ IF call[c].at = None THEN SendSwitch(c, call[c])
     ELSE Resume(c, Idle) /\ lost' = {} /\ UNCHANGED <<active, inflight, dirty, risk>>

\* mode "warn", or nowhere to save to: the call is refused.
Refuse(c) ==
  /\ call[c].pc = "gateName"
  /\ call[c].mode = "warn" \/ call[c].at = None
  /\ Resume(c, Idle)
  /\ lost' = {}
  /\ UNCHANGED <<active, inflight, dirty, open, risk>>

\* Mutant: the gate stores although it could not read the active slot.
SaveActiveFirstBlind(c) ==
  /\ call[c].pc = "gateName"
  /\ call[c].mode = "save_active_first"
  /\ UNCHANGED open
  /\ SendStore(c, call[c])

\* mode "save_active_first": STORE the buffer in the slot just read.
SaveActiveFirst(c) ==
  /\ call[c].pc = "gateName"
  /\ call[c].mode = "save_active_first" /\ call[c].at # None
  /\ UNCHANGED open
  /\ SendStore(c, call[c])

\* No rejection within the window counts as stored: the program change leaves.
ActiveSaved(c) ==
  /\ call[c].pc = "gateStore"
  /\ ~call[c].refused
  /\ UNCHANGED open
  /\ SendSwitch(c, call[c])

\* "Edits NOT saved; refusing to navigate."
ActiveNotSaved(c) ==
  /\ call[c].pc = "gateStore"
  /\ call[c].refused
  /\ Resume(c, Idle)
  /\ lost' = {}
  /\ UNCHANGED <<active, inflight, dirty, open, risk>>

----------------------------------------------------------------------------
(* The tools that edit the working buffer.  None of them is gated.         *)

First(tool) ==
  CASE tool = "write" -> WriteKinds
    [] tool = "set_params" -> {"param"}
    [] tool = "apply_preset" -> WriteKinds \ {"switch"}
    [] OTHER -> {}

\* What a call may write next: batches go on, apply_preset places its blocks,
\* then sets parameters, then renames.
After(tool, write) ==
  CASE tool = "set_params" -> {"param"}
    [] tool = "apply_preset" /\ write = "block" -> {"block", "param", "name"}
    [] tool = "apply_preset" /\ write = "param" -> {"param", "name"}
    [] OTHER -> {}

StartWrite(c, tool, write) ==
  /\ call[c] = Idle
  /\ write \in First(tool)
  /\ \E h \in Handles : Opens(h)
  /\ SendWrite(c, New(tool), write, FALSE)

\* Only the setter of a parameter marks the flag itself, and only if its send
\* returned, whether or not the device accepted the write.
MarksNow(r) == r.write = "param" /\ r.sent

\* The wait for a rejection is over: the call goes on (after a throw only
\* apply_preset does) ...
WriteNext(c, write) ==
  /\ call[c].pc = "watch"
  /\ write \in After(call[c].tool, call[c].write)
  /\ call[c].sent \/ call[c].tool = "apply_preset"
  /\ UNCHANGED open
  /\ SendWrite(c, call[c], write, MarksNow(call[c]))

\* ... or ends.
WriteDone(c) ==
  /\ call[c].pc = "watch"
  /\ dirty' = (dirty \/ MarksNow(call[c]))
  /\ risk' = Covered(risk, MarksNow(call[c]))
  /\ Resume(c, Idle)
  /\ lost' = {}
  /\ UNCHANGED <<active, inflight, open>>

----------------------------------------------------------------------------
(* The player, the wire, the connections and the process.                  *)

PanelEdit ==
  /\ risk' = risk \cup {"unheard"}
  /\ lost' = {}
  /\ UNCHANGED <<active, dirty, open, call>>
  /\ MayReport

PanelSwitch(l) ==
  /\ active' = l
  /\ risk' = {}
  /\ lost' = {}
  /\ UNCHANGED <<inflight, dirty, open, call>>

PanelSave ==
  /\ risk' = {}
  /\ lost' = {}
  /\ UNCHANGED <<active, inflight, dirty, open, call>>

\* An input handler sees a state broadcast.
Deliver ==
  /\ inflight > 0
  /\ inflight' = inflight - 1
  /\ dirty' = TRUE
  /\ risk' = IF "unheard" \in risk THEN (risk \ {"unheard"}) \cup {"heard"} ELSE risk
  /\ lost' = {}
  /\ UNCHANGED <<active, open, call>>

\* Mutant: the flag is forgotten with the handle.
ReconnectForgets(h) ==
  /\ h \in open
  /\ open' = open \ {h}
  /\ inflight' \in IF open' = {} THEN {0} ELSE 0..inflight
  /\ dirty' = FALSE
  /\ lost' = {}
  /\ UNCHANGED <<active, call, risk>>

\* reconnect_midi or axefx3_reconnect_midi closes a handle, also under a
\* running call; broadcasts under way to it may be lost.  The flag stays.
Reconnect(h) ==
  /\ h \in open
  /\ open' = open \ {h}
  /\ inflight' \in IF open' = {} THEN {0} ELSE 0..inflight
  /\ lost' = {}
  /\ UNCHANGED <<active, dirty, call, risk>>

\* The server process ends and starts again.
Restart ==
  /\ inflight' = 0
  /\ dirty' = FALSE
  /\ open' = {}
  /\ call' = [c \in Calls |-> Idle]
  /\ risk' = {}
  /\ lost' = {}
  /\ UNCHANGED active

----------------------------------------------------------------------------

Begin(c) ==
  \/ \E l \in Locations, m \in Modes : StartSwitchPreset(c, l, m)
  \/ \E l \in Locations, m \in Modes : StartGate(c, l, m)
  \/ \E tool \in AllTools, write \in WriteKinds : StartWrite(c, tool, write)

Continue(c) ==
  \/ Refuse(c) \/ SaveActiveFirst(c) \/ ActiveSaved(c) \/ ActiveNotSaved(c)
  \/ \E write \in WriteKinds : WriteNext(c, write)
  \/ WriteDone(c)

Environment ==
  \/ PanelEdit
  \/ \E l \in Locations : PanelSwitch(l)
  \/ PanelSave
  \/ Deliver
  \/ \E h \in Handles : Reconnect(h)
  \/ Restart

Next == (\E c \in Calls : Begin(c) \/ Continue(c)) \/ Environment

Spec == Init /\ [][Next]_vars

----------------------------------------------------------------------------
(* Properties.                                                             *)

\* The flag tells the truth, whatever calls, broadcasts, reconnects and moves
\* of the player interleave: it is set while marked or reported edits are in
\* the buffer, and an edit that awaits its mark has a call about to make it.
FlagTellsTruth ==
  /\ risk \cap Known # {} => dirty
  /\ "late" \in risk => \E c \in Calls : call[c].pc = "watch" /\ MarksNow(call[c])

\* The gate's promise (docs/SAFE-EDIT-WORKFLOW.md:6): a switch in mode "warn"
\* never discards a marked or reported edit, however many calls run and
\* whatever the player does meanwhile.
HeardEditsSurvive == lost \cap (Known \X {"warn"}) = {}

\* midi.ts:44: outbound edits are marked too "so the safe-edit gate can't
\* silently miss an edit": a switch in mode "warn" never discards an edit the
\* server sent.  It does not hold: bypass and channel writes are not marked,
\* parameter writes too late.
SentEditsSurvive == lost \cap ({"tool", "late", "unmarked"} \X {"warn"}) = {}
=============================================================================
