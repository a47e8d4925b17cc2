----------------------------- MODULE AM4SafeEdit -----------------------------
(***************************************************************************)
(* The AM4 dirty gate: a cache of working-buffer fingerprints, one per     *)
(* preset location, compared on the navigation seam                        *)
(* (packages/am4/src/tools/safeEdit.ts, bufferFingerprint.ts), together    *)
(* with every AM4 tool that edits, navigates or saves                      *)
(* (packages/am4/src/descriptor/writer.ts, tools/applyExecutor.ts) as the  *)
(* dispatcher calls them (packages/core/src/protocol-generic/dispatcher).  *)
(*                                                                         *)
(* A tool call is a chain of awaits on the device.  Between two awaits the *)
(* JavaScript runs alone, so a step of a call is one action: it consumes   *)
(* the answer it waited for, updates the server's state and sends the next *)
(* request, which the device handles at once (it handles them in order).   *)
(* Anything else, including another call or the player at the front panel, *)
(* may move between two such steps.                                        *)
(*                                                                         *)
(* Contents are version numbers: every edit makes a version never seen     *)
(* before, which is what a 128-bit hash of the dump tells apart.           *)
(***************************************************************************)
EXTENDS Naturals

CONSTANTS
  Locations,          \* preset locations (0..103 on the device)
  Calls,              \* tool calls that may be in flight together
  None,               \* no answer / nothing cached
  Tools,              \* the tools the client uses
  Modes,              \* on_active_preset_edited values the client passes
  Outcomes,           \* what may happen to a request: see Landed
  SaveFirstOutcomes,  \* what may happen to the gate's own unacknowledged save
  PanelMoves,         \* what the player does at the front panel
  PanelMidCall,       \* may the player move while a call is in flight?
  Traced,             \* the kinds of edits the history follows
  MaxEdits            \* bound: no edit starts beyond this version

AllTools == {"switch_preset", "set_param", "rename", "save_preset",
             "apply_preset", "apply_setlist", "restore_defaults"}
AllModes == {"warn", "discard", "save_active_first"}

\* Kinds of unstored edits.  "watched": made while a fingerprint for the
\* active location was cached; "audition": made by apply_preset without
\* save authorization; "scene_name": made by rename.
Kinds == {"watched", "audition", "scene_name"}

ASSUME AM4Constants ==
  /\ None \notin Locations \cup Nat
  /\ Tools \subseteq AllTools
  /\ Modes \subseteq AllModes
  /\ Outcomes \subseteq {"ok", "mute", "lost"} /\ "ok" \in Outcomes
  /\ SaveFirstOutcomes \subseteq {"ok", "lost", "throws"}
  /\ PanelMoves \subseteq {"edit", "switch", "save"}
  /\ PanelMidCall \in BOOLEAN
  /\ Traced \subseteq Kinds
  /\ MaxEdits \in Nat

VARIABLES
  active,    \* device: active preset location
  buffer,    \* device: content of the working buffer
  flash,     \* device: stored content per location
  version,   \* the newest content made so far
  cache,     \* server: fingerprint per location, None where there is none
  warmed,    \* server: has this connection been warmed up?
  call,      \* server: the state of each tool call
  risk,      \* history: traced kinds of unstored edits in the buffer
  lost       \* history: edits a tool discarded unannounced, with its mode

device == <<active, buffer, flash, version>>
history == <<risk, lost>>
vars == <<device, cache, warmed, call, history>>

Content == Nat

\* The mode under which a call navigates: what its caller asked for, or
\* "post_save" for the switch that follows a save, or "reported" for the
\* later entries of a setlist, whose failures the result lists.
NavModes == AllModes \cup {"post_save", "reported"}

\* What a call in flight is waiting for.
Dumping == {"gateDump", "gateName", "gateSaved", "warmDump", "refresh"}
Navigating == {"switchAck", "renameAck", "saveAck", "postSwitchAck",
               "entrySwitchAck", "wiresAck", "entrySaveAck", "verify"}
Entering == {"entrySwitchAck", "wiresAck", "entrySaveAck", "verify"}
Restoring == {"preName", "streaming", "postName"}
Awaits == Dumping \cup Navigating \cup Restoring \cup {"gateRead", "warmRead", "writeAck"}

\* target and more: where the call navigates, saves or restores, now and later;
\* named: whether a name goes with it, written by a save, read back around a
\* restore; at and dump: the location and the fingerprint read last; acked:
\* whether the request awaited was acknowledged; degraded: whether the gate
\* could not read the device and let the call pass.
Idle == [pc |-> "idle", tool |-> "none", mode |-> "warn", target |-> None,
         more |-> {}, save |-> FALSE, named |-> FALSE, at |-> None,
         dump |-> None, acked |-> FALSE, degraded |-> FALSE]

CallRec == [pc : Awaits \cup {"idle"}, tool : AllTools \cup {"none"},
            mode : NavModes, target : Locations \cup {None},
            more : SUBSET Locations, save : BOOLEAN, named : BOOLEAN,
            at : Locations \cup {None}, dump : Content \cup {None},
            acked : BOOLEAN, degraded : BOOLEAN]

Targeted == AllTools \ {"set_param", "rename"}

\* Which tools wait where: only save_preset renames and saves outside a batch,
\* only the batches go through entries, and restore_defaults keeps to itself.
Suits(tool, pc) ==
  /\ pc \in Navigating => tool \in Targeted
  /\ pc \in {"renameAck", "saveAck"} => tool = "save_preset"
  /\ pc \in Entering => tool \in {"apply_preset", "apply_setlist"}
  /\ pc \in Restoring => tool = "restore_defaults"

\* A call has what its next step needs: tools that navigate or save have a
\* target, a pending dump has the location it is for.
Ready(r) ==
  /\ r.tool \in Targeted => r.target # None
  /\ Suits(r.tool, r.pc)
  /\ r.pc \in Dumping => r.at # None

Made(content) == content # None => content <= version

DeviceOK ==
  /\ active \in Locations
  /\ version \in Nat
  /\ buffer \in Content /\ buffer <= version
  /\ flash \in [Locations -> Content]
  /\ \A l \in Locations : flash[l] <= version

CacheOK ==
  /\ warmed \in BOOLEAN
  /\ cache \in [Locations -> Content \cup {None}]
  /\ \A l \in Locations : Made(cache[l])

HistoryOK == risk \subseteq Kinds /\ lost \subseteq Kinds \X NavModes

CallsOK ==
  /\ call \in [Calls -> CallRec]
  /\ \A c \in Calls : Ready(call[c]) /\ Made(call[c].dump)

\* State of the right shape: a call is ready for its next step, and every
\* content and fingerprint around is one that was made.
TypeOK == DeviceOK /\ CacheOK /\ CallsOK /\ HistoryOK

Init ==
  /\ active \in Locations
  /\ flash \in [Locations -> {0, 1}]
  /\ buffer = flash[active]
  /\ version = 1
  /\ cache = [l \in Locations |-> None]
  /\ warmed = FALSE
  /\ call = [c \in Calls |-> Idle]
  /\ risk = {}
  /\ lost = {}

----------------------------------------------------------------------------
(* What the device does with a request.                                    *)

\* "ok": the device acts and answers; "mute": it acts and the answer is
\* lost; "lost": it never acts.
Landed(out) == out \in {"ok", "mute"}

\* The caller accepted the loss, is told of it in the setlist's report, or
\* its gate could not read the device and proceeded unchecked.
Waives(r) == r.mode \in {"discard", "reported"} \/ r.degraded

DeviceSwitch(r, l, out) ==
  IF Landed(out)
  THEN /\ active' = l
       /\ buffer' = flash[l]
       /\ risk' = {}
       /\ lost' = IF Waives(r) THEN lost ELSE lost \cup (risk \X {r.mode})
       /\ UNCHANGED <<flash, version>>
  ELSE UNCHANGED <<device, history>>

\* cache' and not cache: a warm-up may have completed in this very step.
DeviceEdit(kind) ==
  /\ version' = version + 1
  /\ buffer' = version + 1
  /\ risk' = risk \cup (Traced \cap (kind \cup (IF cache'[active] = None THEN {}
                                                 ELSE {"watched"})))
  /\ UNCHANGED <<active, flash, lost>>

DeviceWrite(kind, out) ==
  IF Landed(out) THEN DeviceEdit(kind) ELSE UNCHANGED <<device, history>>

DeviceStore(l, out) ==
  IF Landed(out)
  THEN /\ flash' = [flash EXCEPT ![l] = buffer]
       /\ risk' = {}
       /\ UNCHANGED <<active, buffer, version, lost>>
  ELSE UNCHANGED <<device, history>>

----------------------------------------------------------------------------
(* Sends: the request a step ends with, and the answer the call finds when *)
(* it resumes.  r is the call's record as the step leaves it.              *)

Resume(c, r) == call' = [call EXCEPT ![c] = r]

Finish(c) == Resume(c, Idle) /\ UNCHANGED <<device, history>>

AskActive(c, r, pc) ==
  /\ \E out \in Outcomes :
       Resume(c, [r EXCEPT !.pc = pc, !.at = IF out = "ok" THEN active ELSE None])
  /\ UNCHANGED <<device, history>>

AskDump(c, r, pc) ==
  /\ \E out \in Outcomes :
       Resume(c, [r EXCEPT !.pc = pc, !.dump = IF out = "ok" THEN buffer ELSE None])
  /\ UNCHANGED <<device, history>>

\* Reading a stored name: only the wording, or the verdict, depends on it.
AskName(c, r, pc) ==
  /\ \E out \in Outcomes : Resume(c, [r EXCEPT !.pc = pc, !.acked = (out = "ok")])
  /\ UNCHANGED <<device, history>>

SendSwitch(c, r, pc) ==
  \E out \in Outcomes :
    /\ DeviceSwitch(r, r.target, out)
    /\ Resume(c, [r EXCEPT !.pc = pc, !.acked = (out = "ok")])

SendWrite(c, r, kind, pc) ==
  \E out \in Outcomes :
    /\ DeviceWrite(kind, out)
    /\ Resume(c, [r EXCEPT !.pc = pc, !.acked = (out = "ok")])

SendSave(c, r, pc) ==
  \E out \in Outcomes :
    /\ DeviceStore(r.target, out)
    /\ Resume(c, [r EXCEPT !.pc = pc, !.acked = (out = "ok")])

----------------------------------------------------------------------------
(* The tools once the gate and the warm-up are behind them.                *)

Body(c, r) ==
  \/ r.tool = "switch_preset" /\ SendSwitch(c, r, "switchAck")
  \/ r.tool = "set_param" /\ SendWrite(c, r, {"knob"}, "writeAck")
  \/ r.tool = "save_preset" /\ r.named /\ SendWrite(c, r, {"name"}, "renameAck")
  \/ r.tool = "save_preset" /\ ~r.named /\ SendSave(c, r, "saveAck")
  \/ r.tool = "apply_preset" /\ SendSwitch(c, r, "entrySwitchAck")

\* warmupAM4BaselineIfNeeded: once per connection, marked before it is done.
Warmup(c, r) ==
  IF warmed
  THEN Body(c, r) /\ UNCHANGED warmed
  ELSE AskActive(c, r, "warmRead") /\ warmed' = TRUE

\* The gate let the call proceed: applySetlist does not warm up.
Proceed(c, r) ==
  IF r.tool = "apply_setlist"
  THEN SendSwitch(c, r, "entrySwitchAck") /\ UNCHANGED warmed
  ELSE Warmup(c, r)

\* guardActiveAM4BufferOrSave up to its first await.
Gate(c, r) ==
  IF r.mode = "discard"
  THEN Proceed(c, r)
  ELSE AskActive(c, r, "gateRead") /\ UNCHANGED warmed

----------------------------------------------------------------------------
(* A tool call begins.                                                     *)

CanStart(c, tool) ==
  /\ call[c] = Idle
  /\ tool \in Tools
  /\ tool \in {"switch_preset", "restore_defaults"} \/ version < MaxEdits

New(tool) == [Idle EXCEPT !.tool = tool]

StartSwitchPreset(c, l, m) ==
  /\ CanStart(c, "switch_preset")
  /\ UNCHANGED cache
  /\ Gate(c, [New("switch_preset") EXCEPT !.target = l, !.mode = m])

\* set_param, set_params, set_block, set_bypass, switch_scene and apply_preset
\* without a target: all warm up, then write to the working buffer.
StartSetParam(c) ==
  /\ CanStart(c, "set_param")
  /\ UNCHANGED cache
  /\ Warmup(c, New("set_param"))

\* rename of a scene writes without a warm-up.
StartRename(c) ==
  /\ CanStart(c, "rename")
  /\ UNCHANGED <<cache, warmed>>
  /\ SendWrite(c, New("rename"), {"scene_name"}, "writeAck")

StartSavePreset(c, l, named) ==
  /\ CanStart(c, "save_preset")
  /\ UNCHANGED cache
  /\ Warmup(c, [New("save_preset") EXCEPT !.target = l, !.named = named,
                                          !.mode = "post_save"])

StartApplyPreset(c, l, m, authorized) ==
  /\ CanStart(c, "apply_preset")
  /\ UNCHANGED cache
  /\ Gate(c, [New("apply_preset") EXCEPT !.target = l, !.mode = m,
                                         !.save = authorized])

\* A setlist names each location at most once; the order of the entries
\* after the first is left open.
StartApplySetlist(c, l, more, m) ==
  /\ CanStart(c, "apply_setlist")
  /\ l \notin more
  /\ UNCHANGED cache
  /\ Gate(c, [New("apply_setlist") EXCEPT !.target = l, !.more = more,
                                          !.mode = m, !.save = TRUE])

\* restore_defaults, of one location or of a range, neither gates nor warms up.
\* A location begins with the reading of its name, or at once with the first
\* message of its factory preset.
RestoreFrom(r) == [r EXCEPT !.pc = IF r.named THEN "preName" ELSE "streaming"]

StartRestoreDefaults(c, l, more, verify) ==
  /\ CanStart(c, "restore_defaults")
  /\ l \notin more
  /\ Resume(c, RestoreFrom([New("restore_defaults") EXCEPT
                              !.target = l, !.more = more, !.named = verify]))
  /\ UNCHANGED <<device, cache, warmed, history>>

----------------------------------------------------------------------------
(* The gate, resumed.                                                      *)

\* The active location is known and has a fingerprint: dump and compare.
GateReadKnown(c) ==
  /\ call[c].pc = "gateRead"
  /\ call[c].at # None
  /\ UNCHANGED <<cache, warmed>>
  /\ cache[call[c].at] # None
  /\ AskDump(c, call[c], "gateDump")

\* No answer, or no fingerprint for the location: proceed unchecked.
GateReadUnknown(c) ==
  /\ call[c].pc = "gateRead"
  /\ \/ call[c].at = None
     \/ call[c].at # None /\ cache[call[c].at] = None
  /\ UNCHANGED cache
  /\ Proceed(c, [call[c] EXCEPT !.degraded = (call[c].at = None)])

GateDumpMatches(c) ==
  /\ call[c].pc = "gateDump"
  /\ call[c].dump \in {None, cache[call[c].at]}
  /\ UNCHANGED cache
  /\ Proceed(c, [call[c] EXCEPT !.degraded = (call[c].dump = None)])

\* The buffer was edited: read the preset's name for the warning.
GateDumpDiffers(c) ==
  /\ call[c].pc = "gateDump"
  /\ call[c].dump \notin {None, cache[call[c].at]}
  /\ UNCHANGED <<cache, warmed>>
  /\ AskName(c, call[c], "gateName")

\* mode "warn": the call is refused, nothing has changed.
Refuse(c) ==
  /\ call[c].pc = "gateName"
  /\ call[c].mode = "warn"
  /\ UNCHANGED <<cache, warmed>>
  /\ Finish(c)

\* mode "save_active_first": the save is sent without waiting for its
\* acknowledgement and the buffer is dumped again as the new baseline.
SaveActiveFirst(c) ==
  /\ call[c].pc = "gateName"
  /\ call[c].mode = "save_active_first"
  /\ UNCHANGED <<cache, warmed>>
  /\ \E out \in SaveFirstOutcomes \ {"throws"} : DeviceStore(call[c].at, out)
  /\ \E answer \in Outcomes :
       Resume(c, [call[c] EXCEPT !.pc = "gateSaved",
                                 !.dump = IF answer = "ok" THEN buffer ELSE None])

\* Mutant: the gate navigates although its save was not sent.
SaveActiveFirstThrowsProceeds(c) ==
  /\ call[c].pc = "gateName"
  /\ call[c].mode = "save_active_first"
  /\ "throws" \in SaveFirstOutcomes
  /\ UNCHANGED cache
  /\ Proceed(c, call[c])

\* conn.send threw: the gate refuses.
SaveActiveFirstThrows(c) ==
  /\ call[c].pc = "gateName"
  /\ call[c].mode = "save_active_first"
  /\ "throws" \in SaveFirstOutcomes
  /\ UNCHANGED <<cache, warmed>>
  /\ Finish(c)

\* refreshAM4Fingerprint's second half: keep the hash, swallow a failure.
Remember(l, content) ==
  cache' = IF content = None THEN cache ELSE [cache EXCEPT ![l] = content]

GateSaved(c) ==
  /\ call[c].pc = "gateSaved"
  /\ Remember(call[c].at, call[c].dump)
  /\ Proceed(c, call[c])

----------------------------------------------------------------------------
(* The warm-up, resumed.                                                   *)

\* Mutant: a second warm-up does not respect a cached fingerprint.
WarmReadOverCached(c) ==
  /\ call[c].pc = "warmRead"
  /\ call[c].at # None
  /\ UNCHANGED <<cache, warmed>>
  /\ AskDump(c, call[c], "warmDump")

\* The active location has no fingerprint yet: dump the buffer.
WarmReadNew(c) ==
  /\ call[c].pc = "warmRead"
  /\ call[c].at # None
  /\ UNCHANGED <<cache, warmed>>
  /\ cache[call[c].at] = None
  /\ AskDump(c, call[c], "warmDump")

\* No answer, or a fingerprint is cached already and is respected.
WarmReadSkip(c) ==
  /\ call[c].pc = "warmRead"
  /\ \/ call[c].at = None
     \/ call[c].at # None /\ cache[call[c].at] # None
  /\ UNCHANGED <<cache, warmed>>
  /\ Body(c, call[c])

WarmDump(c) ==
  /\ call[c].pc = "warmDump"
  /\ Remember(call[c].at, call[c].dump)
  /\ Body(c, call[c])
  /\ UNCHANGED warmed

----------------------------------------------------------------------------
(* switch_preset, save_preset and the knob tools, resumed.                 *)

\* Mutant: the location read by an earlier step is refreshed, not the target.
RefreshLocationRead(c) == AskDump(c, call[c], "refresh")

\* refreshAM4Fingerprint's first half.
Refresh(c) == AskDump(c, [call[c] EXCEPT !.at = call[c].target], "refresh")

\* An acknowledged switch (switch_preset's own, or the one after a save)
\* loaded a stored preset: take its fingerprint.
SwitchAcked(c) ==
  /\ call[c].pc \in {"switchAck", "postSwitchAck"}
  /\ call[c].acked
  /\ UNCHANGED <<cache, warmed>>
  /\ Refresh(c)

SwitchUnacked(c) ==
  /\ call[c].pc \in {"switchAck", "postSwitchAck"}
  /\ ~call[c].acked
  /\ UNCHANGED <<cache, warmed>>
  /\ Finish(c)

Refreshed(c) ==
  /\ call[c].pc = "refresh"
  /\ Remember(call[c].at, call[c].dump)
  /\ Finish(c)
  /\ UNCHANGED warmed

\* setParams and a working-buffer apply write until their list is done.
WriteNext(c) ==
  /\ call[c].pc = "writeAck"
  /\ call[c].tool = "set_param"
  /\ version < MaxEdits
  /\ UNCHANGED <<cache, warmed>>
  /\ SendWrite(c, call[c], {"knob"}, "writeAck")

WriteDone(c) ==
  /\ call[c].pc = "writeAck"
  /\ UNCHANGED <<cache, warmed>>
  /\ Finish(c)

\* savePreset: the rename must be acknowledged before the save is sent...
RenameAcked(c) ==
  /\ call[c].pc = "renameAck"
  /\ UNCHANGED <<cache, warmed>>
  /\ IF call[c].acked THEN SendSave(c, call[c], "saveAck") ELSE Finish(c)

\* Mutant: the device is switched although the save was not acknowledged.
SaveUnackedSwitches(c) ==
  /\ call[c].pc = "saveAck"
  /\ UNCHANGED <<cache, warmed>>
  /\ SendSwitch(c, call[c], "postSwitchAck")

\* ... and the save before the device is switched to the saved location.
SaveAcked(c) ==
  /\ call[c].pc = "saveAck"
  /\ UNCHANGED <<cache, warmed>>
  /\ IF call[c].acked THEN SendSwitch(c, call[c], "postSwitchAck") ELSE Finish(c)

----------------------------------------------------------------------------
(* apply_preset(target_location) and apply_setlist, resumed.               *)

WireKind(r) == IF r.save THEN {"batch"} ELSE {"audition"}

\* An entry failed or is done: apply_preset ends, applySetlist stops or goes
\* on with the rest of the batch.
EntryOver(c, ok) ==
  \/ /\ call[c].more = {} \/ ~ok       \* the last one, or on_error = "stop"
     /\ Finish(c)
  \/ \E l \in call[c].more :            \* the next one
       SendSwitch(c, [call[c] EXCEPT !.target = l, !.more = @ \ {l},
                                     !.mode = "reported"], "entrySwitchAck")

EntrySwitched(c) ==
  /\ call[c].pc = "entrySwitchAck"
  /\ UNCHANGED <<cache, warmed>>
  /\ IF call[c].acked
     THEN SendWrite(c, call[c], WireKind(call[c]), "wiresAck")
     ELSE EntryOver(c, FALSE)

\* runApplyPresetWires: one write after another, acknowledged or not.
WiresNext(c) ==
  /\ call[c].pc = "wiresAck"
  /\ version < MaxEdits
  /\ UNCHANGED <<cache, warmed>>
  /\ SendWrite(c, call[c], WireKind(call[c]), "wiresAck")

\* Mutant: an audition refreshes the fingerprint as a save does.
WiresDoneRefreshes(c) ==
  /\ call[c].pc = "wiresAck"
  /\ UNCHANGED <<cache, warmed>>
  /\ IF call[c].save THEN SendSave(c, call[c], "entrySaveAck") ELSE Refresh(c)

\* Mutant: the batch saves by default, whatever the caller authorized.
WiresDoneSaves(c) ==
  /\ call[c].pc = "wiresAck"
  /\ UNCHANGED <<cache, warmed>>
  /\ SendSave(c, call[c], "entrySaveAck")

\* All writes sent: save if that was authorized, else leave the audition.
WiresDone(c) ==
  /\ call[c].pc = "wiresAck"
  /\ UNCHANGED <<cache, warmed>>
  /\ IF call[c].save THEN SendSave(c, call[c], "entrySaveAck")
                     ELSE EntryOver(c, TRUE)

\* Only applyPreset refreshes the fingerprint after its save ...
EntrySavedRefresh(c) ==
  /\ call[c].pc = "entrySaveAck"
  /\ call[c].acked
  /\ call[c].tool = "apply_preset"
  /\ UNCHANGED <<cache, warmed>>
  /\ Refresh(c)

\* ... applySetlist reads the stored name back if the entry has one.
EntrySavedVerify(c) ==
  /\ call[c].pc = "entrySaveAck"
  /\ call[c].acked
  /\ call[c].tool = "apply_setlist"
  /\ UNCHANGED <<cache, warmed>>
  /\ AskName(c, call[c], "verify")

EntrySavedOver(c) ==
  /\ call[c].pc = "entrySaveAck"
  /\ call[c].acked => call[c].tool = "apply_setlist"
  /\ UNCHANGED <<cache, warmed>>
  /\ EntryOver(c, call[c].acked)

EntryVerified(c) ==
  /\ call[c].pc = "verify"
  /\ UNCHANGED <<cache, warmed>>
  /\ EntryOver(c, call[c].acked)

----------------------------------------------------------------------------
(* restore_defaults, resumed.                                              *)

\* Name or timeout: either way the first message is sent.
RestoreRead(c) ==
  /\ call[c].pc = "preName"
  /\ Resume(c, [call[c] EXCEPT !.pc = "streaming"])
  /\ UNCHANGED <<device, cache, warmed, history>>

\* Mutant: the range does not count the location it has done.
RestoreOverAgain(c, ok) ==
  \/ /\ call[c].more = {} \/ ~ok
     /\ Resume(c, Idle)
  \/ \E l \in call[c].more :
       Resume(c, RestoreFrom([call[c] EXCEPT !.target = l]))

\* A location failed or is done.  A failed one is the last one, or on_error is
\* "continue".
RestoreOver(c, ok) ==
  \/ /\ call[c].more = {} \/ ~ok
     /\ Resume(c, Idle)
  \/ \E l \in call[c].more :
       Resume(c, RestoreFrom([call[c] EXCEPT !.target = l, !.more = @ \ {l}]))

\* The last of the six messages is out.  The device stores the factory preset
\* when all of them arrived; nothing acknowledges them.  The name is asked for
\* in the same turn, or the location counts as restored.
RestoreSent(c) ==
  /\ call[c].pc = "streaming"
  /\ \E out \in Outcomes :
       flash' = IF Landed(out) THEN [flash EXCEPT ![call[c].target] = 0] ELSE flash
  /\ IF call[c].named
     THEN \E out \in Outcomes :
            Resume(c, [call[c] EXCEPT !.pc = "postName", !.acked = (out = "ok")])
     ELSE RestoreOver(c, TRUE)
  /\ UNCHANGED <<active, buffer, version, cache, warmed, history>>

\* A message could not be sent: the exception leaves the range as well, whatever
\* on_error says, and what was restored so far is not reported.
RestoreThrows(c) ==
  /\ call[c].pc \in {"preName", "streaming"}
  /\ UNCHANGED <<cache, warmed>>
  /\ Finish(c)

\* No name, or the name of an empty location: an error.  (A name that is what
\* it was before is reported as restored.)
RestoreVerified(c) ==
  /\ call[c].pc = "postName"
  /\ RestoreOver(c, call[c].acked)
  /\ UNCHANGED <<device, cache, warmed, history>>

----------------------------------------------------------------------------
(* The player, the connection and the process.                             *)

Quiet == \A c \in Calls : call[c] = Idle

PanelMay(move) == move \in PanelMoves /\ (PanelMidCall \/ Quiet)

PanelEdit ==
  /\ PanelMay("edit")
  /\ version < MaxEdits
  /\ UNCHANGED <<cache, warmed, call>>
  /\ DeviceEdit({"panel"})

\* Turning the preset wheel discards edits by the player's own hand.
PanelSwitch(l) ==
  /\ PanelMay("switch")
  /\ active' = l
  /\ buffer' = flash[l]
  /\ risk' = {}
  /\ UNCHANGED <<flash, version, cache, warmed, call, lost>>

PanelSave ==
  /\ PanelMay("save")
  /\ flash' = [flash EXCEPT ![active] = buffer]
  /\ risk' = {}
  /\ UNCHANGED <<active, buffer, version, cache, warmed, call, lost>>

\* The registry opens a new handle (reconnect_midi, or a stale handle at the
\* start of a call): it is not in warmedConnections; the cache stays.
NewConnection ==
  /\ Quiet
  /\ warmed
  /\ warmed' = FALSE
  /\ UNCHANGED <<device, cache, call, history>>

\* The server process ends and starts again: memory is gone, calls with it.
Restart ==
  /\ cache' = [l \in Locations |-> None]
  /\ warmed' = FALSE
  /\ call' = [c \in Calls |-> Idle]
  /\ risk' = {}
  /\ UNCHANGED <<device, lost>>

----------------------------------------------------------------------------

Begin(c) ==
  \/ \E l \in Locations, m \in Modes : StartSwitchPreset(c, l, m)
  \/ StartSetParam(c)
  \/ StartRename(c)
  \/ \E l \in Locations, named \in BOOLEAN : StartSavePreset(c, l, named)
  \/ \E l \in Locations, m \in Modes, s \in BOOLEAN : StartApplyPreset(c, l, m, s)
  \/ \E l \in Locations, more \in SUBSET Locations, m \in Modes :
       StartApplySetlist(c, l, more, m)
  \/ \E l \in Locations, more \in SUBSET Locations, verify \in BOOLEAN :
       StartRestoreDefaults(c, l, more, verify)

Restore(c) ==
  RestoreRead(c) \/ RestoreSent(c) \/ RestoreThrows(c) \/ RestoreVerified(c)

Continue(c) ==
  \/ GateReadKnown(c) \/ GateReadUnknown(c)
  \/ GateDumpMatches(c) \/ GateDumpDiffers(c) \/ Refuse(c)
  \/ SaveActiveFirst(c) \/ SaveActiveFirstThrows(c) \/ GateSaved(c)
  \/ WarmReadNew(c) \/ WarmReadSkip(c) \/ WarmDump(c)
  \/ SwitchAcked(c) \/ SwitchUnacked(c) \/ Refreshed(c)
  \/ WriteNext(c) \/ WriteDone(c) \/ RenameAcked(c) \/ SaveAcked(c)
  \/ EntrySwitched(c) \/ WiresNext(c) \/ WiresDone(c)
  \/ EntrySavedRefresh(c) \/ EntrySavedVerify(c) \/ EntrySavedOver(c)
  \/ EntryVerified(c)
  \/ Restore(c)

Environment ==
  \/ PanelEdit
  \/ \E l \in Locations : PanelSwitch(l)
  \/ PanelSave
  \/ NewConnection
  \/ Restart

Next == (\E c \in Calls : Begin(c) \/ Continue(c)) \/ Environment

Spec == Init /\ [][Next]_vars

\* Every await ends: with its answer or at its timeout.
FairSpec == Spec /\ \A c \in Calls : WF_vars(Continue(c))

----------------------------------------------------------------------------
(* Properties.                                                             *)

\* The gate's promise (docs/SAFE-EDIT-WORKFLOW.md:6): a call that navigates in
\* mode "warn" or "save_active_first" never discards an edit made over a
\* cached fingerprint.
WatchedEditsSurvive ==
  lost \cap ({"watched"} \X {"warn", "save_active_first"}) = {}

\* writer.ts:642: an audition leaves the buffer different from the baseline "so
\* the next gate check sees the mismatch".
AuditionSurvives == lost \cap ({"audition"} \X {"warn"}) = {}

\* runPostSaveSwitch has no gate because there is nothing left to lose.
PostSaveSwitchLosesNothing == lost \cap (Kinds \X {"post_save"}) = {}

\* What makes the gate work: while watched edits are in the buffer, the
\* active location has a fingerprint and it is not the buffer's.
BaselineExcludesEdits ==
  "watched" \in risk => cache[active] \notin {None, buffer}

\* A navigation the gate has let through has no watched edits to lose.
Passed(r, edits) == "watched" \notin edits \/ Waives(r)

\* What a call waiting at r.pc has established of the device: its active
\* location, the content of its buffer and the edits at risk in it.
Knows(r, location, content, edits) ==
  /\ r.pc \in {"gateRead", "warmRead"} => r.at \in {None, location}
  /\ r.pc \in Dumping => r.at = location /\ r.dump \in {None, content}
  /\ r.pc \in {"gateSaved", "warmDump", "refresh"} => "watched" \notin edits
  /\ r.pc \in {"warmRead", "warmDump"} /\ r.tool \in {"switch_preset", "apply_preset"}
     => Passed(r, edits)
  /\ r.pc \in {"switchAck", "postSwitchAck", "entrySwitchAck"} /\ r.acked
     => r.target = location /\ edits = {}
  /\ r.pc \in {"wiresAck", "entrySaveAck"} => r.target = location
  /\ r.pc \in {"saveAck", "entrySaveAck"} /\ r.acked => edits = {}
  /\ r.tool \in {"switch_preset", "apply_preset", "apply_setlist"}
     => r.mode # "post_save"

\* The inductive invariant of the gate: between two awaits of a call that runs
\* alone, what it read is still so; hence the edits the gate passed over or
\* saved are the ones the navigation finds.
GateInv ==
  /\ BaselineExcludesEdits
  /\ WatchedEditsSurvive
  /\ PostSaveSwitchLosesNothing
  /\ \A c \in Calls : Knows(call[c], active, buffer, risk)

\* Who may write a location: the tool whose caller named it and authorized
\* saving, the gate for the preset being left, a restore that has come to it,
\* or the player.
MayStore(r, l) ==
  \/ l = r.target /\ r.tool = "save_preset"
  \/ l = r.target /\ r.tool \in {"apply_preset", "apply_setlist"} /\ r.save
  \/ l = r.at /\ l = active /\ r.mode = "save_active_first"

NoSilentOverwrite ==
  [][\A l \in Locations : flash'[l] # flash[l] =>
       \/ \E c \in Calls : MayStore(call'[c], l)
       \/ \E c \in Calls : call[c].pc = "streaming" /\ l = call[c].target
       \/ PanelSave /\ l = active]_vars

\* Every call ends, whatever the device fails to answer.
EveryCallEnds == \A c \in Calls : call[c] # Idle ~> call[c] = Idle

\* The gate implements the abstract contract.
Abstract == INSTANCE SafeEditContract WITH
  guarded <- "watched" \in risk,
  waived <- Quiet \/ \E c \in Calls : Waives(call[c])

ImplementsContract == Abstract!Contract
=============================================================================
