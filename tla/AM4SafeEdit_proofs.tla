------------------------- MODULE AM4SafeEdit_proofs -------------------------
(***************************************************************************)
(* What TLAPS proves of the AM4 dirty gate, for any number of locations,   *)
(* edits and steps.                                                        *)
(*                                                                         *)
(* Type correctness holds of every instance.  The gate's promise holds     *)
(* under the three assumptions that the runs which violate it break: one   *)
(* call at a time, a player who keeps off the device while a call runs,    *)
(* and a save sent by the gate that is either carried out or throws.       *)
(***************************************************************************)
EXTENDS AM4SafeEdit, TLAPS

----------------------------------------------------------------------------
(* Type correctness.  A send ends a step: one lemma per kind of send, then *)
(* one per operator that chains them.                                      *)

\* What a step does, apart from the cache.
DeviceStep == DeviceOK' /\ HistoryOK' /\ version' >= version
TypeStep == DeviceStep /\ CallsOK'

\* The record r has what its tool needs, and may be left waiting at pc.
Equipped(r) ==
  /\ r \in CallRec
  /\ Made(r.dump)
  /\ r.tool \in Targeted => r.target # None

Fit(r, pc) ==
  /\ Equipped(r)
  /\ pc \in Awaits
  /\ Suits(r.tool, pc)
  /\ pc \in Dumping => r.at # None

LEMMA IdleType == Idle \in CallRec /\ Ready(Idle)
  BY DEF Idle, CallRec, Ready, Suits, Entering, Restoring, Dumping, Navigating, AllModes,
         NavModes, AllTools, Targeted

\* Giving one call a good record keeps all of them good.
LEMMA ResumeType ==
  ASSUME TypeOK, NEW c \in Calls, NEW r, Resume(c, r), r \in CallRec, Ready(r),
         version' \in Nat, version' >= version,
         r.dump # None => r.dump <= version'
  PROVE  CallsOK'
  <1>1. call' = [call EXCEPT ![c] = r] BY DEF Resume
  <1>2. call' \in [Calls -> CallRec] BY <1>1 DEF TypeOK, CallsOK
  <1>3. ASSUME NEW d \in Calls
        PROVE  Ready(call'[d]) /\ (call'[d].dump # None => call'[d].dump <= version')
    <2>1. CASE d = c BY <1>1, <2>1 DEF TypeOK, CallsOK
    <2>2. CASE d # c
      <3>1. call'[d] = call[d] BY <1>1, <2>2 DEF TypeOK, CallsOK
      <3>2. call[d] \in CallRec /\ Ready(call[d]) BY DEF TypeOK, CallsOK
      <3>3. call[d].dump # None => call[d].dump <= version
        BY DEF TypeOK, CallsOK, Made
      <3>4. call[d].dump # None => call[d].dump \in Nat
        BY <3>2 DEF CallRec, Content
      <3>5. version \in Nat BY DEF TypeOK, DeviceOK
      <3> QED BY <3>1, <3>2, <3>3, <3>4, <3>5
    <2> QED BY <2>1, <2>2
  <1> QED BY <1>2, <1>3 DEF CallsOK, Ready, Made

----------------------------------------------------------------------------
(* What a request does to the device.                                      *)

LEMMA NoDeviceType ==
  ASSUME TypeOK, UNCHANGED <<device, history>>
  PROVE  DeviceStep
  BY DEF TypeOK, DeviceOK, HistoryOK, DeviceStep, device, history

LEMMA DeviceSwitchType ==
  ASSUME TypeOK, NEW r \in CallRec, NEW l \in Locations, NEW out,
         DeviceSwitch(r, l, out)
  PROVE  DeviceStep
  <1>1. CASE Landed(out)
    <2>1. r.mode \in NavModes BY DEF CallRec
    <2> QED BY <1>1, <2>1 DEF TypeOK, DeviceOK, HistoryOK, DeviceStep,
                              DeviceSwitch, Content
  <1>2. CASE ~Landed(out) BY <1>2, NoDeviceType DEF DeviceSwitch
  <1> QED BY <1>1, <1>2

LEMMA DeviceEditType ==
  ASSUME TypeOK, NEW kind, DeviceEdit(kind)
  PROVE  DeviceStep
  <1>1. risk' \subseteq Kinds BY AM4Constants DEF TypeOK, HistoryOK, DeviceEdit
  <1> QED BY <1>1 DEF TypeOK, DeviceOK, HistoryOK, DeviceStep, DeviceEdit, Content

LEMMA DeviceStoreType ==
  ASSUME TypeOK, NEW l \in Locations, NEW out, DeviceStore(l, out)
  PROVE  DeviceStep
  <1>1. CASE Landed(out)
    BY <1>1 DEF TypeOK, DeviceOK, HistoryOK, DeviceStep, DeviceStore, Content
  <1>2. CASE ~Landed(out) BY <1>2, NoDeviceType DEF DeviceStore
  <1> QED BY <1>1, <1>2

----------------------------------------------------------------------------
(* Sends.                                                                  *)

\* A good record at a step's end.
LEMMA SentType ==
  ASSUME TypeOK, NEW c \in Calls, NEW r, Resume(c, r), r \in CallRec, Ready(r),
         r.dump # None => r.dump <= version, DeviceStep
  PROVE  TypeStep
  <1>1. version \in Nat /\ version' \in Nat /\ version' >= version
    BY DEF TypeOK, DeviceOK, DeviceStep
  <1>2. r.dump # None => r.dump \in Nat BY DEF CallRec, Content
  <1>3. r.dump # None => r.dump <= version' BY <1>1, <1>2
  <1> QED BY <1>1, <1>3, ResumeType DEF DeviceStep, TypeStep

LEMMA FinishType ==
  ASSUME TypeOK, NEW c \in Calls, Finish(c)
  PROVE  TypeStep
  <1>1. Idle.dump = None BY DEF Idle
  <1> QED BY <1>1, IdleType, SentType, NoDeviceType DEF Finish

LEMMA AskActiveType ==
  ASSUME TypeOK, NEW c \in Calls, NEW r, NEW pc, Fit(r, pc), pc \notin Dumping,
         AskActive(c, r, pc)
  PROVE  TypeStep
  <1>1. PICK out \in Outcomes :
          Resume(c, [r EXCEPT !.pc = pc, !.at = IF out = "ok" THEN active ELSE None])
    BY DEF AskActive
  <1> DEFINE a == IF out = "ok" THEN active ELSE None
             s == [r EXCEPT !.pc = pc, !.at = a]
  <1>2. a \in Locations \cup {None} BY DEF TypeOK, DeviceOK
  <1>3. s \in CallRec /\ s.pc = pc /\ s.tool = r.tool /\ s.target = r.target
        /\ s.dump = r.dump
    <2> HIDE DEF a
    <2> QED BY <1>2 DEF Fit, Equipped, CallRec
  <1>4. Ready(s) BY <1>3 DEF Fit, Equipped, Ready
  <1>5. s.dump # None => s.dump <= version BY <1>3 DEF Fit, Equipped, Made
  <1> HIDE DEF s
  <1>6. Resume(c, s) BY <1>1 DEF s
  <1> QED BY <1>3, <1>4, <1>5, <1>6, SentType, NoDeviceType DEF AskActive

LEMMA AskDumpType ==
  ASSUME TypeOK, NEW c \in Calls, NEW r, NEW pc, Fit(r, pc), AskDump(c, r, pc)
  PROVE  TypeStep
  <1>1. PICK out \in Outcomes :
          Resume(c, [r EXCEPT !.pc = pc, !.dump = IF out = "ok" THEN buffer ELSE None])
    BY DEF AskDump
  <1> DEFINE d == IF out = "ok" THEN buffer ELSE None
             s == [r EXCEPT !.pc = pc, !.dump = d]
  <1>2. d \in Content \cup {None} /\ (d # None => d <= version)
    BY DEF TypeOK, DeviceOK
  <1>3. s \in CallRec /\ s.pc = pc /\ s.tool = r.tool /\ s.target = r.target
        /\ s.at = r.at /\ s.dump = d
    <2> HIDE DEF d
    <2> QED BY <1>2 DEF Fit, Equipped, CallRec
  <1>4. Ready(s) BY <1>3 DEF Fit, Equipped, Ready
  <1> HIDE DEF s, d
  <1>5. Resume(c, s) BY <1>1 DEF s, d
  <1> QED BY <1>2, <1>3, <1>4, <1>5, SentType, NoDeviceType DEF AskDump

\* The sends that note only whether the device acknowledged.
LEMMA AckType ==
  ASSUME TypeOK, NEW c \in Calls, NEW r, NEW pc, NEW b \in BOOLEAN, Fit(r, pc),
         Resume(c, [r EXCEPT !.pc = pc, !.acked = b]), DeviceStep
  PROVE  TypeStep
  <1> DEFINE s == [r EXCEPT !.pc = pc, !.acked = b]
  <1>1. s \in CallRec /\ s.pc = pc /\ s.tool = r.tool /\ s.target = r.target
        /\ s.at = r.at /\ s.dump = r.dump
    BY DEF Fit, Equipped, CallRec
  <1>2. Ready(s) BY <1>1 DEF Fit, Equipped, Ready
  <1>3. s.dump # None => s.dump <= version BY <1>1 DEF Fit, Equipped, Made
  <1> HIDE DEF s
  <1>4. Resume(c, s) BY DEF s
  <1> QED BY <1>1, <1>2, <1>3, <1>4, SentType

LEMMA AskNameType ==
  ASSUME TypeOK, NEW c \in Calls, NEW r, NEW pc, Fit(r, pc), AskName(c, r, pc)
  PROVE  TypeStep
  BY AckType, NoDeviceType DEF AskName

LEMMA SendSwitchType ==
  ASSUME TypeOK, NEW c \in Calls, NEW r, NEW pc, Fit(r, pc), pc \in Navigating,
         SendSwitch(c, r, pc)
  PROVE  TypeStep
  <1>1. PICK out \in Outcomes : /\ DeviceSwitch(r, r.target, out)
                                /\ Resume(c, [r EXCEPT !.pc = pc, !.acked = (out = "ok")])
    BY DEF SendSwitch
  <1>2. r \in CallRec /\ r.target \in Locations BY DEF Fit, Suits, Equipped, CallRec
  <1> QED BY <1>1, <1>2, DeviceSwitchType, AckType

LEMMA SendWriteType ==
  ASSUME TypeOK, NEW c \in Calls, NEW r, NEW kind, NEW pc, Fit(r, pc),
         SendWrite(c, r, kind, pc)
  PROVE  TypeStep
  <1>1. PICK out \in Outcomes : /\ DeviceWrite(kind, out)
                                /\ Resume(c, [r EXCEPT !.pc = pc, !.acked = (out = "ok")])
    BY DEF SendWrite
  <1>2. DeviceStep BY <1>1, DeviceEditType, NoDeviceType DEF DeviceWrite
  <1> QED BY <1>1, <1>2, AckType

LEMMA SendSaveType ==
  ASSUME TypeOK, NEW c \in Calls, NEW r, NEW pc, Fit(r, pc), pc \in Navigating,
         SendSave(c, r, pc)
  PROVE  TypeStep
  <1>1. PICK out \in Outcomes : /\ DeviceStore(r.target, out)
                                /\ Resume(c, [r EXCEPT !.pc = pc, !.acked = (out = "ok")])
    BY DEF SendSave
  <1>2. r.target \in Locations BY DEF Fit, Suits, Equipped, CallRec
  <1> QED BY <1>1, <1>2, DeviceStoreType, AckType

----------------------------------------------------------------------------
(* The chains of operators an action ends with.                            *)

LEMMA AwaitsMembers ==
  /\ Dumping \subseteq Awaits /\ Navigating \subseteq Awaits
  /\ {"gateRead", "warmRead", "writeAck"} \subseteq Awaits
  /\ {"gateRead", "warmRead", "writeAck"} \cap (Dumping \cup Navigating) = {}
  /\ Dumping \cap Navigating = {}
  BY DEF Awaits, Dumping, Navigating

\* Any tool may wait for the gate, the warm-up, a fingerprint or a write.
LEMMA AnyTool ==
  ASSUME NEW tool, NEW pc \in Dumping \cup {"gateRead", "warmRead", "writeAck"}
  PROVE  Suits(tool, pc)
  BY DEF Suits, Dumping, Navigating, Entering, Restoring

LEMMA BodyType ==
  ASSUME TypeOK, NEW c \in Calls, NEW r, Equipped(r), Body(c, r)
  PROVE  TypeStep
  <1>1. CASE r.tool = "switch_preset" /\ SendSwitch(c, r, "switchAck")
    <2>1. Fit(r, "switchAck") /\ "switchAck" \in Navigating
      BY <1>1
         DEF Fit, Suits, Entering, Restoring, Awaits, Dumping, Navigating, Targeted, AllTools
    <2> QED BY <1>1, <2>1, SendSwitchType
  <1>2. CASE r.tool = "set_param" /\ SendWrite(c, r, {"knob"}, "writeAck")
    <2>1. Fit(r, "writeAck") BY AnyTool, AwaitsMembers DEF Fit
    <2> QED BY <1>2, <2>1, SendWriteType
  <1>3. CASE r.tool = "save_preset" /\ r.named /\ SendWrite(c, r, {"name"}, "renameAck")
    <2>1. Fit(r, "renameAck")
      BY <1>3
         DEF Fit, Suits, Entering, Restoring, Awaits, Dumping, Navigating, Targeted, AllTools
    <2> QED BY <1>3, <2>1, SendWriteType
  <1>4. CASE r.tool = "save_preset" /\ ~r.named /\ SendSave(c, r, "saveAck")
    <2>1. Fit(r, "saveAck") /\ "saveAck" \in Navigating
      BY <1>4
         DEF Fit, Suits, Entering, Restoring, Awaits, Dumping, Navigating, Targeted, AllTools
    <2> QED BY <1>4, <2>1, SendSaveType
  <1>5. CASE r.tool = "apply_preset" /\ SendSwitch(c, r, "entrySwitchAck")
    <2>1. Fit(r, "entrySwitchAck") /\ "entrySwitchAck" \in Navigating
      BY <1>5
         DEF Fit, Suits, Entering, Restoring, Awaits, Dumping, Navigating, Targeted, AllTools
    <2> QED BY <1>5, <2>1, SendSwitchType
  <1> QED BY <1>1, <1>2, <1>3, <1>4, <1>5 DEF Body

LEMMA WarmupType ==
  ASSUME TypeOK, NEW c \in Calls, NEW r, Equipped(r), Warmup(c, r)
  PROVE  TypeStep /\ warmed' \in BOOLEAN
  <1>1. CASE warmed
    BY <1>1, BodyType DEF Warmup, TypeOK, CacheOK
  <1>2. CASE ~warmed
    <2>1. Fit(r, "warmRead") BY AnyTool, AwaitsMembers DEF Fit
    <2> QED BY <1>2, <2>1, AskActiveType, AwaitsMembers DEF Warmup
  <1> QED BY <1>1, <1>2

LEMMA ProceedType ==
  ASSUME TypeOK, NEW c \in Calls, NEW r, Equipped(r), Proceed(c, r)
  PROVE  TypeStep /\ warmed' \in BOOLEAN
  <1>1. CASE r.tool = "apply_setlist"
    <2>1. Fit(r, "entrySwitchAck") /\ "entrySwitchAck" \in Navigating
      BY <1>1
         DEF Fit, Suits, Entering, Restoring, Awaits, Dumping, Navigating, Targeted, AllTools
    <2> QED BY <1>1, <2>1, SendSwitchType DEF Proceed, TypeOK, CacheOK
  <1>2. CASE r.tool # "apply_setlist" BY <1>2, WarmupType DEF Proceed
  <1> QED BY <1>1, <1>2

LEMMA GateType ==
  ASSUME TypeOK, NEW c \in Calls, NEW r, Equipped(r), Gate(c, r)
  PROVE  TypeStep /\ warmed' \in BOOLEAN
  <1>1. CASE r.mode = "discard" BY <1>1, ProceedType DEF Gate
  <1>2. CASE r.mode # "discard"
    <2>1. Fit(r, "gateRead") BY AnyTool, AwaitsMembers DEF Fit
    <2> QED BY <1>2, <2>1, AskActiveType, AwaitsMembers DEF Gate, TypeOK, CacheOK
  <1> QED BY <1>1, <1>2

LEMMA EntryOverType ==
  ASSUME TypeOK, NEW c \in Calls, NEW ok, EntryOver(c, ok), call[c].pc \in Entering
  PROVE  TypeStep
  <1>1. CASE Finish(c) BY <1>1, FinishType
  <1>2. ASSUME NEW l \in call[c].more,
               SendSwitch(c, [call[c] EXCEPT !.target = l, !.more = @ \ {l},
                                             !.mode = "reported"], "entrySwitchAck")
        PROVE  TypeStep
    <2> DEFINE r == [call[c] EXCEPT !.target = l, !.more = @ \ {l}, !.mode = "reported"]
    <2>1. call[c] \in CallRec /\ Ready(call[c]) /\ Made(call[c].dump)
      BY DEF TypeOK, CallsOK
    <2>2. l \in Locations BY <2>1 DEF CallRec
    <2>3. l # None BY <2>2, AM4Constants
    <2>4. r \in CallRec BY <2>1, <2>2 DEF CallRec, NavModes
    <2>5. r.target = l /\ r.tool = call[c].tool /\ r.dump = call[c].dump
      BY <2>1 DEF CallRec
    <2>6. Fit(r, "entrySwitchAck") /\ "entrySwitchAck" \in Navigating
      BY <2>1, <2>3, <2>4, <2>5
         DEF Fit, Suits, Equipped, Entering, Restoring, Targeted, AllTools, Ready, Awaits, Dumping, Navigating
    <2> HIDE DEF r
    <2>7. SendSwitch(c, r, "entrySwitchAck") BY <1>2 DEF r
    <2> QED BY <2>6, <2>7, SendSwitchType
  <1> QED BY <1>1, <1>2 DEF EntryOver

----------------------------------------------------------------------------
(* restore_defaults.                                                       *)

\* The record of a call that restores.
Restores(s) ==
  /\ s \in CallRec /\ Made(s.dump)
  /\ s.tool = "restore_defaults" /\ s.pc \in Restoring /\ s.target # None

LEMMA RestoresReady ==
  ASSUME NEW s, Restores(s)
  PROVE  Ready(s)
  BY DEF Restores, Ready, Suits, Restoring, Navigating, Entering, Dumping

LEMMA RestoreFromType ==
  ASSUME NEW r \in CallRec, Made(r.dump), r.tool = "restore_defaults", r.target # None
  PROVE  Restores(RestoreFrom(r))
  BY DEF RestoreFrom, Restores, Restoring, CallRec, Awaits

\* All that a restore under way does: it waits on, or it is over, and at most
\* it fills its location.
Fills(c) ==
  /\ call[c].pc = "streaming"
  /\ flash' = [flash EXCEPT ![call[c].target] = 0]

RestoreStep(c) ==
  /\ \E s : Resume(c, s) /\ (s = Idle \/ Restores(s))
  /\ UNCHANGED <<active, buffer, version, cache, warmed, history>>
  /\ UNCHANGED flash \/ Fills(c)

LEMMA RestoreOverSteps ==
  ASSUME TypeOK, NEW c \in Calls, Restores(call[c]), NEW ok, RestoreOver(c, ok)
  PROVE  \E s : Resume(c, s) /\ (s = Idle \/ Restores(s))
  <1>1. CASE Resume(c, Idle) BY <1>1
  <1>2. ASSUME NEW l \in call[c].more,
               Resume(c, RestoreFrom([call[c] EXCEPT !.target = l, !.more = @ \ {l}]))
        PROVE  \E s : Resume(c, s) /\ (s = Idle \/ Restores(s))
    <2> DEFINE r == [call[c] EXCEPT !.target = l, !.more = @ \ {l}]
    <2>1. call[c] \in CallRec BY DEF Restores
    <2>2. l \in Locations BY <2>1 DEF CallRec
    <2>3. l # None BY <2>2, AM4Constants
    <2>4. r \in CallRec /\ r.target = l /\ r.dump = call[c].dump /\ r.tool = call[c].tool
      BY <2>1, <2>2 DEF CallRec
    <2> HIDE DEF r
    <2>5. Restores(RestoreFrom(r)) BY <2>3, <2>4, RestoreFromType DEF Restores
    <2> QED BY <1>2, <2>5 DEF r
  <1> QED BY <1>1, <1>2 DEF RestoreOver

LEMMA RestoreSteps ==
  ASSUME TypeOK, NEW c \in Calls, Restore(c)
  PROVE  RestoreStep(c)
  <1> DEFINE r == call[c]
  <1>1. r \in CallRec /\ Ready(r) /\ Made(r.dump) BY DEF TypeOK, CallsOK
  <1>2. r.pc \in Restoring
    BY DEF Restore, RestoreRead, RestoreSent, RestoreThrows, RestoreVerified, Restoring
  <1>3. Restores(r) BY <1>1, <1>2 DEF Ready, Suits, Restores, Targeted, AllTools
  <1>4. ASSUME NEW pc \in Restoring, NEW b \in BOOLEAN
        PROVE  Restores([r EXCEPT !.pc = pc, !.acked = b])
    BY <1>1, <1>3 DEF Restores, CallRec, Awaits
  <1>5. Restores([r EXCEPT !.pc = "streaming"])
    BY <1>1, <1>3 DEF Restores, CallRec, Awaits, Restoring
  <1>6. CASE RestoreRead(c)
    BY <1>5, <1>6 DEF RestoreRead, RestoreStep, device
  <1>7. CASE RestoreSent(c)
    <2>1. UNCHANGED flash \/ Fills(c)
      BY <1>7 DEF RestoreSent, Fills
    <2>2. \E s : Resume(c, s) /\ (s = Idle \/ Restores(s))
      <3>1. CASE r.named
        <4>1. PICK out \in Outcomes :
                Resume(c, [r EXCEPT !.pc = "postName", !.acked = (out = "ok")])
          BY <1>7, <3>1 DEF RestoreSent
        <4> QED BY <1>4, <4>1 DEF Restoring
      <3>2. CASE ~r.named
        <4>1. RestoreOver(c, TRUE) BY <1>7, <3>2 DEF RestoreSent
        <4> QED BY <1>3, <4>1, RestoreOverSteps
      <3> QED BY <3>1, <3>2
    <2> QED BY <1>7, <2>1, <2>2 DEF RestoreSent, RestoreStep
  <1>8. CASE RestoreThrows(c)
    BY <1>8 DEF RestoreThrows, Finish, RestoreStep, device
  <1>9. CASE RestoreVerified(c)
    BY <1>3, <1>9, RestoreOverSteps DEF RestoreVerified, RestoreStep, device
  <1> QED BY <1>6, <1>7, <1>8, <1>9 DEF Restore

LEMMA RestoreType ==
  ASSUME TypeOK, NEW c \in Calls, RestoreStep(c)
  PROVE  TypeStep /\ warmed' \in BOOLEAN
  <1>1. PICK s : Resume(c, s) /\ (s = Idle \/ Restores(s)) BY DEF RestoreStep
  <1>2. Idle.dump = None BY DEF Idle
  <1>3. s \in CallRec /\ Ready(s) /\ (s.dump # None => s.dump <= version)
    BY <1>1, <1>2, IdleType, RestoresReady DEF Restores, Made
  <1>4. DeviceStep
    BY DEF RestoreStep, Fills, TypeOK, DeviceOK, HistoryOK, DeviceStep, history, Content
  <1> QED BY <1>1, <1>3, <1>4, SentType DEF RestoreStep, TypeOK, CacheOK

----------------------------------------------------------------------------
(* Every step keeps the types.                                             *)

LEMMA CacheKept ==
  ASSUME TypeOK, TypeStep, UNCHANGED cache, warmed' \in BOOLEAN
  PROVE  TypeOK'
  <1>1. ASSUME NEW l \in Locations PROVE cache[l] # None => cache[l] <= version'
    <2>1. version \in Nat /\ version' \in Nat /\ version' >= version
      BY DEF TypeOK, TypeStep, DeviceStep, DeviceOK
    <2>2. cache[l] \in Nat \cup {None} /\ (cache[l] # None => cache[l] <= version)
      BY DEF TypeOK, CacheOK, Content, Made
    <2> QED BY <2>1, <2>2
  <1>2. CacheOK' BY <1>1 DEF TypeOK, CacheOK, Made
  <1> QED BY <1>2 DEF TypeStep, DeviceStep, TypeOK

LEMMA CacheRemembers ==
  ASSUME TypeOK, TypeStep, warmed' \in BOOLEAN,
         NEW l \in Locations, NEW content \in Content \cup {None},
         Made(content), Remember(l, content)
  PROVE  TypeOK'
  <1>1. CASE content = None BY <1>1, CacheKept DEF Remember
  <1>2. CASE content # None
    <2>1. cache' = [cache EXCEPT ![l] = content] BY <1>2 DEF Remember
    <2>2. version \in Nat /\ version' \in Nat /\ version' >= version /\ content \in Nat 
         /\ content <= version
      BY <1>2 DEF TypeOK, TypeStep, DeviceStep, DeviceOK, Made, Content
    <2>3. ASSUME NEW k \in Locations PROVE cache'[k] # None => cache'[k] <= version'
      BY <2>1, <2>2 DEF TypeOK, CacheOK, Content, Made
    <2>4. CacheOK' BY <2>1, <2>2, <2>3 DEF TypeOK, CacheOK, Made, Content
    <2> QED BY <2>4 DEF TypeStep, DeviceStep, TypeOK
  <1> QED BY <1>1, <1>2

\* Init establishes the types.
LEMMA InitType == Init => TypeOK
  <1> SUFFICES ASSUME Init PROVE TypeOK OBVIOUS
  <1>1. DeviceOK BY DEF Init, DeviceOK, Content
  <1>2. CacheOK BY DEF Init, CacheOK, Made
  <1>3. CallsOK
    <2>1. Idle.dump = None BY DEF Idle
    <2> QED BY <2>1, IdleType DEF Init, CallsOK, Made
  <1>4. HistoryOK BY DEF Init, HistoryOK
  <1> QED BY <1>1, <1>2, <1>3, <1>4 DEF TypeOK

\* What the record a tool starts with holds.
LEMMA NewType ==
  ASSUME NEW tool \in AllTools
  PROVE  /\ New(tool) \in CallRec
         /\ New(tool).tool = tool /\ New(tool).dump = None
  BY IdleType DEF New, Idle, CallRec

LEMMA StartRestoreSteps ==
  ASSUME TypeOK, NEW c \in Calls, NEW l \in Locations, NEW more \in SUBSET Locations,
         NEW verify \in BOOLEAN, StartRestoreDefaults(c, l, more, verify)
  PROVE  RestoreStep(c) /\ UNCHANGED flash
  <1> DEFINE n == New("restore_defaults")
             r == [n EXCEPT !.target = l, !.more = more, !.named = verify]
  <1>1. n \in CallRec /\ n.dump = None /\ n.tool = "restore_defaults"
    BY NewType DEF AllTools
  <1>2. l # None BY AM4Constants
  <1> HIDE DEF n
  <1>3. r \in CallRec /\ r.dump = None /\ r.target = l /\ r.tool = "restore_defaults"
    BY <1>1 DEF CallRec
  <1> HIDE DEF r
  <1>4. Restores(RestoreFrom(r)) BY <1>2, <1>3, RestoreFromType DEF Made
  <1> QED BY <1>4 DEF StartRestoreDefaults, RestoreStep, device, r, n

LEMMA BeginType ==
  ASSUME TypeOK, NEW c \in Calls, Begin(c)
  PROVE  TypeOK'
  <1>1. ASSUME NEW l \in Locations, NEW m \in Modes, StartSwitchPreset(c, l, m)
        PROVE  TypeOK'
    <2> DEFINE n == New("switch_preset")
               r == [n EXCEPT !.target = l, !.mode = m]
    <2>1. n \in CallRec /\ n.dump = None BY NewType DEF AllTools
    <2>2. l # None BY AM4Constants
    <2> HIDE DEF n
    <2>3. r \in CallRec /\ r.dump = None /\ r.target = l
      BY <2>1, AM4Constants DEF CallRec, NavModes
    <2>4. Equipped(r) BY <2>2, <2>3 DEF Equipped, Made
    <2> HIDE DEF r
    <2>5. Gate(c, r) BY <1>1 DEF StartSwitchPreset, r, n
    <2> QED BY <1>1, <2>4, <2>5, GateType, CacheKept DEF StartSwitchPreset
  <1>2. CASE StartSetParam(c)
    <2>1. Equipped(New("set_param"))
      BY NewType DEF Equipped, AllTools, Targeted, Made
    <2> QED BY <1>2, <2>1, WarmupType, CacheKept DEF StartSetParam
  <1>3. CASE StartRename(c)
    <2>1. Fit(New("rename"), "writeAck")
      BY NewType, AnyTool, AwaitsMembers DEF Fit, Equipped, AllTools, Targeted, Made
    <2> QED BY <1>3, <2>1, SendWriteType, CacheKept
            DEF StartRename, TypeOK, CacheOK
  <1>4. ASSUME NEW l \in Locations, NEW named \in BOOLEAN, StartSavePreset(c, l, named)
        PROVE  TypeOK'
    <2> DEFINE n == New("save_preset")
               r == [n EXCEPT !.target = l, !.named = named,
                        !.mode = "post_save"]
    <2>1. n \in CallRec /\ n.dump = None BY NewType DEF AllTools
    <2>2. l # None BY AM4Constants
    <2> HIDE DEF n
    <2>3. r \in CallRec /\ r.dump = None /\ r.target = l
      BY <2>1, AM4Constants DEF CallRec, NavModes
    <2>4. Equipped(r) BY <2>2, <2>3 DEF Equipped, Made
    <2> HIDE DEF r
    <2>5. Warmup(c, r) BY <1>4 DEF StartSavePreset, r, n
    <2> QED BY <1>4, <2>4, <2>5, WarmupType, CacheKept DEF StartSavePreset
  <1>5. ASSUME NEW l \in Locations, NEW m \in Modes, NEW s \in BOOLEAN,
               StartApplyPreset(c, l, m, s)
        PROVE  TypeOK'
    <2> DEFINE n == New("apply_preset")
               r == [n EXCEPT !.target = l, !.mode = m, !.save = s]
    <2>1. n \in CallRec /\ n.dump = None BY NewType DEF AllTools
    <2>2. l # None BY AM4Constants
    <2> HIDE DEF n
    <2>3. r \in CallRec /\ r.dump = None /\ r.target = l
      BY <2>1, AM4Constants DEF CallRec, NavModes
    <2>4. Equipped(r) BY <2>2, <2>3 DEF Equipped, Made
    <2> HIDE DEF r
    <2>5. Gate(c, r) BY <1>5 DEF StartApplyPreset, r, n
    <2> QED BY <1>5, <2>4, <2>5, GateType, CacheKept DEF StartApplyPreset
  <1>6. ASSUME NEW l \in Locations, NEW more \in SUBSET Locations, NEW m \in Modes,
               StartApplySetlist(c, l, more, m)
        PROVE  TypeOK'
    <2> DEFINE n == New("apply_setlist")
               r == [n EXCEPT !.target = l, !.more = more,
                        !.mode = m, !.save = TRUE]
    <2>1. n \in CallRec /\ n.dump = None BY NewType DEF AllTools
    <2>2. l # None BY AM4Constants
    <2> HIDE DEF n
    <2>3. r \in CallRec /\ r.dump = None /\ r.target = l
      BY <2>1, AM4Constants DEF CallRec, NavModes
    <2>4. Equipped(r) BY <2>2, <2>3 DEF Equipped, Made
    <2> HIDE DEF r
    <2>5. Gate(c, r) BY <1>6 DEF StartApplySetlist, r, n
    <2> QED BY <1>6, <2>4, <2>5, GateType, CacheKept DEF StartApplySetlist
  <1>7. ASSUME NEW l \in Locations, NEW more \in SUBSET Locations,
               NEW verify \in BOOLEAN, StartRestoreDefaults(c, l, more, verify)
        PROVE  TypeOK'
    <2>1. RestoreStep(c) BY <1>7, StartRestoreSteps
    <2> QED BY <2>1, RestoreType, CacheKept DEF RestoreStep
  <1> QED BY <1>1, <1>2, <1>3, <1>4, <1>5, <1>6, <1>7 DEF Begin

LEMMA ContinueType ==
  ASSUME TypeOK, NEW c \in Calls, Continue(c)
  PROVE  TypeOK'
  <1> DEFINE r == call[c]
  <1>1. r \in CallRec /\ Ready(r) /\ Made(r.dump) BY DEF TypeOK, CallsOK
  <1>2. Equipped(r) BY <1>1 DEF Equipped, Ready
  <1>3. warmed \in BOOLEAN BY DEF TypeOK, CacheOK
  <1>4. r.at \in Locations \cup {None} /\ r.dump \in Content \cup {None}
        /\ r.target \in Locations \cup {None}
    BY <1>1 DEF CallRec
  <1>5. r.pc \in Dumping => r.at \in Locations
    BY <1>1, <1>4 DEF Ready, Suits
  <1>6. r.pc \in Navigating => r.tool \in Targeted /\ r.target \in Locations
    BY <1>1, <1>4 DEF Ready, Suits
  \* A call may wait on at any await that needs no more than it has.
  <1>7. ASSUME NEW pc \in Dumping, r.at # None PROVE Fit(r, pc)
    BY <1>2, <1>7, AnyTool, AwaitsMembers DEF Fit
  <1>8. ASSUME NEW pc \in Navigating, Suits(r.tool, r.pc) => Suits(r.tool, pc)
        PROVE  Fit(r, pc)
    BY <1>1, <1>2, <1>8, AwaitsMembers DEF Fit, Ready
  <1>9. ASSUME NEW b \in BOOLEAN PROVE Equipped([r EXCEPT !.degraded = b])
    BY <1>1, <1>2 DEF Equipped, CallRec
  <1>10. ASSUME r.pc \in Navigating, Refresh(c) PROVE TypeStep
    <2> DEFINE s == [r EXCEPT !.at = r.target]
    <2>1. s \in CallRec /\ s.dump = r.dump /\ s.tool = r.tool
          /\ s.target = r.target /\ s.at = r.target
      BY <1>1 DEF CallRec
    <2>2. r.target # None BY <1>6, <1>10, AM4Constants
    <2>3. Fit(s, "refresh")
      BY <1>2, <2>1, <2>2, AnyTool DEF Fit, Equipped, Awaits, Dumping, Navigating
    <2> HIDE DEF s
    <2>4. AskDump(c, s, "refresh") BY <1>10 DEF Refresh, s
    <2> QED BY <2>3, <2>4, AskDumpType
  <1> HIDE DEF r
  <1>11. CASE GateReadKnown(c)
    <2>1. Fit(r, "gateDump") BY <1>7, <1>11 DEF GateReadKnown, Dumping, r
    <2> QED BY <1>3, <1>11, <2>1, AskDumpType, CacheKept DEF GateReadKnown, r
  <1>12. CASE GateReadUnknown(c)
    BY <1>9, <1>12, ProceedType, CacheKept DEF GateReadUnknown, r
  <1>13. CASE GateDumpMatches(c)
    BY <1>9, <1>13, ProceedType, CacheKept DEF GateDumpMatches, r
  <1>14. CASE GateDumpDiffers(c)
    <2>1. r.at # None BY <1>5, <1>14, AM4Constants DEF GateDumpDiffers, Dumping, r
    <2>2. Fit(r, "gateName") BY <1>7, <2>1 DEF Dumping
    <2> QED BY <1>3, <1>14, <2>2, AskNameType, CacheKept DEF GateDumpDiffers, r
  <1>15. CASE Refuse(c) BY <1>3, <1>15, FinishType, CacheKept DEF Refuse
  <1>16. CASE SaveActiveFirst(c)
    <2>1. r.at \in Locations BY <1>5, <1>16 DEF SaveActiveFirst, Dumping, r
    <2>2. DeviceStep BY <1>16, <2>1, DeviceStoreType DEF SaveActiveFirst, r
    <2>3. PICK answer \in Outcomes :
            Resume(c, [r EXCEPT !.pc = "gateSaved",
                                !.dump = IF answer = "ok" THEN buffer ELSE None])
      BY <1>16 DEF SaveActiveFirst, r
    <2> DEFINE d == IF answer = "ok" THEN buffer ELSE None
               s == [r EXCEPT !.pc = "gateSaved", !.dump = d]
    <2>4. d \in Content \cup {None} /\ (d # None => d <= version)
      BY DEF TypeOK, DeviceOK
    <2> HIDE DEF d
    <2>5. s \in CallRec /\ s.pc = "gateSaved" /\ s.tool = r.tool
          /\ s.target = r.target /\ s.at = r.at /\ s.dump = d
      BY <1>1, <2>4 DEF CallRec, Awaits, Dumping
    <2>6. Ready(s)
      BY <1>2, <2>1, <2>5, AM4Constants, AnyTool DEF Equipped, Ready, Dumping
    <2> HIDE DEF s
    <2>7. Resume(c, s) BY <2>3 DEF s, d
    <2>8. TypeStep BY <2>2, <2>4, <2>5, <2>6, <2>7, SentType
    <2> QED BY <1>3, <1>16, <2>8, CacheKept DEF SaveActiveFirst
  <1>17. CASE SaveActiveFirstThrows(c)
    BY <1>3, <1>17, FinishType, CacheKept DEF SaveActiveFirstThrows
  <1>18. CASE GateSaved(c)
    <2>1. r.at \in Locations BY <1>5, <1>18 DEF GateSaved, Dumping, r
    <2> QED BY <1>1, <1>2, <1>4, <1>18, <2>1, ProceedType, CacheRemembers
            DEF GateSaved, r
  <1>19. CASE WarmReadNew(c)
    <2>1. Fit(r, "warmDump") BY <1>7, <1>19 DEF WarmReadNew, Dumping, r
    <2> QED BY <1>3, <1>19, <2>1, AskDumpType, CacheKept DEF WarmReadNew, r
  <1>20. CASE WarmReadSkip(c)
    BY <1>2, <1>3, <1>20, BodyType, CacheKept DEF WarmReadSkip, r
  <1>21. CASE WarmDump(c)
    <2>1. r.at \in Locations BY <1>5, <1>21 DEF WarmDump, Dumping, r
    <2> QED BY <1>1, <1>2, <1>3, <1>4, <1>21, <2>1, BodyType, CacheRemembers
            DEF WarmDump, r
  <1>22. CASE SwitchAcked(c)
    BY <1>3, <1>10, <1>22, CacheKept DEF SwitchAcked, Navigating, r
  <1>23. CASE SwitchUnacked(c)
    BY <1>3, <1>23, FinishType, CacheKept DEF SwitchUnacked
  <1>24. CASE Refreshed(c)
    <2>1. r.at \in Locations BY <1>5, <1>24 DEF Refreshed, Dumping, r
    <2> QED BY <1>1, <1>3, <1>4, <1>24, <2>1, FinishType, CacheRemembers
            DEF Refreshed, r
  <1>25. CASE WriteNext(c)
    <2>1. Fit(r, "writeAck") BY <1>2, AnyTool, AwaitsMembers DEF Fit
    <2> QED BY <1>3, <1>25, <2>1, SendWriteType, CacheKept DEF WriteNext, r
  <1>26. CASE WriteDone(c) BY <1>3, <1>26, FinishType, CacheKept DEF WriteDone
  <1>27. CASE RenameAcked(c)
    <2>1. Fit(r, "saveAck") /\ "saveAck" \in Navigating
      BY <1>8, <1>27 DEF RenameAcked, Suits, Navigating, Entering, Restoring, Targeted, AllTools, r
    <2> QED BY <1>3, <1>27, <2>1, SendSaveType, FinishType, CacheKept
            DEF RenameAcked, r
  <1>28. CASE SaveAcked(c)
    <2>1. Fit(r, "postSwitchAck") /\ "postSwitchAck" \in Navigating
      BY <1>8, <1>28 DEF SaveAcked, Suits, Navigating, Entering, Restoring, Targeted, AllTools, r
    <2> QED BY <1>3, <1>28, <2>1, SendSwitchType, FinishType, CacheKept
            DEF SaveAcked, r
  <1>29. CASE EntrySwitched(c)
    <2>1. Fit(r, "wiresAck") /\ r.pc \in Entering
      BY <1>8, <1>29 DEF EntrySwitched, Suits, Navigating, Entering, Restoring, Targeted, AllTools, r
    <2> QED BY <1>3, <1>29, <2>1, SendWriteType, EntryOverType, CacheKept
            DEF EntrySwitched, r
  <1>30. CASE WiresNext(c)
    <2>1. Fit(r, "wiresAck")
      BY <1>8, <1>30 DEF WiresNext, Suits, Navigating, Entering, Restoring, Targeted, AllTools, r
    <2> QED BY <1>3, <1>30, <2>1, SendWriteType, CacheKept DEF WiresNext, r
  <1>31. CASE WiresDone(c)
    <2>1. Fit(r, "entrySaveAck") /\ "entrySaveAck" \in Navigating /\ r.pc \in Entering
      BY <1>8, <1>31 DEF WiresDone, Suits, Navigating, Entering, Restoring, Targeted, AllTools, r
    <2> QED BY <1>3, <1>31, <2>1, SendSaveType, EntryOverType, CacheKept
            DEF WiresDone, r
  <1>32. CASE EntrySavedRefresh(c)
    BY <1>3, <1>10, <1>32, CacheKept DEF EntrySavedRefresh, Navigating, r
  <1>33. CASE EntrySavedVerify(c)
    <2>1. Fit(r, "verify")
      BY <1>8, <1>33 DEF EntrySavedVerify, Suits, Navigating, Entering, Restoring, Targeted, AllTools, r
    <2> QED BY <1>3, <1>33, <2>1, AskNameType, CacheKept DEF EntrySavedVerify, r
  <1>34. CASE EntrySavedOver(c)
    BY <1>3, <1>34, EntryOverType, CacheKept DEF EntrySavedOver, Entering, Restoring
  <1>35. CASE EntryVerified(c)
    BY <1>3, <1>35, EntryOverType, CacheKept DEF EntryVerified, Entering, Restoring
  <1>36. CASE Restore(c)
    BY <1>36, RestoreSteps, RestoreType, CacheKept DEF RestoreStep
  <1> QED BY <1>11, <1>12, <1>13, <1>14, <1>15, <1>16, <1>17, <1>18, <1>19, <1>20,
             <1>21, <1>22, <1>23, <1>24, <1>25, <1>26, <1>27, <1>28, <1>29, <1>30,
             <1>31, <1>32, <1>33, <1>34, <1>35, <1>36 DEF Continue

LEMMA EnvironmentType ==
  ASSUME TypeOK, Environment
  PROVE  TypeOK'
  <1>1. CASE PanelEdit
    <2>1. DeviceStep BY <1>1, DeviceEditType DEF PanelEdit
    <2>2. ASSUME NEW c \in Calls
          PROVE  call[c].dump # None => call[c].dump <= version'
      <3>1. version \in Nat /\ version' = version + 1
        BY <1>1 DEF PanelEdit, DeviceEdit, TypeOK, DeviceOK
      <3>2. call[c] \in CallRec /\ Made(call[c].dump) BY DEF TypeOK, CallsOK
      <3> QED BY <3>1, <3>2 DEF CallRec, Content, Made
    <2>3. CallsOK' BY <1>1, <2>2 DEF PanelEdit, TypeOK, CallsOK, Made
    <2> QED BY <1>1, <2>1, <2>3, CacheKept DEF PanelEdit, TypeStep, TypeOK, CacheOK
  <1>2. ASSUME NEW l \in Locations, PanelSwitch(l) PROVE TypeOK'
    BY <1>2 DEF PanelSwitch, TypeOK, DeviceOK, CacheOK, CallsOK, HistoryOK, Made, Content
  <1>3. CASE PanelSave
    BY <1>3 DEF PanelSave, TypeOK, DeviceOK, CacheOK, CallsOK, HistoryOK, Made, Content
  <1>4. CASE NewConnection
    BY <1>4 DEF NewConnection, TypeOK, DeviceOK, CacheOK, CallsOK, HistoryOK, Made,
                Content, device, history
  <1>5. CASE Restart
    <2>1. Idle.dump = None BY DEF Idle
    <2> QED BY <1>5, <2>1, IdleType
            DEF Restart, TypeOK, DeviceOK, CacheOK, CallsOK, HistoryOK, Made, device
  <1> QED BY <1>1, <1>2, <1>3, <1>4, <1>5 DEF Environment

\* The state always has its types: in particular every call in flight has the
\* target and the location its next step uses, and no content or fingerprint
\* is newer than the newest one made.
THEOREM TypeCorrect == Spec => []TypeOK
  <1>1. TypeOK /\ [Next]_vars => TypeOK'
    <2> SUFFICES ASSUME TypeOK, [Next]_vars PROVE TypeOK' OBVIOUS
    <2>1. CASE UNCHANGED vars
      BY <2>1 DEF vars, device, history, TypeOK, DeviceOK, CacheOK, CallsOK,
                  HistoryOK, Made
    <2> QED BY <2>1, BeginType, ContinueType, EnvironmentType DEF Next
  <1> QED BY <1>1, InitType, PTL DEF Spec

----------------------------------------------------------------------------
(***************************************************************************)
(* The gate's promise: no tool that navigates in mode "warn" or            *)
(* "save_active_first" discards an edit made over a cached fingerprint.    *)
(*                                                                         *)
(* It holds of a client that sends one call at a time, a player who leaves *)
(* the front panel alone while a call runs, and a save sent by the gate    *)
(* that lands or throws.  Each assumption is needed: with two calls in     *)
(* flight TLC finds edits lost, and the others are the remaining ways in   *)
(* which what a call has read stops being so before it acts on it.         *)
(*                                                                         *)
(* From the same invariant: nothing is stored where its caller did not say *)
(* it may be, and the gate implements the contract of SafeEditContract.    *)
(***************************************************************************)
OneCall == \A c, d \in Calls : c = d

Alone ==
  /\ OneCall
  /\ ~PanelMidCall
  /\ "lost" \notin SaveFirstOutcomes

Safe == BaselineExcludesEdits /\ WatchedEditsSurvive /\ PostSaveSwitchLosesNothing

\* The cache a step leaves is fit for the buffer it found.
CacheFits ==
  /\ "watched" \in risk => cache'[active] \notin {None, buffer}
  /\ cache'[active] \in Content \cup {None}
  /\ cache'[active] # None => cache'[active] <= version

LEMMA CacheKeptFits ==
  ASSUME TypeOK, BaselineExcludesEdits, UNCHANGED cache
  PROVE  CacheFits
  BY DEF TypeOK, DeviceOK, CacheOK, Made, CacheFits, BaselineExcludesEdits

LEMMA RememberFits ==
  ASSUME TypeOK, BaselineExcludesEdits, "watched" \notin risk,
         NEW content \in Content \cup {None}, Made(content), Remember(active, content)
  PROVE  CacheFits
  <1>1. CASE content = None BY <1>1, CacheKeptFits DEF Remember
  <1>2. CASE content # None
    BY <1>2 DEF Remember, TypeOK, DeviceOK, CacheOK, Made, CacheFits
  <1> QED BY <1>1, <1>2

----------------------------------------------------------------------------
(* What each kind of request keeps.                                        *)

LEMMA NoDeviceSafe ==
  ASSUME TypeOK, Safe, CacheFits, UNCHANGED <<device, history>>
  PROVE  Safe'
  BY DEF Safe, CacheFits, BaselineExcludesEdits, WatchedEditsSurvive,
         PostSaveSwitchLosesNothing, device, history

\* A switch is safe if the gate has passed it or there is nothing to lose.
LEMMA SwitchSafe ==
  ASSUME TypeOK, Safe, CacheFits, NEW r \in CallRec, NEW l \in Locations, NEW out,
         \/ risk = {}
         \/ Passed(r, risk) /\ r.mode # "post_save",
         DeviceSwitch(r, l, out)
  PROVE  Safe' /\ (Landed(out) => active' = l /\ risk' = {})
  <1>1. CASE ~Landed(out) BY <1>1, NoDeviceSafe DEF DeviceSwitch
  <1>2. CASE Landed(out)
    <2>1. risk' = {} /\ active' = l BY <1>2 DEF DeviceSwitch
    <2>2. BaselineExcludesEdits' BY <2>1 DEF BaselineExcludesEdits
    <2>3. CASE Waives(r) \/ risk = {}
      <3>1. lost' = lost BY <1>2, <2>3 DEF DeviceSwitch
      <3> QED BY <2>1, <2>2, <3>1
              DEF Safe, WatchedEditsSurvive, PostSaveSwitchLosesNothing
    <2>4. CASE ~Waives(r) /\ risk # {}
      <3>1. lost' = lost \cup (risk \X {r.mode}) BY <1>2, <2>4 DEF DeviceSwitch
      <3>2. "watched" \notin risk /\ r.mode # "post_save" BY <2>4 DEF Passed
      <3>3. WatchedEditsSurvive' BY <3>1, <3>2 DEF Safe, WatchedEditsSurvive
      <3>4. PostSaveSwitchLosesNothing'
        BY <3>1, <3>2 DEF Safe, PostSaveSwitchLosesNothing
      <3> QED BY <2>1, <2>2, <3>3, <3>4 DEF Safe
    <2> QED BY <2>3, <2>4
  <1> QED BY <1>1, <1>2

\* An edit makes a version no fingerprint can match.
LEMMA EditSafe ==
  ASSUME TypeOK, Safe, CacheFits, NEW kind, "watched" \notin kind, DeviceEdit(kind)
  PROVE  Safe' /\ active' = active
  <1>1. active' = active /\ buffer' = version + 1 /\ lost' = lost BY DEF DeviceEdit
  <1>2. "watched" \in risk' => cache'[active] # None
    BY DEF DeviceEdit, CacheFits
  <1>3. cache'[active] # None => cache'[active] # version + 1
    BY DEF CacheFits, TypeOK, DeviceOK, Content
  <1>4. BaselineExcludesEdits' BY <1>1, <1>2, <1>3 DEF BaselineExcludesEdits
  <1> QED BY <1>1, <1>4 DEF Safe, WatchedEditsSurvive, PostSaveSwitchLosesNothing

LEMMA StoreSafe ==
  ASSUME TypeOK, Safe, CacheFits, NEW l, NEW out, DeviceStore(l, out)
  PROVE  Safe' /\ active' = active /\ buffer' = buffer /\ (Landed(out) => risk' = {})
  <1>1. CASE ~Landed(out) BY <1>1, NoDeviceSafe DEF DeviceStore, device
  <1>2. CASE Landed(out)
    BY <1>2 DEF DeviceStore, Safe, BaselineExcludesEdits, WatchedEditsSurvive,
                PostSaveSwitchLosesNothing
  <1> QED BY <1>1, <1>2

----------------------------------------------------------------------------
(* What a call knows when it waits again.                                  *)

\* The record of a call that may go on: a gated tool is not in the mode of
\* the switch that follows a save.
Gated == {"switch_preset", "apply_preset", "apply_setlist"}
Sane(r) == r \in CallRec /\ (r.tool \in Gated => r.mode # "post_save")

LEMMA OneResume ==
  ASSUME Alone, TypeOK, NEW c \in Calls, NEW r, Resume(c, r), Safe',
         Knows(r, active', buffer', risk')
  PROVE  GateInv'
  <1>1. \A d \in Calls : call'[d] = r BY DEF Resume, Alone, OneCall, TypeOK, CallsOK
  <1> QED BY <1>1 DEF GateInv, Safe

LEMMA FinishGate ==
  ASSUME Alone, TypeOK, Safe, CacheFits, NEW c \in Calls, Finish(c)
  PROVE  GateInv'
  <1>1. Knows(Idle, active', buffer', risk') BY DEF Knows, Idle, Dumping
  <1> QED BY <1>1, OneResume, NoDeviceSafe DEF Finish

LEMMA AskActiveGate ==
  ASSUME Alone, TypeOK, Safe, CacheFits, NEW c \in Calls, NEW r, Sane(r),
         NEW pc \in {"gateRead", "warmRead"}, AskActive(c, r, pc),
         pc = "warmRead" /\ r.tool \in {"switch_preset", "apply_preset"}
           => Passed(r, risk)
  PROVE  GateInv'
  <1>1. PICK out \in Outcomes :
          Resume(c, [r EXCEPT !.pc = pc, !.at = IF out = "ok" THEN active ELSE None])
    BY DEF AskActive
  <1> DEFINE a == IF out = "ok" THEN active ELSE None
             s == [r EXCEPT !.pc = pc, !.at = a]
  <1>2. a \in {None, active} OBVIOUS
  <1> HIDE DEF a
  <1>3. s.pc = pc /\ s.tool = r.tool /\ s.mode = r.mode /\ s.at = a
        /\ s.degraded = r.degraded
    BY DEF Sane, CallRec
  <1> HIDE DEF s
  <1>4. active' = active /\ risk' = risk BY DEF AskActive, device, history
  <1>5. Knows(s, active', buffer', risk')
    BY <1>2, <1>3, <1>4 DEF Knows, Dumping, Passed, Waives, Sane, Gated
  <1>6. Resume(c, s) BY <1>1 DEF s, a
  <1> QED BY <1>5, <1>6, OneResume, NoDeviceSafe DEF AskActive

LEMMA DumpGate ==
  ASSUME Alone, TypeOK, Safe', NEW c \in Calls, NEW r, Sane(r), r.at = active,
         NEW pc \in {"gateDump", "gateSaved", "warmDump", "refresh"},
         NEW answer, active' = active, buffer' = buffer,
         Resume(c, [r EXCEPT !.pc = pc,
                             !.dump = IF answer = "ok" THEN buffer ELSE None]),
         pc # "gateDump" => "watched" \notin risk'
  PROVE  GateInv'
  <1> DEFINE d == IF answer = "ok" THEN buffer ELSE None
             s == [r EXCEPT !.pc = pc, !.dump = d]
  <1>1. d \in {None, buffer} OBVIOUS
  <1> HIDE DEF d
  <1>2. s.pc = pc /\ s.tool = r.tool /\ s.mode = r.mode /\ s.at = active /\ s.dump = d
    BY DEF Sane, CallRec
  <1> HIDE DEF s
  <1>3. Knows(s, active', buffer', risk')
    BY <1>1, <1>2 DEF Knows, Dumping, Passed, Sane, Gated
  <1>4. Resume(c, s) BY DEF s, d
  <1> QED BY <1>3, <1>4, OneResume

LEMMA AskDumpGate ==
  ASSUME Alone, TypeOK, Safe, CacheFits, NEW c \in Calls, NEW r, Sane(r),
         r.at = active, NEW pc \in {"gateDump", "warmDump", "refresh"},
         pc # "gateDump" => "watched" \notin risk, AskDump(c, r, pc)
  PROVE  GateInv'
  <1>1. active' = active /\ buffer' = buffer /\ risk' = risk
    BY DEF AskDump, device, history
  <1>2. Safe' BY NoDeviceSafe DEF AskDump
  <1> QED BY <1>1, <1>2, DumpGate DEF AskDump

LEMMA AskNameGate ==
  ASSUME Alone, TypeOK, Safe, CacheFits, NEW c \in Calls, NEW r, Sane(r),
         NEW pc \in {"gateName", "verify"}, AskName(c, r, pc),
         pc = "gateName" => r.at = active /\ r.dump \in {None, buffer}
  PROVE  GateInv'
  <1>1. PICK out \in Outcomes : Resume(c, [r EXCEPT !.pc = pc, !.acked = (out = "ok")])
    BY DEF AskName
  <1> DEFINE s == [r EXCEPT !.pc = pc, !.acked = (out = "ok")]
  <1>2. s.pc = pc /\ s.tool = r.tool /\ s.mode = r.mode /\ s.at = r.at /\ s.dump = r.dump
    BY DEF Sane, CallRec
  <1> HIDE DEF s
  <1>3. active' = active /\ buffer' = buffer BY DEF AskName, device
  <1>4. Knows(s, active', buffer', risk')
    BY <1>2, <1>3 DEF Knows, Dumping, Sane, Gated
  <1>5. Resume(c, s) BY <1>1 DEF s
  <1> QED BY <1>4, <1>5, OneResume, NoDeviceSafe DEF AskName

LEMMA SwitchGate ==
  ASSUME Alone, TypeOK, Safe, CacheFits, NEW c \in Calls, NEW r, Sane(r),
         r.target \in Locations,
         risk = {} \/ (Passed(r, risk) /\ r.mode # "post_save"),
         NEW pc \in {"switchAck", "postSwitchAck", "entrySwitchAck"},
         SendSwitch(c, r, pc)
  PROVE  GateInv'
  <1>1. PICK out \in Outcomes : /\ DeviceSwitch(r, r.target, out)
                                /\ Resume(c, [r EXCEPT !.pc = pc, !.acked = (out = "ok")])
    BY DEF SendSwitch
  <1> DEFINE s == [r EXCEPT !.pc = pc, !.acked = (out = "ok")]
  <1>2. s.pc = pc /\ s.tool = r.tool /\ s.mode = r.mode /\ s.target = r.target
        /\ s.acked = (out = "ok")
    BY DEF Sane, CallRec
  <1> HIDE DEF s
  <1>3. Safe' /\ (out = "ok" => active' = r.target /\ risk' = {})
    BY <1>1, SwitchSafe DEF Landed, Sane
  <1>4. Knows(s, active', buffer', risk')
    BY <1>2, <1>3 DEF Knows, Dumping, Sane, Gated
  <1>5. Resume(c, s) BY <1>1 DEF s
  <1> QED BY <1>3, <1>4, <1>5, OneResume

LEMMA WriteGate ==
  ASSUME Alone, TypeOK, Safe, CacheFits, NEW c \in Calls, NEW r, Sane(r),
         NEW kind, "watched" \notin kind,
         NEW pc \in {"writeAck", "renameAck", "wiresAck"},
         pc = "wiresAck" => r.target = active, SendWrite(c, r, kind, pc)
  PROVE  GateInv'
  <1>1. PICK out \in Outcomes : /\ DeviceWrite(kind, out)
                                /\ Resume(c, [r EXCEPT !.pc = pc, !.acked = (out = "ok")])
    BY DEF SendWrite
  <1> DEFINE s == [r EXCEPT !.pc = pc, !.acked = (out = "ok")]
  <1>2. s.pc = pc /\ s.tool = r.tool /\ s.mode = r.mode /\ s.target = r.target
    BY DEF Sane, CallRec
  <1> HIDE DEF s
  <1>3. Safe' /\ active' = active
    BY <1>1, EditSafe, NoDeviceSafe DEF DeviceWrite, device
  <1>4. Knows(s, active', buffer', risk')
    BY <1>2, <1>3 DEF Knows, Dumping, Sane, Gated
  <1>5. Resume(c, s) BY <1>1 DEF s
  <1> QED BY <1>3, <1>4, <1>5, OneResume

LEMMA SaveGate ==
  ASSUME Alone, TypeOK, Safe, CacheFits, NEW c \in Calls, NEW r, Sane(r),
         NEW pc \in {"saveAck", "entrySaveAck"},
         pc = "entrySaveAck" => r.target = active, SendSave(c, r, pc)
  PROVE  GateInv'
  <1>1. PICK out \in Outcomes : /\ DeviceStore(r.target, out)
                                /\ Resume(c, [r EXCEPT !.pc = pc, !.acked = (out = "ok")])
    BY DEF SendSave
  <1> DEFINE s == [r EXCEPT !.pc = pc, !.acked = (out = "ok")]
  <1>2. s.pc = pc /\ s.tool = r.tool /\ s.mode = r.mode /\ s.target = r.target
        /\ s.acked = (out = "ok")
    BY DEF Sane, CallRec
  <1> HIDE DEF s
  <1>3. Safe' /\ active' = active /\ (out = "ok" => risk' = {})
    BY <1>1, StoreSafe DEF Landed
  <1>4. Knows(s, active', buffer', risk')
    BY <1>2, <1>3 DEF Knows, Dumping, Sane, Gated
  <1>5. Resume(c, s) BY <1>1 DEF s
  <1> QED BY <1>3, <1>4, <1>5, OneResume

----------------------------------------------------------------------------
(* The chains of operators an action ends with.                            *)

\* The gate has let the call through, or it does not navigate.
Cleared(r) == r.tool \in Gated => Passed(r, risk)
WarmCleared(r) == r.tool \in {"switch_preset", "apply_preset"} => Passed(r, risk)

LEMMA BodyGate ==
  ASSUME Alone, TypeOK, Safe, CacheFits, NEW c \in Calls, NEW r, Sane(r), Equipped(r),
         WarmCleared(r), Body(c, r)
  PROVE  GateInv'
  <1>1. r.tool \in Targeted => r.target \in Locations BY DEF Equipped, CallRec
  <1>2. CASE r.tool = "switch_preset" /\ SendSwitch(c, r, "switchAck")
    BY <1>1, <1>2, SwitchGate DEF WarmCleared, Gated, Sane, Targeted, AllTools
  <1>3. CASE r.tool = "set_param" /\ SendWrite(c, r, {"knob"}, "writeAck")
    BY <1>3, WriteGate
  <1>4. CASE r.tool = "save_preset" /\ r.named /\ SendWrite(c, r, {"name"}, "renameAck")
    BY <1>4, WriteGate
  <1>5. CASE r.tool = "save_preset" /\ ~r.named /\ SendSave(c, r, "saveAck")
    BY <1>5, SaveGate
  <1>6. CASE r.tool = "apply_preset" /\ SendSwitch(c, r, "entrySwitchAck")
    BY <1>1, <1>6, SwitchGate DEF WarmCleared, Gated, Sane, Targeted, AllTools
  <1> QED BY <1>2, <1>3, <1>4, <1>5, <1>6 DEF Body

LEMMA WarmupGate ==
  ASSUME Alone, TypeOK, Safe, CacheFits, NEW c \in Calls, NEW r, Sane(r), Equipped(r),
         WarmCleared(r), Warmup(c, r)
  PROVE  GateInv'
  <1>1. CASE warmed BY <1>1, BodyGate DEF Warmup
  <1>2. CASE ~warmed BY <1>2, AskActiveGate DEF Warmup, WarmCleared
  <1> QED BY <1>1, <1>2

LEMMA ProceedGate ==
  ASSUME Alone, TypeOK, Safe, CacheFits, NEW c \in Calls, NEW r, Sane(r), Equipped(r),
         Cleared(r), Proceed(c, r)
  PROVE  GateInv'
  <1>1. CASE r.tool = "apply_setlist"
    <2>1. r.target \in Locations
      BY <1>1 DEF Equipped, CallRec, Targeted, AllTools
    <2> QED BY <1>1, <2>1, SwitchGate DEF Proceed, Cleared, Gated, Sane
  <1>2. CASE r.tool # "apply_setlist" BY <1>2, WarmupGate DEF Proceed, Cleared, WarmCleared, Gated
  <1> QED BY <1>1, <1>2

LEMMA GateGate ==
  ASSUME Alone, TypeOK, Safe, CacheFits, NEW c \in Calls, NEW r, Sane(r), Equipped(r),
         Gate(c, r)
  PROVE  GateInv'
  <1>1. CASE r.mode = "discard"
    <2>1. Cleared(r) BY <1>1 DEF Cleared, Passed, Waives
    <2> QED BY <1>1, <2>1, ProceedGate DEF Gate
  <1>2. CASE r.mode # "discard" BY <1>2, AskActiveGate DEF Gate
  <1> QED BY <1>1, <1>2

LEMMA EntryOverGate ==
  ASSUME Alone, TypeOK, Safe, CacheFits, NEW c \in Calls, NEW ok, EntryOver(c, ok)
  PROVE  GateInv'
  <1>1. CASE Finish(c) BY <1>1, FinishGate
  <1>2. ASSUME NEW l \in call[c].more,
               SendSwitch(c, [call[c] EXCEPT !.target = l, !.more = @ \ {l},
                                             !.mode = "reported"], "entrySwitchAck")
        PROVE  GateInv'
    <2> DEFINE r == [call[c] EXCEPT !.target = l, !.more = @ \ {l}, !.mode = "reported"]
    <2>1. call[c] \in CallRec BY DEF TypeOK, CallsOK
    <2>2. l \in Locations BY <2>1 DEF CallRec
    <2>3. r \in CallRec /\ r.target = l /\ r.mode = "reported"
      BY <2>1, <2>2 DEF CallRec, NavModes
    <2> HIDE DEF r
    <2>4. SendSwitch(c, r, "entrySwitchAck") BY <1>2 DEF r
    <2> QED BY <2>2, <2>3, <2>4, SwitchGate DEF Sane, Passed, Waives
  <1> QED BY <1>1, <1>2 DEF EntryOver

----------------------------------------------------------------------------
(* Every step keeps the invariant.                                         *)

LEMMA InitGate == Init => GateInv
  <1> SUFFICES ASSUME Init PROVE GateInv OBVIOUS
  <1>1. ASSUME NEW c \in Calls PROVE Knows(call[c], active, buffer, risk)
    <2>1. call[c] = Idle BY DEF Init
    <2> QED BY <2>1 DEF Knows, Idle, Dumping
  <1> QED BY <1>1 DEF Init, GateInv, BaselineExcludesEdits, WatchedEditsSurvive,
                      PostSaveSwitchLosesNothing

\* The records the gated tools and save_preset start with.
LEMMA StartRecord ==
  ASSUME TypeOK, NEW tool \in AllTools, NEW l \in Locations,
         NEW more \in SUBSET Locations, NEW s \in BOOLEAN, NEW named \in BOOLEAN,
         NEW m \in NavModes, tool \in Gated => m # "post_save",
         NEW r, r \in {[New(tool) EXCEPT !.target = l, !.mode = m],
                      [New(tool) EXCEPT !.target = l, !.named = named, !.mode = m],
                      [New(tool) EXCEPT !.target = l, !.mode = m, !.save = s],
                      [New(tool) EXCEPT !.target = l, !.more = more, !.mode = m,
                                        !.save = s]}
  PROVE  Sane(r) /\ Equipped(r)
  <1> DEFINE n == New(tool)
  <1>1. n \in CallRec /\ n.tool = tool /\ n.dump = None BY NewType
  <1>2. r \in {[n EXCEPT !.target = l, !.mode = m],
              [n EXCEPT !.target = l, !.named = named, !.mode = m],
              [n EXCEPT !.target = l, !.mode = m, !.save = s],
              [n EXCEPT !.target = l, !.more = more, !.mode = m, !.save = s]}
    OBVIOUS
  <1> HIDE DEF n
  <1> DEFINE Right(x) == /\ x \in CallRec /\ x.tool = tool /\ x.target = l
                         /\ x.mode = m /\ x.dump = None
  <1>a. Right([n EXCEPT !.target = l, !.mode = m]) BY <1>1 DEF CallRec
  <1>b. Right([n EXCEPT !.target = l, !.named = named, !.mode = m])
    BY <1>1 DEF CallRec
  <1>c. Right([n EXCEPT !.target = l, !.mode = m, !.save = s]) BY <1>1 DEF CallRec
  <1>d. Right([n EXCEPT !.target = l, !.more = more, !.mode = m, !.save = s])
    BY <1>1 DEF CallRec
  <1> HIDE DEF Right
  <1>e. Right(r) BY <1>2, <1>a, <1>b, <1>c, <1>d
  <1>3. r \in CallRec /\ r.tool = tool /\ r.target = l /\ r.mode = m /\ r.dump = None
    BY <1>e DEF Right
  <1>4. l # None BY AM4Constants
  <1> QED BY <1>3, <1>4 DEF Sane, Equipped, Made

LEMMA RestoreGate ==
  ASSUME Alone, TypeOK, GateInv, NEW c \in Calls, RestoreStep(c)
  PROVE  GateInv'
  <1>1. PICK s : Resume(c, s) /\ (s = Idle \/ Restores(s)) BY DEF RestoreStep
  <1>2. ASSUME NEW location, NEW content, NEW edits
        PROVE  Knows(s, location, content, edits)
    <2>1. CASE s = Idle BY <2>1 DEF Knows, Idle, Dumping
    <2>2. CASE Restores(s) BY <2>2 DEF Restores, Restoring, Knows, Dumping
    <2> QED BY <1>1, <2>1, <2>2
  <1>3. \A d \in Calls : d = c BY DEF Alone, OneCall
  <1>4. \A d \in Calls : call'[d] = s
    BY <1>1, <1>3 DEF Resume, TypeOK, CallsOK
  <1> QED BY <1>2, <1>4
          DEF RestoreStep, GateInv, BaselineExcludesEdits, WatchedEditsSurvive,
              PostSaveSwitchLosesNothing, history

LEMMA BeginGate ==
  ASSUME Alone, TypeOK, GateInv, NEW c \in Calls, Begin(c)
  PROVE  GateInv'
  <1>1. Safe BY DEF GateInv, Safe
  <1>2. ASSUME UNCHANGED cache PROVE CacheFits BY <1>2, CacheKeptFits DEF GateInv
  <1>3. \A m \in Modes : m \in NavModes /\ m # "post_save"
    BY AM4Constants DEF NavModes, AllModes
  <1>4. ASSUME NEW l \in Locations, NEW m \in Modes, StartSwitchPreset(c, l, m)
        PROVE  GateInv'
    <2> DEFINE r == [New("switch_preset") EXCEPT !.target = l, !.mode = m]
    <2>1. Sane(r) /\ Equipped(r) BY <1>3, StartRecord DEF AllTools
    <2> HIDE DEF r
    <2>2. Gate(c, r) /\ UNCHANGED cache BY <1>4 DEF StartSwitchPreset, r
    <2> QED BY <1>1, <1>2, <2>1, <2>2, GateGate
  <1>5. CASE StartSetParam(c)
    <2>1. Sane(New("set_param")) /\ Equipped(New("set_param")) 
          /\ WarmCleared(New("set_param"))
      BY NewType DEF Sane, Equipped, WarmCleared, Gated, Made, AllTools, Targeted
    <2> QED BY <1>1, <1>2, <1>5, <2>1, WarmupGate DEF StartSetParam
  <1>6. CASE StartRename(c)
    <2>1. Sane(New("rename")) BY NewType DEF Sane, Gated, AllTools
    <2> QED BY <1>1, <1>2, <1>6, <2>1, WriteGate DEF StartRename
  <1>7. ASSUME NEW l \in Locations, NEW named \in BOOLEAN, StartSavePreset(c, l, named)
        PROVE  GateInv'
    <2> DEFINE r == [New("save_preset") EXCEPT !.target = l, !.named = named,
                                               !.mode = "post_save"]
    <2>1. Sane(r) /\ Equipped(r) BY StartRecord DEF AllTools, Gated, NavModes
    <2>2. r.tool = "save_preset" BY NewType DEF AllTools, CallRec
    <2> HIDE DEF r
    <2>3. Warmup(c, r) /\ UNCHANGED cache BY <1>7 DEF StartSavePreset, r
    <2>4. WarmCleared(r) BY <2>2 DEF WarmCleared
    <2> QED BY <1>1, <1>2, <2>1, <2>3, <2>4, WarmupGate
  <1>8. ASSUME NEW l \in Locations, NEW m \in Modes, NEW s \in BOOLEAN,
               StartApplyPreset(c, l, m, s)
        PROVE  GateInv'
    <2> DEFINE r == [New("apply_preset") EXCEPT !.target = l, !.mode = m, !.save = s]
    <2>1. Sane(r) /\ Equipped(r) BY <1>3, StartRecord DEF AllTools
    <2> HIDE DEF r
    <2>2. Gate(c, r) /\ UNCHANGED cache BY <1>8 DEF StartApplyPreset, r
    <2> QED BY <1>1, <1>2, <2>1, <2>2, GateGate
  <1>9. ASSUME NEW l \in Locations, NEW more \in SUBSET Locations, NEW m \in Modes,
               StartApplySetlist(c, l, more, m)
        PROVE  GateInv'
    <2> DEFINE r == [New("apply_setlist") EXCEPT !.target = l, !.more = more,
                                                 !.mode = m, !.save = TRUE]
    <2>1. Sane(r) /\ Equipped(r) BY <1>3, StartRecord DEF AllTools
    <2> HIDE DEF r
    <2>2. Gate(c, r) /\ UNCHANGED cache BY <1>9 DEF StartApplySetlist, r
    <2> QED BY <1>1, <1>2, <2>1, <2>2, GateGate
  <1>10. ASSUME NEW l \in Locations, NEW more \in SUBSET Locations,
                NEW verify \in BOOLEAN, StartRestoreDefaults(c, l, more, verify)
         PROVE  GateInv'
    BY <1>10, StartRestoreSteps, RestoreGate
  <1> QED BY <1>4, <1>5, <1>6, <1>7, <1>8, <1>9, <1>10 DEF Begin

LEMMA ContinueGate ==
  ASSUME Alone, TypeOK, GateInv, NEW c \in Calls, Continue(c)
  PROVE  GateInv'
  <1> DEFINE r == call[c]
  <1>1. r \in CallRec /\ Ready(r) /\ Made(r.dump) BY DEF TypeOK, CallsOK
  <1>2. Knows(r, active, buffer, risk) BY DEF GateInv
  <1>3. Sane(r) BY <1>1, <1>2 DEF Knows, Sane, Gated
  <1>4. Equipped(r) BY <1>1 DEF Equipped, Ready
  <1>5. Safe /\ BaselineExcludesEdits BY DEF GateInv, Safe
  <1>6. ASSUME UNCHANGED cache PROVE CacheFits BY <1>6, CacheKeptFits DEF GateInv
  <1>7. active # None BY AM4Constants DEF TypeOK, DeviceOK
  <1>8. r.pc \in Navigating => r.target \in Locations
    BY <1>1 DEF Ready, Suits, CallRec
  <1>9. r.dump \in Content \cup {None} /\ r.tool \in AllTools \cup {"none"}
    BY <1>1 DEF CallRec
  <1>10. ASSUME NEW b \in BOOLEAN
         PROVE  LET s == [r EXCEPT !.degraded = b] IN
                Sane(s) /\ Equipped(s) /\ s.tool = r.tool /\ s.degraded = b
    BY <1>1, <1>3, <1>4 DEF Sane, Equipped, CallRec
  <1>11. ASSUME UNCHANGED cache, Refresh(c), r.target = active, "watched" \notin risk
         PROVE  GateInv'
    <2> DEFINE s == [r EXCEPT !.at = r.target]
    <2>1. Sane(s) /\ s.at = active
      BY <1>1, <1>3, <1>11 DEF Sane, CallRec, TypeOK, DeviceOK
    <2> HIDE DEF s
    <2>2. AskDump(c, s, "refresh") BY <1>11 DEF Refresh, s
    <2> QED BY <1>5, <1>6, <1>11, <2>1, <2>2, AskDumpGate
  <1> HIDE DEF r
  <1>12. CASE GateReadKnown(c)
    <2>1. r.at = active BY <1>2, <1>12 DEF GateReadKnown, Knows, r
    <2> QED BY <1>3, <1>5, <1>6, <1>12, <2>1, AskDumpGate DEF GateReadKnown, r
  <1>13. CASE GateReadUnknown(c)
    <2> DEFINE s == [r EXCEPT !.degraded = (r.at = None)]
    <2>1. Sane(s) /\ Equipped(s) /\ s.degraded = (r.at = None) BY <1>10
    <2>2. r.at = None \/ (r.at = active /\ cache[active] = None)
      BY <1>2, <1>13 DEF GateReadUnknown, Knows, r
    <2>3. Cleared(s)
      BY <1>5, <2>1, <2>2 DEF Cleared, Passed, Waives, BaselineExcludesEdits
    <2> HIDE DEF s
    <2>4. Proceed(c, s) /\ UNCHANGED cache BY <1>13 DEF GateReadUnknown, r, s
    <2> QED BY <1>5, <1>6, <2>1, <2>3, <2>4, ProceedGate
  <1>14. CASE GateDumpMatches(c)
    <2> DEFINE s == [r EXCEPT !.degraded = (r.dump = None)]
    <2>1. Sane(s) /\ Equipped(s) /\ s.degraded = (r.dump = None) BY <1>10
    <2>2. r.at = active /\ r.dump \in {None, buffer} /\ r.dump \in {None, cache[active]}
      BY <1>2, <1>14 DEF GateDumpMatches, Knows, Dumping, r
    <2>3. Cleared(s)
      BY <1>5, <2>1, <2>2 DEF Cleared, Passed, Waives, BaselineExcludesEdits
    <2> HIDE DEF s
    <2>4. Proceed(c, s) /\ UNCHANGED cache BY <1>14 DEF GateDumpMatches, r, s
    <2> QED BY <1>5, <1>6, <2>1, <2>3, <2>4, ProceedGate
  <1>15. CASE GateDumpDiffers(c)
    <2>1. r.at = active /\ r.dump \in {None, buffer}
      BY <1>2, <1>15 DEF GateDumpDiffers, Knows, Dumping, r
    <2> QED BY <1>3, <1>5, <1>6, <1>15, <2>1, AskNameGate DEF GateDumpDiffers, r
  <1>16. CASE Refuse(c) BY <1>5, <1>6, <1>16, FinishGate DEF Refuse
  <1>17. CASE SaveActiveFirst(c)
    <2>1. r.at = active BY <1>2, <1>17 DEF SaveActiveFirst, Knows, Dumping, r
    <2>2. PICK out \in SaveFirstOutcomes \ {"throws"} : DeviceStore(r.at, out)
      BY <1>17 DEF SaveActiveFirst, r
    <2>3. Landed(out) BY <2>2, AM4Constants DEF Alone, Landed
    <2>4. CacheFits BY <1>6, <1>17 DEF SaveActiveFirst
    <2>5. Safe' /\ active' = active /\ buffer' = buffer /\ risk' = {}
      BY <1>5, <2>2, <2>3, <2>4, StoreSafe
    <2>6. PICK answer \in Outcomes :
            Resume(c, [r EXCEPT !.pc = "gateSaved",
                                !.dump = IF answer = "ok" THEN buffer ELSE None])
      BY <1>17 DEF SaveActiveFirst, r
    <2> QED BY <1>3, <2>1, <2>5, <2>6, DumpGate
  <1>18. CASE SaveActiveFirstThrows(c)
    BY <1>5, <1>6, <1>18, FinishGate DEF SaveActiveFirstThrows
  <1>19. CASE GateSaved(c)
    <2>1. r.at = active /\ "watched" \notin risk
      BY <1>2, <1>19 DEF GateSaved, Knows, Dumping, r
    <2>2. Remember(active, r.dump) /\ Proceed(c, r) BY <1>19, <2>1 DEF GateSaved, r
    <2>3. CacheFits BY <1>1, <1>5, <1>9, <2>1, <2>2, RememberFits
    <2>4. Cleared(r) BY <2>1 DEF Cleared, Passed
    <2> QED BY <1>3, <1>4, <1>5, <2>2, <2>3, <2>4, ProceedGate
  <1>20. CASE WarmReadNew(c)
    <2>1. r.at = active /\ "watched" \notin risk
      BY <1>2, <1>5, <1>20 DEF WarmReadNew, Knows, BaselineExcludesEdits, r
    <2> QED BY <1>3, <1>5, <1>6, <1>20, <2>1, AskDumpGate DEF WarmReadNew, r
  <1>21. CASE WarmReadSkip(c)
    <2>1. WarmCleared(r) BY <1>2, <1>21 DEF WarmReadSkip, Knows, WarmCleared, r
    <2>2. Body(c, r) /\ UNCHANGED cache BY <1>21 DEF WarmReadSkip, r
    <2> QED BY <1>3, <1>4, <1>5, <1>6, <2>1, <2>2, BodyGate
  <1>22. CASE WarmDump(c)
    <2>1. r.at = active /\ "watched" \notin risk /\ WarmCleared(r)
      BY <1>2, <1>22 DEF WarmDump, Knows, Dumping, WarmCleared, r
    <2>2. Remember(active, r.dump) /\ Body(c, r) BY <1>22, <2>1 DEF WarmDump, r
    <2>3. CacheFits BY <1>1, <1>5, <1>9, <2>1, <2>2, RememberFits
    <2> QED BY <1>3, <1>4, <1>5, <2>1, <2>2, <2>3, BodyGate
  <1>23. CASE SwitchAcked(c)
    <2>1. r.target = active /\ "watched" \notin risk
      BY <1>2, <1>23 DEF SwitchAcked, Knows, r
    <2> QED BY <1>11, <1>23, <2>1 DEF SwitchAcked
  <1>24. CASE SwitchUnacked(c)
    BY <1>5, <1>6, <1>24, FinishGate DEF SwitchUnacked
  <1>25. CASE Refreshed(c)
    <2>1. r.at = active /\ "watched" \notin risk
      BY <1>2, <1>25 DEF Refreshed, Knows, Dumping, r
    <2>2. Remember(active, r.dump) /\ Finish(c) BY <1>25, <2>1 DEF Refreshed, r
    <2>3. CacheFits BY <1>1, <1>5, <1>9, <2>1, <2>2, RememberFits
    <2> QED BY <1>5, <2>2, <2>3, FinishGate
  <1>26. CASE WriteNext(c)
    BY <1>3, <1>5, <1>6, <1>26, WriteGate DEF WriteNext, r
  <1>27. CASE WriteDone(c) BY <1>5, <1>6, <1>27, FinishGate DEF WriteDone
  <1>28. CASE RenameAcked(c)
    BY <1>3, <1>5, <1>6, <1>28, SaveGate, FinishGate DEF RenameAcked, r
  <1>29. CASE SaveAcked(c)
    <2>1. r.acked => risk = {} BY <1>2, <1>29 DEF SaveAcked, Knows, r
    <2>2. r.target \in Locations BY <1>8, <1>29 DEF SaveAcked, Navigating, r
    <2> QED BY <1>3, <1>5, <1>6, <1>29, <2>1, <2>2, SwitchGate, FinishGate
            DEF SaveAcked, r
  <1>30. ASSUME NEW pc \in {"wiresAck"}, r.target = active, UNCHANGED cache,
                SendWrite(c, r, WireKind(r), pc)
         PROVE  GateInv'
    <2>1. "watched" \notin WireKind(r) BY DEF WireKind
    <2> QED BY <1>3, <1>5, <1>6, <1>30, <2>1, WriteGate
  <1>31. CASE EntrySwitched(c)
    <2>1. r.acked => r.target = active BY <1>2, <1>31 DEF EntrySwitched, Knows, r
    <2> QED BY <1>5, <1>6, <1>30, <1>31, <2>1, EntryOverGate DEF EntrySwitched, r
  <1>32. CASE WiresNext(c)
    <2>1. r.target = active BY <1>2, <1>32 DEF WiresNext, Knows, r
    <2> QED BY <1>30, <1>32, <2>1 DEF WiresNext, r
  <1>33. CASE WiresDone(c)
    <2>1. r.target = active BY <1>2, <1>33 DEF WiresDone, Knows, r
    <2> QED BY <1>3, <1>5, <1>6, <1>33, <2>1, SaveGate, EntryOverGate DEF WiresDone, r
  <1>34. CASE EntrySavedRefresh(c)
    <2>1. r.target = active /\ "watched" \notin risk
      BY <1>2, <1>34 DEF EntrySavedRefresh, Knows, r
    <2> QED BY <1>11, <1>34, <2>1 DEF EntrySavedRefresh
  <1>35. CASE EntrySavedVerify(c)
    BY <1>3, <1>5, <1>6, <1>35, AskNameGate DEF EntrySavedVerify, r
  <1>36. CASE EntrySavedOver(c)
    BY <1>5, <1>6, <1>36, EntryOverGate DEF EntrySavedOver
  <1>37. CASE EntryVerified(c)
    BY <1>5, <1>6, <1>37, EntryOverGate DEF EntryVerified
  <1>38. CASE Restore(c) BY <1>38, RestoreSteps, RestoreGate
  <1> QED BY <1>12, <1>13, <1>14, <1>15, <1>16, <1>17, <1>18, <1>19, <1>20, <1>21,
             <1>22, <1>23, <1>24, <1>25, <1>26, <1>27, <1>28, <1>29, <1>31, <1>32,
             <1>33, <1>34, <1>35, <1>36, <1>37, <1>38 DEF Continue

LEMMA IdleKnows ==
  ASSUME NEW location, NEW content, NEW edits
  PROVE  Knows(Idle, location, content, edits)
  BY DEF Knows, Idle, Dumping

LEMMA EnvironmentGate ==
  ASSUME Alone, TypeOK, GateInv, Environment
  PROVE  GateInv'
  <1>1. Safe BY DEF GateInv, Safe
  <1>2. CASE PanelEdit
    <2>1. UNCHANGED cache /\ DeviceEdit({"panel"}) /\ Quiet /\ call' = call
      BY <1>2 DEF PanelEdit, PanelMay, Alone
    <2>2. Safe' BY <1>1, <2>1, CacheKeptFits, EditSafe DEF Safe
    <2> QED BY <2>1, <2>2, IdleKnows DEF GateInv, Safe, Quiet
  <1>3. ASSUME NEW l \in Locations, PanelSwitch(l) PROVE GateInv'
    <2>1. Quiet /\ call' = call /\ risk' = {} /\ lost' = lost
      BY <1>3 DEF PanelSwitch, PanelMay, Alone
    <2> QED BY <1>1, <2>1, IdleKnows
            DEF GateInv, Safe, Quiet, BaselineExcludesEdits, WatchedEditsSurvive,
                PostSaveSwitchLosesNothing
  <1>4. CASE PanelSave
    <2>1. Quiet /\ call' = call /\ risk' = {} /\ lost' = lost
      BY <1>4 DEF PanelSave, PanelMay, Alone
    <2> QED BY <1>1, <2>1, IdleKnows
            DEF GateInv, Safe, Quiet, BaselineExcludesEdits, WatchedEditsSurvive,
                PostSaveSwitchLosesNothing
  <1>5. CASE NewConnection
    BY <1>5 DEF NewConnection, GateInv, BaselineExcludesEdits, WatchedEditsSurvive,
                PostSaveSwitchLosesNothing, device, history
  <1>6. CASE Restart
    <2>1. call' = [c \in Calls |-> Idle] /\ risk' = {} /\ lost' = lost
      BY <1>6 DEF Restart
    <2> QED BY <1>1, <2>1, IdleKnows
            DEF GateInv, Safe, BaselineExcludesEdits, WatchedEditsSurvive,
                PostSaveSwitchLosesNothing
  <1> QED BY <1>2, <1>3, <1>4, <1>5, <1>6 DEF Environment

\* The gate's invariant: what a call read before an await still holds when it
\* acts on it, and the fingerprint of the active location is never taken over
\* watched edits.
THEOREM GateInvariant == ASSUME Alone PROVE Spec => []GateInv
  <1>1. TypeOK /\ GateInv /\ [Next]_vars => GateInv'
    <2> SUFFICES ASSUME TypeOK, GateInv, [Next]_vars PROVE GateInv' OBVIOUS
    <2>1. CASE UNCHANGED vars
      BY <2>1 DEF vars, device, history, GateInv, BaselineExcludesEdits,
                  WatchedEditsSurvive, PostSaveSwitchLosesNothing
    <2> QED BY <2>1, BeginGate, ContinueGate, EnvironmentGate DEF Next
  <1> QED BY <1>1, InitGate, TypeCorrect, PTL DEF Spec

\* docs/SAFE-EDIT-WORKFLOW.md's promise for the AM4: no call in mode "warn" or
\* "save_active_first" discards an edit made over a cached fingerprint.
THEOREM WatchedEditsAreSafe == ASSUME Alone PROVE Spec => []WatchedEditsSurvive
  <1>1. GateInv => WatchedEditsSurvive BY DEF GateInv
  <1> QED BY <1>1, GateInvariant, PTL

\* runPostSaveSwitch needs no gate: there is nothing left to lose.
THEOREM PostSaveSwitchIsSafe == ASSUME Alone PROVE Spec => []PostSaveSwitchLosesNothing
  <1>1. GateInv => PostSaveSwitchLosesNothing BY DEF GateInv
  <1> QED BY <1>1, GateInvariant, PTL

\* refreshAM4Fingerprint and the warm-up never take edits into a baseline.
THEOREM BaselinesAreClean == ASSUME Alone PROVE Spec => []BaselineExcludesEdits
  <1>1. GateInv => BaselineExcludesEdits BY DEF GateInv
  <1> QED BY <1>1, GateInvariant, PTL

----------------------------------------------------------------------------
(* The shape of a step: what a call that is left with the record s has     *)
(* done to the device.                                                     *)

Keeps == UNCHANGED <<device, history>>
Edits == \E kind : DeviceEdit(kind)
Stores(s) == \E l \in Locations : MayStore(s, l) /\ DeviceStore(l, "ok")
Refills(c) ==
  /\ call[c].target \in Locations /\ Fills(c)
  /\ UNCHANGED <<active, buffer, version, history>>
Leaves(s) == \E l \in Locations : DeviceSwitch(s, l, "ok")

Moves(c) == Keeps \/ Edits \/ Stores(call'[c]) \/ Leaves(call'[c]) \/ Refills(c)

LEMMA SwitchMoves ==
  ASSUME TypeOK, NEW c \in Calls, NEW r \in CallRec, r.target \in Locations, NEW pc,
         SendSwitch(c, r, pc)
  PROVE  Moves(c)
  <1>1. PICK out \in Outcomes : /\ DeviceSwitch(r, r.target, out)
                                /\ Resume(c, [r EXCEPT !.pc = pc, !.acked = (out = "ok")])
    BY DEF SendSwitch
  <1>2. CASE ~Landed(out) BY <1>1, <1>2 DEF DeviceSwitch, Moves, Keeps
  <1>3. CASE Landed(out)
    <2> DEFINE s == [r EXCEPT !.pc = pc, !.acked = (out = "ok")]
    <2>1. s.mode = r.mode /\ s.degraded = r.degraded BY DEF CallRec
    <2>2. call'[c] = s BY <1>1 DEF Resume, TypeOK, CallsOK
    <2> HIDE DEF s
    <2>3. DeviceSwitch(s, r.target, "ok")
      BY <1>1, <1>3, <2>1 DEF DeviceSwitch, Landed, Waives
    <2> QED BY <2>2, <2>3 DEF Moves, Leaves
  <1> QED BY <1>2, <1>3

LEMMA WriteMoves ==
  ASSUME NEW c \in Calls, NEW r, NEW kind, NEW pc, SendWrite(c, r, kind, pc)
  PROVE  Moves(c)
  BY DEF SendWrite, DeviceWrite, Moves, Keeps, Edits

LEMMA SaveMoves ==
  ASSUME TypeOK, NEW c \in Calls, NEW r \in CallRec, r.target \in Locations, NEW pc,
         \/ r.tool = "save_preset"
         \/ r.tool \in {"apply_preset", "apply_setlist"} /\ r.save,
         SendSave(c, r, pc)
  PROVE  Moves(c)
  <1>1. PICK out \in Outcomes : /\ DeviceStore(r.target, out)
                                /\ Resume(c, [r EXCEPT !.pc = pc, !.acked = (out = "ok")])
    BY DEF SendSave
  <1>2. CASE ~Landed(out) BY <1>1, <1>2 DEF DeviceStore, Moves, Keeps
  <1>3. CASE Landed(out)
    <2> DEFINE s == [r EXCEPT !.pc = pc, !.acked = (out = "ok")]
    <2>1. s.tool = r.tool /\ s.target = r.target /\ s.save = r.save BY DEF CallRec
    <2>2. call'[c] = s BY <1>1 DEF Resume, TypeOK, CallsOK
    <2> HIDE DEF s
    <2>3. MayStore(s, r.target) BY <2>1 DEF MayStore
    <2>4. DeviceStore(r.target, "ok") BY <1>1, <1>3 DEF DeviceStore, Landed
    <2> QED BY <2>2, <2>3, <2>4 DEF Moves, Stores
  <1> QED BY <1>2, <1>3

LEMMA BodyMoves ==
  ASSUME TypeOK, NEW c \in Calls, NEW r, Equipped(r), Body(c, r)
  PROVE  Moves(c)
  <1>1. r \in CallRec /\ (r.tool \in Targeted => r.target \in Locations)
    BY DEF Equipped, CallRec
  <1> QED BY <1>1, SwitchMoves, WriteMoves, SaveMoves DEF Body, Targeted, AllTools

LEMMA WarmupMoves ==
  ASSUME TypeOK, NEW c \in Calls, NEW r, Equipped(r), Warmup(c, r)
  PROVE  Moves(c)
  BY BodyMoves DEF Warmup, AskActive, Moves, Keeps

LEMMA ProceedMoves ==
  ASSUME TypeOK, NEW c \in Calls, NEW r, Equipped(r), Proceed(c, r)
  PROVE  Moves(c)
  <1>1. r \in CallRec /\ (r.tool \in Targeted => r.target \in Locations)
    BY DEF Equipped, CallRec
  <1> QED BY <1>1, SwitchMoves, WarmupMoves DEF Proceed, Targeted, AllTools

LEMMA GateMoves ==
  ASSUME TypeOK, NEW c \in Calls, NEW r, Equipped(r), Gate(c, r)
  PROVE  Moves(c)
  BY ProceedMoves DEF Gate, AskActive, Moves, Keeps

LEMMA FinishMoves ==
  ASSUME NEW c \in Calls, Finish(c)
  PROVE  Moves(c)
  BY DEF Finish, Moves, Keeps

LEMMA EntryOverMoves ==
  ASSUME TypeOK, NEW c \in Calls, NEW ok, EntryOver(c, ok)
  PROVE  Moves(c)
  <1>1. ASSUME NEW l \in call[c].more,
               SendSwitch(c, [call[c] EXCEPT !.target = l, !.more = @ \ {l},
                                             !.mode = "reported"], "entrySwitchAck")
        PROVE  Moves(c)
    <2> DEFINE r == [call[c] EXCEPT !.target = l, !.more = @ \ {l}, !.mode = "reported"]
    <2>1. call[c] \in CallRec BY DEF TypeOK, CallsOK
    <2>2. l \in Locations BY <2>1 DEF CallRec
    <2>3. r \in CallRec /\ r.target = l BY <2>1, <2>2 DEF CallRec, NavModes
    <2> HIDE DEF r
    <2>4. SendSwitch(c, r, "entrySwitchAck") BY <1>1 DEF r
    <2> QED BY <2>2, <2>3, <2>4, SwitchMoves
  <1> QED BY <1>1, FinishMoves DEF EntryOver

LEMMA RestoreMoves ==
  ASSUME TypeOK, NEW c \in Calls, RestoreStep(c)
  PROVE  Moves(c)
  <1>1. CASE UNCHANGED flash
    BY <1>1 DEF RestoreStep, Moves, Keeps, device
  <1>2. CASE Fills(c)
    <2>1. call[c] \in CallRec /\ Ready(call[c]) BY DEF TypeOK, CallsOK
    <2>2. call[c].target \in Locations
      BY <1>2, <2>1 DEF Fills, Ready, Suits, Restoring, Targeted, AllTools, CallRec
    <2> QED BY <1>2, <2>2 DEF RestoreStep, Moves, Refills
  <1> QED BY <1>1, <1>2 DEF RestoreStep

LEMMA BeginMoves ==
  ASSUME TypeOK, NEW c \in Calls, Begin(c)
  PROVE  Moves(c)
  <1>1. \A m \in Modes : m \in NavModes /\ m # "post_save"
    BY AM4Constants DEF NavModes, AllModes
  <1>2. ASSUME NEW l \in Locations, NEW m \in Modes, StartSwitchPreset(c, l, m)
        PROVE  Moves(c)
    BY <1>1, <1>2, StartRecord, GateMoves DEF StartSwitchPreset, AllTools
  <1>3. CASE StartSetParam(c)
    BY <1>3, NewType, WarmupMoves
       DEF StartSetParam, Equipped, Made, AllTools, Targeted
  <1>4. CASE StartRename(c) BY <1>4, WriteMoves DEF StartRename
  <1>5. ASSUME NEW l \in Locations, NEW named \in BOOLEAN, StartSavePreset(c, l, named)
        PROVE  Moves(c)
    <2> DEFINE r == [New("save_preset") EXCEPT !.target = l, !.named = named,
                                               !.mode = "post_save"]
    <2>1. Equipped(r) BY StartRecord DEF AllTools, Gated, NavModes
    <2> HIDE DEF r
    <2>2. Warmup(c, r) BY <1>5 DEF StartSavePreset, r
    <2> QED BY <2>1, <2>2, WarmupMoves
  <1>6. ASSUME NEW l \in Locations, NEW m \in Modes, NEW s \in BOOLEAN,
               StartApplyPreset(c, l, m, s)
        PROVE  Moves(c)
    <2> DEFINE r == [New("apply_preset") EXCEPT !.target = l, !.mode = m, !.save = s]
    <2>1. Equipped(r) BY <1>1, StartRecord DEF AllTools
    <2> HIDE DEF r
    <2>2. Gate(c, r) BY <1>6 DEF StartApplyPreset, r
    <2> QED BY <2>1, <2>2, GateMoves
  <1>7. ASSUME NEW l \in Locations, NEW more \in SUBSET Locations, NEW m \in Modes,
               StartApplySetlist(c, l, more, m)
        PROVE  Moves(c)
    <2> DEFINE r == [New("apply_setlist") EXCEPT !.target = l, !.more = more,
                                                 !.mode = m, !.save = TRUE]
    <2>1. Equipped(r) BY <1>1, StartRecord DEF AllTools
    <2> HIDE DEF r
    <2>2. Gate(c, r) BY <1>7 DEF StartApplySetlist, r
    <2> QED BY <2>1, <2>2, GateMoves
  <1>8. ASSUME NEW l \in Locations, NEW more \in SUBSET Locations,
               NEW verify \in BOOLEAN, StartRestoreDefaults(c, l, more, verify)
        PROVE  Moves(c)
    BY <1>8, StartRestoreSteps, RestoreMoves
  <1> QED BY <1>2, <1>3, <1>4, <1>5, <1>6, <1>7, <1>8 DEF Begin

LEMMA ContinueMoves ==
  ASSUME TypeOK, NEW c \in Calls, Continue(c),
         call[c].pc = "gateName" => call[c].at = active
  PROVE  Moves(c)
  <1> DEFINE r == call[c]
  <1>1. r \in CallRec /\ Ready(r) /\ Made(r.dump) BY DEF TypeOK, CallsOK
  <1>2. Equipped(r) BY <1>1 DEF Equipped, Ready
  <1>3. r.pc \in Navigating => r.target \in Locations
    BY <1>1 DEF Ready, Suits, CallRec
  <1>4. r.pc = "renameAck" => r.tool = "save_preset" BY <1>1 DEF Ready, Suits
  <1>5. r.pc = "wiresAck" => r.tool \in {"apply_preset", "apply_setlist"}
    BY <1>1 DEF Ready, Suits, Entering, Restoring
  <1>6. ASSUME NEW b \in BOOLEAN PROVE Equipped([r EXCEPT !.degraded = b])
    BY <1>1, <1>2 DEF Equipped, CallRec
  <1>7. SaveActiveFirst(c) => Moves(c)
    <2> SUFFICES ASSUME SaveActiveFirst(c) PROVE Moves(c) OBVIOUS
    <2>1. r.mode = "save_active_first" /\ r.at = active /\ active \in Locations
      BY DEF SaveActiveFirst, TypeOK, DeviceOK
    <2>2. PICK out \in SaveFirstOutcomes : DeviceStore(r.at, out)
      BY DEF SaveActiveFirst
    <2>3. PICK answer \in Outcomes :
            Resume(c, [r EXCEPT !.pc = "gateSaved",
                                !.dump = IF answer = "ok" THEN buffer ELSE None])
      BY DEF SaveActiveFirst
    <2> DEFINE s == [r EXCEPT !.pc = "gateSaved",
                              !.dump = IF answer = "ok" THEN buffer ELSE None]
    <2>4. s.mode = r.mode /\ s.at = r.at BY <1>1 DEF CallRec
    <2>5. call'[c] = s BY <2>3 DEF Resume, TypeOK, CallsOK
    <2> HIDE DEF s, r
    <2>6. CASE ~Landed(out) BY <2>2, <2>6 DEF DeviceStore, Moves, Keeps
    <2>7. CASE Landed(out)
      <3>1. MayStore(s, active) BY <2>1, <2>4 DEF MayStore
      <3>2. DeviceStore(active, "ok") BY <2>1, <2>2, <2>7 DEF DeviceStore, Landed
      <3> QED BY <2>1, <2>5, <3>1, <3>2 DEF Moves, Stores
    <2> QED BY <2>6, <2>7
  <1> HIDE DEF r
  <1>8. GateReadUnknown(c) \/ GateDumpMatches(c) \/ GateSaved(c) => Moves(c)
    BY <1>2, <1>6, ProceedMoves DEF GateReadUnknown, GateDumpMatches, GateSaved, r
  <1>9. WarmReadSkip(c) \/ WarmDump(c) => Moves(c)
    BY <1>2, BodyMoves DEF WarmReadSkip, WarmDump, r
  <1>10. WriteNext(c) \/ WiresNext(c) => Moves(c)
    BY WriteMoves DEF WriteNext, WiresNext
  <1>11. RenameAcked(c) => Moves(c)
    BY <1>1, <1>3, <1>4, SaveMoves, FinishMoves DEF RenameAcked, Navigating, r
  <1>12. SaveAcked(c) => Moves(c)
    BY <1>1, <1>3, SwitchMoves, FinishMoves DEF SaveAcked, Navigating, r
  <1>13. EntrySwitched(c) \/ EntrySavedOver(c) \/ EntryVerified(c) => Moves(c)
    BY WriteMoves, EntryOverMoves DEF EntrySwitched, EntrySavedOver, EntryVerified
  <1>14. WiresDone(c) => Moves(c)
    BY <1>1, <1>3, <1>5, SaveMoves, EntryOverMoves DEF WiresDone, Navigating, r
  \* The steps that only ask, refuse or end.
  <1>15. \/ GateReadKnown(c) \/ GateDumpDiffers(c) \/ WarmReadNew(c)
         \/ SwitchAcked(c) \/ EntrySavedRefresh(c) \/ EntrySavedVerify(c)
         => Moves(c)
    BY DEF GateReadKnown, GateDumpDiffers, WarmReadNew, SwitchAcked, EntrySavedRefresh,
           EntrySavedVerify, Refresh, AskDump, AskName, Moves, Keeps
  <1>16. \/ Refuse(c) \/ SaveActiveFirstThrows(c) \/ SwitchUnacked(c) \/ Refreshed(c)
         \/ WriteDone(c)
         => Moves(c)
    BY FinishMoves
       DEF Refuse, SaveActiveFirstThrows, SwitchUnacked, Refreshed, WriteDone
  <1>17. Restore(c) => Moves(c) BY RestoreSteps, RestoreMoves
  <1> QED BY <1>7, <1>8, <1>9, <1>10, <1>11, <1>12, <1>13, <1>14, <1>15, <1>16, <1>17
          DEF Continue

----------------------------------------------------------------------------
(* What is stored, and the contract.                                       *)

\* What the gate's invariant says of a call about to save for its caller.
LEMMA GateNameAt ==
  ASSUME GateInv, NEW c \in Calls
  PROVE  call[c].pc = "gateName" => call[c].at = active
  BY DEF GateInv, Knows, Dumping

LEMMA StepMoves ==
  ASSUME TypeOK, GateInv, Next
  PROVE  \/ \E c \in Calls : Moves(c)
         \/ Environment
  BY BeginMoves, ContinueMoves, GateNameAt DEF Next

\* No location is overwritten but by the tool its caller named it to and
\* authorized to save, by the gate for the preset being left, by a factory
\* restore that has come to it or by the player (RenameAcked, WiresDone,
\* SaveActiveFirst, RestoreSent).
THEOREM NothingSilentlyOverwritten == ASSUME Alone PROVE Spec => NoSilentOverwrite
  <1> DEFINE Allowed(l) ==
        flash'[l] # flash[l] =>
          \/ \E c \in Calls : MayStore(call'[c], l)
          \/ \E c \in Calls : call[c].pc = "streaming" /\ l = call[c].target
          \/ PanelSave /\ l = active
  <1>1. ASSUME TypeOK, GateInv, [Next]_vars
        PROVE  [\A l \in Locations : Allowed(l)]_vars
    <2> SUFFICES ASSUME Next, NEW l \in Locations, flash'[l] # flash[l] PROVE Allowed(l)
      BY <1>1
    <2> USE <1>1
    <2>1. ASSUME NEW c \in Calls, Moves(c) PROVE Allowed(l)
      <3>1. ~Keeps BY DEF Keeps, device
      <3>2. ~Edits BY DEF Edits, DeviceEdit
      <3>3. ~Leaves(call'[c]) BY DEF Leaves, DeviceSwitch, Landed
      <3>4. CASE Stores(call'[c])
        <4>1. PICK k \in Locations : MayStore(call'[c], k) /\ DeviceStore(k, "ok")
          BY <3>4 DEF Stores
        <4>2. l = k BY <4>1 DEF DeviceStore, Landed, TypeOK, DeviceOK
        <4> QED BY <4>1, <4>2
      <3>5. CASE Refills(c)
        <4>1. l = call[c].target BY <3>5 DEF Refills, Fills, TypeOK, DeviceOK
        <4> QED BY <3>5, <4>1 DEF Refills, Fills
      <3> QED BY <2>1, <3>1, <3>2, <3>3, <3>4, <3>5 DEF Moves
    <2>2. CASE Environment
      BY <2>2 DEF Environment, PanelEdit, DeviceEdit, PanelSwitch, PanelSave,
                  NewConnection, Restart, device, TypeOK, DeviceOK
    <2> QED BY <2>1, <2>2, StepMoves
  <1>2. TypeOK /\ GateInv /\ [Next]_vars => [\A l \in Locations : Allowed(l)]_vars
    BY <1>1
  <1> QED BY <1>2, TypeCorrect, GateInvariant, PTL DEF Spec, NoSilentOverwrite

\* A step of a call is a step of the contract.
LEMMA MovesRefine ==
  ASSUME TypeOK, TypeOK', GateInv', NEW c \in Calls, Moves(c)
  PROVE  Abstract!ContractNext
  <1>1. (Quiet \/ \E d \in Calls : Waives(call[d]))' \in BOOLEAN OBVIOUS
  <1>2. flash \in [Locations -> Content] /\ buffer' \in Content
    BY DEF TypeOK, DeviceOK
  <1>3. CASE Keeps
    BY <1>1, <1>3 DEF Keeps, device, history, Abstract!ContractNext, Abstract!Callers
  <1>4. CASE Edits
    <2>1. UNCHANGED <<active, flash>> /\ risk \subseteq risk'
      BY <1>4 DEF Edits, DeviceEdit
    <2>2. Abstract!Edit BY <1>2, <2>1 DEF Abstract!Edit
    <2> QED BY <1>1, <2>2 DEF Abstract!ContractNext
  <1>5. CASE Stores(call'[c])
    <2>1. PICK l \in Locations : DeviceStore(l, "ok") BY <1>5 DEF Stores
    <2>2. /\ flash' = [flash EXCEPT ![l] = buffer] /\ risk' = {}
          /\ UNCHANGED <<active, buffer>>
      BY <2>1 DEF DeviceStore, Landed
    <2>3. Abstract!Store(l) BY <1>2, <2>2 DEF Abstract!Store
    <2> QED BY <1>1, <2>3 DEF Abstract!ContractNext
  <1>6. CASE Leaves(call'[c])
    <2>1. PICK l \in Locations : DeviceSwitch(call'[c], l, "ok") BY <1>6 DEF Leaves
    <2>2. /\ active' = l /\ buffer' = flash[l] /\ risk' = {} /\ UNCHANGED flash
          /\ Waives(call'[c]) \/ lost' = lost \cup (risk \X {call'[c].mode})
      BY <2>1 DEF DeviceSwitch, Landed
    <2>3. ASSUME "watched" \in risk, ~Waives(call'[c]) PROVE FALSE
      <3>1. call'[c].mode \in {"warn", "save_active_first", "post_save"}
        BY <2>3 DEF TypeOK, CallsOK, CallRec, NavModes, AllModes, Waives
      <3>2. <<"watched", call'[c].mode>> \in lost' BY <2>2, <2>3
      <3>3. WatchedEditsSurvive' /\ PostSaveSwitchLosesNothing' BY DEF GateInv
      <3> QED BY <3>1, <3>2, <3>3 DEF WatchedEditsSurvive, PostSaveSwitchLosesNothing,
                                       Kinds
    <2>4. "watched" \in risk => (Quiet \/ \E d \in Calls : Waives(call[d]))'
      BY <2>3
    <2>5. Abstract!Leave(l) BY <2>2, <2>4 DEF Abstract!Leave
    <2> QED BY <1>1, <2>5 DEF Abstract!ContractNext
  <1>7. CASE Refills(c)
    <2> DEFINE l == call[c].target
    <2>1. l \in Locations BY <1>7 DEF Refills
    <2>2. Abstract!Overwrite(l)
      BY <1>2, <1>7, <2>1 DEF Refills, Fills, history, Abstract!Overwrite, Content
    <2> QED BY <1>1, <2>1, <2>2 DEF Abstract!ContractNext
  <1> QED BY <1>3, <1>4, <1>5, <1>6, <1>7 DEF Moves

\* So is what the player and the process do.
LEMMA EnvironmentRefines ==
  ASSUME Alone, TypeOK, TypeOK', Environment
  PROVE  Abstract!ContractNext
  <1>1. (Quiet \/ \E d \in Calls : Waives(call[d]))' \in BOOLEAN OBVIOUS
  <1>2. flash \in [Locations -> Content] /\ buffer' \in Content /\ 0 \in Content
        /\ active \in Locations
    BY DEF TypeOK, DeviceOK, Content
  <1>4. CASE PanelEdit
    <2>1. UNCHANGED <<active, flash>> /\ risk \subseteq risk'
      BY <1>4 DEF PanelEdit, DeviceEdit
    <2>2. Abstract!Edit BY <1>2, <2>1 DEF Abstract!Edit
    <2> QED BY <1>1, <2>2 DEF Abstract!ContractNext
  <1>5. ASSUME NEW l \in Locations, PanelSwitch(l) PROVE Abstract!ContractNext
    <2>1. Quiet' BY <1>5 DEF PanelSwitch, PanelMay, Alone, Quiet
    <2>2. Abstract!Leave(l) BY <1>5, <2>1 DEF PanelSwitch, Abstract!Leave
    <2> QED BY <1>1, <2>2 DEF Abstract!ContractNext
  <1>6. CASE PanelSave
    <2>1. Abstract!Store(active) BY <1>2, <1>6 DEF PanelSave, Abstract!Store
    <2> QED BY <1>1, <1>2, <2>1 DEF Abstract!ContractNext
  <1>7. CASE NewConnection
    BY <1>1, <1>7 DEF NewConnection, device, history, Abstract!ContractNext,
                      Abstract!Callers
  <1>8. CASE Restart
    <2>1. Quiet' BY <1>8 DEF Restart, Quiet
    <2>2. Abstract!Forget
      BY <1>2, <1>8, <2>1 DEF Restart, device, Abstract!Forget
    <2> QED BY <1>1, <2>2 DEF Abstract!ContractNext
  <1> QED BY <1>4, <1>5, <1>6, <1>7, <1>8 DEF Environment

\* The AM4 gate implements the safe-edit contract: it only edits, stores,
\* overwrites by a factory restore, and leaves a buffer with watched edits in
\* it when the loss was waived.
THEOREM GateImplementsContract == ASSUME Alone PROVE Spec => ImplementsContract
  <1>1. Init => Abstract!ContractInit
    BY DEF Init, Abstract!ContractInit, Content
  <1>2. ASSUME TypeOK, TypeOK', GateInv, GateInv', [Next]_vars
        PROVE  [Abstract!ContractNext]_(Abstract!contractVars)
    <2>1. CASE UNCHANGED vars
      BY <2>1 DEF vars, device, history, Abstract!contractVars, Quiet
    <2>2. CASE Next BY <1>2, <2>2, StepMoves, MovesRefine, EnvironmentRefines
    <2> QED BY <1>2, <2>1, <2>2
  <1>3. TypeOK /\ TypeOK' /\ GateInv /\ GateInv' /\ [Next]_vars
        => [Abstract!ContractNext]_(Abstract!contractVars)
    BY <1>2
  <1> QED BY <1>1, <1>3, TypeCorrect, GateInvariant, PTL
          DEF Spec, ImplementsContract, Abstract!Contract
=============================================================================
