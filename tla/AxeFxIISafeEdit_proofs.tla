----------------------- MODULE AxeFxIISafeEdit_proofs -----------------------
(***************************************************************************)
(* Proofs about AxeFxIISafeEdit: for any number of calls in flight and     *)
(* whatever the player does, its type invariant and that the flag tells    *)
(* the truth; for one call at a time and a player who keeps his hands off  *)
(* while it runs, the gate's promise.                                      *)
(***************************************************************************)
EXTENDS AxeFxIISafeEdit, TLAPS

FlagInv == TypeOK /\ FlagTellsTruth

LEMMA IdleOK == Idle \in CallRec /\ Ready(Idle) /\ Idle.pc = "idle"
  BY DEF Idle, CallRec, Ready, NavModes, AllModes, Targeted, AllTools, Entry, Asking

LEMMA NewOK ==
  ASSUME NEW tool \in AllTools
  PROVE  /\ New(tool) \in CallRec
         /\ New(tool).tool = tool /\ New(tool).pc = "idle"
         /\ New(tool).save = FALSE /\ New(tool).more = {}
  BY DEF New, Idle, CallRec, NavModes, AllModes

LEMMA InitFlag == Init => FlagInv
<1> SUFFICES ASSUME Init PROVE FlagInv
  OBVIOUS
<1>1. DeviceOK
  BY DEF Init, DeviceOK, Content
<1>2. TypeOK
  BY <1>1, IdleOK DEF Init, TypeOK
<1> QED BY <1>2 DEF Init, FlagInv, FlagTellsTruth

----------------------------------------------------------------------------
(* The three sends keep the flag's invariant.                              *)

\* A record is fit to wait for an answer to a send.
Fit(r) ==
  /\ r \in CallRec
  /\ r.tool \in Targeted => r.target # None
  /\ r.save \/ r.more # {} => r.tool \in Batching

LEMMA AckOK ==
  ASSUME NEW r, Fit(r), r.tool \in Targeted, NEW a \in BOOLEAN
  PROVE  LET s == [r EXCEPT !.pc = "storeAck", !.acked = a]
         IN  s \in CallRec /\ Ready(s)
  BY DEF Fit, CallRec, Ready, Awaits, Entry, Asking

LEMMA UncoveredOK ==
  ASSUME NEW kinds \in SUBSET Kinds
  PROVE  Uncovered(kinds) \subseteq Kinds /\ Uncovered(kinds) \cap Known = {}
  BY DEF Uncovered, Kinds, Known

LEMMA BroadcastOK ==
  ASSUME inflight \in Nat, Broadcast
  PROVE  inflight' \in Nat
  BY DEF Broadcast

LEMMA SendEditFlag ==
  ASSUME FlagInv, NEW c \in Calls, NEW r, Fit(r), listening' \in BOOLEAN, SendEdit(c, r)
  PROVE  FlagInv'
<1>1. version' \in Nat /\ buffer' \in Content /\ risk' \subseteq Kinds /\ inflight' \in Nat
  <2>1. CASE UNCHANGED <<version, buffer, risk, inflight>>
    BY <2>1 DEF FlagInv, TypeOK, DeviceOK
  <2>2. CASE ~UNCHANGED <<version, buffer, risk, inflight>>
    <3>1. version' = version + 1 /\ buffer' = version + 1 /\ risk' = risk \cup {"tool"}
          /\ Broadcast
      BY <2>2 DEF SendEdit
    <3> QED BY <3>1, BroadcastOK DEF FlagInv, TypeOK, DeviceOK, Content, Kinds
  <2> QED BY <2>1, <2>2
<1>2. PICK a \in BOOLEAN :
        call' = [call EXCEPT ![c] = [r EXCEPT !.pc = "write", !.acked = a]]
  BY DEF SendEdit, Resume
<1>3. [r EXCEPT !.pc = "write", !.acked = a] \in CallRec
      /\ Ready([r EXCEPT !.pc = "write", !.acked = a])
  BY DEF Fit, CallRec, Ready, Awaits, Entry, Asking
<1>4. call' \in [Calls -> CallRec] /\ \A d \in Calls : Ready(call'[d])
  BY <1>2, <1>3 DEF FlagInv, TypeOK
<1>5. dirty' = TRUE /\ active' = active /\ flash' = flash /\ lost' = lost
  BY DEF SendEdit
<1>6. DeviceOK'
  BY <1>1, <1>5 DEF FlagInv, TypeOK, DeviceOK
<1> QED BY <1>1, <1>4, <1>5, <1>6 DEF FlagInv, TypeOK, FlagTellsTruth

LEMMA SendSwitchFlag ==
  ASSUME FlagInv, NEW c \in Calls, NEW r, Fit(r), r.target # None,
         listening' \in BOOLEAN, NEW pc \in {"settle", "grid"},
         pc = "grid" => r.tool \in Targeted, SendSwitch(c, r, pc)
  PROVE  FlagInv'
<1>1. risk' \subseteq Kinds /\ risk' \cap Known = {}
  <2>1. risk' = {} \/ risk' = Uncovered(risk)
    BY DEF SendSwitch
  <2> QED BY <2>1, UncoveredOK DEF FlagInv, TypeOK
<1>2. PICK a \in BOOLEAN :
        call' = [call EXCEPT ![c] = [r EXCEPT !.pc = pc, !.acked = a]]
  BY DEF SendSwitch, Resume
<1>3. [r EXCEPT !.pc = pc, !.acked = a] \in CallRec
      /\ Ready([r EXCEPT !.pc = pc, !.acked = a])
  BY DEF Fit, CallRec, Ready, Awaits, Entry, Asking
<1>4. call' \in [Calls -> CallRec] /\ \A d \in Calls : Ready(call'[d])
  BY <1>2, <1>3 DEF FlagInv, TypeOK
<1>5. dirty' = FALSE /\ flash' = flash /\ version' = version /\ inflight' = inflight
  BY DEF SendSwitch
<1>6. r.target \in Locations /\ r.mode \in NavModes
  BY DEF Fit, CallRec
<1>7. active' \in Locations /\ buffer' \in Content
  BY <1>6 DEF SendSwitch, FlagInv, TypeOK, DeviceOK
<1>8. lost' \subseteq Kinds \X NavModes
  <2>1. lost' = lost \/ lost' = lost \cup (risk \X {r.mode})
    BY DEF SendSwitch
  <2> QED BY <2>1, <1>6 DEF FlagInv, TypeOK
<1>9. DeviceOK'
  BY <1>5, <1>7 DEF FlagInv, TypeOK, DeviceOK
<1> QED BY <1>1, <1>4, <1>5, <1>8, <1>9 DEF FlagInv, TypeOK, FlagTellsTruth

LEMMA SendStoreFlag ==
  ASSUME FlagInv, NEW c \in Calls, NEW r, Fit(r), NEW l \in Locations,
         listening' \in BOOLEAN, NEW pc \in {"gateStore", "storeAck"},
         pc = "storeAck" => r.tool \in Targeted,
         pc = "gateStore" => r.tool \in Gated /\ r.at # None,
         SendStore(c, r, l, pc)
  PROVE  FlagInv'
<1>1. PICK out \in StoreOutcomes :
        /\ IF out # "lost"
           THEN flash' = [flash EXCEPT ![l] = buffer] /\ risk' = {}
           ELSE UNCHANGED flash /\ risk' = Uncovered(risk)
        /\ Resume(c, [r EXCEPT !.pc = pc, !.acked = (out = "ok") /\ listening'])
  BY DEF SendStore
<1>2. risk' \subseteq Kinds /\ risk' \cap Known = {}
  <2>1. risk' = {} \/ risk' = Uncovered(risk)
    BY <1>1
  <2> QED BY <2>1, UncoveredOK DEF FlagInv, TypeOK
<1>3. PICK a \in BOOLEAN :
        call' = [call EXCEPT ![c] = [r EXCEPT !.pc = pc, !.acked = a]]
  BY <1>1 DEF Resume
<1>4. [r EXCEPT !.pc = pc, !.acked = a] \in CallRec
      /\ Ready([r EXCEPT !.pc = pc, !.acked = a])
  BY DEF Fit, CallRec, Ready, Awaits, Entry, Asking
<1>5. call' \in [Calls -> CallRec] /\ \A d \in Calls : Ready(call'[d])
  BY <1>3, <1>4 DEF FlagInv, TypeOK
<1>6. flash' \in [Locations -> Content]
  BY <1>1 DEF FlagInv, TypeOK, DeviceOK
<1>7. dirty' = FALSE
      /\ UNCHANGED <<active, buffer, version, inflight, lost>>
  BY DEF SendStore
<1>8. DeviceOK'
  BY <1>6, <1>7 DEF FlagInv, TypeOK, DeviceOK
<1> QED BY <1>2, <1>5, <1>7, <1>8 DEF FlagInv, TypeOK, FlagTellsTruth

\* A call ends or asks: nothing else moves.
LEMMA RestFlag ==
  ASSUME FlagInv, NEW c \in Calls, NEW r \in CallRec, Ready(r), Resume(c, r),
         listening' \in BOOLEAN, UNCHANGED <<device, inflight, dirty, history>>
  PROVE  FlagInv'
<1>1. call' \in [Calls -> CallRec] /\ \A d \in Calls : Ready(call'[d])
  BY DEF FlagInv, TypeOK, Resume
<1> QED BY <1>1 DEF FlagInv, TypeOK, DeviceOK, FlagTellsTruth, device, history

LEMMA FinishFlag ==
  ASSUME FlagInv, NEW c \in Calls, listening' \in BOOLEAN, Finish(c)
  PROVE  FlagInv'
  BY IdleOK, RestFlag DEF Finish

----------------------------------------------------------------------------
(* Every step keeps the flag's invariant.                                  *)

LEMMA GateFlag ==
  ASSUME FlagInv, NEW c \in Calls, NEW r, Fit(r), r.tool \in Gated,
         listening' \in BOOLEAN, Gate(c, r)
  PROVE  FlagInv'
<1>1. CASE ~dirty \/ r.mode = "discard"
  <2> DEFINE s == [r EXCEPT !.pc = "checked"]
  <2>1. s \in CallRec /\ Ready(s)
    BY DEF Fit, CallRec, Ready, Awaits, Entry, Asking
  <2>2. Resume(c, s) /\ UNCHANGED <<device, inflight, dirty, history>>
    BY <1>1 DEF Gate
  <2> HIDE DEF s
  <2> QED BY <2>1, <2>2, RestFlag
<1>2. CASE ~(~dirty \/ r.mode = "discard")
  <2>1. PICK answered \in BOOLEAN :
          Resume(c, [r EXCEPT !.pc = "gateNumber",
                              !.at = IF answered THEN active ELSE None])
    BY <1>2 DEF Gate
  <2> DEFINE s == [r EXCEPT !.pc = "gateNumber",
                            !.at = IF answered THEN active ELSE None]
  <2>2. s \in CallRec /\ Ready(s)
    BY DEF Fit, CallRec, Ready, Awaits, Entry, Asking, FlagInv, TypeOK, DeviceOK
  <2>3. Resume(c, s) /\ UNCHANGED <<device, inflight, dirty, history>>
    BY <1>2, <2>1 DEF Gate
  <2> HIDE DEF s
  <2> QED BY <2>2, <2>3, RestFlag
<1> QED BY <1>1, <1>2

LEMMA BeginFlag ==
  ASSUME FlagInv, NEW c \in Calls, Begin(c)
  PROVE  FlagInv'
<1> USE AxeFxIIConstants
<1>1. ASSUME NEW l \in Locations, NEW m \in Modes, StartSwitchPreset(c, l, m)
      PROVE  FlagInv'
  <2> DEFINE r == [New("switch_preset") EXCEPT !.target = l, !.mode = m]
  <2>1. Fit(r) /\ r.tool \in Gated
    <3>1. r \in CallRec
      BY NewOK DEF CallRec, AllTools, Gated, NavModes
    <3>2. r.tool = "switch_preset" /\ r.target = l /\ ~r.save /\ r.more = {}
      BY NewOK DEF CallRec, AllTools
    <3> HIDE DEF r
    <3> QED BY <3>1, <3>2 DEF Fit, Gated, Targeted, AllTools
  <2>2. listening' \in BOOLEAN /\ Gate(c, r)
    BY <1>1 DEF StartSwitchPreset, CanStart, Open
  <2> HIDE DEF r
  <2> QED BY <2>1, <2>2, GateFlag
<1>2. CASE StartSetParam(c)
  <2>1. Fit(New("set_param"))
    BY NewOK DEF Fit, AllTools, Targeted
  <2>2. listening' \in BOOLEAN /\ SendEdit(c, New("set_param"))
    BY <1>2 DEF StartSetParam, CanStart, Open
  <2> QED BY <2>1, <2>2, SendEditFlag
<1>3. ASSUME NEW m \in Modes, StartTestApply(c, m)
      PROVE  FlagInv'
  <2> DEFINE r == [New("test_apply") EXCEPT !.mode = m]
  <2>1. Fit(r) /\ r.tool \in Gated
    <3>1. r \in CallRec
      BY NewOK DEF CallRec, AllTools, Gated, NavModes
    <3>2. r.tool = "test_apply" /\ ~r.save /\ r.more = {}
      BY NewOK DEF CallRec, AllTools
    <3> HIDE DEF r
    <3> QED BY <3>1, <3>2 DEF Fit, Gated, Targeted, AllTools
  <2>2. listening' \in BOOLEAN /\ Gate(c, r)
    BY <1>3 DEF StartTestApply, CanStart, Open
  <2> HIDE DEF r
  <2> QED BY <2>1, <2>2, GateFlag
<1>4. ASSUME NEW l \in Locations, NEW m \in Modes, NEW s \in BOOLEAN,
             StartApplyPreset(c, l, m, s)
      PROVE  FlagInv'
  <2> DEFINE r == [New("apply_preset") EXCEPT !.target = l, !.mode = m, !.save = s]
  <2>1. Fit(r) /\ r.tool \in Gated
    <3>1. r \in CallRec
      BY NewOK DEF CallRec, AllTools, Gated, NavModes
    <3>2. r.tool = "apply_preset" /\ r.target = l
      BY NewOK DEF CallRec, AllTools
    <3> HIDE DEF r
    <3> QED BY <3>1, <3>2 DEF Fit, Gated, Targeted, AllTools, Batching
  <2>2. listening' \in BOOLEAN /\ Gate(c, r)
    BY <1>4 DEF StartApplyPreset, CanStart, Open
  <2> HIDE DEF r
  <2> QED BY <2>1, <2>2, GateFlag
<1>5. ASSUME NEW l \in Locations, NEW more \in SUBSET Locations, NEW m \in Modes,
             StartApplySetlist(c, l, more, m)
      PROVE  FlagInv'
  <2> DEFINE r == [New("apply_setlist") EXCEPT !.target = l, !.more = more,
                                               !.mode = m, !.save = TRUE]
  <2>1. Fit(r) /\ r.tool \in Gated
    <3>1. r \in CallRec
      BY NewOK DEF CallRec, AllTools, Gated, NavModes
    <3>2. r.tool = "apply_setlist" /\ r.target = l
      BY NewOK DEF CallRec, AllTools
    <3> HIDE DEF r
    <3> QED BY <3>1, <3>2 DEF Fit, Gated, Targeted, AllTools, Batching
  <2>2. listening' \in BOOLEAN /\ Gate(c, r)
    BY <1>5 DEF StartApplySetlist, CanStart, Open
  <2> HIDE DEF r
  <2> QED BY <2>1, <2>2, GateFlag
<1>6. ASSUME NEW l \in Locations
      PROVE  Fit(Saving(l)) /\ Saving(l).tool \in Targeted
  BY NewOK DEF Saving, Fit, CallRec, AllTools, Targeted
<1>7. ASSUME NEW l \in Locations, StartSavePreset(c, l)
      PROVE  FlagInv'
  <2>1. listening' \in BOOLEAN /\ SendStore(c, Saving(l), l, "storeAck")
    BY <1>7 DEF StartSavePreset, CanStart, Open
  <2> HIDE DEF Saving
  <2> QED BY <1>6, <2>1, SendStoreFlag
<1>8. ASSUME NEW l \in Locations, StartSaveNamed(c, l)
      PROVE  FlagInv'
  <2>1. PICK out \in StoreOutcomes :
          /\ IF out # "lost"
             THEN flash' = [flash EXCEPT ![l] = buffer'] /\ risk' = {}
             ELSE UNCHANGED flash /\ risk' = Uncovered(risk \cup {"tool"})
          /\ Resume(c, [Saving(l) EXCEPT !.pc = "storeAck",
                                         !.acked = (out = "ok") /\ listening'])
    BY <1>8 DEF StartSaveNamed
  <2>2. risk' \subseteq Kinds /\ risk' \cap Known = {}
    <3>1. risk' = {} \/ risk' = Uncovered(risk \cup {"tool"})
      BY <2>1
    <3>2. risk \cup {"tool"} \subseteq Kinds
      BY DEF FlagInv, TypeOK, Kinds
    <3> QED BY <3>1, <3>2, UncoveredOK
  <2>3. version' = version + 1 /\ buffer' = version + 1 /\ active' = active
        /\ lost' = lost /\ dirty' = FALSE /\ Broadcast /\ listening' \in BOOLEAN
    BY <1>8 DEF StartSaveNamed, CanStart, Open
  <2>4. version' \in Nat /\ buffer' \in Content /\ inflight' \in Nat
    BY <2>3, BroadcastOK DEF FlagInv, TypeOK, DeviceOK, Content
  <2>5. flash' \in [Locations -> Content]
    BY <2>1, <2>4 DEF FlagInv, TypeOK, DeviceOK
  <2>6. PICK a \in BOOLEAN :
          call' = [call EXCEPT ![c] = [Saving(l) EXCEPT !.pc = "storeAck", !.acked = a]]
    BY <2>1 DEF Resume
  <2>7. [Saving(l) EXCEPT !.pc = "storeAck", !.acked = a] \in CallRec
        /\ Ready([Saving(l) EXCEPT !.pc = "storeAck", !.acked = a])
    <3> HIDE DEF Saving
    <3> QED BY <1>6, AckOK
  <2>8. call' \in [Calls -> CallRec] /\ \A d \in Calls : Ready(call'[d])
    BY <2>6, <2>7 DEF FlagInv, TypeOK
  <2>9. DeviceOK'
    BY <2>3, <2>4, <2>5 DEF FlagInv, TypeOK, DeviceOK
  <2> QED BY <2>2, <2>3, <2>8, <2>9 DEF FlagInv, TypeOK, FlagTellsTruth
<1>9. CASE SaveRenameThrows(c)
  <2>1. dirty' = TRUE /\ listening' \in BOOLEAN /\ UNCHANGED <<device, inflight, call, history>>
    BY <1>9 DEF SaveRenameThrows, CanStart, Open
  <2> QED BY <2>1 DEF FlagInv, TypeOK, DeviceOK, FlagTellsTruth, device, history
<1> QED BY <1>1, <1>2, <1>3, <1>4, <1>5, <1>7, <1>8, <1>9 DEF Begin

\* A call asks for the name, which the answer leaves as it was.
LEMMA AskFlag ==
  ASSUME FlagInv, NEW c \in Calls, NEW pc \in {"gateName", "verify"},
         pc = "gateName" => call[c].tool \in Gated,
         pc = "verify" => call[c].tool \in Targeted,
         listening' \in BOOLEAN, Ask(c, call[c], pc)
  PROVE  FlagInv'
<1>1. PICK a \in BOOLEAN : Resume(c, [call[c] EXCEPT !.pc = pc, !.acked = a])
  BY DEF Ask
<1> DEFINE s == [call[c] EXCEPT !.pc = pc, !.acked = a]
<1>2. s \in CallRec /\ Ready(s)
  BY DEF FlagInv, TypeOK, CallRec, Ready, Awaits, Entry, Asking
<1>3. Resume(c, s) /\ UNCHANGED <<device, inflight, dirty, history>>
  BY <1>1 DEF Ask
<1> HIDE DEF s
<1> QED BY <1>2, <1>3, RestFlag

LEMMA EntryOverFlag ==
  ASSUME FlagInv, NEW c \in Calls, NEW ok \in BOOLEAN, call[c].tool \in Targeted,
         listening' \in BOOLEAN, EntryOver(c, ok)
  PROVE  FlagInv'
<1>1. CASE Finish(c)
  BY <1>1, FinishFlag
<1>2. ASSUME NEW l \in call[c].more,
             SendSwitch(c, [call[c] EXCEPT !.target = l, !.more = @ \ {l},
                                           !.mode = "reported"], "grid")
      PROVE  FlagInv'
  <2> DEFINE r == [call[c] EXCEPT !.target = l, !.more = @ \ {l}, !.mode = "reported"]
  <2>1. call[c] \in CallRec /\ l \in Locations /\ call[c].tool \in Batching
    BY DEF FlagInv, TypeOK, CallRec, Ready
  <2>2. r \in CallRec /\ r.target = l /\ r.tool = call[c].tool
    BY <2>1 DEF CallRec, NavModes
  <2>3. Fit(r) /\ r.target # None /\ r.tool \in Targeted
    BY <2>1, <2>2, AxeFxIIConstants DEF Fit, Batching, Targeted, AllTools
  <2> HIDE DEF r
  <2> QED BY <1>2, <2>3, SendSwitchFlag DEF r
<1> QED BY <1>1, <1>2 DEF EntryOver

LEMMA ContinueFlag ==
  ASSUME FlagInv, NEW c \in Calls, Continue(c)
  PROVE  FlagInv'
<1>0. listening \in BOOLEAN /\ call[c] \in CallRec /\ Ready(call[c]) /\ active \in Locations
  BY DEF FlagInv, TypeOK, DeviceOK
<1>1. Fit(call[c])
  BY <1>0 DEF Fit, Ready
<1>2. call[c].at \in Locations \cup {None} /\ call[c].target \in Locations \cup {None}
  BY <1>0 DEF CallRec
<1>3. CASE GateNumber(c)
  BY <1>0, <1>3, AskFlag DEF GateNumber, Ready, Asking
<1>4. CASE Refuse(c)
  BY <1>0, <1>4, FinishFlag DEF Refuse
<1>5. CASE SaveActiveFirst(c)
  BY <1>0, <1>1, <1>2, <1>5, SendStoreFlag DEF SaveActiveFirst, Ready, Asking
<1>6. CASE ActiveSaved(c)
  <2> DEFINE s == [call[c] EXCEPT !.pc = "checked"]
  <2>1. s \in CallRec /\ Ready(s)
    BY <1>0, <1>6 DEF ActiveSaved, CallRec, Ready, Awaits, Entry, Asking
  <2>2. Resume(c, s) /\ listening' \in BOOLEAN /\ UNCHANGED <<device, inflight, dirty, history>>
    BY <1>0, <1>6 DEF ActiveSaved
  <2> HIDE DEF s
  <2> QED BY <2>1, <2>2, RestFlag
<1>7. CASE ActiveNotSaved(c)
  BY <1>0, <1>7, FinishFlag DEF ActiveNotSaved
<1>8. CASE Navigate(c)
  <2>1. call[c].tool \in Gated
    BY <1>0, <1>8 DEF Navigate, Ready
  <2>2. CASE call[c].tool = "switch_preset"
    <3>1. SendSwitch(c, call[c], "settle") /\ call[c].target # None
      BY <1>1, <1>8, <2>2 DEF Navigate, Fit, Targeted, AllTools
    <3> QED BY <1>0, <1>1, <1>8, <3>1, SendSwitchFlag DEF Navigate
  <2>3. CASE call[c].tool = "test_apply"
    <3>1. SendEdit(c, call[c])
      BY <1>8, <2>3 DEF Navigate
    <3> QED BY <1>0, <1>1, <1>8, <3>1, SendEditFlag DEF Navigate
  <2>4. CASE call[c].tool \in {"apply_preset", "apply_setlist"}
    <3>1. SendSwitch(c, call[c], "grid") /\ call[c].target # None /\ call[c].tool \in Targeted
      BY <1>1, <1>8, <2>4 DEF Navigate, Fit, Targeted, AllTools
    <3> QED BY <1>0, <1>1, <1>8, <3>1, SendSwitchFlag DEF Navigate
  <2> QED BY <2>1, <2>2, <2>3, <2>4 DEF Gated
<1>9. CASE Settled(c)
  BY <1>0, <1>9, FinishFlag DEF Settled
<1>10. CASE GridRead(c)
  BY <1>0, <1>1, <1>10, SendEditFlag DEF GridRead
<1>11. CASE WriteNext(c)
  BY <1>0, <1>1, <1>11, SendEditFlag DEF WriteNext
<1>12. CASE WriteDone(c)
  <2>1. CASE call[c].save
    <3>1. call[c].tool \in Targeted /\ call[c].target \in Locations
      BY <1>1, <1>2, <2>1 DEF Fit, Batching, Targeted, AllTools
    <3> QED BY <1>0, <1>1, <1>12, <2>1, <3>1, SendStoreFlag DEF WriteDone
  <2>2. CASE ~call[c].save
    BY <1>0, <1>12, <2>2, FinishFlag DEF WriteDone
  <2> QED BY <2>1, <2>2
<1>13. CASE SendThrew(c)
  <2>1. CASE Finish(c)
    BY <1>0, <1>13, <2>1, FinishFlag DEF SendThrew
  <2>2. CASE ~Finish(c)
    <3>1. call[c].more # {}
      BY <1>13, <2>2 DEF SendThrew, EntryOver
    <3> QED BY <1>0, <1>1, <1>13, <3>1, EntryOverFlag DEF SendThrew, Fit, Batching, Targeted, AllTools
  <2> QED BY <2>1, <2>2
<1>14. CASE StoreVerify(c)
  BY <1>0, <1>14, AskFlag DEF StoreVerify, Targeted, AllTools
<1>15. CASE StoreOver(c)
  <2>1. call[c].tool \in Targeted /\ call[c].acked \in BOOLEAN
    BY <1>0, <1>15 DEF StoreOver, Ready, Entry, CallRec
  <2> QED BY <1>0, <1>15, <2>1, EntryOverFlag DEF StoreOver
<1> QED BY <1>3, <1>4, <1>5, <1>6, <1>7, <1>8, <1>9, <1>10, <1>11, <1>12, <1>13, <1>14,
           <1>15 DEF Continue

LEMMA EnvironmentFlag ==
  ASSUME FlagInv, Environment
  PROVE  FlagInv'
<1> USE DEF FlagInv, TypeOK, DeviceOK, FlagTellsTruth
<1>1. CASE PanelEdit
  <2>1. inflight' \in Nat /\ version' \in Nat /\ buffer' \in Content
    BY <1>1 DEF PanelEdit, Content
  <2>2. risk' \subseteq Kinds /\ risk' \cap Known = risk \cap Known
    BY <1>1 DEF PanelEdit, Kinds, Known
  <2> QED BY <1>1, <2>1, <2>2 DEF PanelEdit
<1>2. ASSUME NEW l \in Locations, PanelSwitch(l)
      PROVE  FlagInv'
  BY <1>2 DEF PanelSwitch
<1>3. CASE PanelSave
  BY <1>3 DEF PanelSave
<1>4. CASE Deliver
  <2>1. inflight' \in Nat
    BY <1>4 DEF Deliver
  <2>2. risk' \subseteq Kinds
    BY <1>4 DEF Deliver, Kinds
  <2> QED BY <1>4, <2>1, <2>2 DEF Deliver, device
<1>5. CASE Reconnect
  <2>1. inflight' \in Nat /\ listening' \in BOOLEAN
    BY <1>5 DEF Reconnect
  <2> QED BY <1>5, <2>1 DEF Reconnect, device, history
<1>6. CASE Restart
  BY <1>6, IdleOK DEF Restart, device
<1> QED BY <1>1, <1>2, <1>3, <1>4, <1>5, <1>6 DEF Environment

\* The invariant of the flag holds of every behaviour.
THEOREM FlagInvariant == Spec => []FlagInv
<1>1. FlagInv /\ [Next]_vars => FlagInv'
  <2> SUFFICES ASSUME FlagInv, [Next]_vars PROVE FlagInv'
    OBVIOUS
  <2>1. CASE UNCHANGED vars
    BY <2>1 DEF vars, device, history, FlagInv, TypeOK, DeviceOK, FlagTellsTruth
  <2> QED BY <2>1, BeginFlag, ContinueFlag, EnvironmentFlag DEF Next
<1> QED BY InitFlag, <1>1, PTL DEF Spec

\* Types are kept, whatever the constants.
THEOREM TypeCorrect == Spec => []TypeOK
<1>1. FlagInv => TypeOK
  BY DEF FlagInv
<1> QED BY <1>1, FlagInvariant, PTL

\* The flag covers every edit the server sent or heard of, with any number of
\* calls in flight and a player who moves at any time (midi.ts:119-160).
THEOREM FlagIsTrue == Spec => []FlagTellsTruth
<1>1. FlagInv => FlagTellsTruth
  BY DEF FlagInv
<1> QED BY <1>1, FlagInvariant, PTL

----------------------------------------------------------------------------
(* The gate's promise, for one call at a time.                             *)

OneCall == \A c, d \in Calls : c = d

\* GateInv, and the edit that a broadcast under way could still make heard:
\* none is left once the gate's STORE was acknowledged.
CallInv(c) ==
  /\ call[c].pc = "checked" => risk \cap Known = {} \/ Waives(call[c])
  /\ call[c].pc = "gateStore" /\ call[c].acked => risk \cap (Known \cup {"unheard"}) = {}
  /\ call[c].pc \in Asking => call[c].at \in {None, active}

PromiseInv == FlagInv /\ HeardEditsSurvive /\ \A c \in Calls : CallInv(c)

LEMMA InitPromise == Init => PromiseInv
  BY InitFlag, IdleOK DEF Init, PromiseInv, HeardEditsSurvive, CallInv, Asking

\* A call that is not in the gate, and discards nothing.
LEMMA ElsewherePromise ==
  ASSUME OneCall, PromiseInv, FlagInv', NEW c \in Calls, lost' = lost,
         call'[c].pc \notin {"checked", "gateStore"},
         call'[c].pc \in Asking => call'[c].at \in {None, active'}
  PROVE  PromiseInv'
<1>1. ASSUME NEW d \in Calls PROVE CallInv(d)'
  <2>1. d = c
    BY DEF OneCall
  <2> QED BY <2>1 DEF CallInv
<1> QED BY <1>1 DEF PromiseInv, HeardEditsSurvive

LEMMA FinishPromise ==
  ASSUME OneCall, PromiseInv, FlagInv', NEW c \in Calls, Finish(c)
  PROVE  PromiseInv'
<1>1. call'[c].pc = "idle"
  BY IdleOK DEF Finish, Resume, PromiseInv, FlagInv, TypeOK
<1> QED BY <1>1, ElsewherePromise DEF Finish, history, Asking

LEMMA SendEditPromise ==
  ASSUME OneCall, PromiseInv, FlagInv', NEW c \in Calls, NEW r \in CallRec, SendEdit(c, r)
  PROVE  PromiseInv'
<1>1. PICK a \in BOOLEAN :
        call' = [call EXCEPT ![c] = [r EXCEPT !.pc = "write", !.acked = a]]
  BY DEF SendEdit, Resume
<1>2. call'[c].pc = "write"
  BY <1>1 DEF CallRec, PromiseInv, FlagInv, TypeOK
<1> QED BY <1>2, ElsewherePromise DEF SendEdit, Asking

LEMMA AskPromise ==
  ASSUME OneCall, PromiseInv, FlagInv', NEW c \in Calls, NEW pc \in {"gateName", "verify"},
         pc = "gateName" => call[c].pc \in Asking, Ask(c, call[c], pc)
  PROVE  PromiseInv'
<1>1. PICK a \in BOOLEAN : Resume(c, [call[c] EXCEPT !.pc = pc, !.acked = a])
  BY DEF Ask
<1>2. call'[c].pc = pc /\ call'[c].at = call[c].at
  BY <1>1 DEF Resume, CallRec, PromiseInv, FlagInv, TypeOK
<1>3. pc \in Asking => call[c].at \in {None, active}
  BY DEF PromiseInv, CallInv, Asking
<1> QED BY <1>2, <1>3, ElsewherePromise DEF Ask, history, device

\* A switch discards nothing but what its mode waives.
LEMMA SendSwitchPromise ==
  ASSUME OneCall, PromiseInv, FlagInv', NEW c \in Calls, NEW r \in CallRec,
         NEW pc \in {"settle", "grid"}, risk \cap Known = {} \/ Waives(r),
         SendSwitch(c, r, pc)
  PROVE  PromiseInv'
<1>1. PICK a \in BOOLEAN :
        call' = [call EXCEPT ![c] = [r EXCEPT !.pc = pc, !.acked = a]]
  BY DEF SendSwitch, Resume
<1>2. call'[c].pc = pc
  BY <1>1 DEF CallRec, PromiseInv, FlagInv, TypeOK
<1>3. HeardEditsSurvive'
  <2>1. lost' = lost \/ (~Waives(r) /\ lost' = lost \cup (risk \X {r.mode}))
    BY DEF SendSwitch
  <2> QED BY <2>1 DEF PromiseInv, HeardEditsSurvive
<1>4. ASSUME NEW d \in Calls PROVE CallInv(d)'
  <2>1. d = c
    BY DEF OneCall
  <2> QED BY <1>2, <2>1 DEF CallInv, Asking
<1> QED BY <1>3, <1>4 DEF PromiseInv

\* A STORE that was acknowledged leaves nothing at risk.
LEMMA SendStorePromise ==
  ASSUME OneCall, PromiseInv, FlagInv', NEW c \in Calls, NEW r \in CallRec,
         NEW l, NEW pc \in {"gateStore", "storeAck"}, SendStore(c, r, l, pc)
  PROVE  PromiseInv'
<1>1. PICK out \in StoreOutcomes :
        /\ out # "lost" => risk' = {}
        /\ call' = [call EXCEPT ![c] = [r EXCEPT !.pc = pc, !.acked = (out = "ok") /\ listening']]
  BY DEF SendStore, Resume
<1>2. call'[c].pc = pc /\ (call'[c].acked => out = "ok")
  BY <1>1 DEF CallRec, PromiseInv, FlagInv, TypeOK
<1>3. ASSUME NEW d \in Calls PROVE CallInv(d)'
  <2>1. d = c
    BY DEF OneCall
  <2> QED BY <1>1, <1>2, <2>1 DEF CallInv, Asking
<1>4. lost' = lost
  BY DEF SendStore
<1> QED BY <1>3, <1>4 DEF PromiseInv, HeardEditsSurvive

\* The gate lets through what the flag, or the caller, permits.
LEMMA GatePromise ==
  ASSUME OneCall, PromiseInv, FlagInv', NEW c \in Calls, NEW r \in CallRec, Gate(c, r)
  PROVE  PromiseInv'
<1>1. CASE ~dirty \/ r.mode = "discard"
  <2>1. call' = [call EXCEPT ![c] = [r EXCEPT !.pc = "checked"]]
        /\ risk' = risk /\ lost' = lost
    BY <1>1 DEF Gate, Resume, history
  <2>2. call'[c].pc = "checked" /\ call'[c].mode = r.mode
    BY <2>1 DEF CallRec, PromiseInv, FlagInv, TypeOK
  <2>3. risk \cap Known = {} \/ r.mode = "discard"
    BY <1>1 DEF PromiseInv, FlagInv, FlagTellsTruth
  <2>4. ASSUME NEW d \in Calls PROVE CallInv(d)'
    <3>1. d = c
      BY DEF OneCall
    <3> QED BY <2>1, <2>2, <2>3, <3>1 DEF CallInv, Waives, Asking
  <2> QED BY <2>1, <2>4 DEF PromiseInv, HeardEditsSurvive
<1>2. CASE ~(~dirty \/ r.mode = "discard")
  <2>1. PICK at \in {None, active} :
          call' = [call EXCEPT ![c] = [r EXCEPT !.pc = "gateNumber", !.at = at]]
    BY <1>2 DEF Gate, Resume
  <2>2. call'[c].pc = "gateNumber" /\ call'[c].at = at
    BY <2>1 DEF CallRec, PromiseInv, FlagInv, TypeOK
  <2>3. lost' = lost /\ active' = active
    BY <1>2 DEF Gate, history, device
  <2> QED BY <2>2, <2>3, ElsewherePromise
<1> QED BY <1>1, <1>2

LEMMA BeginPromise ==
  ASSUME OneCall, PromiseInv, FlagInv', NEW c \in Calls, Begin(c)
  PROVE  PromiseInv'
<1> USE AxeFxIIConstants
<1>0. \A tool \in AllTools : New(tool) \in CallRec
  BY NewOK
<1>1. ASSUME NEW tool \in AllTools, NEW l \in Locations, NEW more \in SUBSET Locations,
             NEW m \in Modes, NEW s \in BOOLEAN
      PROVE  /\ [New(tool) EXCEPT !.target = l, !.mode = m] \in CallRec
             /\ [New(tool) EXCEPT !.mode = m] \in CallRec
             /\ [New(tool) EXCEPT !.target = l, !.mode = m, !.save = s] \in CallRec
             /\ [New(tool) EXCEPT !.target = l, !.more = more, !.mode = m,
                                  !.save = s] \in CallRec
             /\ [New(tool) EXCEPT !.target = l] \in CallRec
  BY <1>0 DEF CallRec, NavModes
<1>2. ASSUME NEW l \in Locations, NEW m \in Modes, StartSwitchPreset(c, l, m)
      PROVE  PromiseInv'
  BY <1>1, <1>2, GatePromise DEF StartSwitchPreset, AllTools
<1>3. CASE StartSetParam(c)
  BY <1>0, <1>3, SendEditPromise DEF StartSetParam, AllTools
<1>4. ASSUME NEW m \in Modes, StartTestApply(c, m)
      PROVE  PromiseInv'
  <2>1. [New("test_apply") EXCEPT !.mode = m] \in CallRec
    BY <1>0 DEF CallRec, NavModes, AllTools
  <2> QED BY <1>4, <2>1, GatePromise DEF StartTestApply
<1>5. ASSUME NEW l \in Locations, NEW m \in Modes, NEW s \in BOOLEAN,
             StartApplyPreset(c, l, m, s)
      PROVE  PromiseInv'
  BY <1>1, <1>5, GatePromise DEF StartApplyPreset, AllTools
<1>6. ASSUME NEW l \in Locations, NEW more \in SUBSET Locations, NEW m \in Modes,
             StartApplySetlist(c, l, more, m)
      PROVE  PromiseInv'
  BY <1>1, <1>6, GatePromise DEF StartApplySetlist, AllTools
<1>7. ASSUME NEW l \in Locations PROVE Saving(l) \in CallRec
  BY <1>0 DEF Saving, CallRec, AllTools
<1>8. ASSUME NEW l \in Locations, StartSavePreset(c, l)
      PROVE  PromiseInv'
  <2> HIDE DEF Saving
  <2> QED BY <1>7, <1>8, SendStorePromise DEF StartSavePreset
<1>9. ASSUME NEW l \in Locations, StartSaveNamed(c, l)
      PROVE  PromiseInv'
  <2>1. PICK a :
          call' = [call EXCEPT ![c] = [Saving(l) EXCEPT !.pc = "storeAck", !.acked = a]]
    BY <1>9 DEF StartSaveNamed, Resume
  <2>2. call'[c].pc = "storeAck"
    <3> HIDE DEF Saving
    <3> QED BY <1>7, <2>1 DEF CallRec, PromiseInv, FlagInv, TypeOK
  <2> QED BY <1>9, <2>2, ElsewherePromise DEF StartSaveNamed, Asking
<1>10. CASE SaveRenameThrows(c)
  <2>1. call'[c].pc = "idle" /\ lost' = lost
    BY <1>10, IdleOK DEF SaveRenameThrows, CanStart, history
  <2> QED BY <2>1, ElsewherePromise DEF Asking
<1> QED BY <1>2, <1>3, <1>4, <1>5, <1>6, <1>8, <1>9, <1>10 DEF Begin

LEMMA EntryOverPromise ==
  ASSUME OneCall, PromiseInv, FlagInv', NEW c \in Calls, NEW ok \in BOOLEAN,
         EntryOver(c, ok)
  PROVE  PromiseInv'
<1>1. CASE Finish(c)
  BY <1>1, FinishPromise
<1>2. ASSUME NEW l \in call[c].more,
             SendSwitch(c, [call[c] EXCEPT !.target = l, !.more = @ \ {l},
                                           !.mode = "reported"], "grid")
      PROVE  PromiseInv'
  <2> DEFINE r == [call[c] EXCEPT !.target = l, !.more = @ \ {l}, !.mode = "reported"]
  <2>1. call[c] \in CallRec /\ l \in Locations
    BY DEF PromiseInv, FlagInv, TypeOK, CallRec
  <2>2. r \in CallRec /\ Waives(r)
    BY <2>1 DEF CallRec, NavModes, Waives
  <2> HIDE DEF r
  <2> QED BY <1>2, <2>2, SendSwitchPromise DEF r
<1> QED BY <1>1, <1>2 DEF EntryOver

LEMMA ContinuePromise ==
  ASSUME OneCall, PromiseInv, FlagInv', NEW c \in Calls, Continue(c)
  PROVE  PromiseInv'
<1>0. call[c] \in CallRec /\ call[c].acked \in BOOLEAN /\ CallInv(c)
  BY DEF PromiseInv, FlagInv, TypeOK, CallRec
<1>1. CASE GateNumber(c)
  BY <1>1, AskPromise DEF GateNumber, Asking
<1>2. CASE Refuse(c) \/ ActiveNotSaved(c) \/ Settled(c)
  BY <1>2, FinishPromise DEF Refuse, ActiveNotSaved, Settled
<1>3. CASE SaveActiveFirst(c)
  BY <1>0, <1>3, SendStorePromise DEF SaveActiveFirst
<1>4. CASE ActiveSaved(c)
  <2>1. call' = [call EXCEPT ![c] = [call[c] EXCEPT !.pc = "checked"]]
        /\ risk' = risk /\ lost' = lost
    BY <1>4 DEF ActiveSaved, Resume, history
  <2>2. risk \cap Known = {}
    BY <1>0, <1>4 DEF ActiveSaved, CallInv
  <2>3. call'[c].pc = "checked"
    BY <1>0, <2>1 DEF CallRec, PromiseInv, FlagInv, TypeOK
  <2>4. ASSUME NEW d \in Calls PROVE CallInv(d)'
    <3>1. d = c
      BY DEF OneCall
    <3> QED BY <2>1, <2>2, <2>3, <3>1 DEF CallInv, Asking
  <2> QED BY <2>1, <2>4 DEF PromiseInv, HeardEditsSurvive
<1>5. CASE Navigate(c)
  <2>1. risk \cap Known = {} \/ Waives(call[c])
    BY <1>0, <1>5 DEF Navigate, CallInv
  <2>2. \/ SendEdit(c, call[c])
        \/ \E pc \in {"settle", "grid"} : SendSwitch(c, call[c], pc)
    BY <1>5 DEF Navigate
  <2> QED BY <1>0, <2>1, <2>2, SendEditPromise, SendSwitchPromise
<1>6. CASE GridRead(c) \/ WriteNext(c)
  BY <1>0, <1>6, SendEditPromise DEF GridRead, WriteNext
<1>7. CASE WriteDone(c)
  BY <1>0, <1>7, SendStorePromise, FinishPromise DEF WriteDone
<1>8. CASE SendThrew(c)
  BY <1>8, EntryOverPromise DEF SendThrew
<1>9. CASE StoreVerify(c)
  BY <1>9, AskPromise DEF StoreVerify
<1>10. CASE StoreOver(c)
  BY <1>0, <1>10, EntryOverPromise DEF StoreOver
<1> QED BY <1>1, <1>2, <1>3, <1>4, <1>5, <1>6, <1>7, <1>8, <1>9, <1>10 DEF Continue

\* The player does not move under a call, so no edit comes between the STORE
\* of the gate and the navigation; a broadcast may, but of no edit left.
LEMMA EnvironmentPromise ==
  ASSUME OneCall, PanelMidCall = FALSE, PromiseInv, FlagInv', Environment
  PROVE  PromiseInv'
<1>1. CASE PanelEdit \/ (\E l \in Locations : PanelSwitch(l)) \/ PanelSave \/ Reconnect
  <2>1. Quiet /\ call' = call /\ lost' = lost
    BY <1>1 DEF PanelEdit, PanelSwitch, PanelSave, PanelMay, Reconnect, history
  <2>2. ASSUME NEW d \in Calls PROVE CallInv(d)'
    BY <2>1, IdleOK DEF Quiet, CallInv, Asking
  <2> QED BY <2>1, <2>2 DEF PromiseInv, HeardEditsSurvive
<1>2. CASE Deliver
  <2>1. lost' = lost /\ call' = call /\ active' = active
        /\ ("unheard" \notin risk => risk' = risk)
    BY <1>2 DEF Deliver, device
  <2>2. ASSUME NEW d \in Calls PROVE CallInv(d)'
    <3>1. call[d].pc # "checked" /\ CallInv(d)
      BY <1>2 DEF Deliver, PromiseInv
    <3> QED BY <2>1, <3>1 DEF CallInv
  <2> QED BY <2>1, <2>2 DEF PromiseInv, HeardEditsSurvive
<1>3. CASE Restart
  BY <1>3, IdleOK DEF Restart, PromiseInv, HeardEditsSurvive, CallInv, Asking
<1> QED BY <1>1, <1>2, <1>3 DEF Environment

THEOREM PromiseInvariant ==
  ASSUME OneCall, PanelMidCall = FALSE
  PROVE  Spec => []PromiseInv
<1>1. PromiseInv /\ [Next]_vars => PromiseInv'
  <2> SUFFICES ASSUME PromiseInv, [Next]_vars PROVE PromiseInv'
    OBVIOUS
  <2>1. CASE UNCHANGED vars
    BY <2>1 DEF vars, device, history, PromiseInv, FlagInv, TypeOK, DeviceOK,
                FlagTellsTruth, HeardEditsSurvive, CallInv
  <2>2. CASE Next
    <3>1. FlagInv'
      BY <2>2, BeginFlag, ContinueFlag, EnvironmentFlag DEF Next, PromiseInv
    <3> QED BY <2>2, <3>1, BeginPromise, ContinuePromise, EnvironmentPromise DEF Next
  <2> QED BY <2>1, <2>2
<1> QED BY InitPromise, <1>1, PTL DEF Spec

\* The gate's promise: a call that navigates in mode "warn" or
\* "save_active_first" discards no edit the server sent or heard of
\* (tools/shared.ts:202-262), when one call runs at a time and the player
\* does not move under it.
THEOREM HeardEditsAreSafe ==
  ASSUME OneCall, PanelMidCall = FALSE
  PROVE  Spec => []HeardEditsSurvive
<1>1. PromiseInv => HeardEditsSurvive
  BY DEF PromiseInv
<1> QED BY <1>1, PromiseInvariant, PTL

\* What the run checks beside it.
THEOREM GateCorrect ==
  ASSUME OneCall, PanelMidCall = FALSE
  PROVE  Spec => []GateInv
<1>1. PromiseInv => GateInv
  BY DEF PromiseInv, GateInv, FlagInv, CallInv
<1> QED BY <1>1, PromiseInvariant, PTL

----------------------------------------------------------------------------
(* The shape of a step: what a call that is left with the record s has     *)
(* done to the device.                                                     *)

Keeps == UNCHANGED <<device, history>>
Edits == UNCHANGED <<active, flash, lost>> /\ risk \subseteq risk'

Stores(s) == \E l \in Locations :
  /\ MayStore(s, l)
  /\ flash' = [flash EXCEPT ![l] = buffer']
  /\ risk' = {}
  /\ UNCHANGED <<active, lost>>

Leaves(s) == \E l \in Locations :
  /\ active' = l /\ buffer' = flash[l] /\ risk' = {} /\ UNCHANGED flash
  /\ lost' = IF Waives(s) THEN lost ELSE lost \cup (risk \X {s.mode})

\* A switch or a STORE was not carried out: the flag is cleared all the same.
Fails ==
  /\ UNCHANGED <<active, flash, lost>>
  /\ risk' \cap Known = {}
  /\ "cleared" \in risk' \/ (risk \cap Known = {} /\ UNCHANGED buffer)

Moves(c) == Keeps \/ Edits \/ Stores(call'[c]) \/ Leaves(call'[c]) \/ Fails

LEMMA UncoveredFails ==
  ASSUME UNCHANGED <<active, flash, buffer, lost>>, risk' = Uncovered(risk)
  PROVE  Fails
  BY DEF Fails, Uncovered, Known

LEMMA SwitchMoves ==
  ASSUME TypeOK, NEW c \in Calls, NEW r \in CallRec, r.target \in Locations, NEW pc,
         SendSwitch(c, r, pc)
  PROVE  Moves(c)
<1>1. CASE risk' = Uncovered(risk) /\ UNCHANGED <<active, buffer, lost>>
  BY <1>1, UncoveredFails DEF SendSwitch, Moves
<1>2. CASE ~(risk' = Uncovered(risk) /\ UNCHANGED <<active, buffer, lost>>)
  <2>1. PICK a \in BOOLEAN : call' = [call EXCEPT ![c] = [r EXCEPT !.pc = pc, !.acked = a]]
    BY DEF SendSwitch, Resume
  <2>2. call'[c].mode = r.mode
    BY <2>1 DEF TypeOK, CallRec
  <2>3. /\ active' = r.target /\ buffer' = flash[r.target] /\ risk' = {}
        /\ lost' = IF Waives(r) THEN lost ELSE lost \cup (risk \X {r.mode})
        /\ UNCHANGED flash
    BY <1>2 DEF SendSwitch
  <2> QED BY <2>2, <2>3 DEF Moves, Leaves, Waives
<1> QED BY <1>1, <1>2

LEMMA EditMoves ==
  ASSUME NEW c \in Calls, NEW r, SendEdit(c, r)
  PROVE  Moves(c)
  BY DEF SendEdit, Moves, Edits

LEMMA StoreMoves ==
  ASSUME TypeOK, NEW c \in Calls, NEW r \in CallRec, NEW l \in Locations, NEW pc,
         MayStore(r, l), SendStore(c, r, l, pc)
  PROVE  Moves(c)
<1>1. PICK out \in StoreOutcomes :
        /\ IF out # "lost"
           THEN flash' = [flash EXCEPT ![l] = buffer] /\ risk' = {}
           ELSE UNCHANGED flash /\ risk' = Uncovered(risk)
        /\ Resume(c, [r EXCEPT !.pc = pc, !.acked = (out = "ok") /\ listening'])
  BY DEF SendStore
<1>2. UNCHANGED <<active, buffer, lost>>
  BY DEF SendStore
<1>3. CASE out = "lost"
  BY <1>1, <1>2, <1>3, UncoveredFails DEF Moves
<1>4. CASE out # "lost"
  <2> DEFINE s == [r EXCEPT !.pc = pc, !.acked = (out = "ok") /\ listening']
  <2>1. /\ s.tool = r.tool /\ s.target = r.target /\ s.save = r.save /\ s.at = r.at
        /\ s.mode = r.mode
    BY DEF CallRec
  <2>2. call'[c] = s
    BY <1>1 DEF Resume, TypeOK
  <2> HIDE DEF s
  <2>3. MayStore(s, l)
    BY <2>1 DEF MayStore
  <2> QED BY <1>1, <1>2, <1>4, <2>2, <2>3 DEF Moves, Stores
<1> QED BY <1>3, <1>4

LEMMA FinishMoves ==
  ASSUME NEW c \in Calls, Finish(c)
  PROVE  Moves(c)
  BY DEF Finish, Moves, Keeps

LEMMA EntryOverMoves ==
  ASSUME TypeOK, NEW c \in Calls, NEW ok, EntryOver(c, ok)
  PROVE  Moves(c)
<1>1. ASSUME NEW l \in call[c].more,
             SendSwitch(c, [call[c] EXCEPT !.target = l, !.more = @ \ {l},
                                           !.mode = "reported"], "grid")
      PROVE  Moves(c)
  <2> DEFINE r == [call[c] EXCEPT !.target = l, !.more = @ \ {l}, !.mode = "reported"]
  <2>1. call[c] \in CallRec /\ l \in Locations
    BY DEF TypeOK, CallRec
  <2>2. r \in CallRec /\ r.target = l
    BY <2>1 DEF CallRec, NavModes
  <2> HIDE DEF r
  <2>3. SendSwitch(c, r, "grid")
    BY <1>1 DEF r
  <2> QED BY <2>1, <2>2, <2>3, SwitchMoves
<1> QED BY <1>1, FinishMoves DEF EntryOver

LEMMA BeginMoves ==
  ASSUME TypeOK, NEW c \in Calls, Begin(c)
  PROVE  Moves(c)
<1>1. ASSUME NEW r, Gate(c, r) PROVE Moves(c)
  BY <1>1 DEF Gate, Moves, Keeps
<1>2. ASSUME NEW l \in Locations
      PROVE  Saving(l) \in CallRec /\ Saving(l).tool = "save_preset" /\ Saving(l).target = l
  BY NewOK DEF Saving, CallRec, AllTools
<1>3. ASSUME NEW l \in Locations, StartSavePreset(c, l)
      PROVE  Moves(c)
  <2>1. MayStore(Saving(l), l)
    BY <1>2 DEF MayStore
  <2> HIDE DEF Saving
  <2> QED BY <1>2, <1>3, <2>1, StoreMoves DEF StartSavePreset
<1>4. ASSUME NEW l \in Locations, StartSaveNamed(c, l)
      PROVE  Moves(c)
  <2>1. PICK out \in StoreOutcomes :
          /\ IF out # "lost"
             THEN flash' = [flash EXCEPT ![l] = buffer'] /\ risk' = {}
             ELSE UNCHANGED flash /\ risk' = Uncovered(risk \cup {"tool"})
          /\ Resume(c, [Saving(l) EXCEPT !.pc = "storeAck",
                                         !.acked = (out = "ok") /\ listening'])
    BY <1>4 DEF StartSaveNamed
  <2>2. UNCHANGED <<active, lost>>
    BY <1>4 DEF StartSaveNamed
  <2> HIDE DEF Saving
  <2>3. call'[c].tool = "save_preset" /\ call'[c].target = l
    BY <1>2, <2>1 DEF Resume, TypeOK, CallRec
  <2>4. CASE out = "lost"
    BY <2>1, <2>2, <2>4 DEF Moves, Fails, Uncovered, Known
  <2>5. CASE out # "lost"
    BY <2>1, <2>2, <2>3, <2>5 DEF Moves, Stores, MayStore
  <2> QED BY <2>4, <2>5
<1>5. CASE StartSetParam(c)
  BY <1>5, EditMoves DEF StartSetParam
<1>6. CASE SaveRenameThrows(c)
  BY <1>6 DEF SaveRenameThrows, Moves, Keeps
<1> QED BY <1>1, <1>3, <1>4, <1>5, <1>6
        DEF Begin, StartSwitchPreset, StartTestApply, StartApplyPreset, StartApplySetlist

LEMMA ContinueMoves ==
  ASSUME TypeOK, NEW c \in Calls, Continue(c), CallInv(c)
  PROVE  Moves(c)
<1>1. call[c] \in CallRec /\ Ready(call[c])
  BY DEF TypeOK
<1>2. call[c].target \in Locations \cup {None} /\ call[c].at \in Locations \cup {None}
  BY <1>1 DEF CallRec
<1>3. SaveActiveFirst(c) => Moves(c)
  <2> SUFFICES ASSUME SaveActiveFirst(c) PROVE Moves(c)
    OBVIOUS
  <2>1. call[c].at \in Locations /\ MayStore(call[c], call[c].at)
    BY <1>2 DEF SaveActiveFirst, CallInv, Asking, MayStore
  <2> QED BY <1>1, <2>1, StoreMoves DEF SaveActiveFirst
<1>4. Navigate(c) => Moves(c)
  <2> SUFFICES ASSUME Navigate(c) PROVE Moves(c)
    OBVIOUS
  <2>1. call[c].tool \in Gated
    BY <1>1 DEF Navigate, Ready
  <2>2. CASE call[c].tool = "test_apply"
    BY <2>2, EditMoves DEF Navigate
  <2>3. CASE call[c].tool # "test_apply"
    <3>1. call[c].target \in Locations
      BY <1>1, <1>2, <2>1, <2>3 DEF Ready, Gated, Targeted, AllTools
    <3>2. SendSwitch(c, call[c], "settle") \/ SendSwitch(c, call[c], "grid")
      BY <2>3 DEF Navigate
    <3> QED BY <1>1, <3>1, <3>2, SwitchMoves
  <2> QED BY <2>2, <2>3
<1>5. WriteDone(c) => Moves(c)
  <2> SUFFICES ASSUME WriteDone(c) PROVE Moves(c)
    OBVIOUS
  <2>1. CASE call[c].save
    <3>1. call[c].target \in Locations /\ MayStore(call[c], call[c].target)
      BY <1>1, <1>2, <2>1 DEF Ready, Batching, Targeted, AllTools, MayStore
    <3> QED BY <1>1, <2>1, <3>1, StoreMoves DEF WriteDone
  <2> QED BY <2>1, FinishMoves DEF WriteDone
<1>6. GridRead(c) \/ WriteNext(c) => Moves(c)
  BY EditMoves DEF GridRead, WriteNext
<1>7. SendThrew(c) \/ StoreOver(c) => Moves(c)
  BY EntryOverMoves DEF SendThrew, StoreOver
\* The steps that only ask, pass on, refuse or end.
<1>8. GateNumber(c) \/ StoreVerify(c) \/ ActiveSaved(c) => Moves(c)
  BY DEF GateNumber, StoreVerify, ActiveSaved, Ask, Moves, Keeps
<1>9. Refuse(c) \/ ActiveNotSaved(c) \/ Settled(c) => Moves(c)
  BY FinishMoves DEF Refuse, ActiveNotSaved, Settled
<1> QED BY <1>3, <1>4, <1>5, <1>6, <1>7, <1>8, <1>9 DEF Continue

----------------------------------------------------------------------------
(* What is stored, and the contract.                                       *)

LEMMA StepMoves ==
  ASSUME PromiseInv, Next
  PROVE  (\E c \in Calls : Moves(c)) \/ Environment
  BY BeginMoves, ContinueMoves DEF Next, PromiseInv, FlagInv

\* No slot is overwritten but by the tool its caller named it to and authorized
\* to save, by the gate for the preset being left, or by the player
\* (SaveActiveFirst, WriteDone, StartSavePreset).
THEOREM NothingSilentlyOverwritten ==
  ASSUME OneCall, PanelMidCall = FALSE
  PROVE  Spec => NoSilentOverwrite
<1> DEFINE Allowed(l) ==
      flash'[l] # flash[l] =>
        \/ \E c \in Calls : MayStore(call'[c], l)
        \/ PanelSave /\ l = active
<1>1. ASSUME PromiseInv, [Next]_vars
      PROVE  [\A l \in Locations : Allowed(l)]_vars
  <2> SUFFICES ASSUME Next, NEW l \in Locations, flash'[l] # flash[l] PROVE Allowed(l)
    BY <1>1
  <2>0. flash \in [Locations -> Content]
    BY <1>1 DEF PromiseInv, FlagInv, TypeOK, DeviceOK
  <2>1. ASSUME NEW c \in Calls, Moves(c) PROVE Allowed(l)
    <3>1. ~Keeps /\ ~Edits /\ ~Leaves(call'[c]) /\ ~Fails
      BY DEF Keeps, device, Edits, Leaves, Fails
    <3>2. PICK k \in Locations : MayStore(call'[c], k) /\ flash' = [flash EXCEPT ![k] = buffer']
      BY <2>1, <3>1 DEF Moves, Stores
    <3>3. l = k
      BY <2>0, <3>2
    <3> QED BY <3>2, <3>3
  <2>2. CASE Environment
    BY <2>0, <2>2 DEF Environment, PanelEdit, PanelSwitch, PanelSave, Deliver, Reconnect,
                      Restart, device
  <2> QED BY <1>1, <2>1, <2>2, StepMoves
<1>2. PromiseInv /\ [Next]_vars => [\A l \in Locations : Allowed(l)]_vars
  BY <1>1
<1> QED BY <1>2, PromiseInvariant, PTL DEF Spec, NoSilentOverwrite

\* Who waives the loss, in the contract's terms.
Waived == \/ Quiet
          \/ \E c \in Calls : Waives(call[c])
          \/ risk \cap Known = {} /\ "cleared" \in risk

\* A step of a call is a step of the contract.
LEMMA MovesRefine ==
  ASSUME TypeOK, TypeOK', HeardEditsSurvive', NEW c \in Calls, Moves(c)
  PROVE  Abstract!ContractNext
<1>1. Waived' \in BOOLEAN /\ (risk \cap Known # {})' \in BOOLEAN
  BY DEF Waived
<1>2. flash \in [Locations -> Content] /\ buffer' \in Content
  BY DEF TypeOK, DeviceOK
<1>3. CASE Keeps
  BY <1>1, <1>3 DEF Keeps, device, history, Abstract!ContractNext, Abstract!Callers, Waived
<1>4. CASE Edits
  <2>1. Abstract!Edit
    BY <1>1, <1>2, <1>4 DEF Edits, Abstract!Edit
  <2> QED BY <1>1, <2>1 DEF Abstract!ContractNext, Waived
<1>5. CASE Stores(call'[c])
  <2>1. PICK l \in Locations : /\ flash' = [flash EXCEPT ![l] = buffer'] /\ risk' = {}
                               /\ UNCHANGED active
    BY <1>5 DEF Stores
  <2>2. Abstract!Store(l)
    BY <1>2, <2>1 DEF Abstract!Store
  <2> QED BY <1>1, <2>2 DEF Abstract!ContractNext, Waived
<1>6. CASE Leaves(call'[c])
  <2>1. PICK l \in Locations :
          /\ active' = l /\ buffer' = flash[l] /\ risk' = {} /\ UNCHANGED flash
          /\ Waives(call'[c]) \/ lost' = lost \cup (risk \X {call'[c].mode})
    BY <1>6 DEF Leaves
  <2>2. ASSUME risk \cap Known # {}, ~Waives(call'[c]) PROVE FALSE
    <3>1. call'[c].mode \in {"warn", "save_active_first"}
      BY <2>2 DEF TypeOK, CallRec, NavModes, AllModes, Waives
    <3>2. PICK k \in risk \cap Known : <<k, call'[c].mode>> \in lost'
      BY <2>1, <2>2
    <3> QED BY <3>1, <3>2 DEF HeardEditsSurvive
  <2>3. risk \cap Known # {} => Waived'
    BY <2>2 DEF Waived
  <2>4. Abstract!Leave(l)
    BY <2>1, <2>3 DEF Abstract!Leave, Waived
  <2> QED BY <1>1, <2>4 DEF Abstract!ContractNext, Waived
<1>7. CASE Fails
  <2>1. CASE "cleared" \in risk'
    <3>1. Waived'
      BY <1>7, <2>1 DEF Fails, Waived
    <3>2. Abstract!Forget
      BY <1>2, <1>7, <3>1 DEF Fails, Abstract!Forget, Waived
    <3> QED BY <1>1, <3>2 DEF Abstract!ContractNext, Waived
  <2>2. CASE risk \cap Known = {} /\ UNCHANGED buffer
    BY <1>1, <1>7, <2>2 DEF Fails, Abstract!ContractNext, Abstract!Callers, Waived
  <2> QED BY <1>7, <2>1, <2>2 DEF Fails
<1> QED BY <1>3, <1>4, <1>5, <1>6, <1>7 DEF Moves

\* So is what the player, the wire, the connection and the process do.
LEMMA EnvironmentRefines ==
  ASSUME PanelMidCall = FALSE, TypeOK, TypeOK', Environment
  PROVE  Abstract!ContractNext
<1>1. Waived' \in BOOLEAN /\ (risk \cap Known # {})' \in BOOLEAN
  BY DEF Waived
<1>2. buffer' \in Content /\ active \in Locations
  BY DEF TypeOK, DeviceOK
<1>3. CASE PanelEdit \/ Deliver
  <2>1. UNCHANGED <<active, flash>> /\ (risk \cap Known # {} => risk' \cap Known # {})
    BY <1>3 DEF PanelEdit, Deliver, device, Known
  <2>2. Abstract!Edit
    BY <1>1, <1>2, <2>1 DEF Abstract!Edit
  <2> QED BY <1>1, <2>2 DEF Abstract!ContractNext, Waived
<1>4. ASSUME NEW l \in Locations, PanelSwitch(l) PROVE Abstract!ContractNext
  <2>1. Quiet'
    BY <1>4 DEF PanelSwitch, PanelMay, Quiet
  <2>2. Abstract!Leave(l)
    BY <1>4, <2>1 DEF PanelSwitch, Abstract!Leave
  <2> QED BY <1>1, <2>2 DEF Abstract!ContractNext, Waived
<1>5. CASE PanelSave
  <2>1. Abstract!Store(active)
    BY <1>2, <1>5 DEF PanelSave, Abstract!Store
  <2> QED BY <1>1, <1>2, <2>1 DEF Abstract!ContractNext, Waived
<1>6. CASE Reconnect
  BY <1>1, <1>6 DEF Reconnect, device, history, Abstract!ContractNext, Abstract!Callers,
                    Waived
<1>7. CASE Restart
  <2>1. Quiet'
    BY <1>7 DEF Restart, Quiet
  <2>2. Abstract!Forget
    BY <1>2, <1>7, <2>1 DEF Restart, device, Abstract!Forget
  <2> QED BY <1>1, <2>2 DEF Abstract!ContractNext, Waived
<1> QED BY <1>3, <1>4, <1>5, <1>6, <1>7 DEF Environment

\* The Axe-Fx II gate implements the safe-edit contract: it edits, stores, and
\* leaves a buffer with edits it knows of when the loss was waived; where it
\* forgets them, a request was not carried out or the server restarted.
THEOREM GateImplementsContract ==
  ASSUME OneCall, PanelMidCall = FALSE
  PROVE  Spec => ImplementsContract
<1>1. Init => Abstract!ContractInit
  BY DEF Init, Abstract!ContractInit, Content
<1>2. ASSUME PromiseInv, PromiseInv', [Next]_vars
      PROVE  [Abstract!ContractNext]_(Abstract!contractVars)
  <2>1. CASE UNCHANGED vars
    BY <2>1 DEF vars, device, history, Abstract!contractVars, Quiet
  <2>2. CASE Next
    BY <1>2, <2>2, StepMoves, MovesRefine, EnvironmentRefines DEF PromiseInv, FlagInv
  <2> QED BY <1>2, <2>1, <2>2
<1>3. PromiseInv /\ PromiseInv' /\ [Next]_vars
      => [Abstract!ContractNext]_(Abstract!contractVars)
  BY <1>2
<1> QED BY <1>1, <1>3, PromiseInvariant, PTL DEF Spec, ImplementsContract, Abstract!Contract
=============================================================================
