---------------------- MODULE AxeFxIIISafeEdit_proofs ----------------------
(***************************************************************************)
(* Proofs about AxeFxIIISafeEdit, for any number of slots, calls in flight *)
(* and broadcasts under way: its type invariant, that the flag tells the   *)
(* truth, and the gate's promise.                                          *)
(***************************************************************************)
EXTENDS AxeFxIIISafeEdit, TLAPS

\* The promise rests on the flag and on which mode waits for a STORE, which
\* is part of TypeOK.
GateInv == TypeOK /\ FlagTellsTruth /\ HeardEditsSurvive

LEMMA InitGate == Init => GateInv
<1> SUFFICES ASSUME Init PROVE GateInv
  OBVIOUS
<1>1. Idle \in CallRec /\ Ready(Idle)
  BY DEF Idle, CallRec, Ready, Modes
<1>2. TypeOK
  BY <1>1 DEF Init, TypeOK
<1> QED
  BY <1>2 DEF Init, GateInv, FlagTellsTruth, HeardEditsSurvive

----------------------------------------------------------------------------
(* The three sends.                                                        *)

\* A write keeps the invariant when the caller's record is fit to wait and,
\* if it does not mark now, no edit was waiting for it to.
LEMMA SendWriteGate ==
  ASSUME GateInv, NEW c \in Calls, NEW r \in CallRec, NEW write \in WriteKinds,
         NEW marks \in BOOLEAN, open' \subseteq Handles,
         SendWrite(c, r, write, marks),
         marks \/ ~(call[c].pc = "watch" /\ MarksNow(call[c]))
  PROVE  GateInv'
<1> USE AxeFxIIIConstants
<1>a. RiskOf(write) \in Kinds
  BY DEF RiskOf, Kinds
<1>b. Covered(risk, marks) \subseteq Kinds
  BY DEF GateInv, TypeOK, Covered, Kinds
<1>1. risk' \subseteq Kinds /\ lost' = {} /\ active' = active /\ inflight' \in Nat
      /\ dirty' \in BOOLEAN
  <2>1. risk' \subseteq Kinds /\ lost' = {} /\ active' = active
    BY <1>a, <1>b DEF SendWrite
  <2>2. inflight' \in Nat
    <3>1. MayReport \/ inflight' = inflight
      BY DEF SendWrite
    <3> QED BY <3>1 DEF MayReport, GateInv, TypeOK
  <2>3. dirty' = (dirty \/ marks \/ write \in MarkedFirst)
    BY DEF SendWrite
  <2>4. dirty' \in BOOLEAN
    BY <2>3, Zenon
  <2> QED BY <2>1, <2>2, <2>4
<1>2. \E s \in BOOLEAN :
        call' = [call EXCEPT ![c] = [r EXCEPT !.pc = "watch", !.write = write, !.sent = s]]
  BY DEF SendWrite, Resume
<1>3. PICK s \in BOOLEAN :
        call' = [call EXCEPT ![c] = [r EXCEPT !.pc = "watch", !.write = write, !.sent = s]]
  BY <1>2
<1>4. call' \in [Calls -> CallRec] /\ \A d \in Calls : Ready(call'[d])
  <2>1. [r EXCEPT !.pc = "watch", !.write = write, !.sent = s] \in CallRec
    BY DEF CallRec
  <2>2. Ready([r EXCEPT !.pc = "watch", !.write = write, !.sent = s])
    BY DEF CallRec, Ready, WriteKinds
  <2> QED BY <1>3, <2>1, <2>2 DEF GateInv, TypeOK
<1>5. TypeOK'
  BY <1>1, <1>4 DEF GateInv, TypeOK
<1>6. FlagTellsTruth'
  <2>1. ASSUME risk' \cap Known # {}  PROVE dirty'
    BY <2>1 DEF SendWrite, GateInv, TypeOK, FlagTellsTruth, Covered, RiskOf, Known, Kinds,
                WriteKinds, MarkedFirst
  <2>2. ASSUME "late" \in risk'
        PROVE  \E d \in Calls : call'[d].pc = "watch" /\ MarksNow(call'[d])
    <3>2. CASE "late" \in Covered(risk, marks)
      <4>1. "late" \in risk /\ ~marks
        BY <3>2 DEF Covered
      <4>2. PICK d \in Calls : call[d].pc = "watch" /\ MarksNow(call[d])
        BY <4>1 DEF GateInv, FlagTellsTruth
      <4>3. d # c
        BY <4>1, <4>2
      <4>4. call'[d] = call[d]
        BY <4>3, <1>3 DEF GateInv, TypeOK
      <4> QED BY <4>2, <4>4
    <3>3. CASE "late" \notin Covered(risk, marks)
      <4>1. RiskOf(write) = "late" /\ call' = [call EXCEPT ![c] =
              [r EXCEPT !.pc = "watch", !.write = write, !.sent = TRUE]]
        BY <2>2, <3>3 DEF SendWrite, Resume
      <4>2. write = "param"
        BY <4>1 DEF RiskOf, WriteKinds, MarkedFirst
      <4>3. call'[c].pc = "watch" /\ MarksNow(call'[c])
        BY <4>1, <4>2 DEF GateInv, TypeOK, CallRec, MarksNow
      <4> QED BY <4>3
    <3> QED BY <3>2, <3>3
  <2> QED BY <2>1, <2>2 DEF FlagTellsTruth
<1>7. HeardEditsSurvive'
  BY <1>1 DEF HeardEditsSurvive
<1> QED BY <1>5, <1>6, <1>7 DEF GateInv

\* The program change keeps it when the call may go: the flag was clear or
\* the mode is not "warn".
LEMMA SendSwitchGate ==
  ASSUME GateInv, NEW c \in Calls, NEW r \in CallRec, open' \subseteq Handles,
         r.target # None, SendSwitch(c, r), ~dirty \/ r.mode # "warn",
         call[c].pc # "watch"
  PROVE  GateInv'
<1> USE AxeFxIIIConstants
<1>1. call' = [call EXCEPT ![c] = Idle] /\ inflight' = inflight /\ dirty' = FALSE
  BY DEF SendSwitch, Resume
<1>2. call' \in [Calls -> CallRec] /\ \A d \in Calls : Ready(call'[d])
  BY <1>1 DEF GateInv, TypeOK, CallRec, Ready, Idle, Modes
<1>3. risk' \subseteq Kinds /\ lost' \subseteq Kinds \X Modes /\ active' \in Locations
  BY DEF SendSwitch, GateInv, TypeOK, CallRec, Uncovered, Known, Kinds
<1>4. TypeOK'
  BY <1>1, <1>2, <1>3 DEF GateInv, TypeOK
<1>5. FlagTellsTruth'
  <2>1. risk' \cap Known = {}
    BY DEF SendSwitch, Uncovered, Known
  <2>2. "late" \in risk' => \E d \in Calls : call'[d].pc = "watch" /\ MarksNow(call'[d])
    <3> SUFFICES ASSUME "late" \in risk'
                 PROVE  \E d \in Calls : call'[d].pc = "watch" /\ MarksNow(call'[d])
      OBVIOUS
    <3>1. "late" \in risk
      BY DEF SendSwitch, Uncovered
    <3>2. PICK d \in Calls : call[d].pc = "watch" /\ MarksNow(call[d])
      BY <3>1 DEF GateInv, FlagTellsTruth
    <3>3. call'[d] = call[d]
      BY <3>2, <1>1 DEF GateInv, TypeOK
    <3> QED BY <3>2, <3>3
  <2> QED BY <2>1, <2>2 DEF FlagTellsTruth
<1>6. HeardEditsSurvive'
  BY DEF SendSwitch, GateInv, FlagTellsTruth, HeardEditsSurvive
<1> QED BY <1>4, <1>5, <1>6 DEF GateInv

\* The gate's STORE, from the slot it read.
LEMMA SendStoreGate ==
  ASSUME GateInv, NEW c \in Calls, call[c].pc = "gateName", call[c].at # None,
         call[c].mode = "save_active_first", UNCHANGED open, SendStore(c, call[c])
  PROVE  GateInv'
<1> USE AxeFxIIIConstants
<1>1. PICK refused \in BOOLEAN :
        call' = [call EXCEPT ![c] = [call[c] EXCEPT !.pc = "gateStore", !.refused = refused]]
  BY DEF SendStore, Resume
<1>2. call[c] \in CallRec /\ Ready(call[c])
  BY DEF GateInv, TypeOK
<1>3. [call[c] EXCEPT !.pc = "gateStore", !.refused = refused] \in CallRec
  BY <1>2 DEF CallRec
<1>4. Ready([call[c] EXCEPT !.pc = "gateStore", !.refused = refused])
  BY <1>2 DEF CallRec, Ready
<1>5. active' = active /\ inflight' = inflight /\ lost' = {} /\ dirty' = FALSE /\ open' = open
  BY DEF SendStore
<1>6. risk' \in {{}, Uncovered(risk)}
  BY DEF SendStore
<1>7. risk' \subseteq Kinds /\ risk' \cap Known = {} /\ ("late" \in risk' => "late" \in risk)
  BY <1>6 DEF GateInv, TypeOK, Uncovered, Kinds, Known
<1>8. TypeOK'
  BY <1>1, <1>3, <1>4, <1>5, <1>7 DEF GateInv, TypeOK
<1>9. ASSUME "late" \in risk'
      PROVE  \E d \in Calls : call'[d].pc = "watch" /\ MarksNow(call'[d])
  <2>1. PICK d \in Calls : call[d].pc = "watch" /\ MarksNow(call[d])
    BY <1>7, <1>9 DEF GateInv, FlagTellsTruth
  <2>2. call'[d] = call[d]
    BY <2>1, <1>1 DEF GateInv, TypeOK
  <2> QED BY <2>1, <2>2
<1> QED BY <1>5, <1>7, <1>8, <1>9 DEF GateInv, FlagTellsTruth, HeardEditsSurvive

\* A call that is not about to mark the flag ends or asks; nothing else moves.
LEMMA AskGate ==
  ASSUME GateInv, NEW c \in Calls, NEW r \in CallRec, Ready(r), open' \subseteq Handles,
         call' = [call EXCEPT ![c] = r], call[c].pc # "watch", lost' = {},
         UNCHANGED <<active, inflight, dirty, risk>>
  PROVE  GateInv'
<1>1. TypeOK'
  BY DEF GateInv, TypeOK
<1>2. ASSUME "late" \in risk'
      PROVE  \E d \in Calls : call'[d].pc = "watch" /\ MarksNow(call'[d])
  <2>1. PICK d \in Calls : call[d].pc = "watch" /\ MarksNow(call[d])
    BY <1>2 DEF GateInv, FlagTellsTruth
  <2>2. call'[d] = call[d]
    BY <2>1 DEF GateInv, TypeOK
  <2> QED BY <2>1, <2>2
<1> QED BY <1>1, <1>2 DEF GateInv, FlagTellsTruth, HeardEditsSurvive

----------------------------------------------------------------------------
(* The steps.                                                              *)

LEMMA IdleOK == Idle \in CallRec /\ Ready(Idle) /\ Idle.pc = "idle"
  BY DEF Idle, CallRec, Ready, Modes

LEMMA BeginGate ==
  ASSUME GateInv, NEW c \in Calls, Begin(c)
  PROVE  GateInv'
<1> USE AxeFxIIIConstants
<1>0. open \subseteq Handles
  BY DEF GateInv, TypeOK
<1>1. ASSUME NEW l \in Locations, NEW m \in Modes, StartSwitchPreset(c, l, m)
      PROVE  GateInv'
  <2> DEFINE r == [New("switch_preset") EXCEPT !.target = l, !.mode = m]
  <2>1. r \in CallRec /\ r.target = l /\ r.mode = m
    BY IdleOK DEF New, CallRec, AllTools, Idle
  <2>2. open' \subseteq Handles /\ SendSwitch(c, r) /\ call[c].pc # "watch"
    BY <1>0, <1>1, IdleOK DEF StartSwitchPreset, Opens, Handles
  <2>3. ~dirty \/ r.mode # "warn"
    BY <1>1, <2>1 DEF StartSwitchPreset
  <2> HIDE DEF r
  <2> QED BY <2>1, <2>2, <2>3, SendSwitchGate
<1>2. ASSUME NEW l \in Locations, NEW m \in Modes, StartGate(c, l, m)
      PROVE  GateInv'
  <2>1. PICK answered \in BOOLEAN :
          call' = [call EXCEPT ![c] = [New("switch_preset") EXCEPT
                     !.pc = "gateName", !.target = l, !.mode = m,
                     !.at = IF answered THEN active ELSE None]]
    BY <1>2 DEF StartGate, Resume
  <2> DEFINE r == [New("switch_preset") EXCEPT
                     !.pc = "gateName", !.target = l, !.mode = m,
                     !.at = IF answered THEN active ELSE None]
  <2>2. r \in CallRec /\ Ready(r)
    BY DEF New, Idle, CallRec, AllTools, Ready, GateInv, TypeOK
  <2>3. open' \subseteq Handles /\ call[c].pc # "watch" /\ lost' = {}
        /\ UNCHANGED <<active, inflight, dirty, risk>>
    BY <1>0, <1>2, IdleOK DEF StartGate
  <2>4. call' = [call EXCEPT ![c] = r]
    BY <2>1
  <2> HIDE DEF r
  <2> QED BY <2>2, <2>3, <2>4, AskGate
<1>3. ASSUME NEW tool \in AllTools, NEW write \in WriteKinds, StartWrite(c, tool, write)
      PROVE  GateInv'
  <2>1. New(tool) \in CallRec
    BY DEF New, Idle, CallRec, Modes
  <2>2. open' \subseteq Handles /\ SendWrite(c, New(tool), write, FALSE) /\ call[c].pc # "watch"
    BY <1>0, <1>3, IdleOK DEF StartWrite, Opens, Handles
  <2> QED BY <2>1, <2>2, SendWriteGate
<1> QED BY <1>1, <1>2, <1>3 DEF Begin

LEMMA ContinueGate ==
  ASSUME GateInv, NEW c \in Calls, Continue(c)
  PROVE  GateInv'
<1> USE AxeFxIIIConstants
<1>0. open \subseteq Handles /\ call[c] \in CallRec /\ Ready(call[c])
  BY DEF GateInv, TypeOK
<1>1. CASE Refuse(c)
  BY <1>0, <1>1, IdleOK, AskGate DEF Refuse, Resume
<1>2. CASE SaveActiveFirst(c)
  BY <1>2, SendStoreGate DEF SaveActiveFirst
<1>3. CASE ActiveSaved(c)
  BY <1>0, <1>3, SendSwitchGate DEF ActiveSaved, Ready
<1>4. CASE ActiveNotSaved(c)
  BY <1>0, <1>4, IdleOK, AskGate DEF ActiveNotSaved, Resume
<1>5. ASSUME NEW write \in WriteKinds, WriteNext(c, write)
      PROVE  GateInv'
  <2>1. MarksNow(call[c]) \in BOOLEAN
    BY <1>0 DEF MarksNow, CallRec
  <2> QED BY <1>0, <1>5, <2>1, SendWriteGate DEF WriteNext
<1>6. CASE WriteDone(c)
  <2>1. MarksNow(call[c]) \in BOOLEAN
    BY <1>0 DEF MarksNow, CallRec
  <2>2. call' = [call EXCEPT ![c] = Idle] /\ lost' = {}
        /\ UNCHANGED <<active, inflight, open>>
    BY <1>6 DEF WriteDone, Resume
  <2>3. dirty' = (dirty \/ MarksNow(call[c])) /\ risk' = Covered(risk, MarksNow(call[c]))
    BY <1>6 DEF WriteDone
  <2>4. risk' \subseteq Kinds
    BY <2>3 DEF GateInv, TypeOK, Covered, Kinds
  <2>5. dirty' \in BOOLEAN
    BY <2>3, Zenon
  <2>6. TypeOK'
    BY <2>2, <2>4, <2>5, IdleOK DEF GateInv, TypeOK
  <2>7. risk' \cap Known # {} => dirty'
    BY <2>1, <2>3 DEF GateInv, FlagTellsTruth, Covered, Known
  <2>8. ASSUME "late" \in risk'
        PROVE  \E d \in Calls : call'[d].pc = "watch" /\ MarksNow(call'[d])
    <3>1. "late" \in risk /\ ~MarksNow(call[c])
      BY <2>1, <2>3, <2>8 DEF Covered
    <3>2. PICK d \in Calls : call[d].pc = "watch" /\ MarksNow(call[d])
      BY <3>1 DEF GateInv, FlagTellsTruth
    <3>3. d # c
      BY <3>1, <3>2
    <3>4. call'[d] = call[d]
      BY <2>2, <3>3 DEF GateInv, TypeOK
    <3> QED BY <3>2, <3>4
  <2> QED BY <2>2, <2>6, <2>7, <2>8 DEF GateInv, FlagTellsTruth, HeardEditsSurvive
<1> QED BY <1>1, <1>2, <1>3, <1>4, <1>5, <1>6 DEF Continue

LEMMA EnvironmentGate ==
  ASSUME GateInv, Environment
  PROVE  GateInv'
<1>1. CASE PanelEdit
  <2>1. TypeOK'
    BY <1>1 DEF PanelEdit, MayReport, GateInv, TypeOK, Kinds
  <2> QED BY <1>1, <2>1 DEF PanelEdit, GateInv, FlagTellsTruth, HeardEditsSurvive, Known
<1>2. ASSUME NEW l \in Locations, PanelSwitch(l)
      PROVE  GateInv'
  BY <1>2 DEF PanelSwitch, GateInv, TypeOK, FlagTellsTruth, HeardEditsSurvive
<1>3. CASE PanelSave
  BY <1>3 DEF PanelSave, GateInv, TypeOK, FlagTellsTruth, HeardEditsSurvive
<1>4. CASE Deliver
  <2>1. TypeOK'
    BY <1>4 DEF Deliver, GateInv, TypeOK, Kinds
  <2> QED BY <1>4, <2>1 DEF Deliver, GateInv, FlagTellsTruth, HeardEditsSurvive, Known
<1>5. ASSUME NEW h \in Handles, Reconnect(h)
      PROVE  GateInv'
  BY <1>5 DEF Reconnect, GateInv, TypeOK, FlagTellsTruth, HeardEditsSurvive
<1>6. CASE Restart
  BY <1>6, IdleOK DEF Restart, GateInv, TypeOK, FlagTellsTruth, HeardEditsSurvive
<1> QED BY <1>1, <1>2, <1>3, <1>4, <1>5, <1>6 DEF Environment

----------------------------------------------------------------------------
(* The theorems.                                                           *)

\* The invariant holds of every behaviour.
THEOREM GateInvariant == Spec => []GateInv
<1>1. GateInv /\ [Next]_vars => GateInv'
  <2> SUFFICES ASSUME GateInv, [Next]_vars PROVE GateInv'
    OBVIOUS
  <2>1. CASE UNCHANGED vars
    BY <2>1 DEF vars, GateInv, TypeOK, FlagTellsTruth, HeardEditsSurvive
  <2> QED BY <2>1, BeginGate, ContinueGate, EnvironmentGate DEF Next
<1> QED BY InitGate, <1>1, PTL DEF Spec

\* Types are kept, whatever the constants.
THEOREM TypeCorrect == Spec => []TypeOK
<1>1. GateInv => TypeOK
  BY DEF GateInv
<1> QED BY <1>1, GateInvariant, PTL

\* The flag covers every marked or reported edit, with any number of calls in
\* flight (midi.ts:114-131).
THEOREM FlagIsTrue == Spec => []FlagTellsTruth
<1>1. GateInv => FlagTellsTruth
  BY DEF GateInv
<1> QED BY <1>1, GateInvariant, PTL

\* A switch in mode "warn" discards no edit the flag covers, with any number
\* of calls in flight (tools/shared.ts:215-261).
THEOREM HeardEditsAreSafe == Spec => []HeardEditsSurvive
<1>1. GateInv => HeardEditsSurvive
  BY DEF GateInv
<1> QED BY <1>1, GateInvariant, PTL
=============================================================================
