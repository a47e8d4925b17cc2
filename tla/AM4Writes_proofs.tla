-------------------------- MODULE AM4Writes_proofs --------------------------
(***************************************************************************)
(* What TLAPS proves of the AM4's parameter writes and the channels they   *)
(* land in.                                                                *)
(*                                                                         *)
(* Of AM4Channels: its type invariant for any number of calls in flight    *)
(* and whatever is lost; and, for one call at a time, that the channel     *)
(* cache is right and that success is not reported wrongly, but for the    *)
(* blocks that a write whose echo was lost has moved.                      *)
(*                                                                         *)
(* Of AM4ApplyPreset: for any blocks, types, channels, scenes and          *)
(* positions, any specification and any buffer, that apply_preset makes of *)
(* the buffer what was asked.  The buffer is always what the writes sent   *)
(* so far have made of the one the call began with, so everything said of  *)
(* it when all are sent is said of running the prepared list.  The list is *)
(* built in loops, over the slots, the channels of a slot and the scenes;  *)
(* each loop has an invariant, a set of buffers for each number of rounds. *)
(***************************************************************************)
EXTENDS AM4Channels, AM4ApplyPreset, FiniteSetTheorems, SequenceTheorems,
        WellFoundedInduction, TLAPS

-----------------------------------------------------------------------------
(* The channel cache: AM4Channels.                                          *)

\* What TypeOK asks of a call's record.
Fit(r) ==
  /\ r \in CallRec
  /\ r.pc \in {"chanAck", "paramAck"} => r.block # None
  /\ r.pc = "chanAck" => r.ask # None
  /\ r.pc = "wireAck" /\ r.kind = "channel" => r.block # None /\ r.value # None
  /\ r.pc # "idle" => r.tool # "none"

\* A call that is under way is some tool's.
Working == \A c \in Calls : call[c].pc # "idle" => call[c].tool # "none"

TypeInv == TypeOK /\ Working

LEMMA IdleOK == Fit(Idle) /\ Idle.pc = "idle"
  BY DEF Fit, Idle, CallRec

LEMMA TypeFit == TypeInv => \A c \in Calls : Fit(call[c])
  BY DEF TypeInv, TypeOK, Working, Fit

LEMMA InitType == Init => TypeInv
  BY IdleOK DEF Init, TypeInv, TypeOK, Working, Fit

----------------------------------------------------------------------------
(* The type invariant.                                                     *)

LEMMA ResumeType ==
  ASSUME TypeInv, NEW c \in Calls, NEW r, Fit(r), Resume(c, r),
         on' \in [Blocks -> Channels],
         channel' \in [Blocks -> Channels \cup {None}], unsure' \subseteq Blocks,
         misreported' \subseteq AllTools, misled' \subseteq AllTools
  PROVE  TypeInv'
  BY DEF TypeInv, TypeOK, Working, Resume, Fit

\* The points a call may wait at after a send, and what it needs there.
LEMMA SentOK ==
  ASSUME NEW r \in CallRec, r.tool # "none",
         NEW pc \in {"chanAck", "paramAck", "navAck", "wireAck"},
         NEW acked \in BOOLEAN, NEW astray \in BOOLEAN,
         pc \in {"chanAck", "paramAck"} => r.block # None,
         pc = "chanAck" => r.ask # None,
         pc = "wireAck" /\ r.kind = "channel" => r.block # None /\ r.value # None
  PROVE  Fit([r EXCEPT !.pc = pc, !.acked = acked, !.astray = astray])
  BY DEF Fit, CallRec

\* ... and the same for a parameter, which also says whom it misled.
LEMMA SentParamOK ==
  ASSUME NEW r \in CallRec, r.tool # "none", NEW pc \in {"paramAck", "wireAck"},
         NEW acked \in BOOLEAN, NEW astray \in BOOLEAN, NEW lured \in BOOLEAN,
         pc = "paramAck" => r.block # None,
         pc = "wireAck" => r.kind # "channel"
  PROVE  Fit([r EXCEPT !.pc = pc, !.acked = acked, !.astray = astray, !.misled = lured])
  BY DEF Fit, CallRec

LEMMA SendChannelType ==
  ASSUME TypeInv, NEW c \in Calls, NEW r \in CallRec, r.tool # "none", NEW b \in Blocks,
         NEW l \in Channels,
         NEW pc \in {"chanAck", "paramAck", "wireAck"},
         pc \in {"chanAck", "paramAck"} => r.block # None,
         pc = "chanAck" => r.ask # None,
         pc = "wireAck" /\ r.kind = "channel" => r.block # None /\ r.value # None,
         SendChannel(c, r, b, l, pc), UNCHANGED <<channel, misreported, misled>>
  PROVE  TypeInv'
<1>1. PICK out \in Outcomes :
        /\ on' = IF Landed(out) THEN [on EXCEPT ![b] = l] ELSE on
        /\ unsure' = IF out = "mute" THEN unsure \cup {b} ELSE unsure
        /\ Resume(c, [r EXCEPT !.pc = pc, !.acked = (out = "ok"),
                               !.astray = r.astray \/ ~Landed(out)])
  BY DEF SendChannel
<1> DEFINE acked == out = "ok"
           astray == r.astray \/ ~Landed(out)
<1>2. acked \in BOOLEAN /\ astray \in BOOLEAN
  BY Zenon
<1>3. Resume(c, [r EXCEPT !.pc = pc, !.acked = acked, !.astray = astray])
  BY <1>1
<1>4. on' \in [Blocks -> Channels] /\ unsure' \subseteq Blocks
  BY <1>1 DEF TypeInv, TypeOK
<1> HIDE DEF acked, astray
<1>5. Fit([r EXCEPT !.pc = pc, !.acked = acked, !.astray = astray])
  BY <1>2, SentOK, Zenon
<1> DEFINE s == [r EXCEPT !.pc = pc, !.acked = acked, !.astray = astray]
<1> HIDE DEF s
<1>6. Fit(s) /\ Resume(c, s)
  BY <1>3, <1>5, Zenon DEF s
<1> QED BY <1>4, <1>6, ResumeType DEF TypeInv, TypeOK

LEMMA SendParamType ==
  ASSUME TypeInv, NEW c \in Calls, NEW r \in CallRec, r.tool # "none",
         NEW pc \in {"paramAck", "wireAck"},
         pc = "wireAck" => r.kind = "param", pc = "paramAck" => r.block # None,
         SendParam(c, r, pc), channel' \in [Blocks -> Channels \cup {None}],
         unsure' \subseteq Blocks, UNCHANGED <<misreported, misled>>
  PROVE  TypeInv'
<1>1. PICK out \in Outcomes :
        Resume(c, [r EXCEPT !.pc = pc, !.acked = (out = "ok"),
                    !.astray = r.astray \/ ~Landed(out) \/ (Elsewhere(r) /\ r.block \notin unsure'),
                    !.misled = r.misled \/ (Elsewhere(r) /\ r.block \in unsure')])
  BY DEF SendParam
<1> DEFINE acked == out = "ok"
           astray == r.astray \/ ~Landed(out) \/ (Elsewhere(r) /\ r.block \notin unsure')
           lured == r.misled \/ (Elsewhere(r) /\ r.block \in unsure')
<1>2. acked \in BOOLEAN /\ astray \in BOOLEAN /\ lured \in BOOLEAN
  BY Zenon
<1>3. Resume(c, [r EXCEPT !.pc = pc, !.acked = acked, !.astray = astray, !.misled = lured])
  BY <1>1
<1>4. on' \in [Blocks -> Channels] /\ misreported' \subseteq AllTools /\ misled' \subseteq AllTools
  BY DEF SendParam, TypeInv, TypeOK
<1>0. pc = "wireAck" => r.kind # "channel"
  OBVIOUS
<1> HIDE DEF acked, astray, lured
<1>5. Fit([r EXCEPT !.pc = pc, !.acked = acked, !.astray = astray, !.misled = lured])
  BY <1>0, <1>2, SentParamOK, Zenon
<1> DEFINE s == [r EXCEPT !.pc = pc, !.acked = acked, !.astray = astray, !.misled = lured]
<1> HIDE DEF s
<1>6. Fit(s) /\ Resume(c, s)
  BY <1>3, <1>5, Zenon DEF s
<1> QED BY <1>4, <1>6, ResumeType

LEMMA SendNavType ==
  ASSUME TypeInv, NEW c \in Calls, NEW r \in CallRec, r.tool # "none",
         NEW pc \in {"navAck", "wireAck"},
         r.kind # "channel", SendNav(c, r, pc),
         UNCHANGED <<channel, misreported, misled>>
  PROVE  TypeInv'
<1>1. PICK out \in Outcomes :
        /\ IF Landed(out) THEN on' \in [Blocks -> Channels] ELSE UNCHANGED on
        /\ unsure' = IF out = "mute" /\ pc = "wireAck" THEN Blocks ELSE unsure
        /\ Resume(c, [r EXCEPT !.pc = pc, !.acked = (out = "ok"),
                               !.astray = r.astray \/ ~Landed(out)])
  BY DEF SendNav
<1> DEFINE acked == out = "ok"
           astray == r.astray \/ ~Landed(out)
<1>2. acked \in BOOLEAN /\ astray \in BOOLEAN
  BY Zenon
<1>3. Resume(c, [r EXCEPT !.pc = pc, !.acked = acked, !.astray = astray])
  BY <1>1
<1>4. on' \in [Blocks -> Channels] /\ unsure' \subseteq Blocks
  BY <1>1 DEF TypeInv, TypeOK
<1> HIDE DEF acked, astray
<1>5. Fit([r EXCEPT !.pc = pc, !.acked = acked, !.astray = astray])
  BY <1>2, SentOK, Zenon
<1> DEFINE s == [r EXCEPT !.pc = pc, !.acked = acked, !.astray = astray]
<1> HIDE DEF s
<1>6. Fit(s) /\ Resume(c, s)
  BY <1>3, <1>5, Zenon DEF s
<1> QED BY <1>4, <1>6, ResumeType DEF TypeInv, TypeOK

LEMMA ReportType ==
  ASSUME TypeInv, NEW c \in Calls, NEW r \in CallRec, r.tool \in AllTools,
         channel' \in [Blocks -> Channels \cup {None}], unsure' \subseteq Blocks, Report(c, r)
  PROVE  TypeInv'
<1>1. misreported' \subseteq AllTools /\ misled' \subseteq AllTools /\ Resume(c, Idle) /\ on' \in [Blocks -> Channels]
  BY DEF Report, TypeInv, TypeOK
<1> QED BY <1>1, IdleOK, ResumeType

\* The record of the next operation of a batch.
LEMMA OpOK ==
  ASSUME TypeInv, NEW c \in Calls, NEW b \in Blocks, NEW ask \in Channels \cup {None}
  PROVE  /\ Op(c, b, ask) \in CallRec
         /\ Op(c, b, ask).block = b /\ Op(c, b, ask).ask = ask
         /\ Op(c, b, ask).kind = "param" /\ Op(c, b, ask).value = None
         /\ Op(c, b, ask).tool = call[c].tool /\ Op(c, b, ask).told = call[c].told
         /\ Op(c, b, ask).astray = call[c].astray
<1>1. call[c] \in CallRec
  BY DEF TypeInv, TypeOK
<1>2. call[c].writes + 1 \in Nat
  BY <1>1 DEF CallRec
<1> QED BY <1>1, <1>2 DEF Op, CallRec

\* OpOver, on the record of a call that has done an operation.
LEMMA OpOverType ==
  ASSUME TypeInv, NEW c \in Calls, NEW r \in CallRec, r.tool # "none",
         channel' \in [Blocks -> Channels \cup {None}], unsure' \subseteq Blocks, OpOver(c, r)
  PROVE  TypeInv'
<1>1. CASE r.tool = "set_params"
  <2> DEFINE s == [r EXCEPT !.pc = "op"]
  <2>1. Fit(s)
    BY DEF Fit, CallRec
  <2>2. Resume(c, s) /\ UNCHANGED <<on, misreported, misled>>
    BY <1>1 DEF OpOver
  <2> HIDE DEF s
  <2> QED BY <2>1, <2>2, ResumeType DEF TypeInv, TypeOK
<1>2. CASE r.tool # "set_params"
  <2>1. Report(c, r) /\ r.tool \in AllTools
    BY <1>2 DEF OpOver, CallRec
  <2> QED BY <2>1, ReportType
<1> QED BY <1>1, <1>2

\* A call's record with another account of what was told.
LEMMA ToldOK ==
  ASSUME NEW r \in CallRec, NEW told \in BOOLEAN
  PROVE  /\ [r EXCEPT !.told = told] \in CallRec
         /\ [r EXCEPT !.told = told].tool = r.tool /\ [r EXCEPT !.told = told].astray = r.astray
         /\ [r EXCEPT !.told = told].told = told
  BY DEF CallRec

LEMMA BeginType ==
  ASSUME TypeInv, NEW c \in Calls, Begin(c)
  PROVE  TypeInv'
<1>0. Idle \in CallRec
  BY IdleOK DEF Fit
<1>1. ASSUME NEW tool \in SetTools, StartSet(c, tool)
      PROVE  TypeInv'
  <2> DEFINE r == [Idle EXCEPT !.pc = "op", !.tool = tool]
  <2>1. Fit(r)
    BY <1>0 DEF Fit, CallRec, AllTools, SetTools
  <2>2. Resume(c, r) /\ UNCHANGED <<on, channel, unsure, misreported, misled>>
    BY <1>1 DEF StartSet
  <2> HIDE DEF r
  <2> QED BY <2>1, <2>2, ResumeType DEF TypeInv, TypeOK
<1>2. ASSUME NEW tool \in NavTools \cup {"apply_at"}
      PROVE  /\ [Idle EXCEPT !.tool = tool] \in CallRec
             /\ [Idle EXCEPT !.tool = tool].tool # "none"
             /\ [Idle EXCEPT !.tool = tool].kind # "channel"
  BY <1>0 DEF Idle, CallRec, AllTools, NavTools, ApplyTools
<1>3. ASSUME NEW tool \in NavTools, StartNav(c, tool)
      PROVE  TypeInv'
  BY <1>2, <1>3, SendNavType DEF StartNav
<1>4. CASE StartApplyAt(c)
  BY <1>2, <1>4, SendNavType DEF StartApplyAt
<1>5. CASE StartApplyBuffer(c)
  <2> DEFINE r == [Idle EXCEPT !.pc = "wires", !.tool = "apply_buffer"]
  <2>1. Fit(r)
    BY <1>0 DEF Fit, CallRec, AllTools, ApplyTools
  <2>2. Resume(c, r) /\ UNCHANGED <<on, channel, unsure, misreported, misled>>
    BY <1>5 DEF StartApplyBuffer
  <2> HIDE DEF r
  <2> QED BY <2>1, <2>2, ResumeType DEF TypeInv, TypeOK
<1> QED BY <1>1, <1>3, <1>4, <1>5 DEF Begin

\* The records of the wire pass.
ChannelWire(c, b, l) ==
  [call[c] EXCEPT !.block = b, !.ask = l, !.value = l, !.kind = "channel", !.writes = @ + 1]
ParamWire(c, b) ==
  [call[c] EXCEPT !.block = b, !.kind = "param",
                  !.ask = IF b = call[c].block THEN @ ELSE None, !.writes = @ + 1]
SceneWire(c) == [call[c] EXCEPT !.kind = "scene", !.scenes = TRUE, !.writes = @ + 1]

LEMMA WireOK ==
  ASSUME TypeInv, NEW c \in Calls, NEW b \in Blocks, NEW l \in Channels
  PROVE  /\ ChannelWire(c, b, l) \in CallRec /\ ParamWire(c, b) \in CallRec
         /\ ChannelWire(c, b, l).tool = call[c].tool /\ ChannelWire(c, b, l).value = l
         /\ ChannelWire(c, b, l).block = b /\ ParamWire(c, b).tool = call[c].tool
         /\ ParamWire(c, b).kind = "param"
<1>1. call[c] \in CallRec
  BY DEF TypeInv, TypeOK
<1>2. call[c].writes + 1 \in Nat
  BY <1>1 DEF CallRec
<1> QED BY <1>1, <1>2 DEF ChannelWire, ParamWire, CallRec

LEMMA SceneOK ==
  ASSUME TypeInv, NEW c \in Calls
  PROVE  SceneWire(c) \in CallRec /\ SceneWire(c).tool = call[c].tool /\ SceneWire(c).kind = "scene"
<1>1. call[c] \in CallRec
  BY DEF TypeInv, TypeOK
<1>2. call[c].writes + 1 \in Nat
  BY <1>1 DEF CallRec
<1> QED BY <1>1, <1>2 DEF SceneWire, CallRec

LEMMA ContinueType ==
  ASSUME TypeInv, NEW c \in Calls, Continue(c)
  PROVE  TypeInv'
<1> USE AM4ChannelsConstants
<1>0. /\ Fit(call[c]) /\ call[c] \in CallRec /\ channel \in [Blocks -> Channels \cup {None}]
      /\ on \in [Blocks -> Channels] /\ call[c].acked \in BOOLEAN /\ call[c].told \in BOOLEAN
      /\ unsure \subseteq Blocks
      /\ (call[c].pc # "idle" => call[c].tool # "none")
  BY TypeFit DEF TypeInv, TypeOK, Fit, CallRec
<1>1. ASSUME NEW b \in Blocks, NEW ask \in Channels \cup {None}, SetDirectly(c, b, ask)
      PROVE  TypeInv'
  <2>1. SendParam(c, Op(c, b, ask), "paramAck") /\ UNCHANGED <<channel, unsure, misreported, misled>>
        /\ call[c].tool # "none"
    BY <1>0, <1>1 DEF SetDirectly, ChannelsKept
  <2> QED BY <1>0, <2>1, OpOK, SendParamType
<1>2. ASSUME NEW b \in Blocks, NEW ask \in Channels, SetAfterSwitch(c, b, ask)
      PROVE  TypeInv'
  <2>1. SendChannel(c, Op(c, b, ask), b, ask, "chanAck") /\ UNCHANGED <<channel, misreported, misled>>
        /\ call[c].tool # "none"
    BY <1>0, <1>2 DEF SetAfterSwitch
  <2> QED BY <2>1, OpOK, SendChannelType
<1>3. ASSUME NEW b \in Blocks, NEW l \in Channels, SetChannelParam(c, b, l)
      PROVE  TypeInv'
  <2> DEFINE r == [Op(c, b, None) EXCEPT !.value = l]
  <2>1. SendChannel(c, r, b, l, "paramAck") /\ UNCHANGED <<channel, misreported, misled>>
        /\ call[c].tool # "none"
    BY <1>0, <1>3 DEF SetChannelParam
  <2>2. r \in CallRec /\ r.block = b /\ r.tool = call[c].tool
    <3> HIDE DEF Op
    <3> QED BY OpOK DEF CallRec
  <2> HIDE DEF r
  <2> QED BY <2>1, <2>2, SendChannelType
<1>4. CASE ChannelSwitched(c)
  <2>1. /\ call[c].tool # "none" /\ call[c].block # None /\ call[c].ask \in Channels
        /\ SendParam(c, call[c], "paramAck") /\ UNCHANGED <<misreported, misled>>
        /\ channel' = [channel EXCEPT ![call[c].block] = call[c].ask]
        /\ unsure' = unsure \ {call[c].block}
    BY <1>0, <1>4 DEF ChannelSwitched, Observe, Fit, CallRec
  <2>2. channel' \in [Blocks -> Channels \cup {None}] /\ unsure' \subseteq Blocks
    BY <1>0, <2>1
  <2> QED BY <1>0, <2>1, <2>2, SendParamType
<1>5. CASE SwitchFailed(c)
  <2>1. OpOver(c, [call[c] EXCEPT !.told = FALSE]) /\ call[c].tool # "none"
        /\ channel' = channel /\ unsure' = unsure
    BY <1>0, <1>5 DEF SwitchFailed, ChannelsKept
  <2> QED BY <1>0, <2>1, ToldOK, OpOverType
<1>6. CASE ParamWritten(c)
  <2> DEFINE told == call[c].told /\ call[c].acked
  <2>1. OpOver(c, [call[c] EXCEPT !.told = told]) /\ call[c].tool # "none"
    BY <1>0, <1>6 DEF ParamWritten
  <2>2. told \in BOOLEAN
    BY Zenon
  <2>3. channel' \in [Blocks -> Channels \cup {None}] /\ unsure' \subseteq Blocks
    BY <1>0, <1>6 DEF ParamWritten, Observe, ChannelsKept, CallRec
  <2> HIDE DEF told
  <2> DEFINE r == [call[c] EXCEPT !.told = told]
  <2>4. r \in CallRec /\ r.tool = call[c].tool
    BY <1>0, <2>2, ToldOK, Zenon
  <2>5. OpOver(c, r)
    BY <2>1
  <2> HIDE DEF r
  <2> QED BY <2>1, <2>3, <2>4, <2>5, OpOverType
<1>7. CASE SetDone(c) \/ ApplyDone(c)
  <2>1. Report(c, call[c]) /\ call[c].tool \in AllTools
        /\ channel' = channel /\ unsure' = unsure
    BY <1>0, <1>7 DEF SetDone, ApplyDone, ChannelsKept, CallRec
  <2> QED BY <1>0, <2>1, ReportType
<1>8. CASE NavOver(c)
  <2> DEFINE r == IF call[c].tool = "apply_at" /\ call[c].acked
                  THEN [call[c] EXCEPT !.pc = "wires"] ELSE Idle
  <2>1. Resume(c, r) /\ UNCHANGED <<on, misreported, misled>>
    BY <1>8 DEF NavOver
  <2>2. Fit(r)
    BY <1>0, IdleOK DEF Fit, CallRec
  <2>3. channel' \in [Blocks -> Channels \cup {None}] /\ unsure' \subseteq Blocks
    BY <1>8 DEF NavOver, invalidateChannelCache
  <2> HIDE DEF r
  <2> QED BY <2>1, <2>2, <2>3, ResumeType DEF TypeInv, TypeOK
<1>9. ASSUME NEW b \in Blocks, NEW l \in Channels, WireChannel(c, b, l)
      PROVE  TypeInv'
  <2>1. SendChannel(c, ChannelWire(c, b, l), b, l, "wireAck") /\ UNCHANGED <<channel, misreported, misled>>
        /\ call[c].tool # "none"
    BY <1>0, <1>9 DEF WireChannel, MoreWires, ChannelWire
  <2> QED BY <2>1, WireOK, SendChannelType
<1>10. ASSUME NEW b \in Blocks, WireParam(c, b)
       PROVE  TypeInv'
  <2>1. SendParam(c, ParamWire(c, b), "wireAck") /\ UNCHANGED <<channel, unsure, misreported, misled>>
        /\ call[c].tool # "none" /\ on[b] \in Channels
    BY <1>0, <1>10 DEF WireParam, MoreWires, ParamWire, ChannelsKept
  <2> QED BY <1>0, <2>1, WireOK, SendParamType
<1>11. CASE WireScene(c)
  <2>1. SendNav(c, SceneWire(c), "wireAck") /\ UNCHANGED <<channel, misreported, misled>>
        /\ call[c].tool # "none"
    BY <1>0, <1>11 DEF WireScene, MoreWires, SceneWire
  <2> QED BY <2>1, SceneOK, SendNavType
<1>12. CASE WireOver(c)
  <2> DEFINE told == call[c].told /\ call[c].acked
             r == [call[c] EXCEPT !.pc = "wires", !.told = told]
  <2>1. Resume(c, r) /\ UNCHANGED <<on, misreported, misled>> /\ call[c].tool # "none"
    BY <1>0, <1>12 DEF WireOver
  <2>2. told \in BOOLEAN
    BY Zenon
  <2> HIDE DEF told
  <2>3. Fit(r)
    BY <1>0, <2>1, <2>2 DEF Fit, CallRec
  <2> HIDE DEF r
  <2>4. channel' \in [Blocks -> Channels \cup {None}] /\ unsure' \subseteq Blocks
    BY <1>0, <1>12 DEF WireOver, Observe, invalidateChannelCache, ChannelsKept, CallRec
  <2> QED BY <2>1, <2>3, <2>4, ResumeType DEF TypeInv, TypeOK
<1> QED BY <1>1, <1>2, <1>3, <1>4, <1>5, <1>6, <1>7, <1>8, <1>9, <1>10, <1>11, <1>12
        DEF Continue

THEOREM TypeInvariant == Spec => []TypeInv
<1>1. TypeInv /\ [Next]_vars => TypeInv'
  <2> SUFFICES ASSUME TypeInv, [Next]_vars PROVE TypeInv'
    OBVIOUS
  <2>1. CASE UNCHANGED vars
    BY <2>1 DEF vars, TypeInv, TypeOK, Working
  <2>2. CASE Reconnect
    BY <2>2 DEF Reconnect, invalidateChannelCache, TypeInv, TypeOK, Working
  <2> QED BY <2>1, <2>2, BeginType, ContinueType DEF Next
<1> QED BY InitType, <1>1, PTL DEF Spec

\* Types are kept, whatever the constants.
THEOREM TypeCorrect == Spec => []TypeOK
<1>1. TypeInv => TypeOK
  BY DEF TypeInv
<1> QED BY <1>1, TypeInvariant, PTL

----------------------------------------------------------------------------
(* The cache and the reports, for one call at a time.                      *)

OneCall == \A c, d \in Calls : c = d

\* The cache is right of block b, or a write nobody heard of has moved it.
Known(b) == channel[b] \in {None, on[b]} \/ b \in unsure

\* What a call is about to learn of the block it has moved.
Learns(r, l) == IF r.acked THEN on[r.block] = l ELSE Known(r.block)

Pending(c) ==
  /\ call[c].pc = "chanAck" => call[c].value = None /\ Learns(call[c], call[c].ask)
  /\ call[c].pc = "paramAck" /\ call[c].value # None => Learns(call[c], call[c].value)
  /\ call[c].pc = "wireAck" /\ call[c].kind = "channel" => Learns(call[c], call[c].value)
  /\ call[c].pc = "wireAck" /\ call[c].kind = "scene" /\ ~call[c].acked =>
       \A b \in Blocks : Known(b)

Honest == {"set_param", "set_params", "apply_buffer"}

\* A refused write is being waited for, or has been told.
Told(r) == ~r.told \/ (r.pc \in {"chanAck", "paramAck", "wireAck"} /\ ~r.acked)

\* What went astray is or will be told; and the slot a wire pass is in is on
\* the channel asked for.
Accounted(c) ==
  call[c].tool \in Honest =>
    /\ call[c].astray => Told(call[c])
    /\ call[c].pc \in {"wires", "wireAck"} /\ ~call[c].scenes /\ call[c].ask # None =>
         Told(call[c]) \/ on[call[c].block] = call[c].ask

CacheInv ==
  /\ TypeInv /\ CacheTruth /\ SuccessIsTrue
  /\ \A c \in Calls : Pending(c) /\ Accounted(c)

LEMMA InitCache == Init => CacheInv
<1> SUFFICES ASSUME Init PROVE CacheInv
  OBVIOUS
<1>1. TypeInv
  BY InitType
<1> QED BY <1>1 DEF Init, Idle, CacheInv, CacheTruth, SuccessIsTrue, Pending, Accounted, Honest

\* With one call, it is the one that moves a block.
LEMMA OneMoves ==
  ASSUME OneCall, CacheInv, NEW c \in Calls, NEW b \in Blocks
  PROVE  Known(b) \/ Moving(call[c], b)
<1>1. \A d \in Calls : d = c
  BY DEF OneCall
<1> QED BY <1>1 DEF CacheInv, CacheTruth, Known

LEMMA StepCache ==
  ASSUME OneCall, CacheInv, TypeInv', NEW c \in Calls,
         \A b \in Blocks : Known(b)' \/ Moving(call'[c], b),
         SuccessIsTrue', Pending(c)', Accounted(c)'
  PROVE  CacheInv'
<1>1. \A d \in Calls : d = c
  BY DEF OneCall
<1>2. CacheTruth'
  BY DEF CacheTruth, Known
<1> QED BY <1>1, <1>2 DEF CacheInv

\* A report of a call that waits for nothing.
LEMMA ReportCache ==
  ASSUME OneCall, CacheInv, TypeInv', NEW c \in Calls, NEW r \in CallRec,
         r.tool \in Honest /\ r.astray => ~r.told,
         \A b \in Blocks : Known(b)', Report(c, r)
  PROVE  CacheInv'
<1>1. call'[c] = Idle
  BY DEF Report, Resume, CacheInv, TypeInv, TypeOK
<1>2. SuccessIsTrue'
  BY DEF Report, SuccessIsTrue, CacheInv, Honest
<1>3. Pending(c)' /\ Accounted(c)'
  BY <1>1 DEF Idle, Pending, Accounted, Honest
<1> QED BY <1>2, <1>3, StepCache

\* A channel write, of a call that waits for nothing: the block is the one on
\* the move, and lands where it was sent or stays.
LEMMA SendChannelCache ==
  ASSUME OneCall, CacheInv, TypeInv', NEW c \in Calls, NEW r \in CallRec,
         NEW b \in Blocks, NEW l \in Channels, r.block = b,
         NEW pc \in {"chanAck", "paramAck", "wireAck"},
         pc = "chanAck" => r.ask = l /\ r.value = None,
         pc = "paramAck" => r.value = l,
         pc = "wireAck" => r.kind = "channel" /\ r.value = l /\ r.ask = l,
         \A d \in Blocks : Known(d),
         r.tool \in Honest /\ r.astray => ~r.told,
         SendChannel(c, r, b, l, pc), UNCHANGED <<channel, misreported, misled>>
  PROVE  CacheInv'
<1> USE AM4ChannelsConstants
<1>1. PICK out \in Outcomes :
        /\ on' = IF Landed(out) THEN [on EXCEPT ![b] = l] ELSE on
        /\ unsure' = IF out = "mute" THEN unsure \cup {b} ELSE unsure
        /\ call' = [call EXCEPT ![c] = [r EXCEPT !.pc = pc, !.acked = (out = "ok"),
                                                 !.astray = r.astray \/ ~Landed(out)]]
  BY DEF SendChannel, Resume
<1>2. out \in {"ok", "mute", "lost"}
  BY DEF AllOutcomes
<1>3. /\ call'[c].pc = pc /\ call'[c].block = b /\ call'[c].ask = r.ask
      /\ call'[c].value = r.value /\ call'[c].kind = r.kind /\ call'[c].tool = r.tool
      /\ call'[c].told = r.told /\ call'[c].scenes = r.scenes
      /\ (call'[c].acked <=> out = "ok")
      /\ (call'[c].astray => r.astray \/ out = "lost")
  BY <1>1, <1>2 DEF CallRec, Landed, CacheInv, TypeInv, TypeOK
<1>4. on \in [Blocks -> Channels] /\ channel' = channel
  BY DEF CacheInv, TypeInv, TypeOK
<1>6. \A d \in Blocks \ {b} : on'[d] = on[d] /\ (d \in unsure => d \in unsure')
  BY <1>1, <1>4
<1>7. call'[c].acked => on'[b] = l
  BY <1>1, <1>3, <1>4 DEF Landed
<1>8. ~call'[c].acked => Known(b)'
  BY <1>1, <1>2, <1>3, <1>4 DEF Known, Landed
<1>9. \A d \in Blocks : Known(d)' \/ Moving(call'[c], d)
  BY <1>3, <1>4, <1>6, AM4ChannelsConstants DEF Known, Moving
<1>10. Pending(c)'
  BY <1>3, <1>7, <1>8 DEF Pending, Learns
<1>11. Accounted(c)'
  BY <1>2, <1>3, <1>7 DEF Accounted, Told, Honest
<1>12. SuccessIsTrue'
  BY DEF CacheInv, SuccessIsTrue
<1> QED BY <1>9, <1>10, <1>11, <1>12, StepCache

\* A parameter write that goes where its caller asked, unless that was told.
LEMMA SendParamCache ==
  ASSUME OneCall, CacheInv, TypeInv', NEW c \in Calls, NEW r \in CallRec,
         NEW pc \in {"paramAck", "wireAck"}, r.kind = "param" \/ pc = "paramAck",
         pc = "paramAck" => r.value = None,
         \A d \in Blocks : Known(d)',
         r.tool \in Honest /\ (r.astray \/ (Elsewhere(r) /\ r.block \notin unsure')) => ~r.told,
         r.tool \in Honest /\ pc = "wireAck" /\ ~r.scenes => ~r.told \/ ~Elsewhere(r),
         SendParam(c, r, pc), UNCHANGED <<misreported, misled>>
  PROVE  CacheInv'
<1> USE AM4ChannelsConstants
<1>1. PICK out \in Outcomes :
        call' = [call EXCEPT ![c] = [r EXCEPT !.pc = pc, !.acked = (out = "ok"),
                    !.astray = r.astray \/ ~Landed(out) \/ (Elsewhere(r) /\ r.block \notin unsure'),
                    !.misled = r.misled \/ (Elsewhere(r) /\ r.block \in unsure')]]
  BY DEF SendParam, Resume
<1>2. out \in {"ok", "mute", "lost"}
  BY DEF AllOutcomes
<1>3. /\ call'[c].pc = pc /\ call'[c].block = r.block /\ call'[c].ask = r.ask
      /\ call'[c].value = r.value /\ call'[c].kind = r.kind /\ call'[c].tool = r.tool
      /\ call'[c].told = r.told /\ call'[c].scenes = r.scenes
      /\ (call'[c].acked <=> out = "ok")
      /\ (call'[c].astray => \/ r.astray \/ out = "lost"
                             \/ Elsewhere(r) /\ r.block \notin unsure')
  BY <1>1, <1>2 DEF CallRec, Landed, CacheInv, TypeInv, TypeOK
<1>4. on' = on
  BY DEF SendParam
<1>5. Pending(c)'
  BY <1>3 DEF Pending
<1>6. Accounted(c)'
  BY <1>2, <1>3, <1>4 DEF Accounted, Told, Elsewhere, Honest
<1>7. SuccessIsTrue'
  BY DEF CacheInv, SuccessIsTrue
<1> QED BY <1>5, <1>6, <1>7, StepCache

\* The operation is over and was accounted for.
LEMMA OpOverCache ==
  ASSUME OneCall, CacheInv, TypeInv', NEW c \in Calls, NEW r \in CallRec,
         r.tool \in Honest /\ r.astray => ~r.told,
         \A b \in Blocks : channel'[b] \in {None, on[b]} \/ b \in unsure', OpOver(c, r)
  PROVE  CacheInv'
<1>0. on' = on
  BY DEF OpOver, Report
<1>1. \A b \in Blocks : Known(b)'
  BY <1>0 DEF Known
<1>2. CASE r.tool = "set_params"
  <2>1. call' = [call EXCEPT ![c] = [r EXCEPT !.pc = "op"]] /\ misreported' = misreported
    BY <1>2 DEF OpOver, Resume
  <2>2. call'[c].pc = "op" /\ call'[c].tool = r.tool /\ call'[c].astray = r.astray
        /\ call'[c].told = r.told
    BY <2>1 DEF CallRec, CacheInv, TypeInv, TypeOK
  <2>3. Pending(c)' /\ Accounted(c)' /\ SuccessIsTrue'
    BY <2>1, <2>2 DEF Pending, Accounted, Told, SuccessIsTrue, CacheInv
  <2> QED BY <1>1, <2>3, StepCache
<1>3. CASE r.tool # "set_params"
  <2>1. Report(c, r)
    BY <1>3 DEF OpOver
  <2> QED BY <1>1, <2>1, ReportCache
<1> QED BY <1>2, <1>3

LEMMA BeginCache ==
  ASSUME OneCall, CacheInv, TypeInv', NEW c \in Calls, Begin(c)
  PROVE  CacheInv'
<1>0. call[c] = Idle
  BY DEF Begin, StartSet, StartNav, StartApplyAt, StartApplyBuffer
<1>1. \A b \in Blocks : Known(b)
  BY <1>0, OneMoves DEF Idle, Moving
<1>2. channel' = channel /\ misreported' = misreported /\ unsure' = unsure
  BY DEF Begin, StartSet, StartNav, StartApplyAt, StartApplyBuffer, SendNav
<1>3. SuccessIsTrue'
  BY <1>2 DEF CacheInv, SuccessIsTrue
<1>4. CASE (\E tool \in SetTools : StartSet(c, tool)) \/ StartApplyBuffer(c)
  <2>1. on' = on /\ call'[c].pc \in {"op", "wires"} /\ ~call'[c].astray /\ call'[c].ask = None
    <3>1. Idle \in CallRec /\ Idle.astray = FALSE /\ Idle.ask = None
      BY IdleOK DEF Fit, Idle
    <3>2. \E pc \in {"op", "wires"} : \E tool :
            call' = [call EXCEPT ![c] = [Idle EXCEPT !.pc = pc, !.tool = tool]]
      BY <1>4 DEF StartSet, StartApplyBuffer, Resume
    <3>3. on' = on
      BY <1>4 DEF StartSet, StartApplyBuffer
    <3> QED BY <3>1, <3>2, <3>3 DEF CallRec, CacheInv, TypeInv, TypeOK
  <2>2. Pending(c)' /\ Accounted(c)' /\ \A b \in Blocks : Known(b)'
    BY <1>1, <1>2, <2>1 DEF Pending, Accounted, Known
  <2> QED BY <1>3, <2>2, StepCache
<1>5. CASE (\E tool \in NavTools : StartNav(c, tool)) \/ StartApplyAt(c)
  <2>1. PICK tool \in NavTools \cup {"apply_at"} :
          SendNav(c, [Idle EXCEPT !.tool = tool], "navAck")
    BY <1>5 DEF StartNav, StartApplyAt
  <2>2. call'[c].pc = "navAck" /\ call'[c].tool = tool
    BY <2>1 DEF SendNav, Resume, Idle, CacheInv, TypeInv, TypeOK
  <2>3. Pending(c)' /\ Accounted(c)' /\ \A b \in Blocks : Moving(call'[c], b)
    BY <2>2 DEF Pending, Accounted, Honest, NavTools, Moving
  <2> QED BY <1>3, <2>3, StepCache
<1> QED BY <1>4, <1>5 DEF Begin

LEMMA ContinueCache ==
  ASSUME OneCall, CacheInv, TypeInv', NEW c \in Calls, Continue(c)
  PROVE  CacheInv'
<1> USE AM4ChannelsConstants
<1>0. /\ TypeInv /\ call[c] \in CallRec /\ Pending(c) /\ Accounted(c)
      /\ on \in [Blocks -> Channels] /\ channel \in [Blocks -> Channels \cup {None}]
      /\ SuccessIsTrue
  BY DEF CacheInv, TypeInv, TypeOK
<1>k. call[c].pc \in {"op", "wires"} => \A b \in Blocks : Known(b)
  BY OneMoves DEF Moving
<1>t. call[c].pc \in {"op", "wires"} /\ call[c].tool \in Honest /\ call[c].astray => ~call[c].told
  BY <1>0 DEF Accounted, Told
<1>1. ASSUME NEW b \in Blocks, NEW ask \in Channels \cup {None}, SetDirectly(c, b, ask)
      PROVE  CacheInv'
  <2>1. SendParam(c, Op(c, b, ask), "paramAck") /\ UNCHANGED <<channel, unsure, misreported, misled>>
        /\ call[c].pc = "op" /\ (ask = None \/ channel[b] = ask)
    BY <1>1 DEF SetDirectly, SwitchNeeded, ChannelsKept
  <2>2. \A d \in Blocks : Known(d)'
    BY <1>k, <2>1 DEF Known, SendParam
  <2>3. Elsewhere(Op(c, b, ask)) => b \in unsure'
    BY <1>k, <2>1, OpOK, <1>0 DEF Known, Elsewhere
  <2> QED BY <1>0, <1>t, <2>1, <2>2, <2>3, OpOK, SendParamCache
<1>2. ASSUME NEW b \in Blocks, NEW ask \in Channels, SetAfterSwitch(c, b, ask)
      PROVE  CacheInv'
  <2>1. SendChannel(c, Op(c, b, ask), b, ask, "chanAck") /\ UNCHANGED <<channel, misreported, misled>>
        /\ call[c].pc = "op"
    BY <1>2 DEF SetAfterSwitch
  <2> QED BY <1>0, <1>k, <1>t, <2>1, OpOK, SendChannelCache
<1>3. ASSUME NEW b \in Blocks, NEW l \in Channels, SetChannelParam(c, b, l)
      PROVE  CacheInv'
  <2> DEFINE r == [Op(c, b, None) EXCEPT !.value = l]
  <2>1. SendChannel(c, r, b, l, "paramAck") /\ UNCHANGED <<channel, misreported, misled>>
        /\ call[c].pc = "op"
    BY <1>3 DEF SetChannelParam
  <2>2. r \in CallRec /\ r.block = b /\ r.tool = call[c].tool /\ r.value = l
        /\ r.astray = call[c].astray /\ r.told = call[c].told
    <3> HIDE DEF Op
    <3> QED BY <1>0, OpOK DEF CallRec
  <2> HIDE DEF r
  <2> QED BY <1>k, <1>t, <2>1, <2>2, SendChannelCache
<1>4. CASE ChannelSwitched(c)
  <2>1. /\ call[c].pc = "chanAck" /\ call[c].acked
        /\ channel' = [channel EXCEPT ![call[c].block] = call[c].ask]
        /\ unsure' = unsure \ {call[c].block}
        /\ SendParam(c, call[c], "paramAck") /\ UNCHANGED <<misreported, misled>>
    BY <1>4 DEF ChannelSwitched, Observe
  <2>2. call[c].value = None /\ on[call[c].block] = call[c].ask
    BY <1>0, <2>1 DEF Pending, Learns
  <2>3. \A d \in Blocks \ {call[c].block} : Known(d)
    BY <2>1, OneMoves DEF Moving
  <2>4. \A d \in Blocks : Known(d)'
    BY <1>0, <2>1, <2>2, <2>3 DEF Known, SendParam
  <2>5. call[c].tool \in Honest /\ call[c].astray => ~call[c].told
    BY <1>0, <2>1 DEF Accounted, Told
  <2>6. ~Elsewhere(call[c])
    BY <2>2 DEF Elsewhere
  <2> QED BY <1>0, <2>1, <2>2, <2>4, <2>5, <2>6, SendParamCache
<1>5. CASE SwitchFailed(c)
  <2>1. call[c].pc = "chanAck" /\ ~call[c].acked /\ channel' = channel /\ unsure' = unsure
        /\ OpOver(c, [call[c] EXCEPT !.told = FALSE])
    BY <1>5 DEF SwitchFailed, ChannelsKept
  <2>2. \A d \in Blocks : Known(d)
    <3>1. Known(call[c].block)
      BY <1>0, <2>1 DEF Pending, Learns
    <3> QED BY <2>1, <3>1, OneMoves DEF Moving
  <2>3. \A d \in Blocks : channel'[d] \in {None, on[d]} \/ d \in unsure'
    BY <2>1, <2>2 DEF Known
  <2> QED BY <1>0, <2>1, <2>3, ToldOK, OpOverCache
<1>6. CASE ParamWritten(c)
  <2> DEFINE told == call[c].told /\ call[c].acked
             r == [call[c] EXCEPT !.told = told]
  <2>1. OpOver(c, r) /\ call[c].pc = "paramAck"
    BY <1>6 DEF ParamWritten
  <2>2. told \in BOOLEAN
    BY Zenon
  <2>3. \A d \in Blocks : channel'[d] \in {None, on[d]} \/ d \in unsure'
    <3>1. \A d \in Blocks : Known(d) \/ (d = call[c].block /\ call[c].value # None)
      BY <2>1, OneMoves DEF Moving
    <3>2. CASE call[c].acked /\ call[c].value # None
      <4>1. channel' = [channel EXCEPT ![call[c].block] = call[c].value]
            /\ unsure' = unsure \ {call[c].block} /\ on[call[c].block] = call[c].value
        BY <1>0, <1>6, <2>1, <3>2 DEF ParamWritten, Observe, Pending, Learns
      <4> QED BY <1>0, <3>1, <4>1 DEF Known
    <3>3. CASE ~(call[c].acked /\ call[c].value # None)
      <4>1. channel' = channel /\ unsure' = unsure
        BY <1>6, <3>3 DEF ParamWritten, ChannelsKept
      <4>2. call[c].value # None => Known(call[c].block)
        BY <1>0, <2>1, <3>3 DEF Pending, Learns
      <4> QED BY <3>1, <4>1, <4>2 DEF Known
    <3> QED BY <3>2, <3>3
  <2>4. call[c].tool \in Honest /\ call[c].astray => ~told
    BY <1>0, <2>1 DEF Accounted, Told
  <2> HIDE DEF told
  <2>5. r \in CallRec /\ r.tool = call[c].tool /\ r.astray = call[c].astray /\ r.told = told
    BY <1>0, <2>2, ToldOK, Zenon
  <2>6. r.tool \in Honest /\ r.astray => ~r.told
    BY <2>4, <2>5, Zenon
  <2> HIDE DEF r
  <2> QED BY <2>1, <2>3, <2>5, <2>6, OpOverCache
<1>7. CASE SetDone(c) \/ ApplyDone(c)
  <2>1. Report(c, call[c]) /\ channel' = channel /\ unsure' = unsure
        /\ call[c].pc \in {"op", "wires"}
    BY <1>7 DEF SetDone, ApplyDone, ChannelsKept
  <2>2. \A d \in Blocks : Known(d)'
    BY <1>k, <2>1 DEF Known, Report
  <2> QED BY <1>0, <1>t, <2>1, <2>2, ReportCache
<1>8. CASE NavOver(c)
  <2>1. call'[c] = (IF call[c].tool = "apply_at" /\ call[c].acked
                    THEN [call[c] EXCEPT !.pc = "wires"] ELSE Idle)
        /\ misreported' = misreported
    BY <1>8 DEF NavOver, Resume, CacheInv, TypeInv, TypeOK
  <2>2. \A d \in Blocks : Known(d)'
    BY <1>8 DEF NavOver, invalidateChannelCache, Known
  <2>3. call'[c].pc \in {"wires", "idle"} /\ call'[c].tool \notin Honest
    BY <1>0, <2>1 DEF Idle, CallRec, Honest
  <2>4. Pending(c)' /\ Accounted(c)' /\ SuccessIsTrue'
    BY <1>0, <2>1, <2>3 DEF Pending, Accounted, SuccessIsTrue
  <2> QED BY <2>2, <2>4, StepCache
<1>9. ASSUME NEW b \in Blocks, NEW l \in Channels, WireChannel(c, b, l)
      PROVE  CacheInv'
  <2>1. SendChannel(c, ChannelWire(c, b, l), b, l, "wireAck") /\ UNCHANGED <<channel, misreported, misled>>
        /\ call[c].pc = "wires"
    BY <1>9 DEF WireChannel, MoreWires, ChannelWire
  <2>2. /\ ChannelWire(c, b, l).kind = "channel" /\ ChannelWire(c, b, l).ask = l
        /\ ChannelWire(c, b, l).astray = call[c].astray /\ ChannelWire(c, b, l).told = call[c].told
    BY <1>0 DEF ChannelWire, CallRec
  <2> QED BY <1>0, <1>k, <1>t, <2>1, <2>2, WireOK, SendChannelCache
<1>10. ASSUME NEW b \in Blocks, WireParam(c, b)
       PROVE  CacheInv'
  <2> DEFINE r == ParamWire(c, b)
  <2>1. SendParam(c, r, "wireAck") /\ UNCHANGED <<channel, unsure, misreported, misled>>
        /\ call[c].pc = "wires" /\ ~call[c].scenes
    BY <1>10 DEF WireParam, MoreWires, ParamWire, ChannelsKept
  <2>2. /\ r.kind = "param" /\ r.tool = call[c].tool /\ r \in CallRec
        /\ r.astray = call[c].astray /\ r.told = call[c].told /\ r.block = b
        /\ r.ask = IF b = call[c].block THEN call[c].ask ELSE None
    <3>1. on[b] \in Channels
      BY <1>0
    <3>2. r \in CallRec /\ r.tool = call[c].tool /\ r.kind = "param"
      BY <1>0, <3>1, WireOK
    <3> QED BY <1>0, <3>2 DEF ParamWire, CallRec
  <2>3. \A d \in Blocks : Known(d)'
    BY <1>k, <2>1 DEF Known, SendParam
  <2>4. call[c].tool \in Honest /\ call[c].ask # None =>
          ~call[c].told \/ on[call[c].block] = call[c].ask
    BY <1>0, <2>1 DEF Accounted, Told
  <2>5. r.tool \in Honest /\ (r.astray \/ Elsewhere(r)) => ~r.told
    BY <1>t, <2>1, <2>2, <2>4 DEF Elsewhere
  <2> HIDE DEF r
  <2> QED BY <2>1, <2>2, <2>3, <2>5, SendParamCache
<1>11. CASE WireScene(c)
  <2> DEFINE r == SceneWire(c)
  <2>1. call[c].pc = "wires" /\ SendNav(c, r, "wireAck")
        /\ UNCHANGED <<channel, misreported, misled>>
    BY <1>11 DEF WireScene, MoreWires, SceneWire
  <2>2. r \in CallRec /\ r.tool = call[c].tool /\ r.kind = "scene" /\ r.scenes
        /\ r.astray = call[c].astray /\ r.told = call[c].told
    BY <1>0, SceneOK DEF SceneWire, CallRec
  <2> HIDE DEF r
  <2>3. PICK out \in Outcomes :
          /\ IF Landed(out) THEN on' \in [Blocks -> Channels] ELSE UNCHANGED on
          /\ unsure' = IF out = "mute" THEN Blocks ELSE unsure
          /\ call' = [call EXCEPT ![c] = [r EXCEPT !.pc = "wireAck", !.acked = (out = "ok"),
                                                   !.astray = r.astray \/ ~Landed(out)]]
    BY <2>1 DEF SendNav, Resume
  <2>4. out \in {"ok", "mute", "lost"}
    BY DEF AllOutcomes
  <2>5. /\ call'[c].pc = "wireAck" /\ call'[c].kind = "scene" /\ call'[c].scenes
        /\ call'[c].tool = r.tool /\ call'[c].told = r.told
        /\ (call'[c].acked <=> out = "ok")
        /\ (call'[c].astray => r.astray \/ out = "lost")
    BY <2>2, <2>3, <2>4 DEF CallRec, Landed, CacheInv, TypeInv, TypeOK
  <2>6. ~call'[c].acked => \A d \in Blocks : Known(d)'
    BY <1>k, <2>1, <2>3, <2>4, <2>5 DEF Landed, Known
  <2>7. Pending(c)' /\ \A d \in Blocks : Moving(call'[c], d)
    BY <2>5, <2>6 DEF Pending, Moving
  <2>8. Accounted(c)'
    BY <1>t, <2>1, <2>2, <2>4, <2>5 DEF Accounted, Told, Honest
  <2>9. SuccessIsTrue'
    BY <1>0, <2>1 DEF SuccessIsTrue
  <2> QED BY <2>7, <2>8, <2>9, StepCache
<1>12. CASE WireOver(c)
  <2> DEFINE told == call[c].told /\ call[c].acked
  <2>1. /\ call[c].pc = "wireAck" /\ on' = on /\ misreported' = misreported
        /\ call' = [call EXCEPT ![c] = [call[c] EXCEPT !.pc = "wires", !.told = told]]
    BY <1>12 DEF WireOver, Resume
  <2>2. told \in BOOLEAN
    BY Zenon
  <2>3. \A d \in Blocks : Known(d)'
    <3>1. CASE call[c].acked /\ call[c].kind = "channel"
      <4>1. channel' = [channel EXCEPT ![call[c].block] = call[c].value]
            /\ unsure' = unsure \ {call[c].block} /\ on[call[c].block] = call[c].value
        BY <1>0, <1>12, <2>1, <3>1 DEF WireOver, Observe, Pending, Learns
      <4>2. \A d \in Blocks \ {call[c].block} : Known(d)
        BY <2>1, <3>1, OneMoves DEF Moving
      <4> QED BY <1>0, <2>1, <4>1, <4>2 DEF Known
    <3>2. CASE call[c].acked /\ call[c].kind = "scene"
      BY <1>12, <3>2 DEF WireOver, invalidateChannelCache, Known
    <3>3. CASE ~(call[c].acked /\ call[c].kind \in {"channel", "scene"})
      <4>1. channel' = channel /\ unsure' = unsure
        BY <1>12, <3>3 DEF WireOver, ChannelsKept
      <4>2. \A d \in Blocks : Known(d)
        BY <1>0, <2>1, <3>3, OneMoves DEF Moving, Pending, Learns
      <4> QED BY <2>1, <4>1, <4>2 DEF Known
    <3> QED BY <3>1, <3>2, <3>3
  <2>4. Told(call[c]) => ~told
    BY <2>1 DEF Told
  <2> HIDE DEF told
  <2>5. /\ call'[c].pc = "wires" /\ call'[c].tool = call[c].tool /\ call'[c].told = told
        /\ call'[c].astray = call[c].astray /\ call'[c].scenes = call[c].scenes
        /\ call'[c].ask = call[c].ask /\ call'[c].block = call[c].block
    BY <1>0, <2>1 DEF CallRec, CacheInv, TypeInv, TypeOK
  <2>6. ~told => Told(call'[c])
    BY <2>5, Zenon DEF Told
  <2>7. Accounted(c)'
    BY <1>0, <2>1, <2>4, <2>5, <2>6 DEF Accounted
  <2>8. Pending(c)' /\ SuccessIsTrue'
    BY <1>0, <2>1, <2>5 DEF Pending, SuccessIsTrue
  <2> QED BY <2>3, <2>7, <2>8, StepCache
<1> QED BY <1>1, <1>2, <1>3, <1>4, <1>5, <1>6, <1>7, <1>8, <1>9, <1>10, <1>11, <1>12
        DEF Continue

THEOREM CacheInvariant == ASSUME OneCall PROVE Spec => []CacheInv
<1>1. CacheInv /\ [Next]_vars => CacheInv'
  <2> SUFFICES ASSUME CacheInv, [Next]_vars PROVE CacheInv'
    OBVIOUS
  <2>1. CASE UNCHANGED vars
    BY <2>1 DEF vars, CacheInv, TypeInv, TypeOK, Working, CacheTruth, SuccessIsTrue,
                Pending, Learns, Known, Accounted
  <2>2. CASE Reconnect
    <3>1. TypeInv'
      BY <2>2 DEF Reconnect, invalidateChannelCache, CacheInv, TypeInv, TypeOK, Working
    <3>2. /\ UNCHANGED <<on, call, misreported, misled>>
          /\ \A b \in Blocks : channel'[b] = None
      BY <2>2 DEF Reconnect, invalidateChannelCache
    <3>3. ASSUME NEW c \in Calls PROVE Pending(c)' /\ Accounted(c)'
      <4>1. Pending(c) /\ Accounted(c) /\ Fit(call[c]) /\ call[c].block \in Blocks \cup {None}
        BY TypeFit DEF CacheInv, Fit, CallRec
      <4>2. Accounted(c)'
        BY <3>2, <4>1 DEF Accounted
      <4>3. Pending(c)'
        BY <3>2, <4>1 DEF Pending, Learns, Known, Fit
      <4> QED BY <4>2, <4>3
    <3> QED BY <3>1, <3>2, <3>3 DEF CacheInv, CacheTruth, SuccessIsTrue
  <2>3. ASSUME NEW c \in Calls, Begin(c) \/ Continue(c)
        PROVE  CacheInv'
    <3>1. TypeInv'
      BY <2>3, BeginType, ContinueType DEF CacheInv
    <3> QED BY <2>3, <3>1, BeginCache, ContinueCache
  <2> QED BY <2>1, <2>2, <2>3 DEF Next
<1> QED BY InitCache, <1>1, PTL DEF Spec

\* A cached channel is the one the block is on, however the operations of a
\* batch fail and whatever is lost, for one call at a time (channels.ts:31-56);
\* but for the blocks moved by a channel write, or by a scene switch of a wire
\* pass, whose echo was lost: applyExecutor.ts:641-644 and channels.ts:147-153
\* keep what they had cached of those.
THEOREM CacheIsTrue == ASSUME OneCall PROVE Spec => []CacheTruth
<1>1. CacheInv => CacheTruth
  BY DEF CacheInv
<1> QED BY <1>1, CacheInvariant, PTL

\* A set tool or a working-buffer apply that reports success has put every
\* parameter in the channel its caller asked for, for one call at a time;
\* but for the parameters of a block whose last move was not heard.
THEOREM SuccessIsHonest == ASSUME OneCall PROVE Spec => []SuccessIsTrue
<1>1. CacheInv => SuccessIsTrue
  BY DEF CacheInv
<1> QED BY <1>1, CacheInvariant, PTL

-----------------------------------------------------------------------------
(* apply_preset: AM4ApplyPreset.                                            *)

----------------------------------------------------------------------------
(* Numbers and recursions.                                                 *)

Less == {p \in Nat \X Nat : p[1] < p[2]}

\* Every non-empty set of numbers has a least one.
LEMMA LeastNumber ==
  ASSUME NEW T, T \subseteq Nat, T # {}
  PROVE  \E n \in T : \A m \in T : n <= m
<1>1. Less = OpToRel(<, Nat)
  BY DEF Less, OpToRel
<1>2. PICK n \in T : \A m \in T : <<m, n>> \notin Less
  BY <1>1, NatLessThanWellFounded, WFMin
<1>3. \A m \in T : n <= m
  <2> TAKE m \in T
  <2>1. <<m, n>> \in Nat \X Nat
    BY <1>2
  <2>2. ~(m < n)
    BY <1>2, <2>1 DEF Less
  <2> QED BY <2>2, <1>2
<1> QED BY <1>3

\* What has become of buffer d after the first n writes.
Run(d, ws, n) ==
  LET state[i \in 0 .. n] == IF i = 0 THEN d ELSE Land(state[i - 1], ws[i])
  IN  state[n]

Through(d, ws) == Run(d, ws, Len(ws))

\* f is what becomes of d, write by write, up to the n-th.
Runs(f, d, ws, n) ==
  f = [i \in 0 .. n |-> IF i = 0 THEN d ELSE Land(f[i - 1], ws[i])]

LEMMA RunExists ==
  ASSUME NEW d, NEW ws, NEW n \in Nat
  PROVE  \E f : Runs(f, d, ws, n)
<1> DEFINE T == {k \in Nat : ~\E f : Runs(f, d, ws, k)}
<1> SUFFICES ASSUME T # {} PROVE FALSE
  OBVIOUS
<1>1. PICK k \in T : \A m \in T : k <= m
  BY LeastNumber
<1>2. CASE k = 0
  <2> DEFINE f == [i \in 0 .. 0 |-> d]
  <2>1. Runs(f, d, ws, 0)
    BY DEF Runs
  <2> QED BY <1>2, <2>1
<1>3. CASE k # 0
  <2>1. k - 1 \in Nat /\ k - 1 \notin T
    BY <1>1, <1>3
  <2>2. PICK g : Runs(g, d, ws, k - 1)
    BY <2>1
  <2> DEFINE f == [i \in 0 .. k |-> IF i = k THEN Land(g[k - 1], ws[k]) ELSE g[i]]
  <2>3. ASSUME NEW i \in 0 .. k
        PROVE  f[i] = IF i = 0 THEN d ELSE Land(f[i - 1], ws[i])
    <3>1. CASE i = 0
      BY <1>3, <3>1, <2>1, <2>2 DEF Runs
    <3>2. CASE i = k
      BY <1>3, <3>2, <2>1, <2>2
    <3>3. CASE i # 0 /\ i # k
      <4>1. i \in 0 .. (k - 1) /\ i - 1 \in 0 .. k /\ i - 1 # k
        BY <3>3, <1>1
      <4>2. g[i] = Land(g[i - 1], ws[i])
        BY <4>1, <3>3, <2>2 DEF Runs
      <4> QED BY <4>1, <4>2, <3>3
    <3> QED BY <3>1, <3>2, <3>3
  <2>4. Runs(f, d, ws, k)
    <3>1. f = [i \in 0 .. k |-> f[i]]
      OBVIOUS
    <3> HIDE DEF f
    <3> QED BY <3>1, <2>3 DEF Runs
  <2> QED BY <2>4, <1>1
<1> QED BY <1>2, <1>3

LEMMA RunUnique ==
  ASSUME NEW d, NEW ws, NEW n \in Nat, NEW k \in Nat, NEW f, NEW g,
         Runs(f, d, ws, n), Runs(g, d, ws, k),
         NEW i \in Nat, i <= n, i <= k
  PROVE  f[i] = g[i]
<1> DEFINE T == {j \in Nat : j <= n /\ j <= k /\ f[j] # g[j]}
<1> SUFFICES ASSUME T # {} PROVE FALSE
  OBVIOUS
<1>1. PICK j \in T : \A m \in T : j <= m
  BY LeastNumber
<1>2. j # 0
  BY <1>1 DEF Runs
<1>3. j - 1 \in Nat /\ f[j - 1] = g[j - 1]
  BY <1>1, <1>2
<1>4. j \in 0 .. n /\ j \in 0 .. k
  BY <1>1
<1>5. f[j] = Land(f[j - 1], ws[j]) /\ g[j] = Land(g[j - 1], ws[j])
  BY <1>2, <1>4 DEF Runs
<1> QED BY <1>1, <1>3, <1>5

LEMMA RunIs ==
  ASSUME NEW d, NEW ws, NEW n \in Nat
  PROVE  \E f : Runs(f, d, ws, n) /\ Run(d, ws, n) = f[n]
<1> DEFINE f == CHOOSE f : Runs(f, d, ws, n)
<1>1. Runs(f, d, ws, n)
  BY RunExists
<1>2. Run(d, ws, n) = f[n]
  BY DEF Run, Runs
<1> QED BY <1>1, <1>2

\* Run is the recursion it looks like.
LEMMA RunNone ==
  ASSUME NEW d, NEW ws
  PROVE  Run(d, ws, 0) = d
BY RunIs DEF Runs

LEMMA RunNext ==
  ASSUME NEW d, NEW ws, NEW n \in Nat \ {0}
  PROVE  Run(d, ws, n) = Land(Run(d, ws, n - 1), ws[n])
<1>1. PICK f : Runs(f, d, ws, n) /\ Run(d, ws, n) = f[n]
  BY RunIs
<1>2. PICK g : Runs(g, d, ws, n - 1) /\ Run(d, ws, n - 1) = g[n - 1]
  BY RunIs
<1>3. f[n - 1] = g[n - 1]
  BY <1>1, <1>2, RunUnique
<1>4. f[n] = Land(f[n - 1], ws[n])
  BY <1>1 DEF Runs
<1> QED BY <1>1, <1>2, <1>3, <1>4

\* Where each write leads from a set of buffers into the next one, so does
\* every number of them.
LEMMA RunWithin ==
  ASSUME NEW n \in Nat, NEW I, NEW ws, NEW d \in I[0],
         \A i \in 1 .. n : \A e \in I[i - 1] : Land(e, ws[i]) \in I[i],
         NEW k \in 0 .. n
  PROVE  Run(d, ws, k) \in I[k]
<1> DEFINE T == {j \in Nat : j <= n /\ Run(d, ws, j) \notin I[j]}
<1> SUFFICES ASSUME T # {} PROVE FALSE
  OBVIOUS
<1>1. PICK j \in T : \A m \in T : j <= m
  BY LeastNumber
<1>2. j # 0
  BY <1>1, RunNone
<1>3. j - 1 \in Nat /\ Run(d, ws, j - 1) \in I[j - 1] /\ j \in 1 .. n
  BY <1>1, <1>2
<1>4. Run(d, ws, j) = Land(Run(d, ws, j - 1), ws[j])
  BY <1>1, <1>2, RunNext
<1> QED BY <1>1, <1>3, <1>4

LEMMA ThroughNone ==
  ASSUME NEW d
  PROVE  Through(d, <<>>) = d
BY RunNone DEF Through

LEMMA ThroughOne ==
  ASSUME NEW d, NEW w
  PROVE  Through(d, <<w>>) = Land(d, w)
<1>1. Len(<<w>>) = 1 /\ <<w>>[1] = w
  OBVIOUS
<1>2. Run(d, <<w>>, 1) = Land(Run(d, <<w>>, 0), w)
  BY <1>1, RunNext
<1> QED BY <1>1, <1>2, RunNone DEF Through

LEMMA ThroughConcat ==
  ASSUME NEW S, NEW a \in Seq(S), NEW b \in Seq(S), NEW d
  PROVE  Through(d, a \o b) = Through(Through(d, a), b)
<1> DEFINE m == Len(a)
           n == Len(b)
           c == a \o b
<1>1. /\ m \in Nat /\ n \in Nat /\ Len(c) = m + n
      /\ \A i \in 1 .. m : c[i] = a[i]
      /\ \A i \in 1 .. n : c[m + i] = b[i]
  BY LenProperties, ConcatProperties
<1> HIDE DEF m, n, c
<1>2. Run(d, a, m) = Run(d, c, m)
  <2> DEFINE I == [i \in 0 .. m |-> {Run(d, c, i)}]
  <2>1. ASSUME NEW i \in 1 .. m, NEW e \in I[i - 1]
        PROVE  Land(e, a[i]) \in I[i]
    <3>1. i \in Nat \ {0} /\ i - 1 \in 0 .. m /\ i \in 0 .. m
      BY <1>1
    <3>2. Run(d, c, i) = Land(Run(d, c, i - 1), c[i])
      BY <3>1, RunNext
    <3> QED BY <1>1, <3>1, <3>2, <2>1
  <2>2. d \in I[0]
    BY <1>1, RunNone
  <2>3. m \in 0 .. m /\ (Run(d, a, m) \in I[m] => Run(d, a, m) = Run(d, c, m))
    BY <1>1
  <2> HIDE DEF I
  <2> QED BY <1>1, <2>1, <2>2, <2>3, RunWithin
<1>3. Run(Run(d, a, m), b, n) = Run(d, c, m + n)
  <2> DEFINE I == [i \in 0 .. n |-> {Run(d, c, m + i)}]
  <2>1. ASSUME NEW i \in 1 .. n, NEW e \in I[i - 1]
        PROVE  Land(e, b[i]) \in I[i]
    <3>1. m + i \in Nat \ {0} /\ i - 1 \in 0 .. n /\ i \in 0 .. n /\ m + (i - 1) = (m + i) - 1
      BY <1>1
    <3>2. Run(d, c, m + i) = Land(Run(d, c, (m + i) - 1), c[m + i])
      BY <3>1, RunNext
    <3> QED BY <1>1, <3>1, <3>2, <2>1
  <2>2. Run(d, a, m) \in I[0]
    <3>1. m + 0 = m
      BY <1>1
    <3> QED BY <1>1, <1>2, <3>1
  <2>3. n \in 0 .. n /\ (Run(Run(d, a, m), b, n) \in I[n] =>
                           Run(Run(d, a, m), b, n) = Run(d, c, m + n))
    BY <1>1
  <2> HIDE DEF I
  <2> QED BY <1>1, <2>1, <2>2, <2>3, RunWithin
<1> QED BY <1>1, <1>3 DEF Through, m, n, c

\* f is the first k of n sequences, one after the other.
Flattens(f, seqs, n) ==
  f = [i \in 1 .. n |-> IF i = 1 THEN seqs[i] ELSE f[i - 1] \o seqs[i]]

LEMMA FlattensExists ==
  ASSUME NEW seqs, NEW n \in Nat
  PROVE  \E f : Flattens(f, seqs, n)
<1> DEFINE T == {k \in Nat : ~\E f : Flattens(f, seqs, k)}
<1> SUFFICES ASSUME T # {} PROVE FALSE
  OBVIOUS
<1>1. PICK k \in T : \A m \in T : k <= m
  BY LeastNumber
<1>2. CASE k = 0
  <2> DEFINE f == [i \in 1 .. 0 |-> seqs[i]]
  <2>1. Flattens(f, seqs, 0)
    BY DEF Flattens
  <2> QED BY <1>1, <1>2, <2>1
<1>3. CASE k # 0
  <2>1. k - 1 \in Nat /\ k - 1 \notin T
    BY <1>1, <1>3
  <2>2. PICK g : Flattens(g, seqs, k - 1)
    BY <2>1
  <2> DEFINE f == [i \in 1 .. k |-> IF i = k THEN IF k = 1 THEN seqs[k] ELSE g[k - 1] \o seqs[k]
                                    ELSE g[i]]
  <2>3. ASSUME NEW i \in 1 .. k
        PROVE  f[i] = IF i = 1 THEN seqs[i] ELSE f[i - 1] \o seqs[i]
    <3>1. CASE i = k
      <4>1. k # 1 => k - 1 \in 1 .. k /\ k - 1 # k
        BY <1>1, <1>3
      <4> QED BY <3>1, <4>1
    <3>2. CASE i # k
      <4>1. i \in 1 .. (k - 1) /\ (i # 1 => i - 1 \in 1 .. k /\ i - 1 # k)
        BY <3>2, <1>1
      <4>2. g[i] = IF i = 1 THEN seqs[i] ELSE g[i - 1] \o seqs[i]
        BY <4>1, <2>2 DEF Flattens
      <4> QED BY <4>1, <4>2, <3>2
    <3> QED BY <3>1, <3>2
  <2>4. Flattens(f, seqs, k)
    <3>1. f = [i \in 1 .. k |-> f[i]]
      OBVIOUS
    <3> HIDE DEF f
    <3> QED BY <3>1, <2>3 DEF Flattens
  <2> QED BY <2>4, <1>1
<1> QED BY <1>2, <1>3

LEMMA FlattenIs ==
  ASSUME NEW S, NEW n \in Nat \ {0}, NEW seqs \in [1 .. n -> Seq(S)]
  PROVE  \E f : /\ FlattenSeq(seqs) = f[n]
                /\ f[1] = seqs[1]
                /\ \A i \in 2 .. n : f[i] = f[i - 1] \o seqs[i]
<1>1. Len(seqs) = n
  <2>1. seqs \in Seq(Seq(S)) /\ DOMAIN seqs = 1 .. n
    BY SeqDef
  <2> QED BY <2>1, LenProperties
<1>2. FlattenSeq(seqs) = (CHOOSE f : Flattens(f, seqs, n))[n]
  BY <1>1 DEF FlattenSeq, Flattens
<1>3. PICK f : Flattens(f, seqs, n) /\ FlattenSeq(seqs) = f[n]
  BY <1>2, FlattensExists
<1>4. f[1] = seqs[1]
  BY <1>3 DEF Flattens
<1>5. \A i \in 2 .. n : f[i] = f[i - 1] \o seqs[i]
  <2> TAKE i \in 2 .. n
  <2>1. i \in 1 .. n /\ i # 1
    OBVIOUS
  <2> QED BY <1>3, <2>1 DEF Flattens
<1> QED BY <1>3, <1>4, <1>5

\* A loop whose rounds write into S writes into S, and where each round leads
\* from a set of buffers into the next one, so does the loop.
LEMMA FlattenWithin ==
  ASSUME NEW S, NEW n \in Nat \ {0}, NEW seqs \in [1 .. n -> Seq(S)]
  PROVE  /\ FlattenSeq(seqs) \in Seq(S)
         /\ \A I : \A d \in I[0] :
              (\A i \in 1 .. n : \A e \in I[i - 1] : Through(e, seqs[i]) \in I[i])
                => Through(d, FlattenSeq(seqs)) \in I[n]
<1>1. PICK f : /\ FlattenSeq(seqs) = f[n]
               /\ f[1] = seqs[1]
               /\ \A i \in 2 .. n : f[i] = f[i - 1] \o seqs[i]
  BY FlattenIs
<1>2. ASSUME NEW I, NEW d \in I[0],
             \A i \in 1 .. n : \A e \in I[i - 1] : Through(e, seqs[i]) \in I[i]
      PROVE  \A i \in 1 .. n : f[i] \in Seq(S) /\ Through(d, f[i]) \in I[i]
  <2> DEFINE T == {j \in Nat : j \in 1 .. n /\ ~(f[j] \in Seq(S) /\ Through(d, f[j]) \in I[j])}
  <2> SUFFICES ASSUME NEW i \in 1 .. n, ~(f[i] \in Seq(S) /\ Through(d, f[i]) \in I[i])
               PROVE  FALSE
    OBVIOUS
  <2>1. PICK j \in T : \A m \in T : j <= m
    <3>1. T \subseteq Nat /\ i \in T
      OBVIOUS
    <3> HIDE DEF T
    <3> QED BY <3>1, LeastNumber
  <2>2. j \in 1 .. n /\ seqs[j] \in Seq(S)
    BY <2>1
  <2>3. CASE j = 1
    <3>1. 1 - 1 = 0
      OBVIOUS
    <3> QED BY <1>1, <1>2, <2>1, <2>2, <2>3, <3>1
  <2>4. CASE j # 1
    <3>1. j \in 2 .. n /\ j - 1 \in 1 .. n /\ j - 1 \in Nat /\ ~(j <= j - 1)
      BY <2>2, <2>4
    <3>2. f[j - 1] \in Seq(S) /\ Through(d, f[j - 1]) \in I[j - 1]
      <4>1. j - 1 \notin T
        <5> HIDE DEF T
        <5> QED BY <2>1, <3>1
      <4> QED BY <3>1, <4>1
    <3>3. f[j] = f[j - 1] \o seqs[j]
      BY <1>1, <3>1
    <3>4. f[j] \in Seq(S) /\ Through(d, f[j]) = Through(Through(d, f[j - 1]), seqs[j])
      BY <2>2, <3>2, <3>3, ThroughConcat, ConcatProperties
    <3> QED BY <1>2, <2>1, <2>2, <3>2, <3>4
  <2> QED BY <2>3, <2>4
<1>3. FlattenSeq(seqs) \in Seq(S)
  <2> DEFINE T == {j \in Nat : j \in 1 .. n /\ f[j] \notin Seq(S)}
  <2> SUFFICES ASSUME T # {} PROVE FALSE
    BY <1>1, n \in 1 .. n
  <2>1. PICK j \in T : \A m \in T : j <= m
    BY LeastNumber
  <2>2. j \in 1 .. n /\ seqs[j] \in Seq(S) /\ f[j] \notin Seq(S)
    BY <2>1
  <2>3. j # 1
    BY <1>1, <2>2
  <2>4. j \in 2 .. n /\ j - 1 \in 1 .. n /\ j - 1 \in Nat /\ j - 1 \notin T
    BY <2>1, <2>2, <2>3
  <2>5. f[j - 1] \in Seq(S) /\ f[j] = f[j - 1] \o seqs[j]
    BY <1>1, <2>4
  <2> QED BY <2>2, <2>5, ConcatProperties
<1>4. n \in 1 .. n
  OBVIOUS
<1> QED BY <1>1, <1>2, <1>3, <1>4

----------------------------------------------------------------------------
(* What each write does to the buffer.                                     *)

Places == [kind : {"place"}, block : SlotBlocks \cup {Empty}, value : Positions]
Moves == [kind : {"channel"}, block : ChannelBlocks, value : ChannelNumbers]
TypeWrites == [kind : {"type"}, block : SlotBlocks, value : Types]
KnobWrites == [kind : {"knob"}, block : SlotBlocks, value : ChannelNumbers]
Switches == [kind : {"scene"}, block : {Empty}, value : Scenes]
SceneNames == [kind : {"sceneName"}, block : {Empty}, value : {"asked", "empty"}]
Renames == [kind : {"rename"}, block : {Empty}, value : {"asked"}]
Bypasses == [kind : {"bypass"}, block : SlotBlocks, value : BOOLEAN]

SlotPart == Places \cup Moves \cup TypeWrites \cup KnobWrites
ScenePart == Switches \cup Moves \cup Bypasses \cup SceneNames
Writes == SlotPart \cup ScenePart \cup Renames

SameSlots(d, e) == e.slots = d.slots /\ e.name = d.name
SameParams(d, e) == e.type = d.type /\ e.knob = d.knob
SameScenes(d, e) == e.bypassed = d.bypassed /\ e.sceneName = d.sceneName

LEMMA ChannelsPositive == 
  /\ ChannelCount \in Nat \ {0} /\ SceneCount \in Nat \ {0} /\ PositionCount \in Nat \ {0}
  /\ 1 \in ChannelNumbers
BY AM4ApplyPresetConstants DEF ChannelNumbers

LEMMA OnChannelOK ==
  ASSUME NEW d \in Devices, NEW b \in SlotBlocks
  PROVE  OnChannel(d, b) \in ChannelNumbers
BY ChannelsPositive DEF OnChannel, Devices

LEMMA LandPlace ==
  ASSUME NEW d \in Devices, NEW w \in Places
  PROVE  LET e == Land(d, w)
         IN  /\ e \in Devices
             /\ e.slots = [d.slots EXCEPT ![w.value] = w.block]
             /\ e.active = d.active /\ e.pointer = d.pointer /\ e.name = d.name
             /\ SameParams(d, e) /\ SameScenes(d, e)
BY DEF Land, Places, Devices, SameParams, SameScenes

LEMMA LandMove ==
  ASSUME NEW d \in Devices, NEW w \in Moves
  PROVE  LET e == Land(d, w)
         IN  /\ e \in Devices
             /\ e.active = d.active
             /\ \A x \in Scenes, b \in ChannelBlocks :
                  e.pointer[x][b] = IF x = d.active /\ b = w.block THEN w.value
                                    ELSE d.pointer[x][b]
             /\ SameSlots(d, e) /\ SameParams(d, e) /\ SameScenes(d, e)
<1>1. Land(d, w) = [d EXCEPT !.pointer[d.active][w.block] = w.value]
  BY DEF Land, Moves
<1>2. d.active \in Scenes /\ w.block \in ChannelBlocks /\ w.value \in ChannelNumbers
  BY DEF Devices, Moves
<1>3. d.pointer \in [Scenes -> [ChannelBlocks -> ChannelNumbers]]
  BY DEF Devices
<1> DEFINE q == [d.pointer EXCEPT ![d.active][w.block] = w.value]
<1>4. q \in [Scenes -> [ChannelBlocks -> ChannelNumbers]]
  BY <1>2, <1>3
<1>5. \A x \in Scenes, b \in ChannelBlocks :
        q[x][b] = IF x = d.active /\ b = w.block THEN w.value ELSE d.pointer[x][b]
  BY <1>2, <1>3
<1>6. Land(d, w) = [d EXCEPT !.pointer = q]
  BY <1>1, <1>2 DEF Devices
<1>7. Land(d, w).pointer = q
  BY <1>6 DEF Devices
<1> HIDE DEF q
<1>8. /\ Land(d, w) \in Devices /\ Land(d, w).active = d.active
      /\ SameSlots(d, Land(d, w)) /\ SameParams(d, Land(d, w)) /\ SameScenes(d, Land(d, w))
  BY <1>4, <1>6 DEF Devices, SameSlots, SameParams, SameScenes
<1> QED BY <1>5, <1>7, <1>8

LEMMA LandType ==
  ASSUME NEW d \in Devices, NEW w \in TypeWrites
  PROVE  LET e == Land(d, w)
         IN  /\ e \in Devices
             /\ e.active = d.active /\ e.pointer = d.pointer
             /\ \A b \in SlotBlocks, c \in ChannelNumbers :
                  e.type[b][c] = IF b = w.block /\ c = OnChannel(d, b) THEN w.value
                                 ELSE d.type[b][c]
             /\ e.knob = d.knob
             /\ SameSlots(d, e) /\ SameScenes(d, e)
<1>1. Land(d, w) = [d EXCEPT !.type[w.block][OnChannel(d, w.block)] = w.value]
  BY DEF Land, TypeWrites
<1>2. w.block \in SlotBlocks /\ w.value \in Types /\ OnChannel(d, w.block) \in ChannelNumbers
  BY OnChannelOK DEF TypeWrites
<1> DEFINE here == OnChannel(d, w.block)
           q == [d.type EXCEPT ![w.block][here] = w.value]
<1>3. d.type \in [SlotBlocks -> [ChannelNumbers -> Types]]
  BY DEF Devices
<1>4. q \in [SlotBlocks -> [ChannelNumbers -> Types]]
  BY <1>2, <1>3
<1>5. \A b \in SlotBlocks, c \in ChannelNumbers :
        q[b][c] = IF b = w.block /\ c = here THEN w.value ELSE d.type[b][c]
  BY <1>2, <1>3
<1>6. Land(d, w) = [d EXCEPT !.type = q]
  BY <1>1, <1>2 DEF Devices
<1> HIDE DEF q
<1>7. \A b \in SlotBlocks, c \in ChannelNumbers :
        Land(d, w).type[b][c] = IF b = w.block /\ c = OnChannel(d, b) THEN w.value ELSE d.type[b][c]
  BY <1>5, <1>6 DEF Devices
<1> HIDE DEF here
<1> QED BY <1>4, <1>6, <1>7 DEF Devices, SameSlots, SameScenes

LEMMA LandKnob ==
  ASSUME NEW d \in Devices, NEW w \in KnobWrites
  PROVE  LET e == Land(d, w)
         IN  /\ e \in Devices
             /\ e.active = d.active /\ e.pointer = d.pointer
             /\ \A b \in SlotBlocks, c \in ChannelNumbers :
                  e.knob[b][c] = IF b = w.block /\ c = OnChannel(d, b) /\ d.type[b][c] \in Exposing
                                   THEN w.value ELSE d.knob[b][c]
             /\ e.type = d.type
             /\ SameSlots(d, e) /\ SameScenes(d, e)
<1> DEFINE here == OnChannel(d, w.block)
<1>1. Land(d, w) = IF d.type[w.block][here] \in Exposing
                     THEN [d EXCEPT !.knob[w.block][here] = w.value]
                     ELSE d
  BY DEF Land, KnobWrites
<1>2. w.block \in SlotBlocks /\ w.value \in ChannelNumbers /\ here \in ChannelNumbers
  BY OnChannelOK DEF KnobWrites
<1>3. CASE d.type[w.block][here] \in Exposing
  <2> DEFINE q == [d.knob EXCEPT ![w.block][here] = w.value]
  <2>1. d.knob \in [SlotBlocks -> [ChannelNumbers -> {0} \cup ChannelNumbers]]
    BY DEF Devices
  <2>2. q \in [SlotBlocks -> [ChannelNumbers -> {0} \cup ChannelNumbers]]
    BY <1>2, <2>1
  <2>3. \A b \in SlotBlocks, c \in ChannelNumbers :
          q[b][c] = IF b = w.block /\ c = here THEN w.value ELSE d.knob[b][c]
    BY <1>2, <2>1
  <2>4. Land(d, w) = [d EXCEPT !.knob = q]
    BY <1>1, <1>2, <1>3 DEF Devices
  <2> HIDE DEF q
  <2>5. \A b \in SlotBlocks, c \in ChannelNumbers :
          Land(d, w).knob[b][c] =
            IF b = w.block /\ c = OnChannel(d, b) /\ d.type[b][c] \in Exposing
              THEN w.value ELSE d.knob[b][c]
    BY <1>3, <2>3, <2>4 DEF Devices
  <2> HIDE DEF here
  <2> QED BY <2>2, <2>4, <2>5 DEF Devices, SameSlots, SameScenes
<1>4. CASE d.type[w.block][here] \notin Exposing
  BY <1>1, <1>2, <1>4 DEF SameSlots, SameScenes
<1> QED BY <1>3, <1>4

LEMMA LandScene ==
  ASSUME NEW d \in Devices, NEW w \in Switches
  PROVE  LET e == Land(d, w)
         IN  /\ e \in Devices
             /\ e.active = w.value /\ e.pointer = d.pointer
             /\ SameSlots(d, e) /\ SameParams(d, e) /\ SameScenes(d, e)
BY DEF Land, Switches, Devices, SameSlots, SameParams, SameScenes

LEMMA LandSceneName ==
  ASSUME NEW d \in Devices, NEW w \in SceneNames
  PROVE  LET e == Land(d, w)
         IN  /\ e \in Devices
             /\ e.active = d.active /\ e.pointer = d.pointer /\ e.bypassed = d.bypassed
             /\ e.sceneName = [d.sceneName EXCEPT ![d.active] = w.value]
             /\ SameSlots(d, e) /\ SameParams(d, e)
BY DEF Land, SceneNames, Devices, SameSlots, SameParams

LEMMA LandRename ==
  ASSUME NEW d \in Devices, NEW w \in Renames
  PROVE  LET e == Land(d, w)
         IN  /\ e \in Devices
             /\ e.active = d.active /\ e.pointer = d.pointer /\ e.slots = d.slots
             /\ SameParams(d, e) /\ SameScenes(d, e)
BY DEF Land, Renames, Devices, SameParams, SameScenes

LEMMA LandBypass ==
  ASSUME NEW d \in Devices, NEW w \in Bypasses
  PROVE  LET e == Land(d, w)
         IN  /\ e \in Devices
             /\ e.active = d.active /\ e.pointer = d.pointer /\ e.sceneName = d.sceneName
             /\ e.bypassed = [d.bypassed EXCEPT ![d.active] =
                                IF w.value THEN @ \cup {w.block} ELSE @ \ {w.block}]
             /\ SameSlots(d, e) /\ SameParams(d, e)
<1>1. Land(d, w) = [d EXCEPT !.bypassed[d.active] =
                      IF w.value THEN @ \cup {w.block} ELSE @ \ {w.block}]
  BY DEF Land, Bypasses
<1>2. d.active \in Scenes /\ w.block \in SlotBlocks /\ w.value \in BOOLEAN
  BY DEF Devices, Bypasses
<1>3. d.bypassed \in [Scenes -> SUBSET SlotBlocks]
  BY DEF Devices
<1> DEFINE q == [d.bypassed EXCEPT ![d.active] =
                   IF w.value THEN @ \cup {w.block} ELSE @ \ {w.block}]
<1>4. q \in [Scenes -> SUBSET SlotBlocks]
  BY <1>2, <1>3
<1>5. Land(d, w) = [d EXCEPT !.bypassed = q]
  BY <1>1, <1>2 DEF Devices
<1>6. Land(d, w).bypassed = q
  BY <1>5 DEF Devices
<1> HIDE DEF q
<1>7. /\ Land(d, w) \in Devices
      /\ Land(d, w).active = d.active /\ Land(d, w).pointer = d.pointer
      /\ Land(d, w).sceneName = d.sceneName
      /\ SameSlots(d, Land(d, w)) /\ SameParams(d, Land(d, w))
  BY <1>4, <1>5 DEF Devices, SameSlots, SameParams
<1> QED BY <1>6, <1>7 DEF q

\* The buffer stays a buffer; the parameters change by parameter writes only,
\* and the scenes' bypasses and names by the scene part only.
LEMMA LandKeeps ==
  ASSUME NEW d \in Devices, NEW w \in Writes
  PROVE  /\ Land(d, w) \in Devices
         /\ w \in SlotPart => SameScenes(d, Land(d, w)) /\ Land(d, w).active = d.active
         /\ w \in ScenePart \cup Renames \cup Places => SameParams(d, Land(d, w))
         /\ w \in ScenePart => SameSlots(d, Land(d, w))
<1>1. CASE w \in Places
  BY <1>1, LandPlace DEF Places, SlotPart, ScenePart, Switches, Moves, Bypasses, SceneNames
<1>2. CASE w \in Moves
  BY <1>2, LandMove
<1>3. CASE w \in TypeWrites
  BY <1>3, LandType DEF TypeWrites, ScenePart, Switches, Moves, Bypasses, SceneNames, Renames,
     Places
<1>4. CASE w \in KnobWrites
  BY <1>4, LandKnob DEF KnobWrites, ScenePart, Switches, Moves, Bypasses, SceneNames, Renames,
     Places
<1>5. CASE w \in Switches
  BY <1>5, LandScene DEF Switches, SlotPart, Places, Moves, TypeWrites, KnobWrites
<1>6. CASE w \in SceneNames
  BY <1>6, LandSceneName DEF SceneNames, SlotPart, Places, Moves, TypeWrites, KnobWrites
<1>7. CASE w \in Renames
  BY <1>7, LandRename DEF Renames, SlotPart, Places, Moves, TypeWrites, KnobWrites, ScenePart,
     Switches, SceneNames, Bypasses
<1>8. CASE w \in Bypasses
  BY <1>8, LandBypass DEF Bypasses, SlotPart, Places, Moves, TypeWrites, KnobWrites
<1> QED BY <1>1, <1>2, <1>3, <1>4, <1>5, <1>6, <1>7, <1>8 DEF Writes, SlotPart, ScenePart

----------------------------------------------------------------------------
(* The writes of a slot.                                                   *)

LEMMA SlotShape ==
  ASSUME NEW s \in Askable, NEW p \in Positions, s.slots[p] # Unset
  PROVE  LET slot == s.slots[p]
         IN  /\ slot.block \in SlotBlocks
             /\ slot.nested = Unset => slot.flat \in Params
             /\ slot.nested # Unset => /\ slot.block \in ChannelBlocks
                                       /\ slot.nested \in [ChannelNumbers -> Params]
<1>1. s.slots[p] \in SlotInputs
  BY DEF Askable, SlotLists
<1> QED BY <1>1, AM4ApplyPresetConstants DEF SlotInputs, SlotBlocks

\* Only parameters p on channel here of block b are new in e, where the gate
\* lets the knob through.
ParamTaken(d, e, b, here, p, c, passes) ==
  \A x \in SlotBlocks, y \in ChannelNumbers :
    /\ e.type[x][y] = IF x = b /\ y = here /\ p.type # Unset THEN p.type ELSE d.type[x][y]
    /\ e.knob[x][y] = IF x = b /\ y = here /\ p.knob /\ passes /\ e.type[x][y] \in Exposing
                        THEN c ELSE d.knob[x][y]

LEMMA ParamsLand ==
  ASSUME NEW d \in Devices, NEW types, NEW slot, slot.block \in SlotBlocks,
         NEW p \in Params, NEW c \in ChannelNumbers
  PROVE  LET ws == BuildParamWrites(types, slot, p, c)
             e == Through(d, ws)
         IN  /\ ws \in Seq(SlotPart)
             /\ e \in Devices /\ e.active = d.active /\ e.pointer = d.pointer
             /\ SameSlots(d, e) /\ SameScenes(d, e)
             /\ ParamTaken(d, e, slot.block, OnChannel(d, slot.block), p, c,
                           Applicable(EffectiveType(types, slot, c)))
<1> DEFINE passes == Applicable(EffectiveType(types, slot, c))
           b == slot.block
           tw == [kind |-> "type", block |-> slot.block, value |-> p.type]
           kw == [kind |-> "knob", block |-> slot.block, value |-> c]
           ta == IF p.type = Unset THEN <<>> ELSE <<tw>>
           kb == IF p.knob /\ passes THEN <<kw>> ELSE <<>>
           f == Through(d, ta)
           e == Through(f, kb)
<1>1. BuildParamWrites(types, slot, p, c) = ta \o kb
  BY DEF BuildParamWrites
<1>2. p.type # Unset => tw \in TypeWrites
  BY DEF Params, TypeWrites
<1>3. kw \in KnobWrites
  BY DEF KnobWrites
<1>4. ta \in Seq(SlotPart) /\ kb \in Seq(SlotPart)
  <2>1. p.type # Unset => tw \in SlotPart
    BY <1>2 DEF SlotPart
  <2>2. kw \in SlotPart
    BY <1>3 DEF SlotPart
  <2> HIDE DEF tw, kw, passes
  <2> QED BY <2>1, <2>2
<1>5. ta \o kb \in Seq(SlotPart) /\ Through(d, ta \o kb) = e
  BY <1>4, ThroughConcat, ConcatProperties
<1>6. b \in SlotBlocks /\ p.knob \in BOOLEAN
  BY DEF Params
<1>7. /\ f \in Devices /\ f.active = d.active /\ f.pointer = d.pointer
      /\ f.knob = d.knob /\ SameSlots(d, f) /\ SameScenes(d, f)
      /\ \A x \in SlotBlocks, y \in ChannelNumbers :
           f.type[x][y] = IF x = b /\ y = OnChannel(d, b) /\ p.type # Unset
                            THEN p.type ELSE d.type[x][y]
  <2>1. CASE p.type = Unset
    <3>1. f = d
      BY <2>1, ThroughNone
    <3> QED BY <2>1, <3>1 DEF SameSlots, SameScenes
  <2>2. CASE p.type # Unset
    <3>1. f = Land(d, tw)
      BY <2>2, ThroughOne
    <3>2. tw.block = b /\ tw.value = p.type
      OBVIOUS
    <3> HIDE DEF f, tw
    <3> QED BY <1>2, <2>2, <3>1, <3>2, LandType
  <2> QED BY <2>1, <2>2
<1> HIDE DEF f, tw, ta
<1>8. OnChannel(f, b) = OnChannel(d, b)
  BY <1>7 DEF OnChannel
<1>9. /\ e \in Devices /\ e.active = f.active /\ e.pointer = f.pointer
      /\ e.type = f.type /\ SameSlots(f, e) /\ SameScenes(f, e)
      /\ \A x \in SlotBlocks, y \in ChannelNumbers :
           e.knob[x][y] = IF x = b /\ y = OnChannel(f, b) /\ p.knob /\ passes
                               /\ f.type[x][y] \in Exposing
                            THEN c ELSE f.knob[x][y]
  <2> HIDE DEF passes
  <2>1. CASE ~(p.knob /\ passes)
    <3>1. e = f
      BY <2>1, ThroughNone
    <3> QED BY <1>7, <2>1, <3>1 DEF SameSlots, SameScenes
  <2>2. CASE p.knob /\ passes
    <3>1. e = Land(f, kw)
      BY <2>2, ThroughOne
    <3>2. kw.block = b /\ kw.value = c
      OBVIOUS
    <3> HIDE DEF e, kw
    <3> QED BY <1>3, <1>7, <2>2, <3>1, <3>2, LandKnob
  <2> QED BY <2>1, <2>2
<1> HIDE DEF e, kb, passes
<1>10. ParamTaken(d, e, b, OnChannel(d, b), p, c, passes)
  BY <1>7, <1>8, <1>9 DEF ParamTaken
<1>11. SameSlots(d, e) /\ SameScenes(d, e) /\ e.active = d.active /\ e.pointer = d.pointer
  BY <1>7, <1>9 DEF SameSlots, SameScenes
<1> QED BY <1>1, <1>5, <1>9, <1>10, <1>11 DEF passes

\* What slot asks of channel y of its block, which is on channel here.
Entry(slot, here, y) ==
  IF slot.nested # Unset THEN slot.nested[y] ELSE IF y = here THEN slot.flat ELSE NoParams

From(slot, y) == IF slot.nested = Unset THEN 1 ELSE y

\* Channel y of the slot's block has in e what the slot asks of it in d.
TookAt(d, e, types, slot, y) ==
  LET b == slot.block
      ask == Entry(slot, OnChannel(d, b), y)
  IN  /\ e.type[b][y] = IF ask.type # Unset THEN ask.type ELSE d.type[b][y]
      /\ e.knob[b][y] = IF ask.knob /\ Applicable(EffectiveType(types, slot, From(slot, y)))
                             /\ e.type[b][y] \in Exposing
                          THEN From(slot, y) ELSE d.knob[b][y]

SameAt(d, e, b, y) == e.type[b][y] = d.type[b][y] /\ e.knob[b][y] = d.knob[b][y]

\* Block b is in e as in d.
Kept(d, e, b) ==
  OnChannel(e, b) = OnChannel(d, b) /\ \A y \in ChannelNumbers : SameAt(d, e, b, y)

\* The channels of a block before the k-th are done.
NestedDone(d, types, slot, k) ==
  {e \in Devices :
     /\ e.active = d.active /\ SameSlots(d, e) /\ SameScenes(d, e)
     /\ \A b \in SlotBlocks : b # slot.block => Kept(d, e, b)
     /\ \A y \in ChannelNumbers : IF y <= k THEN TookAt(d, e, types, slot, y)
                                      ELSE SameAt(d, e, slot.block, y)}

LEMMA NestedRound ==
  ASSUME NEW d \in Devices, NEW types, NEW slot, slot.block \in ChannelBlocks,
         slot.nested # Unset, slot.nested \in [ChannelNumbers -> Params],
         NEW k \in ChannelNumbers, NEW e \in NestedDone(d, types, slot, k - 1)
  PROVE  LET ws == IF slot.nested[k] = NoParams THEN <<>>
                   ELSE <<ChannelWrite(slot.block, k)>>
                          \o BuildParamWrites(types, slot, slot.nested[k], k)
         IN  ws \in Seq(SlotPart) /\ Through(e, ws) \in NestedDone(d, types, slot, k)
<1> DEFINE b == slot.block
           ask == slot.nested[k]
<1>1. b \in SlotBlocks /\ b \in ChannelBlocks /\ ask \in Params /\ k \in Nat
  BY ChannelsPositive DEF SlotBlocks, ChannelNumbers
<1>2. \A y \in ChannelNumbers : Entry(slot, OnChannel(d, b), y) = slot.nested[y] /\ From(slot, y) = y
  BY DEF Entry, From
<1>3. e \in Devices /\ SameAt(d, e, b, k)
  BY <1>1 DEF NestedDone, ChannelNumbers
<1>4. \A y \in ChannelNumbers : y # k => (y <= k <=> y <= k - 1)
  BY DEF ChannelNumbers
<1>5. CASE ask = NoParams
  <2>1. Through(e, <<>>) = e
    BY ThroughNone
  <2>2. TookAt(d, e, types, slot, k)
    BY <1>2, <1>3, <1>5 DEF TookAt, SameAt, NoParams
  <2>3. e \in NestedDone(d, types, slot, k)
    BY <1>1, <1>4, <2>2 DEF NestedDone
  <2> QED BY <1>5, <2>1, <2>3
<1>6. CASE ask # NoParams
  <2> DEFINE w == ChannelWrite(b, k)
             f == Land(e, w)
             ws == BuildParamWrites(types, slot, ask, k)
             g == Through(f, ws)
  <2>1. w \in Moves /\ w.block = b /\ w.value = k
    BY <1>1 DEF ChannelWrite, Moves
  <2>2. /\ f \in Devices /\ f.active = e.active
        /\ \A x \in Scenes, c \in ChannelBlocks :
             f.pointer[x][c] = IF x = e.active /\ c = b THEN k ELSE e.pointer[x][c]
        /\ SameSlots(e, f) /\ SameParams(e, f) /\ SameScenes(e, f)
    <3> HIDE DEF w
    <3> QED BY <1>3, <2>1, LandMove
  <2>3. e.active \in Scenes
    BY <1>3 DEF Devices
  <2>4. OnChannel(f, b) = k /\ \A c \in SlotBlocks : c # b => OnChannel(f, c) = OnChannel(e, c)
    BY <1>1, <2>2, <2>3 DEF OnChannel
  <2>5. /\ ws \in Seq(SlotPart)
        /\ g \in Devices /\ g.active = f.active /\ g.pointer = f.pointer
        /\ SameSlots(f, g) /\ SameScenes(f, g)
        /\ ParamTaken(f, g, b, k, ask, k, Applicable(EffectiveType(types, slot, k)))
    BY <1>1, <2>2, <2>4, ParamsLand
  <2>6. <<w>> \in Seq(SlotPart) /\ Through(e, <<w>>) = f
    BY <2>1, ThroughOne DEF SlotPart
  <2>7. Through(e, <<w>> \o ws) = Through(Through(e, <<w>>), ws)
    BY <2>5, <2>6, ThroughConcat
  <2> HIDE DEF w, f, ws, g
  <2>8. <<w>> \o ws \in Seq(SlotPart)
    BY <2>5, <2>6, ConcatProperties
  <2>9. \A x \in SlotBlocks, y \in ChannelNumbers : x # b \/ y # k => SameAt(e, g, x, y)
    BY <2>2, <2>5 DEF ParamTaken, SameAt, SameParams
  <2>10. \A c \in SlotBlocks : c # b => Kept(d, g, c)
    <3> TAKE c \in SlotBlocks
    <3> HAVE c # b
    <3>1. Kept(d, e, c)
      BY DEF NestedDone
    <3>2. OnChannel(g, c) = OnChannel(f, c)
      BY <2>5 DEF OnChannel
    <3> QED BY <2>4, <2>9, <3>1, <3>2 DEF Kept, SameAt
  <2>11. TookAt(d, g, types, slot, k)
    <3>1. /\ g.type[b][k] = IF ask.type # Unset THEN ask.type ELSE e.type[b][k]
          /\ g.knob[b][k] = IF ask.knob /\ Applicable(EffectiveType(types, slot, k))
                                 /\ g.type[b][k] \in Exposing
                              THEN k ELSE e.knob[b][k]
      BY <1>1, <2>2, <2>5 DEF ParamTaken, SameParams
    <3> QED BY <1>2, <1>3, <3>1 DEF TookAt, SameAt
  <2>12. \A y \in ChannelNumbers : IF y <= k THEN TookAt(d, g, types, slot, y) ELSE SameAt(d, g, b, y)
    <3> TAKE y \in ChannelNumbers
    <3>1. CASE y = k
      BY <1>1, <2>11, <3>1
    <3>2. CASE y # k
      <4>1. SameAt(e, g, b, y)
        BY <1>1, <2>9, <3>2
      <4>2. IF y <= k - 1 THEN TookAt(d, e, types, slot, y) ELSE SameAt(d, e, b, y)
        BY DEF NestedDone
      <4> QED BY <1>4, <3>2, <4>1, <4>2 DEF TookAt, SameAt
    <3> QED BY <3>1, <3>2
  <2>13. g.active = d.active /\ SameSlots(d, g) /\ SameScenes(d, g)
    BY <2>2, <2>5 DEF NestedDone, SameSlots, SameScenes
  <2>14. g \in NestedDone(d, types, slot, k)
    BY <2>5, <2>10, <2>12, <2>13 DEF NestedDone
  <2>15. Through(e, <<w>> \o ws) \in NestedDone(d, types, slot, k)
    BY <2>6, <2>7, <2>14 DEF g
  <2> QED BY <1>6, <2>8, <2>15 DEF w, ws
<1> QED BY <1>5, <1>6

LEMMA NestedLand ==
  ASSUME NEW d \in Devices, NEW types, NEW slot, slot.block \in ChannelBlocks,
         slot.nested # Unset, slot.nested \in [ChannelNumbers -> Params]
  PROVE  /\ NestedWrites(types, slot) \in Seq(SlotPart)
         /\ Through(d, NestedWrites(types, slot)) \in NestedDone(d, types, slot, ChannelCount)
<1> DEFINE n == ChannelCount
           I == [k \in 0 .. n |-> NestedDone(d, types, slot, k)]
           seqs == [c \in ChannelNumbers |->
                     IF slot.nested[c] = NoParams THEN <<>>
                     ELSE <<ChannelWrite(slot.block, c)>>
                            \o BuildParamWrites(types, slot, slot.nested[c], c)]
<1>1. n \in Nat \ {0} /\ ChannelNumbers = 1 .. n
  BY ChannelsPositive DEF ChannelNumbers
<1>2. ASSUME NEW c \in ChannelNumbers PROVE seqs[c] \in Seq(SlotPart)
  <2>1. BuildParamWrites(types, slot, slot.nested[c], c) \in Seq(SlotPart)
    BY ParamsLand DEF SlotBlocks
  <2>2. ChannelWrite(slot.block, c) \in SlotPart
    BY DEF ChannelWrite, Moves, SlotPart
  <2>3. <<ChannelWrite(slot.block, c)>> \in Seq(SlotPart) /\ <<>> \in Seq(SlotPart)
    BY <2>2
  <2> QED BY <2>1, <2>3, ConcatProperties
<1>3. seqs \in [1 .. n -> Seq(SlotPart)]
  <2> HIDE DEF seqs
  <2>1. seqs = [c \in ChannelNumbers |-> seqs[c]]
    BY DEF seqs
  <2> QED BY <1>1, <1>2, <2>1
<1>4. d \in I[0]
  <2>1. \A y \in ChannelNumbers : ~(y <= 0)
    BY <1>1
  <2>2. d \in NestedDone(d, types, slot, 0)
    BY <2>1 DEF NestedDone, Kept, SameAt, SameSlots, SameScenes
  <2> QED BY <1>1, <2>2
<1>5. ASSUME NEW i \in 1 .. n, NEW e \in I[i - 1]
      PROVE  Through(e, seqs[i]) \in I[i]
  <2>1. i \in ChannelNumbers /\ i - 1 \in 0 .. n /\ i \in 0 .. n
    BY <1>1
  <2>2. e \in NestedDone(d, types, slot, i - 1)
    BY <2>1, <1>5
  <2>3. Through(e, seqs[i]) \in NestedDone(d, types, slot, i)
    BY <2>1, <2>2, NestedRound
  <2> QED BY <2>1, <2>3
<1>6. n \in 0 .. n /\ I[n] = NestedDone(d, types, slot, n)
  BY <1>1
<1>7. NestedWrites(types, slot) = FlattenSeq(seqs)
  BY DEF NestedWrites
<1> HIDE DEF I, seqs
<1>8. FlattenSeq(seqs) \in Seq(SlotPart) /\ Through(d, FlattenSeq(seqs)) \in I[n]
  BY <1>1, <1>3, <1>4, <1>5, FlattenWithin
<1> QED BY <1>6, <1>7, <1>8

LEMMA TookFrom ==
  ASSUME NEW d, NEW e, NEW g, NEW types, NEW slot, NEW y,
         TookAt(e, g, types, slot, y), SameAt(d, e, slot.block, y),
         OnChannel(e, slot.block) = OnChannel(d, slot.block)
  PROVE  TookAt(d, g, types, slot, y)
BY DEF TookAt, SameAt

LEMMA TookKept ==
  ASSUME NEW d, NEW e, NEW g, NEW types, NEW slot, NEW y,
         TookAt(d, e, types, slot, y), SameAt(e, g, slot.block, y)
  PROVE  TookAt(d, g, types, slot, y)
BY DEF TookAt, SameAt

LEMMA KeptKept ==
  ASSUME NEW d, NEW e, NEW g, NEW b, Kept(d, e, b), Kept(e, g, b)
  PROVE  Kept(d, g, b)
BY DEF Kept, SameAt

LEMMA SameKept ==
  ASSUME NEW d, NEW e, NEW b, SameParams(d, e), e.active = d.active, e.pointer = d.pointer
  PROVE  Kept(d, e, b)
BY DEF Kept, SameAt, SameParams, OnChannel

\* Only the slot at position p is new in e, placed and with its parameters.
SlotTaken(d, e, types, s, p) ==
  LET slot == s.slots[p]
  IN  /\ e \in Devices /\ e.active = d.active /\ SameScenes(d, e)
      /\ \A q \in Positions : e.slots[q] = IF q = p THEN slot.block ELSE d.slots[q]
      /\ \A y \in ChannelNumbers : TookAt(d, e, types, slot, y)
      /\ \A b \in SlotBlocks : b # slot.block => Kept(d, e, b)

LEMMA SlotRound ==
  ASSUME NEW d \in Devices, NEW types, NEW s \in Askable, NEW p \in Positions,
         s.slots[p] # Unset
  PROVE  /\ SlotWrites(types, s, p) \in Seq(SlotPart)
         /\ SlotTaken(d, Through(d, SlotWrites(types, s, p)), types, s, p)
<1> DEFINE slot == s.slots[p]
           w == Place(slot.block, p)
           f == Land(d, w)
           ws == IF slot.nested = Unset THEN BuildParamWrites(types, slot, slot.flat, 1)
                                        ELSE NestedWrites(types, slot)
           e == Through(f, ws)
<1>1. /\ slot.block \in SlotBlocks
      /\ slot.nested = Unset => slot.flat \in Params
      /\ slot.nested # Unset
               => slot.block \in ChannelBlocks /\ slot.nested \in [ChannelNumbers -> Params]
  BY SlotShape
<1>2. w \in Places /\ w.block = slot.block /\ w.value = p
  BY <1>1 DEF Place, Places
<1> HIDE DEF slot
<1>3. /\ f \in Devices /\ f.slots = [d.slots EXCEPT ![p] = slot.block]
      /\ f.active = d.active /\ f.pointer = d.pointer
      /\ SameParams(d, f) /\ SameScenes(d, f)
  <2> HIDE DEF w
  <2> QED BY <1>2, LandPlace
<1>4. <<w>> \in Seq(SlotPart) /\ Through(d, <<w>>) = f
  <2>1. w \in SlotPart
    BY <1>2 DEF SlotPart
  <2> HIDE DEF w
  <2> QED BY <2>1, ThroughOne DEF f
<1> HIDE DEF w, f
<1>5. /\ ws \in Seq(SlotPart)
      /\ e \in Devices /\ e.active = f.active /\ SameSlots(f, e) /\ SameScenes(f, e)
      /\ \A b \in SlotBlocks : b # slot.block => Kept(f, e, b)
      /\ \A y \in ChannelNumbers : TookAt(f, e, types, slot, y)
  <2>1. CASE slot.nested = Unset
    <3> DEFINE here == OnChannel(f, slot.block)
    <3>1. ws = BuildParamWrites(types, slot, slot.flat, 1)
      BY <2>1
    <3>2. 1 \in ChannelNumbers
      BY ChannelsPositive
    <3>3. /\ ws \in Seq(SlotPart)
          /\ e \in Devices /\ e.active = f.active /\ e.pointer = f.pointer
          /\ SameSlots(f, e) /\ SameScenes(f, e)
          /\ ParamTaken(f, e, slot.block, here, slot.flat, 1,
                        Applicable(EffectiveType(types, slot, 1)))
      BY <1>1, <1>3, <2>1, <3>1, <3>2, ParamsLand
    <3> HIDE DEF e, ws, here
    <3>4. \A b \in SlotBlocks : OnChannel(e, b) = OnChannel(f, b)
      BY <3>3 DEF OnChannel
    <3>5. \A b \in SlotBlocks : b # slot.block => Kept(f, e, b)
      BY <3>3, <3>4 DEF Kept, SameAt, ParamTaken
    <3>6. ASSUME NEW y \in ChannelNumbers PROVE TookAt(f, e, types, slot, y)
      <4>1. From(slot, y) = 1
        BY <2>1 DEF From
      <4>2. Entry(slot, here, y) = IF y = here THEN slot.flat ELSE NoParams
        BY <2>1 DEF Entry
      <4>3. NoParams.type = Unset /\ NoParams.knob = FALSE
        BY DEF NoParams
      <4>4. /\ e.type[slot.block][y] = IF y = here /\ slot.flat.type # Unset
                                         THEN slot.flat.type ELSE f.type[slot.block][y]
            /\ e.knob[slot.block][y] =
                 IF y = here /\ slot.flat.knob /\ Applicable(EffectiveType(types, slot, 1))
                      /\ e.type[slot.block][y] \in Exposing
                   THEN 1 ELSE f.knob[slot.block][y]
        BY <1>1, <3>3 DEF ParamTaken
      <4> QED BY <4>1, <4>2, <4>3, <4>4 DEF TookAt, here
    <3> QED BY <3>3, <3>5, <3>6
  <2>2. CASE slot.nested # Unset
    <3>1. ws = NestedWrites(types, slot)
      BY <2>2
    <3>2. ws \in Seq(SlotPart) /\ e \in NestedDone(f, types, slot, ChannelCount)
      BY <1>1, <1>3, <2>2, <3>1, NestedLand
    <3>3. \A y \in ChannelNumbers : y <= ChannelCount
      BY ChannelsPositive DEF ChannelNumbers
    <3> QED BY <3>2, <3>3 DEF NestedDone
  <2> QED BY <2>1, <2>2
<1>6. Through(d, <<w>> \o ws) = e /\ <<w>> \o ws \in Seq(SlotPart)
  BY <1>4, <1>5, ThroughConcat, ConcatProperties
<1>7. SlotWrites(types, s, p) = <<w>> \o ws
  BY DEF SlotWrites, w, slot
<1> HIDE DEF e, ws
<1>8. \A b \in SlotBlocks : Kept(d, f, b)
  BY <1>3, SameKept
<1>9. \A b \in SlotBlocks : b # slot.block => Kept(d, e, b)
  BY <1>5, <1>8, KeptKept
<1>10. \A y \in ChannelNumbers : TookAt(d, e, types, slot, y)
  <2> TAKE y \in ChannelNumbers
  <2>1. SameAt(d, f, slot.block, y) /\ OnChannel(f, slot.block) = OnChannel(d, slot.block)
    BY <1>1, <1>8 DEF Kept
  <2> QED BY <1>5, <2>1, TookFrom
<1>11. e.active = d.active /\ SameScenes(d, e) /\ e.slots = f.slots
  BY <1>3, <1>5 DEF SameScenes, SameSlots
<1>12. \A q \in Positions : e.slots[q] = IF q = p THEN slot.block ELSE d.slots[q]
  BY <1>3, <1>11 DEF Devices
<1>13. SlotTaken(d, e, types, s, p)
  BY <1>5, <1>9, <1>10, <1>11, <1>12 DEF SlotTaken, slot
<1> QED BY <1>6, <1>7, <1>13

\* The slots up to the k-th are placed, with their parameters.
SlotsDone(d, types, s, k) ==
  {e \in Devices :
     /\ e.active = d.active /\ SameScenes(d, e)
     /\ \A q \in Positions :
          e.slots[q] = IF q <= k /\ s.slots[q] # Unset THEN s.slots[q].block ELSE d.slots[q]
     /\ \A q \in Positions, y \in ChannelNumbers :
          q <= k /\ s.slots[q] # Unset => TookAt(d, e, types, s.slots[q], y)
     /\ \A b \in SlotBlocks :
          (\A q \in Positions : q <= k /\ s.slots[q] # Unset => s.slots[q].block # b)
            => Kept(d, e, b)}

LEMMA SlotsRound ==
  ASSUME NEW d \in Devices, NEW types, NEW s \in Askable, NEW k \in Positions,
         NEW e \in SlotsDone(d, types, s, k - 1)
  PROVE  LET ws == IF s.slots[k] = Unset THEN <<>> ELSE SlotWrites(types, s, k)
         IN  Through(e, ws) \in SlotsDone(d, types, s, k)
<1>1. k \in Nat /\ \A q \in Positions : q \in Nat
  BY ChannelsPositive DEF Positions
<1>2. \A q \in Positions : (q <= k <=> q <= k - 1 \/ q = k) /\ ~(k <= k - 1)
  BY <1>1
<1>3. CASE s.slots[k] = Unset
  <2>1. \A q \in Positions : s.slots[q] # Unset => (q <= k <=> q <= k - 1)
    BY <1>2, <1>3
  <2>2. e \in SlotsDone(d, types, s, k)
    <3>1. /\ e \in Devices /\ e.active = d.active /\ SameScenes(d, e)
          /\ \A q \in Positions :
               e.slots[q] = IF q <= k /\ s.slots[q] # Unset THEN s.slots[q].block ELSE d.slots[q]
      BY <2>1 DEF SlotsDone
    <3>2. \A q \in Positions, y \in ChannelNumbers :
            q <= k /\ s.slots[q] # Unset => TookAt(d, e, types, s.slots[q], y)
      BY <2>1 DEF SlotsDone
    <3>3. \A b \in SlotBlocks :
            (\A q \in Positions : q <= k /\ s.slots[q] # Unset => s.slots[q].block # b)
              => Kept(d, e, b)
      BY <2>1 DEF SlotsDone
    <3> QED BY <3>1, <3>2, <3>3 DEF SlotsDone
  <2> QED BY <1>3, <2>2, ThroughNone
<1>4. CASE s.slots[k] # Unset
  <2> DEFINE slot == s.slots[k]
             g == Through(e, SlotWrites(types, s, k))
  <2>1. e \in Devices
    BY DEF SlotsDone
  <2>2. /\ g \in Devices /\ g.active = e.active /\ SameScenes(e, g)
        /\ \A q \in Positions : g.slots[q] = IF q = k THEN slot.block ELSE e.slots[q]
        /\ \A y \in ChannelNumbers : TookAt(e, g, types, slot, y)
        /\ \A b \in SlotBlocks : b # slot.block => Kept(e, g, b)
    <3>1. SlotTaken(e, g, types, s, k)
      BY <1>4, <2>1, SlotRound
    <3> HIDE DEF g
    <3> QED BY <3>1 DEF SlotTaken
  <2> HIDE DEF g
  <2>3. \A q \in Positions : s.slots[q] # Unset => s.slots[q].block \in SlotBlocks
    BY SlotShape
  <2>4. \A q \in Positions : s.slots[q] # Unset /\ q # k => s.slots[q].block # slot.block
    BY <1>4 DEF Askable, SlotLists
  <2>5. Kept(d, e, slot.block)
    BY <1>2, <1>4, <2>3, <2>4 DEF SlotsDone
  <2>6. g.active = d.active /\ SameScenes(d, g)
    BY <2>2 DEF SlotsDone, SameScenes
  <2>7. \A q \in Positions :
          g.slots[q] = IF q <= k /\ s.slots[q] # Unset THEN s.slots[q].block ELSE d.slots[q]
    <3> TAKE q \in Positions
    <3>1. e.slots[q] = IF q <= k - 1 /\ s.slots[q] # Unset THEN s.slots[q].block ELSE d.slots[q]
      BY DEF SlotsDone
    <3>2. g.slots[q] = IF q = k THEN slot.block ELSE e.slots[q]
      BY <2>2
    <3> QED BY <1>2, <1>4, <3>1, <3>2
  <2>8. ASSUME NEW q \in Positions, NEW y \in ChannelNumbers, q <= k, s.slots[q] # Unset
        PROVE  TookAt(d, g, types, s.slots[q], y)
    <3>1. CASE q = k
      <4>1. SameAt(d, e, slot.block, y) /\ OnChannel(e, slot.block) = OnChannel(d, slot.block)
        BY <2>5 DEF Kept
      <4>2. TookAt(e, g, types, slot, y)
        BY <2>2
      <4> HIDE DEF slot
      <4>3. TookAt(d, g, types, slot, y)
        BY <4>1, <4>2, TookFrom
      <4> QED BY <3>1, <4>3 DEF slot
    <3>2. CASE q # k
      <4>1. TookAt(d, e, types, s.slots[q], y)
        BY <1>2, <2>8, <3>2 DEF SlotsDone
      <4>2. SameAt(e, g, s.slots[q].block, y)
        BY <2>2, <2>3, <2>4, <2>8, <3>2 DEF Kept
      <4> QED BY <4>1, <4>2, TookKept
    <3> QED BY <3>1, <3>2
  <2>9. ASSUME NEW b \in SlotBlocks,
               \A q \in Positions : q <= k /\ s.slots[q] # Unset => s.slots[q].block # b
        PROVE  Kept(d, g, b)
    <3>1. b # slot.block
      BY <1>2, <1>4, <2>9
    <3>2. Kept(d, e, b)
      BY <1>2, <2>9 DEF SlotsDone
    <3> QED BY <2>2, <3>1, <3>2, KeptKept
  <2>10. g \in SlotsDone(d, types, s, k)
    BY <2>2, <2>6, <2>7, <2>8, <2>9 DEF SlotsDone
  <2> QED BY <1>4, <2>10 DEF g
<1> QED BY <1>3, <1>4

LEMMA ListedLand ==
  ASSUME NEW d \in Devices, NEW types, NEW s \in Askable
  PROVE  /\ ListedWrites(types, s) \in Seq(SlotPart)
         /\ Through(d, ListedWrites(types, s)) \in SlotsDone(d, types, s, PositionCount)
<1> DEFINE n == PositionCount
           I == [k \in 0 .. n |-> SlotsDone(d, types, s, k)]
           seqs == [p \in Positions |->
                     IF s.slots[p] = Unset THEN <<>> ELSE SlotWrites(types, s, p)]
<1>1. n \in Nat \ {0} /\ Positions = 1 .. n
  BY ChannelsPositive DEF Positions
<1>2. ASSUME NEW p \in Positions PROVE seqs[p] \in Seq(SlotPart)
  <2>1. s.slots[p] # Unset => SlotWrites(types, s, p) \in Seq(SlotPart)
    BY SlotRound
  <2>2. <<>> \in Seq(SlotPart)
    OBVIOUS
  <2> QED BY <2>1, <2>2
<1>3. seqs \in [1 .. n -> Seq(SlotPart)]
  <2> HIDE DEF seqs
  <2>1. seqs = [p \in Positions |-> seqs[p]]
    BY DEF seqs
  <2> QED BY <1>1, <1>2, <2>1
<1>4. d \in I[0]
  <2>1. \A q \in Positions : ~(q <= 0)
    BY <1>1
  <2>2. \A b \in SlotBlocks : Kept(d, d, b)
    BY DEF Kept, SameAt
  <2>3. d \in SlotsDone(d, types, s, 0)
    BY <2>1, <2>2 DEF SlotsDone, SameScenes
  <2> QED BY <1>1, <2>3
<1>5. ASSUME NEW i \in 1 .. n, NEW e \in I[i - 1]
      PROVE  Through(e, seqs[i]) \in I[i]
  <2>1. i \in Positions /\ i - 1 \in 0 .. n /\ i \in 0 .. n
    BY <1>1
  <2>2. e \in SlotsDone(d, types, s, i - 1)
    BY <2>1, <1>5
  <2>3. Through(e, seqs[i]) \in SlotsDone(d, types, s, i)
    BY <2>1, <2>2, SlotsRound
  <2> QED BY <2>1, <2>3
<1>6. n \in 0 .. n /\ I[n] = SlotsDone(d, types, s, n)
  BY <1>1
<1>7. ListedWrites(types, s) = FlattenSeq(seqs)
  BY DEF ListedWrites
<1> HIDE DEF I, seqs
<1>8. FlattenSeq(seqs) \in Seq(SlotPart) /\ Through(d, FlattenSeq(seqs)) \in I[n]
  BY <1>1, <1>3, <1>4, <1>5, FlattenWithin
<1> QED BY <1>6, <1>7, <1>8

----------------------------------------------------------------------------
(* Slots nobody listed.                                                    *)

\* Of the slots up to the k-th the ones nobody listed are empty.
ClearedTo(d, s, k) ==
  {e \in Devices :
     /\ e.active = d.active /\ e.pointer = d.pointer
     /\ SameParams(d, e) /\ SameScenes(d, e)
     /\ \A q \in Positions :
          e.slots[q] = IF q <= k /\ s.slots[q] = Unset THEN Empty ELSE d.slots[q]}

LEMMA ClearingRound ==
  ASSUME NEW d \in Devices, NEW s, NEW k \in Positions, NEW e \in ClearedTo(d, s, k - 1)
  PROVE  LET ws == IF s.slots[k] = Unset THEN <<Place(Empty, k)>> ELSE <<>>
         IN  Through(e, ws) \in ClearedTo(d, s, k)
<1>1. \A q \in Positions : (q <= k <=> q <= k - 1 \/ q = k) /\ ~(k <= k - 1)
  BY ChannelsPositive DEF Positions
<1>2. CASE s.slots[k] # Unset
  <2>1. \A q \in Positions : s.slots[q] = Unset => (q <= k <=> q <= k - 1)
    BY <1>1, <1>2
  <2>2. e \in ClearedTo(d, s, k)
    BY <2>1 DEF ClearedTo
  <2> QED BY <1>2, <2>2, ThroughNone
<1>3. CASE s.slots[k] = Unset
  <2> DEFINE w == Place(Empty, k)
             g == Land(e, w)
  <2>1. w \in Places /\ w.block = Empty /\ w.value = k /\ e \in Devices
    BY DEF Place, Places, ClearedTo
  <2>2. Through(e, <<w>>) = g
    BY ThroughOne
  <2>3. /\ g \in Devices
        /\ g.slots = [e.slots EXCEPT ![k] = Empty]
        /\ g.active = e.active /\ g.pointer = e.pointer
        /\ SameParams(e, g) /\ SameScenes(e, g)
    <3> HIDE DEF w
    <3> QED BY <2>1, LandPlace
  <2> HIDE DEF g
  <2>4. \A q \in Positions : g.slots[q] = IF q = k THEN Empty ELSE e.slots[q]
    BY <2>1, <2>3 DEF Devices
  <2>5. \A q \in Positions :
          g.slots[q] = IF q <= k /\ s.slots[q] = Unset THEN Empty ELSE d.slots[q]
    BY <1>1, <1>3, <2>4 DEF ClearedTo
  <2>6. g \in ClearedTo(d, s, k)
    BY <2>3, <2>5 DEF ClearedTo, SameParams, SameScenes
  <2> QED BY <1>3, <2>2, <2>6
<1> QED BY <1>2, <1>3

LEMMA ClearingLands ==
  ASSUME NEW d \in Devices, NEW s
  PROVE  /\ ClearingWrites(s) \in Seq(SlotPart)
         /\ Through(d, ClearingWrites(s)) \in ClearedTo(d, s, PositionCount)
<1> DEFINE n == PositionCount
           I == [k \in 0 .. n |-> ClearedTo(d, s, k)]
           seqs == [p \in Positions |-> IF s.slots[p] = Unset THEN <<Place(Empty, p)>> ELSE <<>>]
<1>1. n \in Nat \ {0} /\ Positions = 1 .. n
  BY ChannelsPositive DEF Positions
<1>2. ASSUME NEW p \in Positions PROVE seqs[p] \in Seq(SlotPart)
  <2>1. Place(Empty, p) \in SlotPart
    BY DEF Place, Places, SlotPart
  <2>2. <<Place(Empty, p)>> \in Seq(SlotPart) /\ <<>> \in Seq(SlotPart)
    BY <2>1
  <2> QED BY <2>2
<1>3. seqs \in [1 .. n -> Seq(SlotPart)]
  <2> HIDE DEF seqs
  <2>1. seqs = [p \in Positions |-> seqs[p]]
    BY DEF seqs
  <2> QED BY <1>1, <1>2, <2>1
<1>4. d \in I[0]
  <2>1. \A q \in Positions : ~(q <= 0)
    BY <1>1
  <2>2. d \in ClearedTo(d, s, 0)
    BY <2>1 DEF ClearedTo, SameScenes, SameParams
  <2> QED BY <1>1, <2>2
<1>5. ASSUME NEW i \in 1 .. n, NEW e \in I[i - 1]
      PROVE  Through(e, seqs[i]) \in I[i]
  <2>1. i \in Positions /\ i - 1 \in 0 .. n /\ i \in 0 .. n
    BY <1>1
  <2>2. e \in ClearedTo(d, s, i - 1)
    BY <2>1, <1>5
  <2>3. Through(e, seqs[i]) \in ClearedTo(d, s, i)
    BY <2>1, <2>2, ClearingRound
  <2> QED BY <2>1, <2>3
<1>6. n \in 0 .. n /\ I[n] = ClearedTo(d, s, n)
  BY <1>1
<1>7. ClearingWrites(s) = FlattenSeq(seqs)
  BY DEF ClearingWrites
<1> HIDE DEF I, seqs
<1>8. FlattenSeq(seqs) \in Seq(SlotPart) /\ Through(d, FlattenSeq(seqs)) \in I[n]
  BY <1>1, <1>3, <1>4, <1>5, FlattenWithin
<1> QED BY <1>6, <1>7, <1>8

----------------------------------------------------------------------------
(* The writes of a scene.                                                  *)

\* SetToSeq lists every member of a finite set.
LEMMA SetListed ==
  ASSUME NEW S, IsFiniteSet(S)
  PROVE  LET f == SetToSeq(S)
             n == Cardinality(S)
         IN  /\ n \in Nat
             /\ f \in [1 .. n -> S] /\ f \in Seq(S) /\ Len(f) = n /\ DOMAIN f = 1 .. n
             /\ \A x \in S : \E i \in 1 .. n : f[i] = x
<1> DEFINE f == SetToSeq(S)
           n == Cardinality(S)
<1>1. n \in Nat /\ ExistsBijection(1 .. n, S)
  BY FS_CardinalityType
<1>2. f \in [1 .. n -> S] /\ IsInjective(f)
  <2>1. \E g \in [1 .. n -> S] : IsInjective(g)
    BY <1>1 DEF ExistsBijection, Bijection, Injection
  <2> QED BY <2>1 DEF SetToSeq
<1> HIDE DEF f
<1>3. f \in Injection(1 .. n, S)
  BY <1>2 DEF Injection
<1>4. Cardinality(1 .. n) = n
  BY <1>1, FS_Interval
<1>5. f \in Surjection(1 .. n, S)
  BY <1>3, <1>4, FS_Injection
<1>6. \A x \in S : \E i \in 1 .. n : f[i] = x
  BY <1>5 DEF Surjection
<1>7. f \in Seq(S) /\ DOMAIN f = 1 .. n
  BY <1>1, <1>2, SeqDef
<1>8. Len(f) = n
  BY <1>1, <1>7, LenProperties
<1> QED BY <1>1, <1>2, <1>6, <1>7, <1>8 DEF f

LEMMA BlocksFinite ==
  ASSUME NEW S, S \subseteq SlotBlocks
  PROVE  IsFiniteSet(S)
<1>1. IsFiniteSet(SlotBlocks)
  BY AM4ApplyPresetConstants, FS_Union DEF SlotBlocks
<1> QED BY <1>1, FS_Subset

LEMMA SceneChannelOK ==
  ASSUME NEW s \in Askable, NEW x \in Scenes, NEW b \in ChannelBlocks,
         SceneChannel(s, x, b) # Unset
  PROVE  SceneChannel(s, x, b) \in ChannelNumbers
<1>1. s.scenes[x] # Unset => s.scenes[x] \in SceneInputs
  BY DEF Askable
<1>2. s.scenes[x] # Unset => s.scenes[x].channels \in [ChannelBlocks -> ChannelNumbers \cup {Unset}]
  BY <1>1 DEF SceneInputs
<1> QED BY <1>2, ChannelsPositive DEF SceneChannel

\* In the active scene the blocks of the first k of list are on their channel.
ChannelsTo(d, s, x, list, k) ==
  {e \in Devices :
     /\ e.active = x
     /\ SameSlots(d, e) /\ SameParams(d, e) /\ SameScenes(d, e)
     /\ \A y \in Scenes, b \in ChannelBlocks :
          e.pointer[y][b] = IF y = x /\ \E j \in 1 .. k : list[j] = b THEN SceneChannel(s, x, b)
                            ELSE d.pointer[y][b]}

LEMMA SceneChannelsLand ==
  ASSUME NEW d \in Devices, NEW s \in Askable, NEW x \in Scenes, d.active = x
  PROVE  LET ws == SceneChannelWrites(s, x)
             e == Through(d, ws)
         IN  /\ ws \in Seq(ScenePart)
             /\ e \in Devices /\ e.active = x
             /\ SameSlots(d, e) /\ SameParams(d, e) /\ SameScenes(d, e)
             /\ \A y \in Scenes, b \in ChannelBlocks :
                  e.pointer[y][b] = IF y = x /\ SceneChannel(s, x, b) # Unset
                                      THEN SceneChannel(s, x, b) ELSE d.pointer[y][b]
<1> DEFINE named == {b \in ChannelBlocks : SceneChannel(s, x, b) # Unset}
           list == SetToSeq(named)
           n == Cardinality(named)
           ws == [i \in DOMAIN list |-> ChannelWrite(list[i], SceneChannel(s, x, list[i]))]
           I == [k \in 0 .. n |-> ChannelsTo(d, s, x, list, k)]
           e == Run(d, ws, n)
<1>1. IsFiniteSet(named)
  BY BlocksFinite DEF SlotBlocks
<1>2. /\ n \in Nat /\ list \in [1 .. n -> named] /\ DOMAIN list = 1 .. n
      /\ \A b \in named : \E i \in 1 .. n : list[i] = b
  BY <1>1, SetListed
<1>3. \A i \in 1 .. n : list[i] \in ChannelBlocks /\ SceneChannel(s, x, list[i]) \in ChannelNumbers
  BY <1>2, SceneChannelOK
<1> HIDE DEF list, n
<1>4. \A i \in 1 .. n : ws[i] \in Moves /\ ws[i].block = list[i]
                        /\ ws[i].value = SceneChannel(s, x, list[i])
  BY <1>2, <1>3 DEF ChannelWrite, Moves
<1>5. ws \in Seq(ScenePart) /\ Len(ws) = n
  <2>1. \A i \in 1 .. n : ws[i] \in ScenePart
    BY <1>4 DEF ScenePart
  <2> HIDE DEF ws
  <2>2. ws = [i \in 1 .. n |-> ws[i]]
    BY <1>2 DEF ws
  <2>3. ws \in [1 .. n -> ScenePart]
    BY <2>1, <2>2
  <2>4. ws \in Seq(ScenePart) /\ DOMAIN ws = 1 .. n
    BY <1>2, <2>3, SeqDef
  <2> QED BY <1>2, <2>4, LenProperties
<1> HIDE DEF ws
<1>6. d \in I[0]
  <2>1. d \in ChannelsTo(d, s, x, list, 0)
    BY DEF ChannelsTo, SameSlots, SameParams, SameScenes
  <2> QED BY <1>2, <2>1
<1>7. ASSUME NEW i \in 1 .. n, NEW f \in I[i - 1]
      PROVE  Land(f, ws[i]) \in I[i]
  <2> DEFINE w == ws[i]
             g == Land(f, w)
  <2>1. i - 1 \in 0 .. n /\ i \in 0 .. n /\ i \in Nat
    BY <1>2
  <2>2. f \in ChannelsTo(d, s, x, list, i - 1) /\ f \in Devices /\ f.active = x
    BY <2>1, <1>7 DEF ChannelsTo
  <2>3. w \in Moves /\ w.block = list[i] /\ w.value = SceneChannel(s, x, list[i])
    BY <1>4
  <2> HIDE DEF w
  <2>4. /\ g \in Devices /\ g.active = x
        /\ \A y \in Scenes, b \in ChannelBlocks :
             g.pointer[y][b] = IF y = x /\ b = list[i] THEN SceneChannel(s, x, list[i])
                               ELSE f.pointer[y][b]
        /\ SameSlots(f, g) /\ SameParams(f, g) /\ SameScenes(f, g)
    BY <2>2, <2>3, LandMove
  <2> HIDE DEF g
  <2>5. \A j \in 1 .. i : j \in 1 .. (i - 1) \/ j = i
    BY <2>1
  <2>6. \A j \in 1 .. (i - 1) : j \in 1 .. i
    BY <2>1
  <2>7. i \in 1 .. i
    BY <2>1
  <2>8. \A y \in Scenes, b \in ChannelBlocks :
          g.pointer[y][b] = IF y = x /\ \E j \in 1 .. i : list[j] = b THEN SceneChannel(s, x, b)
                            ELSE d.pointer[y][b]
    <3> TAKE y \in Scenes, b \in ChannelBlocks
    <3>1. f.pointer[y][b] = IF y = x /\ \E j \in 1 .. (i - 1) : list[j] = b
                              THEN SceneChannel(s, x, b) ELSE d.pointer[y][b]
      BY <2>2 DEF ChannelsTo
    <3>2. CASE b = list[i]
      BY <2>4, <2>7, <3>1, <3>2
    <3>3. CASE b # list[i]
      <4>1. (\E j \in 1 .. i : list[j] = b) <=> \E j \in 1 .. (i - 1) : list[j] = b
        BY <2>5, <2>6, <3>3
      <4> QED BY <2>4, <3>1, <3>3, <4>1
    <3> QED BY <3>2, <3>3
  <2>9. SameSlots(d, g) /\ SameParams(d, g) /\ SameScenes(d, g)
    BY <2>2, <2>4 DEF ChannelsTo, SameSlots, SameParams, SameScenes
  <2>10. g \in ChannelsTo(d, s, x, list, i)
    BY <2>4, <2>8, <2>9 DEF ChannelsTo
  <2> QED BY <2>1, <2>10 DEF g, w
<1>8. n \in 0 .. n /\ I[n] = ChannelsTo(d, s, x, list, n)
  BY <1>2
<1> HIDE DEF I
<1>9. e \in ChannelsTo(d, s, x, list, n)
  <2>1. n \in Nat /\ n \in 0 .. n
    BY <1>2, <1>8
  <2> HIDE DEF named
  <2>2. Run(d, ws, n) \in I[n]
    BY <2>1, <1>6, <1>7, RunWithin
  <2> QED BY <2>2, <1>8
<1>10. Through(d, ws) = e
  BY <1>5 DEF Through
<1>11. SceneChannelWrites(s, x) = ws
  BY DEF SceneChannelWrites, ws, list
<1> HIDE DEF e
<1>12. \A b \in ChannelBlocks : SceneChannel(s, x, b) # Unset <=> \E j \in 1 .. n : list[j] = b
  <2> TAKE b \in ChannelBlocks
  <2>1. b \in named <=> SceneChannel(s, x, b) # Unset
    OBVIOUS
  <2> HIDE DEF named
  <2> QED BY <1>2, <2>1
<1> HIDE DEF named
<1> QED BY <1>5, <1>9, <1>10, <1>11, <1>12 DEF ChannelsTo

\* Everything but the bypasses of scene x is in e as in d.
SameButBypass(d, e, x) ==
  /\ e \in Devices /\ e.active = x /\ e.pointer = d.pointer /\ e.sceneName = d.sceneName
  /\ SameSlots(d, e) /\ SameParams(d, e)
  /\ \A y \in Scenes : y # x => e.bypassed[y] = d.bypassed[y]

LEMMA SameButBypassAgain ==
  ASSUME NEW d, NEW e, NEW f, NEW x, SameButBypass(d, e, x), SameButBypass(e, f, x)
  PROVE  SameButBypass(d, f, x)
BY DEF SameButBypass, SameSlots, SameParams

LEMMA LandBypassAt ==
  ASSUME NEW d \in Devices, NEW w \in Bypasses
  PROVE  /\ SameButBypass(d, Land(d, w), d.active)
         /\ \A b \in SlotBlocks : b \in Land(d, w).bypassed[d.active] <=>
              IF b = w.block THEN w.value = TRUE ELSE b \in d.bypassed[d.active]
<1> DEFINE e == Land(d, w)
<1>1. /\ e \in Devices /\ e.active = d.active /\ e.pointer = d.pointer
      /\ e.sceneName = d.sceneName
      /\ e.bypassed = [d.bypassed EXCEPT ![d.active] =
                         IF w.value THEN @ \cup {w.block} ELSE @ \ {w.block}]
      /\ SameSlots(d, e) /\ SameParams(d, e)
  BY LandBypass
<1>2. d.active \in Scenes /\ d.bypassed \in [Scenes -> SUBSET SlotBlocks] /\ w.value \in BOOLEAN
  BY DEF Devices, Bypasses
<1> HIDE DEF e
<1>3. \A y \in Scenes : y # d.active => e.bypassed[y] = d.bypassed[y]
  BY <1>1, <1>2
<1>4. e.bypassed[d.active] = IF w.value THEN d.bypassed[d.active] \cup {w.block}
                                        ELSE d.bypassed[d.active] \ {w.block}
  BY <1>1, <1>2
<1>5. \A b \in SlotBlocks : b \in e.bypassed[d.active] <=>
        IF b = w.block THEN w.value = TRUE ELSE b \in d.bypassed[d.active]
  <2>1. CASE w.value = TRUE
    BY <1>4, <2>1
  <2>2. CASE w.value = FALSE
    BY <1>4, <2>2
  <2> QED BY <1>2, <2>1, <2>2
<1> QED BY <1>1, <1>3, <1>5 DEF SameButBypass, e

\* The blocks among the first k of list are bypassed as the entry asks.
AskedTo(d, s, x, list, k) ==
  {e \in Devices :
     /\ SameButBypass(d, e, x)
     /\ \A b \in SlotBlocks : b \in e.bypassed[x] <=>
          IF \E j \in 1 .. k : list[j] = b THEN s.scenes[x].bypass[b] = TRUE
          ELSE b \in d.bypassed[x]}

\* The two halves of SceneBypassWrites.
AskedBypasses(s, x) ==
  LET explicit == SetToSeq(BypassAsked(s, x))
  IN  [i \in DOMAIN explicit |-> Bypass(explicit[i], s.scenes[x].bypass[explicit[i]])]

ActiveBypasses(s, x) ==
  FlattenSeq([p \in Positions |->
    IF s.slots[p] = Unset \/ s.slots[p].block \in BypassAsked(s, x) THEN <<>>
    ELSE <<Bypass(s.slots[p].block, FALSE)>>])

\* What the first half makes of d.
AskedTaken(d, e, s, x) ==
  /\ SameButBypass(d, e, x)
  /\ \A b \in SlotBlocks : b \in e.bypassed[x] <=>
       IF b \in BypassAsked(s, x) THEN s.scenes[x].bypass[b] = TRUE
       ELSE b \in d.bypassed[x]

LEMMA AskedBypassLands ==
  ASSUME NEW d \in Devices, NEW s \in Askable, NEW x \in Scenes, d.active = x
  PROVE  /\ AskedBypasses(s, x) \in Seq(ScenePart)
         /\ AskedTaken(d, Through(d, AskedBypasses(s, x)), s, x)
<1> DEFINE named == BypassAsked(s, x)
           list == SetToSeq(named)
           n == Cardinality(named)
           ws == [i \in DOMAIN list |-> Bypass(list[i], s.scenes[x].bypass[list[i]])]
           I == [k \in 0 .. n |-> AskedTo(d, s, x, list, k)]
           e == Run(d, ws, n)
<1>1. named \subseteq SlotBlocks /\ IsFiniteSet(named)
  <2>1. named \subseteq SlotBlocks
    BY DEF BypassAsked
  <2> QED BY <2>1, BlocksFinite
<1>2. /\ n \in Nat /\ list \in [1 .. n -> named] /\ DOMAIN list = 1 .. n
      /\ \A b \in named : \E i \in 1 .. n : list[i] = b
  BY <1>1, SetListed
<1>3. \A b \in named : s.scenes[x].bypass[b] \in BOOLEAN
  <2>1. s.scenes[x] # Unset => s.scenes[x].bypass \in [SlotBlocks -> BOOLEAN \cup {Unset}]
    BY DEF Askable, SceneInputs
  <2> QED BY <2>1 DEF BypassAsked
<1> HIDE DEF list, n, named
<1>4. \A i \in 1 .. n : ws[i] \in Bypasses /\ ws[i].block = list[i]
                        /\ ws[i].value = s.scenes[x].bypass[list[i]]
  BY <1>1, <1>2, <1>3 DEF Bypass, Bypasses
<1>5. ws \in Seq(ScenePart) /\ Len(ws) = n
  <2>1. \A i \in 1 .. n : ws[i] \in ScenePart
    BY <1>4 DEF ScenePart
  <2> HIDE DEF ws
  <2>2. ws = [i \in 1 .. n |-> ws[i]]
    BY <1>2 DEF ws
  <2>3. ws \in [1 .. n -> ScenePart]
    BY <2>1, <2>2
  <2>4. ws \in Seq(ScenePart) /\ DOMAIN ws = 1 .. n
    BY <1>2, <2>3, SeqDef
  <2> QED BY <1>2, <2>4, LenProperties
<1> HIDE DEF ws
<1>6. d \in I[0]
  <2>1. d \in AskedTo(d, s, x, list, 0)
    BY DEF AskedTo, SameButBypass, SameSlots, SameParams
  <2> QED BY <1>2, <2>1
<1>7. ASSUME NEW i \in 1 .. n, NEW f \in I[i - 1]
      PROVE  Land(f, ws[i]) \in I[i]
  <2> DEFINE w == ws[i]
             g == Land(f, w)
  <2>1. i - 1 \in 0 .. n /\ i \in 0 .. n /\ i \in Nat
    BY <1>2
  <2>2. f \in AskedTo(d, s, x, list, i - 1) /\ f \in Devices /\ f.active = x
    BY <2>1, <1>7 DEF AskedTo, SameButBypass
  <2>3. w \in Bypasses /\ w.block = list[i] /\ w.value = s.scenes[x].bypass[list[i]]
    BY <1>4
  <2> HIDE DEF w
  <2>4. /\ SameButBypass(f, g, x)
        /\ \A b \in SlotBlocks : b \in g.bypassed[x] <=>
             IF b = list[i] THEN s.scenes[x].bypass[b] = TRUE ELSE b \in f.bypassed[x]
    BY <2>2, <2>3, LandBypassAt
  <2> HIDE DEF g
  <2>5. \A j \in 1 .. i : j \in 1 .. (i - 1) \/ j = i
    BY <2>1
  <2>6. \A j \in 1 .. (i - 1) : j \in 1 .. i
    BY <2>1
  <2>7. i \in 1 .. i
    BY <2>1
  <2>8. \A b \in SlotBlocks : b \in g.bypassed[x] <=>
          IF \E j \in 1 .. i : list[j] = b THEN s.scenes[x].bypass[b] = TRUE
          ELSE b \in d.bypassed[x]
    <3> TAKE b \in SlotBlocks
    <3>1. b \in f.bypassed[x] <=>
            IF \E j \in 1 .. (i - 1) : list[j] = b THEN s.scenes[x].bypass[b] = TRUE
            ELSE b \in d.bypassed[x]
      BY <2>2 DEF AskedTo
    <3>2. CASE b = list[i]
      BY <2>4, <2>7, <3>2
    <3>3. CASE b # list[i]
      <4>1. (\E j \in 1 .. i : list[j] = b) <=> \E j \in 1 .. (i - 1) : list[j] = b
        BY <2>5, <2>6, <3>3
      <4> QED BY <2>4, <3>1, <3>3, <4>1
    <3> QED BY <3>2, <3>3
  <2>9. SameButBypass(d, g, x)
    BY <2>2, <2>4, SameButBypassAgain DEF AskedTo
  <2>10. g \in AskedTo(d, s, x, list, i)
    BY <2>8, <2>9 DEF AskedTo, SameButBypass
  <2> QED BY <2>1, <2>10 DEF g, w
<1>8. n \in 0 .. n /\ I[n] = AskedTo(d, s, x, list, n)
  BY <1>2
<1> HIDE DEF I
<1>9. e \in AskedTo(d, s, x, list, n)
  <2>1. n \in Nat /\ n \in 0 .. n
    BY <1>2, <1>8
  <2>2. Run(d, ws, n) \in I[n]
    BY <2>1, <1>6, <1>7, RunWithin
  <2> QED BY <2>2, <1>8
<1>10. Through(d, ws) = e
  BY <1>5 DEF Through
<1> HIDE DEF e
<1>11. \A b \in SlotBlocks : b \in named <=> \E j \in 1 .. n : list[j] = b
  BY <1>2
<1>12. \A b \in SlotBlocks : b \in e.bypassed[x] <=>
        IF b \in named THEN s.scenes[x].bypass[b] = TRUE ELSE b \in d.bypassed[x]
  BY <1>9, <1>11 DEF AskedTo
<1>13. SameButBypass(d, e, x)
  BY <1>9 DEF AskedTo
<1>14. AskedTaken(d, e, s, x)
  BY <1>12, <1>13 DEF AskedTaken, named
<1>15. ws = AskedBypasses(s, x)
  BY DEF ws, list, named, AskedBypasses
<1> QED BY <1>5, <1>10, <1>14, <1>15

\* The blocks placed by the first k slots are active unless the entry asks
\* for their bypass.
ActiveTo(d, s, x, k) ==
  {e \in Devices :
     /\ SameButBypass(d, e, x)
     /\ \A b \in SlotBlocks : b \in e.bypassed[x] <=>
          /\ b \in d.bypassed[x]
          /\ b \in BypassAsked(s, x) \/ \A q \in Positions :
               q <= k /\ s.slots[q] # Unset => s.slots[q].block # b}

LEMMA ActiveRound ==
  ASSUME NEW d \in Devices, NEW s \in Askable, NEW x \in Scenes,
         NEW k \in Positions, NEW e \in ActiveTo(d, s, x, k - 1)
  PROVE  LET ws == IF s.slots[k] = Unset \/ s.slots[k].block \in BypassAsked(s, x) THEN <<>>
                   ELSE <<Bypass(s.slots[k].block, FALSE)>>
         IN  Through(e, ws) \in ActiveTo(d, s, x, k)
<1>1. \A q \in Positions : (q <= k <=> q <= k - 1 \/ q = k) /\ ~(k <= k - 1)
  BY ChannelsPositive DEF Positions
<1>2. /\ SameButBypass(d, e, x)
      /\ \A b \in SlotBlocks : b \in e.bypassed[x] <=>
           /\ b \in d.bypassed[x]
           /\ b \in BypassAsked(s, x) \/ \A q \in Positions :
                q <= k - 1 /\ s.slots[q] # Unset => s.slots[q].block # b
  BY DEF ActiveTo
<1>3. CASE s.slots[k] = Unset \/ s.slots[k].block \in BypassAsked(s, x)
  <2>1. ASSUME NEW b \in SlotBlocks
        PROVE  b \in e.bypassed[x] <=>
                 /\ b \in d.bypassed[x]
                 /\ b \in BypassAsked(s, x) \/ \A q \in Positions :
                      q <= k /\ s.slots[q] # Unset => s.slots[q].block # b
    BY <1>1, <1>2, <1>3
  <2>2. e \in ActiveTo(d, s, x, k)
    BY <1>2, <2>1 DEF ActiveTo
  <2> QED BY <1>3, <2>2, ThroughNone
<1>4. CASE s.slots[k] # Unset /\ s.slots[k].block \notin BypassAsked(s, x)
  <2> DEFINE slot == s.slots[k]
             w == Bypass(slot.block, FALSE)
             g == Land(e, w)
  <2>1. slot.block \in SlotBlocks /\ e \in Devices /\ e.active = x
    BY <1>2, <1>4, SlotShape DEF SameButBypass
  <2>2. w \in Bypasses /\ w.block = slot.block /\ w.value = FALSE
    BY <2>1 DEF Bypass, Bypasses
  <2>3. Through(e, <<w>>) = g
    BY ThroughOne
  <2> HIDE DEF w
  <2>4. /\ SameButBypass(e, g, x)
        /\ \A b \in SlotBlocks : b \in g.bypassed[x] <=> b # slot.block /\ b \in e.bypassed[x]
    BY <2>1, <2>2, LandBypassAt
  <2> HIDE DEF g
  <2>5. ASSUME NEW b \in SlotBlocks
        PROVE  b \in g.bypassed[x] <=>
                 /\ b \in d.bypassed[x]
                 /\ b \in BypassAsked(s, x) \/ \A q \in Positions :
                      q <= k /\ s.slots[q] # Unset => s.slots[q].block # b
    BY <1>1, <1>2, <1>4, <2>4
  <2>6. SameButBypass(d, g, x)
    BY <1>2, <2>4, SameButBypassAgain
  <2>7. g \in ActiveTo(d, s, x, k)
    BY <2>5, <2>6 DEF ActiveTo, SameButBypass
  <2> QED BY <1>4, <2>3, <2>7 DEF w
<1> QED BY <1>3, <1>4

LEMMA ActiveLands ==
  ASSUME NEW d \in Devices, NEW s \in Askable, NEW x \in Scenes, d.active = x
  PROVE  /\ ActiveBypasses(s, x) \in Seq(ScenePart)
         /\ Through(d, ActiveBypasses(s, x)) \in ActiveTo(d, s, x, PositionCount)
<1> DEFINE n == PositionCount
           I == [k \in 0 .. n |-> ActiveTo(d, s, x, k)]
           seqs == [p \in Positions |->
                     IF s.slots[p] = Unset \/ s.slots[p].block \in BypassAsked(s, x) THEN <<>>
                     ELSE <<Bypass(s.slots[p].block, FALSE)>>]
<1>1. n \in Nat \ {0} /\ Positions = 1 .. n
  BY ChannelsPositive DEF Positions
<1>2. ASSUME NEW p \in Positions PROVE seqs[p] \in Seq(ScenePart)
  <2> DEFINE w == Bypass(s.slots[p].block, FALSE)
  <2>1. CASE s.slots[p] = Unset \/ s.slots[p].block \in BypassAsked(s, x)
    <3>1. seqs[p] = <<>>
      BY <2>1
    <3> HIDE DEF seqs
    <3> QED BY <3>1
  <2>2. CASE s.slots[p] # Unset /\ s.slots[p].block \notin BypassAsked(s, x)
    <3>1. s.slots[p].block \in SlotBlocks
      BY <2>2, SlotShape
    <3>2. w \in Bypasses
      BY <3>1 DEF Bypass, Bypasses
    <3>3. seqs[p] = <<w>>
      BY <2>2
    <3> HIDE DEF w, seqs
    <3>4. w \in ScenePart
      BY <3>2 DEF ScenePart
    <3> QED BY <3>3, <3>4
  <2> QED BY <2>1, <2>2
<1>3. seqs \in [1 .. n -> Seq(ScenePart)]
  <2> HIDE DEF seqs
  <2>1. seqs = [p \in Positions |-> seqs[p]]
    BY DEF seqs
  <2> QED BY <1>1, <1>2, <2>1
<1>4. d \in I[0]
  <2>1. \A q \in Positions : ~(q <= 0)
    BY <1>1
  <2>2. d \in ActiveTo(d, s, x, 0)
    BY <2>1 DEF ActiveTo, SameButBypass, SameSlots, SameParams
  <2> QED BY <1>1, <2>2
<1>5. ASSUME NEW i \in 1 .. n, NEW e \in I[i - 1]
      PROVE  Through(e, seqs[i]) \in I[i]
  <2>1. i \in Positions /\ i - 1 \in 0 .. n /\ i \in 0 .. n
    BY <1>1
  <2>2. e \in ActiveTo(d, s, x, i - 1)
    BY <2>1, <1>5
  <2>3. Through(e, seqs[i]) \in ActiveTo(d, s, x, i)
    BY <2>1, <2>2, ActiveRound
  <2> QED BY <2>1, <2>3
<1>6. n \in 0 .. n /\ I[n] = ActiveTo(d, s, x, n)
  BY <1>1
<1> HIDE DEF I, seqs
<1>7. FlattenSeq(seqs) \in Seq(ScenePart) /\ Through(d, FlattenSeq(seqs)) \in I[n]
  BY <1>1, <1>3, <1>4, <1>5, FlattenWithin
<1>8. FlattenSeq(seqs) = ActiveBypasses(s, x)
  BY DEF seqs, ActiveBypasses
<1> QED BY <1>6, <1>7, <1>8

\* A placed block is bypassed in scene x if the entry asks for it.
BypassRight(e, s, x) ==
  \A b \in Placed(s) :
    b \in e.bypassed[x] <=> s.scenes[x] # Unset /\ s.scenes[x].bypass[b] = TRUE

\* Scene x is in e what the specification makes of it in d.
SceneRight(d, e, s, x) ==
  /\ e.sceneName[x] = IF s.scenes[x] = Unset THEN "empty"
                      ELSE IF s.scenes[x].name = Unset THEN d.sceneName[x] ELSE "asked"
  /\ \A b \in ChannelBlocks :
       SceneChannel(s, x, b) # Unset => e.pointer[x][b] = SceneChannel(s, x, b)
  /\ BypassRight(e, s, x)

SameScene(d, e, y) ==
  /\ e.sceneName[y] = d.sceneName[y] /\ e.bypassed[y] = d.bypassed[y]
  /\ \A b \in ChannelBlocks : e.pointer[y][b] = d.pointer[y][b]

\* Only scene x is new in e.
SceneTaken(d, e, s, x) ==
  /\ e \in Devices /\ SameSlots(d, e) /\ SameParams(d, e)
  /\ SceneRight(d, e, s, x)
  /\ \A y \in Scenes : y # x => SameScene(d, e, y)

LEMMA PlacedBlocks ==
  ASSUME NEW s \in Askable
  PROVE  Placed(s) \subseteq SlotBlocks
BY SlotShape DEF Placed

LEMMA SceneBypassesLand ==
  ASSUME NEW d \in Devices, NEW s \in Askable, NEW x \in Scenes, d.active = x
  PROVE  /\ SceneBypassWrites(s, x) \in Seq(ScenePart)
         /\ SameButBypass(d, Through(d, SceneBypassWrites(s, x)), x)
         /\ BypassRight(Through(d, SceneBypassWrites(s, x)), s, x)
<1> DEFINE ws == AskedBypasses(s, x)
           vs == ActiveBypasses(s, x)
           f == Through(d, ws)
           g == Through(f, vs)
<1>1. ws \in Seq(ScenePart) /\ AskedTaken(d, f, s, x)
  BY AskedBypassLands
<1>2. SceneBypassWrites(s, x) = ws \o vs
  BY DEF SceneBypassWrites, AskedBypasses, ActiveBypasses
<1>3. f \in Devices /\ f.active = x /\ SameButBypass(d, f, x)
  BY <1>1 DEF AskedTaken, SameButBypass
<1> HIDE DEF ws, f
<1>4. vs \in Seq(ScenePart) /\ g \in ActiveTo(f, s, x, PositionCount)
  BY <1>3, ActiveLands
<1> HIDE DEF vs
<1>5. ws \o vs \in Seq(ScenePart) /\ Through(d, ws \o vs) = g
  BY <1>1, <1>4, ThroughConcat, ConcatProperties DEF f
<1> HIDE DEF g
<1>6. SameButBypass(d, g, x)
  BY <1>3, <1>4, SameButBypassAgain DEF ActiveTo
<1>7. ASSUME NEW b \in Placed(s)
      PROVE  b \in g.bypassed[x] <=> s.scenes[x] # Unset /\ s.scenes[x].bypass[b] = TRUE
  <2>1. b \in SlotBlocks
    BY PlacedBlocks
  <2>2. PICK p \in Positions : s.slots[p] # Unset /\ s.slots[p].block = b
    BY DEF Placed
  <2>3. p <= PositionCount
    BY ChannelsPositive DEF Positions
  <2>4. b \in g.bypassed[x] <=> b \in f.bypassed[x] /\ b \in BypassAsked(s, x)
    BY <1>4, <2>1, <2>2, <2>3 DEF ActiveTo
  <2>5. b \in BypassAsked(s, x) => s.scenes[x] # Unset
    BY DEF BypassAsked
  <2>6. s.scenes[x] # Unset /\ s.scenes[x].bypass[b] = TRUE => b \in BypassAsked(s, x)
    BY <2>1, AM4ApplyPresetConstants DEF BypassAsked
  <2>7. b \in f.bypassed[x] /\ b \in BypassAsked(s, x)
          <=> b \in BypassAsked(s, x) /\ s.scenes[x].bypass[b] = TRUE
    BY <1>1, <2>1 DEF AskedTaken
  <2> QED BY <2>4, <2>5, <2>6, <2>7
<1>8. BypassRight(g, s, x)
  BY <1>7 DEF BypassRight
<1> QED BY <1>2, <1>5, <1>6, <1>8

LEMMA SceneNameLands ==
  ASSUME NEW d \in Devices, NEW s \in Askable, NEW x \in Scenes, d.active = x
  PROVE  LET ws == SceneNameWrite(s, x)
             e == Through(d, ws)
         IN  /\ ws \in Seq(ScenePart)
             /\ e \in Devices /\ e.pointer = d.pointer /\ e.bypassed = d.bypassed
             /\ SameSlots(d, e) /\ SameParams(d, e)
             /\ e.sceneName[x] = IF s.scenes[x] = Unset THEN "empty"
                                 ELSE IF s.scenes[x].name = Unset THEN d.sceneName[x] ELSE "asked"
             /\ \A y \in Scenes : y # x => e.sceneName[y] = d.sceneName[y]
<1> DEFINE name == IF s.scenes[x] = Unset THEN "empty" ELSE s.scenes[x].name
           w == [kind |-> "sceneName", block |-> Empty, value |-> name]
           ws == SceneNameWrite(s, x)
           e == Through(d, ws)
<1>1. ws = IF name = Unset THEN <<>> ELSE <<w>>
  BY DEF SceneNameWrite
<1>2. s.scenes[x] # Unset /\ s.scenes[x].name # Unset => s.scenes[x].name = "asked"
  BY DEF Askable, SceneInputs
<1>3. CASE name = Unset /\ s.scenes[x] # Unset
  <2>1. ws = <<>> /\ e = d
    BY <1>1, <1>3, ThroughNone
  <2>2. <<>> \in Seq(ScenePart)
    OBVIOUS
  <2> QED BY <1>3, <2>1, <2>2 DEF SameSlots, SameParams
<1>4. CASE ~(name = Unset /\ s.scenes[x] # Unset)
  <2>1. name \in {"empty", "asked"}
    <3>1. CASE s.scenes[x] = Unset
      BY <3>1
    <3>2. CASE s.scenes[x] # Unset
      BY <1>2, <1>4, <3>2
    <3> QED BY <3>1, <3>2
  <2>2. w \in SceneNames /\ w.value = name
    BY <2>1 DEF SceneNames
  <2>3. ws = <<w>>
    <3>1. CASE s.scenes[x] = Unset
      BY <1>1, <3>1, AM4ApplyPresetConstants
    <3>2. CASE s.scenes[x] # Unset
      BY <1>1, <1>4, <3>2
    <3> QED BY <3>1, <3>2
  <2> HIDE DEF w, ws
  <2>4. e = Land(d, w)
    BY <2>3, ThroughOne
  <2>5. <<w>> \in Seq(ScenePart)
    <3>1. w \in ScenePart
      BY <2>2 DEF ScenePart
    <3> QED BY <3>1
  <2> HIDE DEF e, name
  <2>6. /\ e \in Devices
        /\ e.active = d.active /\ e.pointer = d.pointer /\ e.bypassed = d.bypassed
        /\ e.sceneName = [d.sceneName EXCEPT ![d.active] = name]
        /\ SameSlots(d, e) /\ SameParams(d, e)
    BY <2>2, <2>4, LandSceneName
  <2>7. e.sceneName[x] = name /\ \A y \in Scenes : y # x => e.sceneName[y] = d.sceneName[y]
    BY <2>6 DEF Devices
  <2>8. name = IF s.scenes[x] = Unset THEN "empty"
               ELSE IF s.scenes[x].name = Unset THEN d.sceneName[x] ELSE "asked"
    BY <1>2, <1>4 DEF name
  <2> QED BY <2>3, <2>5, <2>6, <2>7, <2>8 DEF e, ws
<1> QED BY <1>3, <1>4

LEMMA SceneRound ==
  ASSUME NEW d \in Devices, NEW s \in Askable, NEW x \in Scenes
  PROVE  LET ws == <<SceneSwitch(x)>> \o SceneChannelWrites(s, x)
                     \o SceneBypassWrites(s, x) \o SceneNameWrite(s, x)
         IN  ws \in Seq(ScenePart) /\ SceneTaken(d, Through(d, ws), s, x)
<1> DEFINE w == SceneSwitch(x)
           cw == SceneChannelWrites(s, x)
           bw == SceneBypassWrites(s, x)
           nw == SceneNameWrite(s, x)
           e == Land(d, w)
           f == Through(e, cw)
           g == Through(f, bw)
           h == Through(g, nw)
<1>1. w \in Switches /\ w.value = x
  BY DEF SceneSwitch, Switches
<1>2. <<w>> \in Seq(ScenePart) /\ Through(d, <<w>>) = e
  <2>1. w \in ScenePart
    BY <1>1 DEF ScenePart
  <2> HIDE DEF w
  <2> QED BY <2>1, ThroughOne
<1> HIDE DEF w
<1>3. /\ e \in Devices /\ e.active = x /\ e.pointer = d.pointer
      /\ SameSlots(d, e) /\ SameParams(d, e) /\ SameScenes(d, e)
  BY <1>1, LandScene
<1> HIDE DEF e
<1>4. /\ cw \in Seq(ScenePart)
      /\ f \in Devices /\ f.active = x
      /\ SameSlots(e, f) /\ SameParams(e, f) /\ SameScenes(e, f)
      /\ \A y \in Scenes, b \in ChannelBlocks :
           f.pointer[y][b] = IF y = x /\ SceneChannel(s, x, b) # Unset
                               THEN SceneChannel(s, x, b) ELSE e.pointer[y][b]
  BY <1>3, SceneChannelsLand
<1> HIDE DEF cw, f
<1>5. bw \in Seq(ScenePart) /\ SameButBypass(f, g, x) /\ BypassRight(g, s, x)
  BY <1>4, SceneBypassesLand
<1> HIDE DEF bw, g
<1>6. g \in Devices /\ g.active = x
  BY <1>5 DEF SameButBypass
<1>7. /\ nw \in Seq(ScenePart)
      /\ h \in Devices /\ h.pointer = g.pointer /\ h.bypassed = g.bypassed
      /\ SameSlots(g, h) /\ SameParams(g, h)
      /\ h.sceneName[x] = IF s.scenes[x] = Unset THEN "empty"
                          ELSE IF s.scenes[x].name = Unset THEN g.sceneName[x] ELSE "asked"
      /\ \A y \in Scenes : y # x => h.sceneName[y] = g.sceneName[y]
  BY <1>6, SceneNameLands
<1> HIDE DEF nw, h
<1>8. /\ <<w>> \o cw \in Seq(ScenePart)
      /\ (<<w>> \o cw) \o bw \in Seq(ScenePart)
      /\ ((<<w>> \o cw) \o bw) \o nw \in Seq(ScenePart)
  BY <1>2, <1>4, <1>5, <1>7, ConcatProperties
<1>9. Through(d, ((<<w>> \o cw) \o bw) \o nw) = h
  <2>1. Through(d, <<w>> \o cw) = f
    BY <1>2, <1>4, ThroughConcat DEF f
  <2>2. Through(d, (<<w>> \o cw) \o bw) = g
    BY <1>5, <1>8, <2>1, ThroughConcat DEF g
  <2> QED BY <1>7, <1>8, <2>2, ThroughConcat DEF h
<1>10. /\ SameSlots(d, h) /\ SameParams(d, h)
  BY <1>3, <1>4, <1>5, <1>7 DEF SameSlots, SameParams, SameButBypass
<1>11. g.sceneName = d.sceneName
  BY <1>3, <1>4, <1>5 DEF SameScenes, SameButBypass
<1>12. SceneRight(d, h, s, x)
  <2>1. \A b \in ChannelBlocks :
          SceneChannel(s, x, b) # Unset => h.pointer[x][b] = SceneChannel(s, x, b)
    BY <1>4, <1>5, <1>7 DEF SameButBypass
  <2>2. BypassRight(h, s, x)
    BY <1>5, <1>7 DEF BypassRight
  <2> QED BY <1>7, <1>11, <2>1, <2>2 DEF SceneRight
<1>13. ASSUME NEW y \in Scenes, y # x PROVE SameScene(d, h, y)
  <2>1. h.sceneName[y] = d.sceneName[y]
    BY <1>7, <1>11, <1>13
  <2>2. h.bypassed[y] = d.bypassed[y]
    BY <1>3, <1>4, <1>5, <1>7, <1>13 DEF SameButBypass, SameScenes
  <2>3. \A b \in ChannelBlocks : h.pointer[y][b] = d.pointer[y][b]
    BY <1>3, <1>4, <1>5, <1>7, <1>13 DEF SameButBypass
  <2> QED BY <2>1, <2>2, <2>3 DEF SameScene
<1>14. SceneTaken(d, h, s, x)
  BY <1>7, <1>10, <1>12, <1>13 DEF SceneTaken
<1> QED BY <1>8, <1>9, <1>14 DEF w, cw, bw, nw

\* The scenes up to the x-th are written, the others still have their names.
ScenesTo(d, s, k) ==
  {e \in Devices :
     /\ SameSlots(d, e) /\ SameParams(d, e)
     /\ \A x \in Scenes : IF x <= k THEN SceneRight(d, e, s, x)
                                    ELSE e.sceneName[x] = d.sceneName[x]}

LEMMA ScenesRound ==
  ASSUME NEW d \in Devices, NEW s \in Askable, NEW k \in Scenes, NEW e \in ScenesTo(d, s, k - 1),
         NEW f, SceneTaken(e, f, s, k)
  PROVE  f \in ScenesTo(d, s, k)
<1>1. \A x \in Scenes : (x <= k <=> x <= k - 1 \/ x = k) /\ ~(k <= k - 1)
  BY ChannelsPositive DEF Scenes
<1>2. e.sceneName[k] = d.sceneName[k]
  BY <1>1 DEF ScenesTo
<1>3. SceneRight(d, f, s, k)
  BY <1>2 DEF SceneTaken, SceneRight
<1>4. ASSUME NEW x \in Scenes, x # k
      PROVE  IF x <= k THEN SceneRight(d, f, s, x) ELSE f.sceneName[x] = d.sceneName[x]
  <2>1. SameScene(e, f, x)
    BY <1>4 DEF SceneTaken
  <2>2. IF x <= k THEN SceneRight(d, e, s, x) ELSE e.sceneName[x] = d.sceneName[x]
    BY <1>1, <1>4 DEF ScenesTo
  <2>3. CASE x <= k
    BY <2>1, <2>2, <2>3 DEF SameScene, SceneRight, BypassRight
  <2>4. CASE ~(x <= k)
    BY <2>1, <2>2, <2>4 DEF SameScene
  <2> QED BY <2>3, <2>4
<1>5. SameSlots(d, f) /\ SameParams(d, f) /\ f \in Devices
  BY DEF SceneTaken, ScenesTo, SameSlots, SameParams
<1>6. \A x \in Scenes : IF x <= k THEN SceneRight(d, f, s, x) ELSE f.sceneName[x] = d.sceneName[x]
  BY <1>1, <1>3, <1>4
<1> QED BY <1>5, <1>6 DEF ScenesTo

LEMMA ScenesLand ==
  ASSUME NEW d \in Devices, NEW s \in Askable
  PROVE  /\ SceneWrites(s) \in Seq(ScenePart)
         /\ Through(d, SceneWrites(s)) \in ScenesTo(d, s, SceneCount)
<1> DEFINE n == SceneCount
           I == [k \in 0 .. n |-> ScenesTo(d, s, k)]
           seqs == [x \in Scenes |->
                     <<SceneSwitch(x)>> \o SceneChannelWrites(s, x)
                       \o SceneBypassWrites(s, x) \o SceneNameWrite(s, x)]
<1>1. n \in Nat \ {0} /\ Scenes = 1 .. n
  BY ChannelsPositive DEF Scenes
<1>2. \A x \in Scenes, e \in Devices :
        seqs[x] \in Seq(ScenePart) /\ SceneTaken(e, Through(e, seqs[x]), s, x)
  BY SceneRound
<1>3. seqs \in [1 .. n -> Seq(ScenePart)]
  <2>1. seqs = [x \in Scenes |-> seqs[x]]
    OBVIOUS
  <2> HIDE DEF seqs
  <2> QED BY <1>1, <1>2, <2>1
<1>4. SceneWrites(s) = FlattenSeq(seqs)
  BY DEF SceneWrites
<1> HIDE DEF seqs
<1>5. d \in I[0]
  <2>1. \A x \in Scenes : ~(x <= 0)
    BY <1>1
  <2>2. d \in ScenesTo(d, s, 0)
    BY <2>1 DEF ScenesTo, SameSlots, SameParams
  <2> QED BY <1>1, <2>2
<1>6. ASSUME NEW i \in 1 .. n, NEW e \in I[i - 1]
      PROVE  Through(e, seqs[i]) \in I[i]
  <2>1. i \in Scenes /\ i - 1 \in 0 .. n /\ i \in 0 .. n
    BY <1>1
  <2>2. e \in ScenesTo(d, s, i - 1) /\ e \in Devices
    BY <2>1, <1>6 DEF ScenesTo
  <2>3. Through(e, seqs[i]) \in ScenesTo(d, s, i)
    BY <1>2, <2>1, <2>2, ScenesRound
  <2> QED BY <2>1, <2>3
<1>7. n \in 0 .. n /\ I[n] = ScenesTo(d, s, n)
  BY <1>1
<1> HIDE DEF I
<1>8. FlattenSeq(seqs) \in Seq(ScenePart) /\ Through(d, FlattenSeq(seqs)) \in I[n]
  BY <1>1, <1>3, <1>5, <1>6, FlattenWithin
<1> QED BY <1>4, <1>7, <1>8
----------------------------------------------------------------------------
(* The prepared list.                                                      *)

\* e is what types and s make of d.
SlotsRight(e, s) ==
  \A p \in Positions : e.slots[p] = IF s.slots[p] = Unset THEN Empty ELSE s.slots[p].block

ParamsRight(d, e, types, s) ==
  /\ \A p \in Positions, y \in ChannelNumbers :
       s.slots[p] # Unset => TookAt(d, e, types, s.slots[p], y)
  /\ \A b \in SlotBlocks, y \in ChannelNumbers : b \notin Placed(s) => SameAt(d, e, b, y)

Built(d, e, types, s) ==
  /\ e \in Devices
  /\ SlotsRight(e, s)
  /\ e.active = s.landing
  /\ \A x \in Scenes : SceneRight(d, e, s, x)
  /\ ParamsRight(d, e, types, s)

LEMMA SlotsLand ==
  ASSUME NEW d \in Devices, NEW types, NEW s \in Askable
  PROVE  LET ws == ListedWrites(types, s) \o ClearingWrites(s)
             e == Through(d, ws)
         IN  /\ ws \in Seq(SlotPart)
             /\ e \in Devices /\ SlotsRight(e, s) /\ SameScenes(d, e)
             /\ ParamsRight(d, e, types, s)
<1> DEFINE lw == ListedWrites(types, s)
           cw == ClearingWrites(s)
           e == Through(d, lw)
           f == Through(e, cw)
<1>1. lw \in Seq(SlotPart) /\ e \in SlotsDone(d, types, s, PositionCount)
  BY ListedLand
<1>2. e \in Devices
  BY <1>1 DEF SlotsDone
<1> HIDE DEF lw, e
<1>3. cw \in Seq(SlotPart) /\ f \in ClearedTo(e, s, PositionCount)
  BY <1>2, ClearingLands
<1> HIDE DEF cw
<1>4. lw \o cw \in Seq(SlotPart) /\ Through(d, lw \o cw) = f
  BY <1>1, <1>3, ThroughConcat, ConcatProperties DEF e
<1> HIDE DEF f
<1>5. \A q \in Positions : q <= PositionCount
  BY ChannelsPositive DEF Positions
<1>6. f \in Devices /\ SameParams(e, f) /\ SameScenes(d, f)
  BY <1>1, <1>3 DEF ClearedTo, SlotsDone, SameScenes
<1>7. SlotsRight(f, s)
  BY <1>1, <1>3, <1>5 DEF ClearedTo, SlotsDone, SlotsRight
<1>8. ASSUME NEW p \in Positions, NEW y \in ChannelNumbers, s.slots[p] # Unset
      PROVE  TookAt(d, f, types, s.slots[p], y)
  <2>1. TookAt(d, e, types, s.slots[p], y)
    BY <1>1, <1>5, <1>8 DEF SlotsDone
  <2>2. SameAt(e, f, s.slots[p].block, y)
    BY <1>6 DEF SameParams, SameAt
  <2> QED BY <2>1, <2>2, TookKept
<1>9. ASSUME NEW b \in SlotBlocks, NEW y \in ChannelNumbers, b \notin Placed(s)
      PROVE  SameAt(d, f, b, y)
  <2>1. \A q \in Positions : s.slots[q] # Unset => s.slots[q].block # b
    BY <1>9 DEF Placed
  <2>2. Kept(d, e, b)
    BY <1>1, <2>1 DEF SlotsDone
  <2> QED BY <1>6, <2>2 DEF Kept, SameAt, SameParams
<1>10. ParamsRight(d, f, types, s)
  BY <1>8, <1>9 DEF ParamsRight
<1> QED BY <1>4, <1>6, <1>7, <1>10 DEF lw, cw

\* Where the parameters and the scenes are no longer touched.
LEMMA ParamsRightKept ==
  ASSUME NEW d, NEW e, NEW f, NEW types, NEW s,
         ParamsRight(d, e, types, s), SameParams(e, f)
  PROVE  ParamsRight(d, f, types, s)
<1>1. \A b \in SlotBlocks, y \in ChannelNumbers : SameAt(d, e, b, y) => SameAt(d, f, b, y)
  BY DEF SameAt, SameParams
<1>2. ASSUME NEW p \in Positions, NEW y \in ChannelNumbers, s.slots[p] # Unset
      PROVE  TookAt(d, f, types, s.slots[p], y)
  <2>1. TookAt(d, e, types, s.slots[p], y)
    BY <1>2 DEF ParamsRight
  <2>2. SameAt(e, f, s.slots[p].block, y)
    BY DEF SameAt, SameParams
  <2> QED BY <2>1, <2>2, TookKept
<1> QED BY <1>1, <1>2 DEF ParamsRight

LEMMA SceneRightKept ==
  ASSUME NEW d, NEW e, NEW f, NEW g, NEW s, NEW x,
         SceneRight(e, f, s, x), e.sceneName = d.sceneName,
         SameScenes(f, g), g.pointer = f.pointer
  PROVE  SceneRight(d, g, s, x)
BY DEF SceneRight, BypassRight, SameScenes

LEMMA PrepareLands ==
  ASSUME NEW d \in Devices, NEW types, NEW s \in Askable
  PROVE  /\ Prepare(types, s) \in Seq(Writes)
         /\ Built(d, Through(d, Prepare(types, s)), types, s)
<1> DEFINE lw == ListedWrites(types, s) \o ClearingWrites(s)
           sw == SceneWrites(s)
           w == SceneSwitch(s.landing)
           rw == Rename(s)
           e == Through(d, lw)
           f == Through(e, sw)
           g == Land(f, w)
           h == Through(g, rw)
<1>1. /\ lw \in Seq(SlotPart) /\ e \in Devices
      /\ SlotsRight(e, s) /\ SameScenes(d, e) /\ ParamsRight(d, e, types, s)
  BY SlotsLand
<1> HIDE DEF lw, e
<1>2. sw \in Seq(ScenePart) /\ f \in ScenesTo(e, s, SceneCount)
  BY <1>1, ScenesLand
<1> HIDE DEF sw, f
<1>3. f \in Devices /\ SameSlots(e, f) /\ SameParams(e, f)
  BY <1>2 DEF ScenesTo
<1>4. \A x \in Scenes : SceneRight(e, f, s, x)
  <2>1. \A x \in Scenes : x <= SceneCount
    BY ChannelsPositive DEF Scenes
  <2> QED BY <1>2, <2>1 DEF ScenesTo
<1>5. w \in Switches /\ w.value = s.landing
  BY DEF SceneSwitch, Switches, Askable
<1> HIDE DEF w
<1>6. /\ g \in Devices /\ g.active = s.landing /\ g.pointer = f.pointer
      /\ SameSlots(f, g) /\ SameParams(f, g) /\ SameScenes(f, g)
  BY <1>3, <1>5, LandScene
<1>7. <<w>> \in Seq(Writes) /\ Through(f, <<w>>) = g
  <2>1. w \in Writes
    BY <1>5 DEF Writes, ScenePart
  <2> QED BY <2>1, ThroughOne
<1> HIDE DEF g
<1>8. /\ rw \in Seq(Writes)
      /\ h \in Devices /\ h.active = g.active /\ h.pointer = g.pointer /\ h.slots = g.slots
      /\ SameParams(g, h) /\ SameScenes(g, h)
  <2>1. CASE s.name = Unset
    <3>1. rw = <<>> /\ h = g
      BY <2>1, ThroughNone DEF Rename
    <3>2. <<>> \in Seq(Writes)
      OBVIOUS
    <3> QED BY <1>6, <3>1, <3>2 DEF SameParams, SameScenes
  <2>2. CASE s.name # Unset
    <3> DEFINE v == [kind |-> "rename", block |-> Empty, value |-> s.name]
    <3>1. v \in Renames
      BY <2>2 DEF Renames, Askable
    <3>2. rw = <<v>>
      BY <2>2 DEF Rename
    <3> HIDE DEF v, rw
    <3>3. h = Land(g, v)
      BY <3>2, ThroughOne
    <3>4. <<v>> \in Seq(Writes)
      <4>1. v \in Writes
        BY <3>1 DEF Writes
      <4> QED BY <4>1
    <3> HIDE DEF h
    <3> QED BY <1>6, <3>1, <3>2, <3>3, <3>4, LandRename
  <2> QED BY <2>1, <2>2
<1> HIDE DEF rw, h
<1>9. lw \in Seq(Writes) /\ sw \in Seq(Writes)
  <2>1. SlotPart \subseteq Writes /\ ScenePart \subseteq Writes
    BY DEF Writes
  <2>2. \A S, T : S \subseteq T => Seq(S) \subseteq Seq(T)
    BY SeqDef
  <2> HIDE DEF sw, lw
  <2> QED BY <1>1, <1>2, <2>1, <2>2
<1>10. lw \o sw \in Seq(Writes) /\ Through(d, lw \o sw) = f
  BY <1>9, ThroughConcat, ConcatProperties DEF e, f
<1>11. (lw \o sw) \o <<w>> \in Seq(Writes) /\ Through(d, (lw \o sw) \o <<w>>) = g
  BY <1>7, <1>10, ThroughConcat, ConcatProperties
<1>12. /\ ((lw \o sw) \o <<w>>) \o rw \in Seq(Writes)
       /\ Through(d, ((lw \o sw) \o <<w>>) \o rw) = h
  BY <1>8, <1>11, ThroughConcat, ConcatProperties DEF h
<1>13. Prepare(types, s) = ((lw \o sw) \o <<w>>) \o rw
  BY DEF Prepare, lw, sw, w, rw
<1>14. SlotsRight(h, s)
  BY <1>1, <1>3, <1>6, <1>8 DEF SlotsRight, SameSlots
<1>15. \A x \in Scenes : SceneRight(d, h, s, x)
  <2>1. SameScenes(f, h) /\ h.pointer = f.pointer /\ e.sceneName = d.sceneName
    BY <1>1, <1>6, <1>8 DEF SameScenes
  <2> QED BY <1>4, <2>1, SceneRightKept
<1>16. ParamsRight(d, h, types, s)
  <2>1. SameParams(e, h)
    BY <1>3, <1>6, <1>8 DEF SameParams
  <2> QED BY <1>1, <2>1, ParamsRightKept
<1>17. Built(d, h, types, s)
  BY <1>6, <1>8, <1>14, <1>15, <1>16 DEF Built
<1> QED BY <1>12, <1>13, <1>17
----------------------------------------------------------------------------
(* The call.                                                               *)

LEMMA RunOK ==
  ASSUME NEW d \in Devices, NEW ws \in Seq(Writes), NEW n \in 0 .. Len(ws)
  PROVE  Run(d, ws, n) \in Devices
<1> DEFINE m == Len(ws)
           I == [k \in 0 .. m |-> Devices]
<1>1. m \in Nat /\ n \in 0 .. m /\ d \in I[0] /\ I[n] = Devices
  BY LenProperties
<1>2. ASSUME NEW i \in 1 .. m, NEW e \in I[i - 1]
      PROVE  Land(e, ws[i]) \in I[i]
  <2>1. i - 1 \in 0 .. m /\ i \in 0 .. m
    BY <1>1
  <2>2. e \in Devices /\ ws[i] \in Writes
    BY <1>2, <2>1, ElementOfSeq
  <2>3. Land(e, ws[i]) \in Devices
    BY <2>2, LandKeeps
  <2> QED BY <2>1, <2>3
<1> HIDE DEF I, m
<1>3. Run(d, ws, n) \in I[n]
  BY <1>1, <1>2, RunWithin
<1> QED BY <1>1, <1>3

\* The buffer is what the writes sent so far have made of the one the call
\* began with.
BufferIsRun == device = Run(before, prepared, sent)

\* The list is the one its specification and some memory of the types give.
ListIsPrepared ==
  \/ asked = Unset /\ prepared = <<>> /\ skipped = {}
  \/ /\ asked \in Askable
     /\ \E types : prepared = Prepare(types, asked) /\ skipped = Skipped(types, asked)

ApplyInv ==
  /\ before \in Devices
  /\ lastKnownType \in [SlotBlocks -> Types \cup {Unset}]
  /\ prepared \in Seq(Writes)
  /\ sent \in 0 .. Len(prepared)
  /\ BufferIsRun
  /\ ListIsPrepared

LEMMA ApplyInvStarts == ApplyInit => ApplyInv
<1> SUFFICES ASSUME ApplyInit PROVE ApplyInv
  OBVIOUS
<1>1. before \in Devices /\ lastKnownType \in [SlotBlocks -> Types \cup {Unset}]
  BY AM4ApplyPresetConstants DEF ApplyInit
<1>2. prepared = <<>> /\ sent = 0 /\ device = before
  BY DEF ApplyInit
<1>3. prepared \in Seq(Writes) /\ sent \in 0 .. Len(prepared)
  BY <1>2
<1>4. BufferIsRun
  BY <1>2, RunNone DEF BufferIsRun
<1>5. ListIsPrepared
  BY DEF ApplyInit, ListIsPrepared
<1> QED BY <1>1, <1>3, <1>4, <1>5 DEF ApplyInv

LEMMA ApplyInvKept == ApplyInv /\ [ApplyNext]_applyVars => ApplyInv'
<1> SUFFICES ASSUME ApplyInv, [ApplyNext]_applyVars PROVE ApplyInv'
  OBVIOUS
<1>1. CASE ApplyPreset
  <2>1. /\ asked' \in Askable
        /\ prepared' = Prepare(lastKnownType, asked')
        /\ skipped' = Skipped(lastKnownType, asked')
        /\ device' = device /\ lastKnownType' = lastKnownType
        /\ before' = before /\ sent' = sent
    BY <1>1, AM4ApplyPresetConstants DEF ApplyPreset
  <2>2. prepared' \in Seq(Writes)
    BY <2>1, PrepareLands DEF ApplyInv
  <2>3. sent = 0 /\ device = before
    <3>1. asked = Unset
      BY <1>1 DEF ApplyPreset
    <3>2. prepared = <<>>
      BY <3>1, AM4ApplyPresetConstants DEF ApplyInv, ListIsPrepared
    <3>3. sent = 0
      BY <3>2 DEF ApplyInv
    <3> QED BY <3>3, RunNone DEF ApplyInv, BufferIsRun
  <2>4. sent' \in 0 .. Len(prepared')
    <3>1. Len(prepared') \in Nat
      BY <2>2, LenProperties
    <3> QED BY <2>1, <2>3, <3>1
  <2>5. BufferIsRun'
    BY <2>1, <2>3, RunNone DEF BufferIsRun
  <2>6. ListIsPrepared'
    BY <2>1 DEF ListIsPrepared
  <2> QED BY <2>1, <2>2, <2>4, <2>5, <2>6 DEF ApplyInv
<1>2. CASE SendNext
  <2> DEFINE w == prepared[sent + 1]
  <2>1. /\ device' = Land(device, w)
        /\ lastKnownType' = IF w.kind = "type"
                              THEN [lastKnownType EXCEPT ![w.block] = w.value]
                              ELSE lastKnownType
        /\ sent' = sent + 1
        /\ asked' = asked /\ before' = before /\ prepared' = prepared /\ skipped' = skipped
    BY <1>2 DEF SendNext
  <2>2. sent \in Nat /\ sent + 1 \in 1 .. Len(prepared) /\ sent' \in 0 .. Len(prepared')
    BY <1>2, <2>1, LenProperties DEF SendNext, ApplyInv
  <2>3. w \in Writes
    BY <2>2, ElementOfSeq DEF ApplyInv
  <2>4. BufferIsRun'
    <3>1. Run(before, prepared, sent + 1) = Land(Run(before, prepared, (sent + 1) - 1), w)
      BY <2>2, RunNext
    <3>2. (sent + 1) - 1 = sent
      BY <2>2
    <3> QED BY <2>1, <3>1, <3>2 DEF BufferIsRun, ApplyInv
  <2>5. lastKnownType' \in [SlotBlocks -> Types \cup {Unset}]
    <3>1. CASE w.kind = "type"
      <4>1. w \in TypeWrites
        BY <2>3, <3>1 DEF Writes, SlotPart, ScenePart, Places, Moves, TypeWrites, KnobWrites,
             Switches, Bypasses, SceneNames, Renames
      <4>2. w.block \in SlotBlocks /\ w.value \in Types
        BY <4>1 DEF TypeWrites
      <4> HIDE DEF w
      <4> QED BY <2>1, <3>1, <4>2 DEF ApplyInv
    <3>2. CASE w.kind # "type"
      BY <2>1, <3>2 DEF ApplyInv
    <3> QED BY <3>1, <3>2
  <2>6. ListIsPrepared'
    BY <2>1 DEF ApplyInv, ListIsPrepared
  <2> QED BY <2>1, <2>2, <2>4, <2>5, <2>6 DEF ApplyInv
<1>3. CASE UNCHANGED applyVars
  BY <1>3 DEF applyVars, ApplyInv, BufferIsRun, ListIsPrepared
<1> QED BY <1>1, <1>2, <1>3 DEF ApplyNext

\* The buffer is at every moment what the prepared writes sent so far have
\* made of the one the call began with (runApplyPresetWires,
\* applyExecutor.ts).
THEOREM ApplyInvariant == ApplySpec => []ApplyInv
<1> QED BY ApplyInvStarts, ApplyInvKept, PTL DEF ApplySpec

LEMMA SkippedOK ==
  ASSUME ApplyInv
  PROVE  skipped \subseteq Positions \X ChannelNumbers
BY DEF ApplyInv, ListIsPrepared, Skipped

\* The buffer stays a buffer, and what is remembered of the types stays a
\* type per block, through every write (runApplyPresetWires and
\* observeWrittenParam).
THEOREM ApplyTypeCorrect == ApplySpec => []ApplyTypeOK
<1>1. ApplyInv => ApplyTypeOK
  <2> SUFFICES ASSUME ApplyInv PROVE ApplyTypeOK
    OBVIOUS
  <2>1. device \in Devices
    BY RunOK DEF ApplyInv, BufferIsRun
  <2> QED BY <2>1, SkippedOK DEF ApplyTypeOK, ApplyInv
<1> QED BY <1>1, ApplyInvariant, PTL

\* With everything sent the buffer is what the list is built to make of it.
LEMMA DoneIsBuilt ==
  ASSUME ApplyInv, Done
  PROVE  asked \in Askable /\ \E types : /\ Built(before, device, types, asked)
                                         /\ skipped = Skipped(types, asked)
<1>1. asked \in Askable
  BY DEF ApplyInv, ListIsPrepared, Done
<1>2. PICK types : prepared = Prepare(types, asked) /\ skipped = Skipped(types, asked)
  BY DEF ApplyInv, ListIsPrepared, Done
<1>3. device = Through(before, Prepare(types, asked))
  BY <1>2 DEF ApplyInv, BufferIsRun, Through, Done
<1> QED BY <1>1, <1>2, <1>3, PrepareLands DEF ApplyInv

LEMMA PlacedIsSlotOf ==
  ASSUME NEW b
  PROVE  SlotOf(b) # {} <=> b \in Placed(asked)
BY DEF SlotOf, Placed

\* When the list has been sent, slots, landing scene, scene names, bypasses
\* and channels are what a fresh build with this specification has
\* (prepareApplyPresetWrites, applyExecutor.ts).
THEOREM FreshScenes == ApplySpec => []ScenesAreFresh
<1>1. ApplyInv => ScenesAreFresh
  <2> SUFFICES ASSUME ApplyInv, Done
               PROVE  ScenesAreFresh
    BY DEF ScenesAreFresh
  <2>1. PICK types : Built(before, device, types, asked)
    BY DoneIsBuilt
  <2>2. SlotsRight(device, asked) /\ device.active = asked.landing
    BY <2>1 DEF Built
  <2>3. \A x \in Scenes : SceneRight(before, device, asked, x)
    BY <2>1 DEF Built
  <2>4. ASSUME NEW x \in Scenes
        PROVE  device.sceneName[x] =
                 CASE asked.scenes[x] = Unset -> "empty"
                   [] asked.scenes[x] # Unset /\ asked.scenes[x].name = Unset
                        -> before.sceneName[x]
                   [] OTHER -> "asked"
    BY <2>3 DEF SceneRight
  <2>5. ASSUME NEW x \in Scenes, NEW b \in SlotBlocks, SlotOf(b) # {}
        PROVE  /\ b \in device.bypassed[x] <=>
                    asked.scenes[x] # Unset /\ asked.scenes[x].bypass[b] = TRUE
               /\ b \in ChannelBlocks =>
                    LET ch == SceneChannel(asked, x, b)
                    IN  ch # Unset => device.pointer[x][b] = ch
    BY <2>3, <2>5, PlacedIsSlotOf DEF SceneRight, BypassRight
  <2> QED BY <2>2, <2>4, <2>5 DEF ScenesAreFresh, SlotsRight
<1> QED BY <1>1, ApplyInvariant, PTL

----------------------------------------------------------------------------
(* The parameters.                                                         *)

LEMMA OnePlace ==
  ASSUME NEW p \in Positions, asked \in Askable, asked.slots[p] # Unset
  PROVE  SlotOf(asked.slots[p].block) = {p}
<1>1. asked.slots \in SlotLists
  BY DEF Askable
<1>2. \A q \in Positions :
        asked.slots[q] # Unset /\ asked.slots[q].block = asked.slots[p].block => q = p
  BY <1>1 DEF SlotLists
<1> QED BY <1>2 DEF SlotOf

\* What is wanted of channel c is what the slot at position p asks of it.
LEMMA WantedIs ==
  ASSUME NEW p \in Positions, NEW c \in ChannelNumbers, asked \in Askable, before \in Devices,
         asked.slots[p] # Unset
  PROVE  LET slot == asked.slots[p]
             here == OnChannel(before, slot.block)
         IN  Wanted(slot.block, c) =
               IF slot.nested = Unset /\ c # here THEN {}
               ELSE {[p |-> p, from |-> From(slot, c), ask |-> Entry(slot, here, c)]}
<1> DEFINE slot == asked.slots[p]
           here == OnChannel(before, slot.block)
           sources == {e \in ChannelNumbers :
                        \E q \in SlotOf(slot.block) : /\ Meant(asked.slots[q], e) = c
                                                      /\ asked.slots[q].nested = Unset => e = 1}
           ask(q, e) == [p |-> q, from |-> e,
                         ask |-> IF asked.slots[q].nested = Unset
                                   THEN asked.slots[q].flat ELSE asked.slots[q].nested[e]]
<1>1. SlotOf(slot.block) = {p}
  BY OnePlace
<1>2. Wanted(slot.block, c) = {ask(q, e) : q \in SlotOf(slot.block), e \in sources}
  BY DEF Wanted
<1>3. Wanted(slot.block, c) = {ask(p, e) : e \in sources}
  BY <1>1, <1>2
<1>4. sources = {e \in ChannelNumbers : Meant(slot, e) = c /\ (slot.nested = Unset => e = 1)}
  BY <1>1
<1> HIDE DEF sources
<1>5. CASE slot.nested = Unset
  <2>1. \A e \in ChannelNumbers : Meant(slot, e) = here
    BY <1>5 DEF Meant
  <2>2. CASE c # here
    BY <1>3, <1>4, <1>5, <2>1, <2>2
  <2>3. CASE c = here
    <3>1. sources = {1}
      BY <1>4, <1>5, <2>1, <2>3, ChannelsPositive
    <3>2. ask(p, 1) = [p |-> p, from |-> From(slot, c), ask |-> Entry(slot, here, c)]
      BY <1>5, <2>3 DEF From, Entry
    <3> QED BY <1>3, <2>3, <3>1, <3>2
  <2> QED BY <2>2, <2>3
<1>6. CASE slot.nested # Unset
  <2>1. sources = {c}
    BY <1>4, <1>6 DEF Meant
  <2>2. ask(p, c) = [p |-> p, from |-> From(slot, c), ask |-> Entry(slot, here, c)]
    BY <1>6 DEF From, Entry
  <2> QED BY <1>3, <1>6, <2>1, <2>2
<1> QED BY <1>5, <1>6

\* The knobs the report calls dropped are the ones the gate held back.
LEMMA SkippedIs ==
  ASSUME NEW types, NEW s, NEW p \in Positions, NEW c \in ChannelNumbers,
         NEW here \in ChannelNumbers,
         s.slots[p] # Unset, s.slots[p].nested = Unset => c = here,
         Entry(s.slots[p], here, c).knob
  PROVE  <<p, From(s.slots[p], c)>> \in Skipped(types, s)
           <=> ~Applicable(EffectiveType(types, s.slots[p], From(s.slots[p], c)))
<1> DEFINE k == <<p, From(s.slots[p], c)>>
<1>1. k \in Positions \X ChannelNumbers
  BY ChannelsPositive DEF From
<1>2. k[1] = p /\ k[2] = From(s.slots[p], c)
  OBVIOUS
<1>3. Asks(s.slots[p], From(s.slots[p], c))
  BY DEF Asks, From, Entry
<1> HIDE DEF k
<1>4. k \in Skipped(types, s)
        <=> ~Applicable(EffectiveType(types, s.slots[p], From(s.slots[p], c)))
  BY <1>1, <1>2, <1>3 DEF Skipped
<1> QED BY <1>4 DEF k

\* What ParamsLandWhereAsked says of one channel of one block.
ParamLands(b, c) ==
  LET types == {w \in Wanted(b, c) : w.ask.type # Unset}
      knobs == {w \in Wanted(b, c) : w.ask.knob /\ <<w.p, w.from>> \notin skipped}
  IN  /\ device.type[b][c] = IF types = {} THEN before.type[b][c]
                             ELSE (CHOOSE w \in types : TRUE).ask.type
      /\ device.knob[b][c] =
           IF knobs = {} \/ device.type[b][c] \notin Exposing THEN before.knob[b][c]
           ELSE (CHOOSE w \in knobs : TRUE).from

LEMMA OneWanted ==
  ASSUME NEW b \in SlotBlocks, NEW c \in ChannelNumbers, NEW r, Wanted(b, c) = {r},
         device.type[b][c] = IF r.ask.type # Unset THEN r.ask.type ELSE before.type[b][c],
         device.knob[b][c] =
           IF r.ask.knob /\ <<r.p, r.from>> \notin skipped /\ device.type[b][c] \in Exposing
             THEN r.from ELSE before.knob[b][c]
  PROVE  ParamLands(b, c)
<1> DEFINE types == {w \in Wanted(b, c) : w.ask.type # Unset}
           knobs == {w \in Wanted(b, c) : w.ask.knob /\ <<w.p, w.from>> \notin skipped}
<1>1. types = IF r.ask.type # Unset THEN {r} ELSE {}
  OBVIOUS
<1>2. knobs = IF r.ask.knob /\ <<r.p, r.from>> \notin skipped THEN {r} ELSE {}
  OBVIOUS
<1>3. (CHOOSE w \in {r} : TRUE) = r
  OBVIOUS
<1> HIDE DEF types, knobs
<1>4. device.type[b][c] = IF types = {} THEN before.type[b][c]
                          ELSE (CHOOSE w \in types : TRUE).ask.type
  BY <1>1, <1>3
<1>5. device.knob[b][c] =
        IF knobs = {} \/ device.type[b][c] \notin Exposing THEN before.knob[b][c]
        ELSE (CHOOSE w \in knobs : TRUE).from
  BY <1>2, <1>3
<1> QED BY <1>4, <1>5 DEF ParamLands, types, knobs

LEMMA NoneWanted ==
  ASSUME NEW b \in SlotBlocks,
         NEW c \in ChannelNumbers, Wanted(b, c) = {}, SameAt(before, device, b, c)
  PROVE  ParamLands(b, c)
<1>1. {w \in Wanted(b, c) : w.ask.type # Unset} = {}
  OBVIOUS
<1>2. {w \in Wanted(b, c) : w.ask.knob /\ <<w.p, w.from>> \notin skipped} = {}
  OBVIOUS
<1> QED BY <1>1, <1>2 DEF ParamLands, SameAt

\* When the list has been sent, every channel of every block holds what it
\* was asked to take, and every parameter nobody asked for is as it was
\* (prepareApplyPresetWrites, applyExecutor.ts).
THEOREM ParamsLanded == ApplySpec => []ParamsLandWhereAsked
<1>1. ApplyInv => ParamsLandWhereAsked
  <2> SUFFICES ASSUME ApplyInv, Done, NEW b \in SlotBlocks, NEW c \in ChannelNumbers
               PROVE  ParamLands(b, c)
    BY DEF ParamsLandWhereAsked, ParamLands
  <2>1. PICK types : Built(before, device, types, asked) /\ skipped = Skipped(types, asked)
    BY DoneIsBuilt
  <2>2. ParamsRight(before, device, types, asked)
    BY <2>1 DEF Built
  <2>3. asked \in Askable /\ before \in Devices
    BY DoneIsBuilt DEF ApplyInv
  <2>4. CASE b \notin Placed(asked)
    <3>1. SlotOf(b) = {}
      BY <2>4, PlacedIsSlotOf
    <3>2. Wanted(b, c) = {}
      BY <3>1 DEF Wanted
    <3>3. SameAt(before, device, b, c)
      BY <2>2, <2>4 DEF ParamsRight
    <3> QED BY <3>2, <3>3, NoneWanted
  <2>5. CASE b \in Placed(asked)
    <3>1. PICK p \in Positions : asked.slots[p] # Unset /\ asked.slots[p].block = b
      BY <2>5 DEF Placed
    <3> DEFINE slot == asked.slots[p]
               here == OnChannel(before, b)
               r == [p |-> p, from |-> From(slot, c), ask |-> Entry(slot, here, c)]
               passes == Applicable(EffectiveType(types, slot, From(slot, c)))
    <3>2. /\ device.type[b][c] = IF r.ask.type # Unset THEN r.ask.type ELSE before.type[b][c]
          /\ device.knob[b][c] = IF r.ask.knob /\ passes /\ device.type[b][c] \in Exposing
                                   THEN r.from ELSE before.knob[b][c]
      BY <2>2, <3>1 DEF ParamsRight, TookAt
    <3>3. here \in ChannelNumbers
      BY <2>3, OnChannelOK
    <3>4. CASE slot.nested = Unset /\ c # here
      <4>1. Wanted(b, c) = {}
        BY <2>3, <3>1, <3>4, WantedIs
      <4>2. Entry(slot, here, c) = NoParams
        BY <3>4 DEF Entry
      <4>3. SameAt(before, device, b, c)
        BY <3>2, <4>2 DEF NoParams, SameAt
      <4> QED BY <4>1, <4>3, NoneWanted
    <3>5. CASE ~(slot.nested = Unset /\ c # here)
      <4>1. Wanted(b, c) = {r}
        BY <2>3, <3>1, <3>5, WantedIs
      <4>2. r.p = p /\ r.from = From(slot, c) /\ r.ask = Entry(slot, here, c)
        OBVIOUS
      <4>3. r.ask.knob => (passes <=> <<r.p, r.from>> \notin skipped)
        <5>1. Entry(slot, here, c).knob =>
                (<<p, From(slot, c)>> \in Skipped(types, asked) <=> ~passes)
          BY <3>1, <3>3, <3>5, SkippedIs
        <5> QED BY <2>1, <4>2, <5>1
      <4> HIDE DEF r, passes
      <4>4. device.knob[b][c] =
              IF r.ask.knob /\ <<r.p, r.from>> \notin skipped /\ device.type[b][c] \in Exposing
                THEN r.from ELSE before.knob[b][c]
        BY <3>2, <4>3
      <4> QED BY <3>2, <4>1, <4>4, OneWanted
    <3> QED BY <3>4, <3>5
  <2> QED BY <2>4, <2>5
<1> QED BY <1>1, ApplyInvariant, PTL

=============================================================================
