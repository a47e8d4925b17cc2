------------------------- MODULE Hydrasynth_proofs -------------------------
(***************************************************************************)
(* What TLAPS proves of the Hydrasynth's two modules.                      *)
(*                                                                         *)
(* Of HydrasynthPatch: its type invariant for any number of calls in       *)
(* flight and any number of chunks, slots and recipes; and, for one call   *)
(* at a time, that the flash only ever holds whole patches and is left     *)
(* alone while it is written, and that a patch reported as applied is the  *)
(* one the device plays.                                                   *)
(*                                                                         *)
(* Of HydrasynthValues: that a value of a regular kind reaches the device  *)
(* unchanged, as an NRPN and in a patch; the lemmas say it of any          *)
(* parameter of the kind's shape, whatever its range or size.              *)
(***************************************************************************)
EXTENDS HydrasynthPatch, HydrasynthValues, TLAPS

-----------------------------------------------------------------------------
(* Whole patches: HydrasynthPatch.                                          *)

\* What a call would save, it has leave to save.
Leave == \A c \in Calls : call[c].save => call[c].recipe \in authorized

TypeInv == TypeOK /\ Leave

DeviceOK ==
  /\ active \in Slots /\ sound \in Patches
  /\ ram \in [Slots -> Patches] /\ flash \in [Slots -> Patches]
  /\ rx \in [slot : Slots \cup {None}, patch : Patches, lost : BOOLEAN]
  /\ busy \in BOOLEAN

\* What TypeOK asks of a call's record.
Fit(r) ==
  /\ r \in CallRec
  /\ r.pc # "idle" => r.slot \in Slots
  /\ r.pc = "chunk" => r.i < ChunkCount
  /\ r.pc = "request" => r.save

LEMMA WholeOK ==
  /\ \A r \in Sources : Whole(r) \in Patches
  /\ Nothing \in Patches
  BY DEF Whole, Patches, Nothing, Sources

LEMMA IdleOK == Fit(Idle) /\ Idle.pc = "idle" /\ ~Idle.save
  BY HydrasynthConstants DEF Fit, Idle, CallRec, Points, Sources, Dances

LEMMA InitType == Init => TypeInv
<1> SUFFICES ASSUME Init PROVE TypeInv
  OBVIOUS
<1>1. Whole(Factory) \in Patches /\ Nothing \in Patches
  BY WholeOK DEF Sources
<1>2. call \in [Calls -> CallRec] /\ \A c \in Calls : Fit(call[c]) /\ call[c].pc = "idle"
                                                     /\ ~call[c].save
  BY IdleOK DEF Init, Fit
<1>3. ram \in [Slots -> Patches] /\ flash \in [Slots -> Patches]
      /\ rx \in [slot : Slots \cup {None}, patch : Patches, lost : BOOLEAN]
  BY <1>1 DEF Init, NoDump
<1> QED BY <1>1, <1>2, <1>3 DEF Init, TypeInv, TypeOK, Leave, Fit

----------------------------------------------------------------------------
(* The device keeps its types.                                             *)

LEMMA GotoOK ==
  ASSUME DeviceOK, NEW s \in Slots, Goto(s)
  PROVE  DeviceOK'
  BY DEF DeviceOK, Goto

LEMMA NoDumpOK == NoDump \in [slot : Slots \cup {None}, patch : Patches, lost : BOOLEAN]
  BY WholeOK DEF NoDump

LEMMA HeaderOK ==
  ASSUME DeviceOK, Header
  PROVE  DeviceOK'
  BY NoDumpOK DEF DeviceOK, Header

LEMMA ChunkOK ==
  ASSUME DeviceOK, NEW i \in Chunks, NEW from \in Sources, NEW s \in Slots, Chunk(i, from, s)
  PROVE  DeviceOK'
<1>1. rx.patch \in Patches
  BY DEF DeviceOK
<1>2. [rx.patch EXCEPT ![i] = from] \in Patches
  BY <1>1 DEF Patches
<1>3. rx' \in [slot : Slots \cup {None}, patch : Patches, lost : BOOLEAN]
  BY <1>2 DEF DeviceOK, Chunk
<1> QED BY <1>3 DEF DeviceOK, Chunk

LEMMA DroppedOK ==
  ASSUME DeviceOK, Dropped
  PROVE  DeviceOK'
<1>1. rx' \in [slot : Slots \cup {None}, patch : Patches, lost : BOOLEAN]
  BY DEF DeviceOK, Dropped
<1> QED BY <1>1 DEF DeviceOK, Dropped

LEMMA WriteRequestOK ==
  ASSUME DeviceOK, WriteRequest
  PROVE  DeviceOK'
  BY DEF DeviceOK, WriteRequest

LEMMA FooterOK ==
  ASSUME DeviceOK, Footer
  PROVE  DeviceOK'
<1>1. rx.patch \in Patches
  BY DEF DeviceOK
<1>2. ram' \in [Slots -> Patches]
  BY <1>1 DEF DeviceOK, Footer
<1>3. rx' \in [slot : Slots \cup {None}, patch : Patches, lost : BOOLEAN]
  BY NoDumpOK DEF Footer
<1> QED BY <1>2, <1>3 DEF DeviceOK, Footer

LEMMA IgnoredOK ==
  ASSUME DeviceOK, Ignored
  PROVE  DeviceOK'
  BY DEF DeviceOK, Ignored

LEMMA DisturbsOK ==
  ASSUME DeviceOK, Disturbs
  PROVE  DeviceOK'
<1>1. rx' \in [slot : Slots \cup {None}, patch : Patches, lost : BOOLEAN]
  <2>1. ASSUME NEW k \in Chunks PROVE [rx.patch EXCEPT ![k] = NoChunk] \in Patches
    BY DEF DeviceOK, Patches, Sources
  <2> QED BY <2>1 DEF DeviceOK, Disturbs
<1> QED BY <1>1 DEF DeviceOK, Disturbs

----------------------------------------------------------------------------
(* Sends and their outcomes, for any number of calls.                      *)

\* What a send makes of the caller's record: the next one, heard or not, or,
\* after a throw, none.
Outcome(c, next) ==
  \/ call' = [call EXCEPT ![c] = next]
  \/ \E h \in BOOLEAN : call' = [call EXCEPT ![c] = [next EXCEPT !.heard = h]]
  \/ call' = [call EXCEPT ![c] = Idle]

LEMMA OutcomeType ==
  ASSUME TypeInv, NEW c \in Calls, NEW next, Fit(next),
         next.save => next.recipe \in authorized,
         Outcome(c, next), DeviceOK', turn' \in {c, None}, disturbed' \in BOOLEAN,
         UNCHANGED <<handle, hasInput, plugged, listening, pgmRx, spoilt, authorized>>
  PROVE  TypeInv'
<1>1. PICK r : /\ call' = [call EXCEPT ![c] = r]
               /\ Fit(r) /\ (r.save => r.recipe \in authorized)
  <2>1. ASSUME NEW h \in BOOLEAN
        PROVE  /\ Fit([next EXCEPT !.heard = h])
               /\ [next EXCEPT !.heard = h].save => [next EXCEPT !.heard = h].recipe \in authorized
    BY DEF Fit, CallRec
  <2> QED BY <2>1, IdleOK DEF Outcome
<1>2. call' \in [Calls -> CallRec]
  BY <1>1 DEF TypeInv, TypeOK, Fit
<1>3. ASSUME NEW d \in Calls
      PROVE  /\ Fit(call'[d])
             /\ call'[d].save => call'[d].recipe \in authorized'
  BY <1>1 DEF TypeInv, TypeOK, Leave, Fit
<1> QED BY <1>2, <1>3 DEF TypeInv, TypeOK, Leave, Fit, DeviceOK

LEMMA TypeDevice == TypeInv => DeviceOK
  BY DEF TypeInv, TypeOK, DeviceOK

\* A send of any message that leaves the device its types.
LEMMA SendsType ==
  ASSUME TypeInv, NEW c \in Calls, NEW next, Fit(next),
         next.save => next.recipe \in authorized,
         NEW taken, NEW waits, NEW ACTION effect, Sends(c, taken, effect, next, waits),
         effect => DeviceOK'
  PROVE  TypeInv'
<1>1. DeviceOK /\ call[c].input \in BOOLEAN /\ disturbed \in BOOLEAN /\ next.heard \in BOOLEAN
  BY TypeDevice DEF TypeInv, TypeOK, CallRec, Fit
<1>2. /\ turn' \in {c, None}
      /\ UNCHANGED <<handle, hasInput, plugged, listening, pgmRx, authorized>>
  BY DEF Sends, Delivers, Throws
<1>3. CASE Throws(c, next)
  BY <1>1, <1>2, <1>3, IgnoredOK, OutcomeType DEF Throws, Outcome, damage
<1>4. CASE Delivers(c, taken, effect, next, waits)
  <2>1. CASE effect /\ UNCHANGED damage /\ \E answered \in {FALSE, call[c].input} :
                call' = [call EXCEPT ![c] = [next EXCEPT !.heard = @ \/ answered]]
    <3>1. PICK answered \in {FALSE, call[c].input} :
            call' = [call EXCEPT ![c] = [next EXCEPT !.heard = next.heard \/ answered]]
      BY <2>1
    <3>2. next.heard \/ answered \in BOOLEAN
      BY <1>1, Zenon
    <3>3. Outcome(c, next)
      BY <1>1, <3>1 DEF Outcome
    <3> QED BY <1>1, <1>2, <2>1, <3>3, OutcomeType DEF damage
  <2>2. CASE Ignored /\ UNCHANGED damage /\ call' = [call EXCEPT ![c] = next]
    BY <1>1, <1>2, <2>2, IgnoredOK, OutcomeType DEF Outcome, damage
  <2>3. CASE Disturbs /\ call' = [call EXCEPT ![c] = next]
    <3>1. DeviceOK' /\ disturbed' \in BOOLEAN /\ UNCHANGED spoilt
      BY <1>1, <2>3, DisturbsOK DEF Disturbs
    <3> QED BY <1>2, <2>3, <3>1, OutcomeType DEF Outcome
  <2> QED BY <1>4, <2>1, <2>2, <2>3 DEF Delivers
<1> QED BY <1>3, <1>4 DEF Sends

\* A call at one of its points is fit for what comes next.
LEMMA GoesToOK ==
  ASSUME TypeInv, NEW c \in Calls, call[c].pc # "idle",
         NEW pc \in Points \ {"chunk", "request"}
  PROVE  /\ Fit(GoesTo(c, pc))
         /\ GoesTo(c, pc).save => GoesTo(c, pc).recipe \in authorized
  BY DEF TypeInv, TypeOK, Leave, Fit, GoesTo, CallRec

LEMMA HeaderNextOK ==
  ASSUME TypeInv, NEW c \in Calls, call[c].pc = "header"
  PROVE  LET next == [call[c] EXCEPT !.pc = "chunk", !.i = 0]
         IN  Fit(next) /\ (next.save => next.recipe \in authorized)
<1> DEFINE next == [call[c] EXCEPT !.pc = "chunk", !.i = 0]
<1>1. call[c] \in CallRec /\ call[c].slot \in Slots
      /\ (call[c].save => call[c].recipe \in authorized)
  BY DEF TypeInv, TypeOK, Leave
<1>2. 0 \in 0 .. ChunkCount /\ 0 < ChunkCount
  BY HydrasynthConstants
<1>3. next \in CallRec
  BY <1>1, <1>2 DEF CallRec, Points
<1>4. next.pc = "chunk" /\ next.i = 0 /\ next.slot = call[c].slot
      /\ next.save = call[c].save /\ next.recipe = call[c].recipe
  BY <1>1 DEF CallRec
<1> HIDE DEF next
<1>5. Fit(next) /\ (next.save => next.recipe \in authorized)
  BY <1>1, <1>2, <1>3, <1>4 DEF Fit
<1> QED BY <1>5 DEF next

\* After the last chunk comes the write request of a save, or the footer.
LEMMA ChunkSentOK ==
  ASSUME TypeInv, NEW c \in Calls, call[c].pc = "chunk"
  PROVE  LET r == ChunkSent(call[c]) IN
         /\ r \in CallRec /\ Fit(r) /\ (r.save => r.recipe \in authorized)
         /\ r.pc \in {"chunk", "request", "footer"}
         /\ r.pc # "chunk" => call[c].i + 1 = ChunkCount
         /\ r.i = call[c].i + 1 /\ r.recipe = call[c].recipe /\ r.slot = call[c].slot
         /\ r.dance = call[c].dance /\ r.live = call[c].live /\ r.calm = call[c].calm
         /\ r.heard = call[c].heard /\ r.reply = call[c].reply
<1> DEFINE i == call[c].i
           pc == IF Last(call[c]) THEN AfterChunks(call[c]) ELSE "chunk"
           r == [call[c] EXCEPT !.i = i + 1, !.pc = pc]
<1>1. call[c] \in CallRec /\ call[c].slot \in Slots /\ i < ChunkCount /\ i \in 0 .. ChunkCount
      /\ (call[c].save => call[c].recipe \in authorized)
  BY DEF TypeInv, TypeOK, Leave, CallRec
<1>2. i + 1 \in 0 .. ChunkCount /\ (i # ChunkCount - 1 => i + 1 < ChunkCount)
      /\ (i = ChunkCount - 1 => i + 1 = ChunkCount)
  BY <1>1, HydrasynthConstants
<1>3. pc \in {"chunk", "request", "footer"} /\ (pc = "request" => call[c].save)
      /\ (pc = "chunk" => i + 1 < ChunkCount) /\ (pc # "chunk" => i + 1 = ChunkCount)
  BY <1>2 DEF AfterChunks, Last
<1> HIDE DEF i, pc
<1>4. r \in CallRec
  BY <1>1, <1>2, <1>3 DEF CallRec, Points
<1>5. /\ r.pc = pc /\ r.i = i + 1 /\ r.slot = call[c].slot /\ r.save = call[c].save
      /\ r.recipe = call[c].recipe /\ r.dance = call[c].dance /\ r.live = call[c].live
      /\ r.calm = call[c].calm /\ r.heard = call[c].heard /\ r.reply = call[c].reply
  BY <1>1 DEF CallRec
<1>6. ChunkSent(call[c]) = r
  BY DEF ChunkSent, i, pc
<1> HIDE DEF r
<1>7. Fit(r) /\ (r.save => r.recipe \in authorized)
  BY <1>1, <1>3, <1>4, <1>5 DEF Fit
<1> QED BY <1>3, <1>4, <1>5, <1>6, <1>7 DEF i

\* The same of a chunk the device drops.
LEMMA ChunkDroppedOK ==
  ASSUME TypeInv, NEW c \in Calls, call[c].pc = "chunk"
  PROVE  LET r == ChunkSent(call[c])
             d == [r EXCEPT !.calm = FALSE] IN
         /\ d \in CallRec /\ Fit(d) /\ (d.save => d.recipe \in authorized)
         /\ d.pc = r.pc /\ d.i = r.i /\ d.recipe = r.recipe /\ d.live = r.live
         /\ ~d.calm /\ d.heard = r.heard /\ d.reply = r.reply
<1> DEFINE r == ChunkSent(call[c])
<1>1. r \in CallRec /\ Fit(r) /\ (r.save => r.recipe \in authorized)
  BY ChunkSentOK
<1> HIDE DEF r
<1>2. LET d == [r EXCEPT !.calm = FALSE] IN
      /\ d \in CallRec /\ Fit(d) /\ (d.save => d.recipe \in authorized)
      /\ d.pc = r.pc /\ d.i = r.i /\ d.recipe = r.recipe /\ d.live = r.live
      /\ ~d.calm /\ d.heard = r.heard /\ d.reply = r.reply
  BY <1>1 DEF CallRec, Fit
<1> QED BY <1>2 DEF r

LEMMA SendType ==
  ASSUME TypeInv, NEW c \in Calls,
         \/ BounceIn(c) \/ SettleIn(c) \/ SendHeader(c) \/ SendChunk(c)
         \/ SendWriteRequest(c) \/ SendFooter(c) \/ BounceOut(c) \/ SettleOut(c)
         \/ Navigate(c)
  PROVE  TypeInv'
<1>0. DeviceOK /\ Bounce \in Slots /\ (call[c].pc # "idle" => call[c].slot \in Slots)
  BY TypeDevice, HydrasynthConstants DEF TypeInv, TypeOK
<1>g. ASSUME NEW s \in Slots, NEW pc \in Points \ {"chunk", "request"},
             call[c].pc # "idle", SendsGoto(c, s, GoesTo(c, pc))
      PROVE  TypeInv'
  <2>1. Sends(c, listening /\ pgmRx, Goto(s), GoesTo(c, pc), TRUE)
    BY <1>g DEF SendsGoto
  <2>2. Goto(s) => DeviceOK'
    BY <1>0, <1>g, GotoOK
  <2>3. Fit(GoesTo(c, pc)) /\ (GoesTo(c, pc).save => GoesTo(c, pc).recipe \in authorized)
    BY <1>g, GoesToOK
  <2> QED BY <2>1, <2>2, <2>3, SendsType
<1>1. CASE BounceIn(c)
  BY <1>0, <1>1, <1>g DEF BounceIn, At, Points
<1>2. CASE SettleIn(c)
  BY <1>0, <1>2, <1>g DEF SettleIn, At, Points
<1>3. CASE SendHeader(c)
  <2> DEFINE next == [call[c] EXCEPT !.pc = "chunk", !.i = 0]
  <2>1. Sends(c, listening, Header, next, FALSE)
    BY <1>3 DEF SendHeader, SendsDump
  <2>2. Header => DeviceOK'
    BY <1>0, HeaderOK
  <2>3. Fit(next) /\ (next.save => next.recipe \in authorized)
    BY <1>3, HeaderNextOK DEF SendHeader, At
  <2> HIDE DEF next
  <2> QED BY <2>1, <2>2, <2>3, SendsType
<1>4. CASE SendChunk(c)
  <2> DEFINE i == call[c].i
             next == ChunkSent(call[c])
             less == [ChunkSent(call[c]) EXCEPT !.calm = FALSE]
  <2>0. i \in Chunks /\ call[c].recipe \in Sources /\ call[c].slot \in Slots
        /\ call[c].pc = "chunk"
    BY <1>0, <1>4, HydrasynthConstants
    DEF SendChunk, At, TypeInv, TypeOK, CallRec, Chunks
  <2>1. \/ Sends(c, listening, Chunk(i, call[c].recipe, call[c].slot), next, ~Last(call[c]))
        \/ Sends(c, listening, Dropped, less, ~Last(call[c]))
    BY <1>4 DEF SendChunk, SendsDump
  <2>2. Chunk(i, call[c].recipe, call[c].slot) => DeviceOK'
    BY <1>0, <2>0, ChunkOK
  <2>3. Dropped => DeviceOK'
    BY <1>0, DroppedOK
  <2>4. Fit(next) /\ (next.save => next.recipe \in authorized)
    BY <2>0, ChunkSentOK
  <2>5. Fit(less) /\ (less.save => less.recipe \in authorized)
    BY <2>0, ChunkDroppedOK
  <2> HIDE DEF next, less, i
  <2> QED BY <2>1, <2>2, <2>3, <2>4, <2>5, SendsType
<1>5. CASE SendWriteRequest(c)
  <2>1. Sends(c, listening, WriteRequest, GoesTo(c, "footer"), TRUE)
    BY <1>5 DEF SendWriteRequest, SendsDump
  <2>2. WriteRequest => DeviceOK'
    BY <1>0, WriteRequestOK
  <2>3. Fit(GoesTo(c, "footer"))
        /\ (GoesTo(c, "footer").save => GoesTo(c, "footer").recipe \in authorized)
    BY <1>5, GoesToOK DEF SendWriteRequest, At, Points
  <2> QED BY <2>1, <2>2, <2>3, SendsType
<1>6. CASE SendFooter(c)
  <2> DEFINE pc == AfterFooter(call[c])
  <2>0. pc \in Points \ {"chunk", "request"}
    BY DEF AfterFooter, Points
  <2>1. Sends(c, listening, Footer, GoesTo(c, pc), call[c].dance = "none")
    BY <1>6 DEF SendFooter, SendsDump
  <2> HIDE DEF pc
  <2>2. Footer => DeviceOK'
    BY <1>0, FooterOK
  <2>3. Fit(GoesTo(c, pc)) /\ (GoesTo(c, pc).save => GoesTo(c, pc).recipe \in authorized)
    BY <1>6, <2>0, GoesToOK DEF SendFooter, At
  <2> QED BY <2>1, <2>2, <2>3, SendsType
<1>7. CASE BounceOut(c)
  BY <1>0, <1>7, <1>g DEF BounceOut, At, Points
<1>8. CASE SettleOut(c)
  BY <1>0, <1>8, <1>g DEF SettleOut, At, Points
<1>9. CASE Navigate(c)
  <2>1. Sends(c, listening /\ pgmRx, Goto(call[c].slot), Idle, TRUE)
    BY <1>9 DEF Navigate, SendsGoto
  <2>2. Goto(call[c].slot) => DeviceOK'
    BY <1>0, <1>9, GotoOK DEF Navigate, At
  <2>3. Fit(Idle) /\ ~Idle.save
    BY IdleOK
  <2> QED BY <2>1, <2>2, <2>3, SendsType
<1> QED BY <1>1, <1>2, <1>3, <1>4, <1>5, <1>6, <1>7, <1>8, <1>9

\* A call begins, and the others know.
LEMMA StartType ==
  ASSUME TypeInv, NEW c \in Calls, NEW r, Fit(r),
         NEW leave \in SUBSET Recipes,
         r.save => r.recipe \in authorized \cup leave,
         authorized' = authorized \cup leave,
         EnsureMidi, call' = Others(c, r), turn' = c, UNCHANGED <<device, damage>>
  PROVE  TypeInv'
<1>1. ASSUME NEW d \in Calls
      PROVE  /\ Fit(call'[d])
             /\ call'[d].save => call'[d].recipe \in authorized'
  <2>1. CASE d = c
    BY <2>1 DEF Others
  <2>2. CASE d # c
    <3>1. call'[d] = [call[d] EXCEPT !.calm = FALSE]
      BY <2>2 DEF Others
    <3>2. call[d] \in CallRec /\ Fit(call[d]) /\ (call[d].save => call[d].recipe \in authorized)
      BY DEF TypeInv, TypeOK, Leave, Fit
    <3>3. call'[d] \in CallRec
      BY <3>1, <3>2 DEF CallRec
    <3>4. /\ call'[d].pc = call[d].pc /\ call'[d].slot = call[d].slot
          /\ call'[d].i = call[d].i /\ call'[d].save = call[d].save
          /\ call'[d].recipe = call[d].recipe
      BY <3>1, <3>2 DEF CallRec
    <3> QED BY <3>2, <3>3, <3>4 DEF Fit
  <2> QED BY <2>1, <2>2
<1>2. call' = [d \in Calls |-> call'[d]]
  BY DEF Others
<1>3. call' \in [Calls -> CallRec]
  BY <1>1, <1>2 DEF Fit
<1>4. handle' \in {"none", "open", "dead", "failed"} /\ hasInput' \in BOOLEAN
  BY DEF EnsureMidi, TypeInv, TypeOK
<1>5. UNCHANGED <<plugged, listening, pgmRx, active, sound, ram, flash, rx, busy,
                  disturbed, spoilt>>
  BY DEF device, damage
<1>6. authorized' \subseteq Recipes
  BY DEF TypeInv, TypeOK
<1> QED BY <1>1, <1>3, <1>4, <1>5, <1>6 DEF TypeInv, TypeOK, Leave, Fit

\* The record a dump begins with.
Starting(recipe, slot, dance, save, ears, still, calm) ==
  [Idle EXCEPT !.pc = IF dance = "both" THEN "bounceIn" ELSE "header",
               !.recipe = recipe, !.slot = slot, !.dance = dance,
               !.save = save, !.input = ears, !.live = still, !.calm = calm]

LEMMA StartingOK ==
  ASSUME NEW recipe \in Sources, NEW slot \in Slots, NEW dance \in Dances,
         NEW save \in BOOLEAN, NEW ears \in BOOLEAN, NEW still \in BOOLEAN,
         NEW calm \in BOOLEAN
  PROVE  LET r == Starting(recipe, slot, dance, save, ears, still, calm)
         IN  Fit(r) /\ r.save = save /\ r.recipe = recipe
<1> DEFINE r == Starting(recipe, slot, dance, save, ears, still, calm)
<1>0. /\ None \in Slots \cup {None} /\ 0 \in 0 .. ChunkCount
      /\ (IF dance = "both" THEN "bounceIn" ELSE "header") \in Points
  BY HydrasynthConstants DEF Points
<1>1. r \in CallRec
  BY <1>0 DEF Starting, Idle, CallRec
<1>2. /\ r.pc \in {"bounceIn", "header"} /\ r.slot = slot
      /\ r.save = save /\ r.recipe = recipe
  BY DEF Starting, Idle
<1> HIDE DEF r
<1>3. Fit(r)
  BY <1>1, <1>2 DEF Fit
<1> QED BY <1>2, <1>3 DEF r

LEMMA BeginType ==
  ASSUME TypeInv, NEW c \in Calls, NEW recipe \in Sources, NEW slot \in Slots,
         NEW dance \in Dances, NEW save \in BOOLEAN, NEW leave \in SUBSET Recipes,
         save => recipe \in authorized \cup leave,
         authorized' = authorized \cup leave,
         Begin(c, recipe, slot, dance, save)
  PROVE  TypeInv'
<1> DEFINE r == Starting(recipe, slot, dance, save, hasInput', HandleLive, Alone(c))
<1>1. hasInput' \in BOOLEAN
  BY DEF Begin, EnsureMidi, TypeInv, TypeOK
<1>2. HandleLive \in BOOLEAN /\ Alone(c) \in BOOLEAN
  BY DEF HandleLive, Alone
<1>3. Fit(r) /\ r.save = save /\ r.recipe = recipe
  BY <1>1, <1>2, StartingOK
<1>4. call' = Others(c, r)
  BY DEF Begin, Starting
<1>5. EnsureMidi /\ turn' = c /\ UNCHANGED <<device, damage>>
  BY DEF Begin
<1> HIDE DEF r
<1> QED BY <1>3, <1>4, <1>5, StartType

LEMMA StepType ==
  ASSUME TypeInv, NEW c \in Calls, Step(c)
  PROVE  TypeInv'
<1> USE HydrasynthConstants
<1>1. CASE ApplyPatch(c)
  <2>1. PICK recipe \in Recipes, slot \in Targets \cup {Scratch}, dance \in Dances,
             save \in BOOLEAN, leave \in BOOLEAN :
          /\ Permitted(save, leave)
          /\ Begin(c, recipe, slot, dance, save)
          /\ authorized' = IF leave THEN authorized \cup {recipe} ELSE authorized
    BY <1>1 DEF ApplyPatch
  <2> DEFINE given == IF leave THEN {recipe} ELSE {}
  <2>2. given \in SUBSET Recipes /\ authorized' = authorized \cup given
        /\ (save => recipe \in authorized \cup given)
    BY <2>1 DEF Permitted
  <2>3. recipe \in Sources /\ slot \in Slots
    BY DEF Sources
  <2> HIDE DEF given
  <2> QED BY <2>1, <2>2, <2>3, BeginType
<1>2. CASE ApplyInit(c)
  <2>1. PICK slot \in Slots, dance \in Dances : Begin(c, Init0, slot, dance, FALSE)
    BY <1>2 DEF ApplyInit, Dances
  <2>2. authorized' = authorized \cup {} /\ Init0 \in Sources
    BY <1>2 DEF ApplyInit, Sources
  <2> QED BY <2>1, <2>2, BeginType
<1>3. CASE NavigateTo(c)
  <2>1. PICK slot \in Targets :
          call' = Others(c, [Idle EXCEPT !.pc = "goto", !.slot = slot, !.live = HandleLive])
    BY <1>3 DEF NavigateTo
  <2> DEFINE r == [Idle EXCEPT !.pc = "goto", !.slot = slot, !.live = HandleLive]
  <2>2. slot \in Slots /\ HandleLive \in BOOLEAN
    BY DEF HandleLive
  <2>3. Fit(r) /\ ~r.save
    BY <2>2, IdleOK DEF Fit, CallRec, Points
  <2>4. EnsureMidi /\ turn' = c /\ UNCHANGED <<device, damage>>
        /\ authorized' = authorized \cup {}
    BY <1>3 DEF NavigateTo
  <2> HIDE DEF r
  <2>5. call' = Others(c, r)
    BY <2>1 DEF r
  <2> QED BY <2>3, <2>4, <2>5, StartType
<1>4. CASE Reply(c)
  <2>1. PICK reply \in {"sent", "applied", "captured"} :
          call' = [call EXCEPT ![c] = [call[c] EXCEPT !.pc = "idle", !.i = 0, !.heard = FALSE,
                                         !.live = FALSE, !.save = FALSE, !.reply = reply]]
    BY <1>4 DEF Reply, Verdict
  <2> DEFINE r == [call[c] EXCEPT !.pc = "idle", !.i = 0, !.heard = FALSE,
                                  !.live = FALSE, !.save = FALSE, !.reply = reply]
  <2>2. call[c] \in CallRec /\ 0 \in 0 .. ChunkCount
    BY DEF TypeInv, TypeOK
  <2>3. Fit(r) /\ ~r.save
    BY <2>2 DEF Fit, CallRec, Points
  <2> HIDE DEF r
  <2>4. Outcome(c, r)
    BY <2>1 DEF r, Outcome
  <2>5. turn' \in {c, None} /\ DeviceOK' /\ disturbed' \in BOOLEAN
        /\ UNCHANGED <<handle, hasInput, plugged, listening, pgmRx, spoilt, authorized>>
    BY <1>4 DEF Reply, TypeInv, TypeOK, DeviceOK, device, damage
  <2> QED BY <2>3, <2>4, <2>5, OutcomeType
<1>5. CASE \/ BounceIn(c) \/ SettleIn(c) \/ SendHeader(c) \/ SendChunk(c)
           \/ SendWriteRequest(c) \/ SendFooter(c) \/ BounceOut(c) \/ SettleOut(c)
           \/ Navigate(c)
  BY <1>5, SendType
<1> QED BY <1>1, <1>2, <1>3, <1>4, <1>5 DEF Step

\* The calls are told of something; their points stay.
LEMMA ShakenOK ==
  ASSUME TypeInv, NEW r \in [Calls -> CallRec],
         \A c \in Calls : /\ r[c].pc = call[c].pc /\ r[c].slot = call[c].slot
                          /\ r[c].i = call[c].i /\ r[c].save = call[c].save
                          /\ r[c].recipe = call[c].recipe
  PROVE  \A c \in Calls :
           /\ r[c].pc # "idle" => r[c].slot \in Slots
           /\ r[c].pc = "chunk" => r[c].i < ChunkCount
           /\ r[c].pc = "request" => r[c].save /\ r[c].recipe \in authorized
           /\ r[c].save => r[c].recipe \in authorized
  BY DEF TypeInv, TypeOK, Leave

LEMMA TouchedOK ==
  ASSUME NEW r \in CallRec, NEW b \in BOOLEAN
  PROVE  /\ [r EXCEPT !.calm = FALSE, !.live = b] \in CallRec
         /\ [r EXCEPT !.calm = FALSE, !.heard = b] \in CallRec
  BY DEF CallRec

LEMMA ShakenType ==
  ASSUME TypeInv, NEW still \in BOOLEAN
  PROVE  /\ Shaken(still) \in [Calls -> CallRec]
         /\ \A c \in Calls :
              LET r == Shaken(still) IN
              /\ r[c].pc = call[c].pc /\ r[c].slot = call[c].slot
              /\ r[c].i = call[c].i /\ r[c].save = call[c].save
              /\ r[c].recipe = call[c].recipe
<1>1. ASSUME NEW c \in Calls
      PROVE  [call[c] EXCEPT !.calm = FALSE, !.live = call[c].live /\ still] \in CallRec
  <2> DEFINE l == call[c].live /\ still
  <2>1. l \in BOOLEAN
    BY Zenon
  <2>2. call[c] \in CallRec
    BY DEF TypeInv, TypeOK
  <2> HIDE DEF l
  <2>3. [call[c] EXCEPT !.calm = FALSE, !.live = l] \in CallRec
    BY <2>1, <2>2, TouchedOK, Zenon
  <2> QED BY <2>3, Zenon DEF l
<1> QED BY <1>1 DEF Shaken, TypeInv, TypeOK, CallRec

\* A torn slot mixes chunks of the right kind, and is spoilt.
LEMMA TornType ==
  ASSUME DeviceOK, spoilt \subseteq Slots, Torn
  PROVE  /\ flash' \in [Slots -> Patches] /\ spoilt' \subseteq Slots
         /\ \A s \in Slots \ spoilt' : s \notin spoilt /\ flash'[s] = flash[s]
<1>0. flash \in [Slots -> Patches] /\ rx.patch \in Patches /\ rx.slot \in Slots \cup {None}
  BY DEF DeviceOK
<1>1. CASE UNCHANGED <<flash, spoilt>>
  BY <1>0, <1>1
<1>2. CASE busy /\ rx.slot # None
  <2>1. PICK written \in SUBSET Chunks :
          flash' = [flash EXCEPT ![rx.slot] =
                      [k \in Chunks |-> IF k \in written THEN rx.patch[k] ELSE flash[rx.slot][k]]]
    BY <1>2 DEF Torn
  <2>2. spoilt' = spoilt \cup {rx.slot} /\ rx.slot \in Slots
    BY <1>0, <1>2 DEF Torn
  <2> DEFINE mix == [k \in Chunks |-> IF k \in written THEN rx.patch[k] ELSE flash[rx.slot][k]]
  <2>3. mix \in Patches
    BY <1>0, <2>2 DEF Patches
  <2> HIDE DEF mix
  <2>4. flash' = [flash EXCEPT ![rx.slot] = mix]
    BY <2>1 DEF mix
  <2> QED BY <1>0, <2>2, <2>3, <2>4
<1> QED BY <1>1, <1>2 DEF Torn

LEMMA OtherType ==
  ASSUME TypeInv,
         \/ CannotOpen \/ ReconnectMidi
         \/ FlashWritten \/ PanelUsed \/ PanelHeard \/ PowerOff \/ PowerOn
  PROVE  TypeInv'
<1>0. DeviceOK
  BY TypeDevice
<1>1. CASE CannotOpen
  BY <1>1 DEF CannotOpen, TypeInv, TypeOK, Leave, device, damage
<1>2. CASE ReconnectMidi
  <2>1. call' = Shaken(FALSE) /\ UNCHANGED <<turn, device, damage, authorized>>
        /\ handle' \in {"open", "failed"} /\ hasInput' \in BOOLEAN
    BY <1>2 DEF ReconnectMidi
  <2>2. call' \in [Calls -> CallRec]
    BY <2>1, ShakenType
  <2> HIDE DEF Shaken
  <2> QED BY <2>1, <2>2, ShakenType, ShakenOK DEF TypeInv, TypeOK, Leave, device, damage
<1>3. CASE FlashWritten
  <2>1. flash' \in [Slots -> Patches] /\ spoilt' \subseteq Slots
    <3>1. rx.patch \in Patches /\ rx.slot \in Slots \cup {None}
      BY <1>0 DEF DeviceOK
    <3> QED BY <1>0, <1>3, <3>1 DEF FlashWritten, TypeInv, TypeOK, DeviceOK
  <2> QED BY <1>3, <2>1 DEF FlashWritten, TypeInv, TypeOK, Leave, server
<1>4. CASE PanelUsed
  <2>1. call' = Shaken(TRUE)
        /\ UNCHANGED <<handle, hasInput, turn, plugged, disturbed, spoilt, authorized>>
        /\ listening' \in BOOLEAN /\ pgmRx' \in BOOLEAN
    BY <1>4 DEF PanelUsed, TypeInv, TypeOK, damage
  <2>2. DeviceOK'
    BY <1>0, <1>4, GotoOK, IgnoredOK DEF PanelUsed
  <2>3. call' \in [Calls -> CallRec]
    BY <2>1, ShakenType
  <2> QED BY <2>1, <2>2, <2>3, ShakenType, ShakenOK DEF TypeInv, TypeOK, Leave, DeviceOK
<1>5. CASE PanelHeard
  <2> DEFINE heard(c) == call[c].heard \/ (call[c].pc # "idle" /\ call[c].live /\ call[c].input)
             r == [c \in Calls |-> [call[c] EXCEPT !.calm = FALSE, !.heard = heard(c)]]
  <2>1. ASSUME NEW c \in Calls PROVE heard(c) \in BOOLEAN
    <3>1. heard(c) = (call[c].heard \/ (call[c].pc # "idle" /\ call[c].live /\ call[c].input))
      OBVIOUS
    <3> HIDE DEF heard
    <3> QED BY <3>1, Zenon
  <2>2. call' = r
    BY <1>5 DEF PanelHeard
  <2> HIDE DEF heard
  <2>3. r \in [Calls -> CallRec]
    <3>1. ASSUME NEW c \in Calls
          PROVE  [call[c] EXCEPT !.calm = FALSE, !.heard = heard(c)] \in CallRec
      <4>1. call[c] \in CallRec /\ heard(c) \in BOOLEAN
        BY <2>1 DEF TypeInv, TypeOK
      <4> QED BY <4>1, TouchedOK, Zenon
    <3> QED BY <3>1
  <2>4. \A c \in Calls : /\ r[c].pc = call[c].pc /\ r[c].slot = call[c].slot
                         /\ r[c].i = call[c].i /\ r[c].save = call[c].save
                         /\ r[c].recipe = call[c].recipe
    BY DEF TypeInv, TypeOK, CallRec
  <2>5. UNCHANGED <<handle, hasInput, turn, device, damage, authorized>>
    BY <1>5 DEF PanelHeard
  <2> HIDE DEF r
  <2> QED BY <2>2, <2>3, <2>4, <2>5, ShakenOK DEF TypeInv, TypeOK, Leave, device, damage
<1>6. CASE PowerOff
  <2>1. call' = Shaken(FALSE) /\ UNCHANGED <<turn, listening, pgmRx, disturbed, authorized>>
        /\ plugged' = FALSE
    BY <1>6 DEF PowerOff
  <2>6. flash' \in [Slots -> Patches] /\ spoilt' \subseteq Slots
    BY <1>6, TypeDevice, TornType DEF PowerOff, TypeInv, TypeOK
  <2>2. DeviceOK'
    BY <1>0, <1>6, <2>6, NoDumpOK DEF PowerOff, DeviceOK
  <2>3. handle' \in {"none", "open", "dead", "failed"}
    BY <1>6 DEF PowerOff, TypeInv, TypeOK
  <2>4. hasInput' \in BOOLEAN
    <3>1. hasInput' = (hasInput /\ handle # "open")
      BY <1>6 DEF PowerOff
    <3> QED BY <3>1, Zenon
  <2>5. call' \in [Calls -> CallRec]
    BY <2>1, ShakenType
  <2> QED BY <2>1, <2>2, <2>3, <2>4, <2>5, <2>6, ShakenType, ShakenOK
          DEF TypeInv, TypeOK, Leave, DeviceOK
<1>7. CASE PowerOn
  BY <1>7 DEF PowerOn, TypeInv, TypeOK, Leave, server, damage
<1> QED BY <1>1, <1>2, <1>3, <1>4, <1>5, <1>6, <1>7

THEOREM TypeInvariant == Spec => []TypeInv
<1>1. TypeInv /\ [Next]_vars => TypeInv'
  <2> SUFFICES ASSUME TypeInv, [Next]_vars PROVE TypeInv'
    OBVIOUS
  <2>1. CASE UNCHANGED vars
    BY <2>1 DEF vars, server, device, damage, TypeInv, TypeOK, Leave
  <2> QED BY <2>1, StepType, OtherType DEF Next
<1> QED BY InitType, <1>1, PTL DEF Spec

\* Types are kept, whatever the constants.
THEOREM TypeCorrect == Spec => []TypeOK
<1>1. TypeInv => TypeOK
  BY DEF TypeInv
<1> QED BY <1>1, TypeInvariant, PTL

----------------------------------------------------------------------------
(* One call at a time: the flash.                                          *)

OneCall == \A c, d \in Calls : c = d

\* How many chunks of its dump a call has sent.
Sent(r) == IF r.pc = "chunk" THEN r.i ELSE ChunkCount

\* While the handle a dump began on is good, the device listens and has dropped
\* no chunk, what it has received is what the call has sent.
Dumping(c) ==
  call[c].pc \in {"chunk", "request"} /\ call[c].live /\ listening /\ ~rx.lost =>
    \A k \in Chunks : k < Sent(call[c]) => rx.patch[k] = call[c].recipe

\* The device is busy only while a call waits for it to be done, with a dump it
\* has leave to save.
Waited == busy => turn = None /\ \A c \in Calls : call[c].pc = "footer" /\ call[c].save
Pending == busy /\ ~rx.lost => \E r \in authorized : rx.patch = Whole(r)

DumpInv ==
  /\ TypeInv /\ FlashIsWhole /\ FlashIsLeftAlone /\ Waited /\ Pending
  /\ \A c \in Calls : Dumping(c)

LEMMA InitDump == Init => DumpInv
<1> SUFFICES ASSUME Init PROVE DumpInv
  OBVIOUS
<1>1. TypeInv
  BY InitType
<1>2. \A c \in Calls : call[c].pc = "idle"
  BY IdleOK DEF Init
<1> QED BY <1>1, <1>2
    DEF Init, DumpInv, FlashIsWhole, FlashIsLeftAlone, Waited, Pending, Dumping

\* A step that writes no flash.
LEMMA QuietDump ==
  ASSUME OneCall, DumpInv, TypeInv', NEW c \in Calls, Dumping(c)', ~busy',
         UNCHANGED <<flash, damage>>, authorized \subseteq authorized'
  PROVE  DumpInv'
<1>1. \A d \in Calls : Dumping(d)'
  <2>1. \A d \in Calls : d = c
    BY DEF OneCall
  <2> QED BY <2>1
<1>2. FlashIsWhole' /\ FlashIsLeftAlone'
  BY DEF DumpInv, FlashIsWhole, FlashIsLeftAlone, damage
<1> QED BY <1>1, <1>2 DEF DumpInv, Waited, Pending

\* A call elsewhere than in the chunks of its dump.
LEMMA ElsewhereDump ==
  ASSUME OneCall, DumpInv, TypeInv', NEW c \in Calls,
         call'[c].pc \notin {"chunk", "request"}, ~busy',
         UNCHANGED <<flash, damage>>, authorized \subseteq authorized'
  PROVE  DumpInv'
<1>1. Dumping(c)'
  BY DEF Dumping
<1> QED BY <1>1, QuietDump

\* Whoever is about to send finds the device done with its flash.
LEMMA NotBusy ==
  ASSUME OneCall, DumpInv, NEW c \in Calls, call[c].pc # "footer" \/ Paused(c)
  PROVE  ~busy
  BY DEF DumpInv, Waited, Paused

\* What a send changes in the caller's record.
Received(c, next) ==
  \E h \in BOOLEAN : call' = [call EXCEPT ![c] = [next EXCEPT !.heard = h]]

LEMMA ReceivedPoint ==
  ASSUME TypeInv, NEW c \in Calls, NEW next \in CallRec,
         \/ Received(c, next) \/ call' = [call EXCEPT ![c] = next]
         \/ call' = [call EXCEPT ![c] = Idle]
  PROVE  /\ call'[c].pc \in {next.pc, "idle"}
         /\ call'[c].pc # "idle" =>
              /\ call'[c].i = next.i /\ call'[c].recipe = next.recipe
              /\ call'[c].live = next.live /\ call'[c].save = next.save
  BY IdleOK DEF Received, CallRec, TypeInv, TypeOK

LEMMA GoesToPoint ==
  ASSUME TypeInv, NEW c \in Calls, NEW pc \in Points
  PROVE  GoesTo(c, pc) \in CallRec /\ GoesTo(c, pc).pc = pc /\ GoesTo(c, pc).save = call[c].save
  BY DEF TypeInv, TypeOK, GoesTo, CallRec

\* A send to a device that is not busy throws, or the device takes its message
\* or ignores it.
LEMMA SendCases ==
  ASSUME TypeInv, ~busy, NEW c \in Calls, NEW next \in CallRec, NEW taken, NEW waits,
         NEW ACTION effect, Sends(c, taken, effect, next, waits)
  PROVE  /\ UNCHANGED <<listening, pgmRx, damage, authorized>>
         /\ \/ call' = [call EXCEPT ![c] = Idle] /\ Ignored
            \/ ~taken /\ Ignored /\ call' = [call EXCEPT ![c] = next]
            \/ /\ taken /\ effect /\ Received(c, next) /\ call[c].live
               /\ waits => turn' = None
<1>1. call[c].input \in BOOLEAN /\ next.heard \in BOOLEAN
  BY DEF TypeInv, TypeOK, CallRec
<1>2. UNCHANGED <<listening, pgmRx, authorized>>
  BY DEF Sends
<1>3. CASE Throws(c, next)
  BY <1>2, <1>3 DEF Throws
<1>4. CASE Delivers(c, taken, effect, next, waits)
  <2>1. CASE taken /\ effect /\ UNCHANGED damage /\ \E answered \in {FALSE, call[c].input} :
                call' = [call EXCEPT ![c] = [next EXCEPT !.heard = @ \/ answered]]
    <3>1. PICK answered \in {FALSE, call[c].input} :
            call' = [call EXCEPT ![c] = [next EXCEPT !.heard = next.heard \/ answered]]
      BY <2>1
    <3>2. next.heard \/ answered \in BOOLEAN
      BY <1>1, Zenon
    <3>3. Received(c, next)
      BY <3>1, <3>2 DEF Received
    <3>4. call[c].live /\ (waits => turn' = None)
      BY <1>4 DEF Delivers
    <3> QED BY <1>2, <2>1, <3>3, <3>4
  <2>2. CASE ~taken /\ Ignored /\ UNCHANGED damage /\ call' = [call EXCEPT ![c] = next]
    BY <1>2, <2>2
  <2> QED BY <1>4, <2>1, <2>2 DEF Delivers
<1> QED BY <1>3, <1>4 DEF Sends

\* A send that leaves the flash alone and the chunks behind.
LEMMA QuietSend ==
  ASSUME OneCall, DumpInv, TypeInv', ~busy, NEW c \in Calls,
         NEW next \in CallRec, next.pc \notin {"chunk", "request"},
         NEW taken, NEW waits, NEW ACTION effect, Sends(c, taken, effect, next, waits),
         effect => ~busy' /\ flash' = flash
  PROVE  DumpInv'
<1>1. TypeInv
  BY DEF DumpInv
<1>2. /\ UNCHANGED <<damage, authorized>>
      /\ Ignored \/ effect
      /\ \/ Received(c, next) \/ call' = [call EXCEPT ![c] = next]
         \/ call' = [call EXCEPT ![c] = Idle]
  BY <1>1, SendCases
<1>3. ~busy' /\ flash' = flash
  BY <1>2 DEF Ignored
<1>4. call'[c].pc \notin {"chunk", "request"}
  BY <1>1, <1>2, ReceivedPoint
<1> QED BY <1>2, <1>3, <1>4, ElsewhereDump

LEMMA HeaderPoint ==
  ASSUME TypeInv, NEW c \in Calls
  PROVE  LET next == [call[c] EXCEPT !.pc = "chunk", !.i = 0]
         IN  next \in CallRec /\ next.pc = "chunk" /\ next.i = 0
<1>1. 0 \in 0 .. ChunkCount /\ "chunk" \in Points /\ call[c] \in CallRec
  BY HydrasynthConstants DEF Points, TypeInv, TypeOK
<1> QED BY <1>1 DEF CallRec

\* What a chunk received adds to what the device holds of the dump.
LEMMA ChunkHeld ==
  ASSUME NEW i \in Nat, NEW from, NEW s, i \in Chunks, rx.patch \in Patches,
         Chunk(i, from, s), \A k \in Chunks : k < i => rx.patch[k] = from
  PROVE  /\ \A k \in Chunks : k < i + 1 => rx'.patch[k] = from
         /\ rx'.lost = rx.lost
<1>1. rx' = [rx EXCEPT !.slot = IF i = 0 THEN s ELSE @, !.patch[i] = from]
  BY DEF Chunk
<1>2. rx'.patch = [rx.patch EXCEPT ![i] = from] /\ rx'.lost = rx.lost
  BY <1>1
<1>3. ASSUME NEW k \in Chunks, k < i + 1 PROVE rx'.patch[k] = from
  <2>1. k < i \/ k = i
    BY <1>3 DEF Chunks
  <2> QED BY <1>2, <2>1 DEF Patches
<1> QED BY <1>2, <1>3

LEMMA SendDump ==
  ASSUME OneCall, DumpInv, TypeInv', NEW c \in Calls,
         \/ BounceIn(c) \/ SettleIn(c) \/ SendHeader(c) \/ SendChunk(c)
         \/ SendWriteRequest(c) \/ SendFooter(c) \/ BounceOut(c) \/ SettleOut(c)
         \/ Navigate(c)
  PROVE  DumpInv'
<1>0. TypeInv /\ call[c] \in CallRec /\ call \in [Calls -> CallRec] /\ rx.patch \in Patches
  BY DEF DumpInv, TypeInv, TypeOK
<1>b. ~busy
  BY NotBusy DEF BounceIn, SettleIn, SendHeader, SendChunk, SendWriteRequest, SendFooter,
                 BounceOut, SettleOut, Navigate, At
<1>g. ASSUME NEW s \in Slots, NEW next \in CallRec, next.pc \notin {"chunk", "request"},
             SendsGoto(c, s, next)
      PROVE  DumpInv'
  <2>1. Goto(s) => ~busy' /\ flash' = flash
    BY <1>b DEF Goto
  <2>2. Sends(c, listening /\ pgmRx, Goto(s), next, TRUE)
    BY <1>g DEF SendsGoto
  <2> QED BY <1>b, <1>g, <2>1, <2>2, QuietSend
<1>t. ASSUME NEW pc \in Points \ {"chunk", "request"}
      PROVE  GoesTo(c, pc) \in CallRec /\ GoesTo(c, pc).pc \notin {"chunk", "request"}
  BY <1>0, GoesToPoint
<1>s. Bounce \in Slots /\ (call[c].pc # "idle" => call[c].slot \in Slots)
  BY <1>0, HydrasynthConstants DEF TypeInv, TypeOK
<1>1. CASE BounceIn(c)
  BY <1>1, <1>g, <1>s, <1>t DEF BounceIn, Points
<1>2. CASE SettleIn(c)
  BY <1>2, <1>g, <1>s, <1>t DEF SettleIn, At, Points
<1>3. CASE SendHeader(c)
  <2> DEFINE next == [call[c] EXCEPT !.pc = "chunk", !.i = 0]
             waits == FALSE
  <2>0. Sends(c, listening, Header, next, waits)
    BY <1>3 DEF SendHeader, SendsDump
  <2>3. next \in CallRec /\ next.pc = "chunk" /\ next.i = 0
    BY <1>0, HeaderPoint
  <2> HIDE DEF next, waits
  <2>1. /\ UNCHANGED <<damage, authorized>>
        /\ Header \/ Ignored
        /\ \/ Received(c, next) \/ call' = [call EXCEPT ![c] = next]
           \/ call' = [call EXCEPT ![c] = Idle]
    BY <1>0, <1>b, <2>0, <2>3, SendCases
  <2>2. ~busy' /\ flash' = flash
    BY <1>b, <2>1 DEF Header, Ignored
  <2>4. call'[c].pc = "idle" \/ (call'[c].pc = "chunk" /\ call'[c].i = 0)
    BY <1>0, <2>1, <2>3, ReceivedPoint
  <2>5. Dumping(c)'
    BY <2>4 DEF Dumping, Sent, Chunks
  <2> QED BY <2>1, <2>2, <2>5, QuietDump
<1>4. CASE SendChunk(c)
  <2> DEFINE i == call[c].i
             next == ChunkSent(call[c])
             less == [ChunkSent(call[c]) EXCEPT !.calm = FALSE]
             waits == ~Last(call[c])
  <2>0. /\ call[c].pc = "chunk"
        /\ \/ Sends(c, listening, Chunk(i, call[c].recipe, call[c].slot), next, waits)
           \/ Sends(c, listening, Dropped, less, waits)
    BY <1>4 DEF SendChunk, SendsDump, At
  <2>i. i \in Nat /\ i \in Chunks
    BY <1>0, <2>0, HydrasynthConstants DEF TypeInv, TypeOK, CallRec, Chunks
  <2>n. /\ next \in CallRec /\ less \in CallRec
        /\ next.recipe = call[c].recipe
        /\ next.pc # "idle" /\ (next.pc = "chunk" => next.i = i + 1)
        /\ next.pc = "request" => i + 1 = ChunkCount
    BY <1>0, <2>0, ChunkSentOK, ChunkDroppedOK
  <2> HIDE DEF next, less, waits
  <2>3. CASE Sends(c, listening, Chunk(i, call[c].recipe, call[c].slot), next, waits)
    <3>1. /\ UNCHANGED <<listening, damage, authorized>>
          /\ \/ call' = [call EXCEPT ![c] = Idle] /\ Ignored
             \/ ~listening /\ Ignored /\ call' = [call EXCEPT ![c] = next]
             \/ /\ listening /\ Chunk(i, call[c].recipe, call[c].slot)
                /\ Received(c, next) /\ call[c].live
      BY <1>0, <1>b, <2>3, <2>n, SendCases
    <3>2. ~busy' /\ flash' = flash
      BY <1>b, <3>1 DEF Chunk, Ignored
    <3>3. CASE call' = [call EXCEPT ![c] = Idle] \/ ~listening
      <4>1. Dumping(c)'
        BY <1>0, <3>1, <3>3, IdleOK DEF Dumping
      <4> QED BY <3>1, <3>2, <4>1, QuietDump
    <3>4. CASE /\ listening /\ Chunk(i, call[c].recipe, call[c].slot)
               /\ Received(c, next) /\ call[c].live
      <4>1. call'[c].pc = next.pc /\ call'[c].i = next.i /\ call'[c].recipe = call[c].recipe
        BY <1>0, <2>n, <3>4, ReceivedPoint DEF Received, CallRec
      <4>2. ~rx.lost => \A k \in Chunks : k < i => rx.patch[k] = call[c].recipe
        BY <2>0, <3>4 DEF DumpInv, Dumping, Sent
      <4>3. /\ ~rx.lost => \A k \in Chunks : k < i + 1 => rx'.patch[k] = call[c].recipe
            /\ rx'.lost = rx.lost
        <5>1. rx'.lost = rx.lost
          BY <3>4 DEF Chunk
        <5> QED BY <1>0, <2>i, <3>4, <4>2, <5>1, ChunkHeld
      <4>4. call'[c].pc \in {"chunk", "request"} => Sent(call'[c]) = i + 1
        BY <2>n, <4>1 DEF Sent
      <4>5. Dumping(c)'
        BY <4>1, <4>3, <4>4 DEF Dumping
      <4> QED BY <3>1, <3>2, <4>5, QuietDump
    <3> QED BY <3>1, <3>3, <3>4
  <2>4. CASE Sends(c, listening, Dropped, less, waits)
    <3>1. /\ UNCHANGED <<listening, damage, authorized>>
          /\ \/ call' = [call EXCEPT ![c] = Idle] /\ Ignored
             \/ ~listening /\ Ignored
             \/ Dropped
      BY <1>0, <1>b, <2>4, <2>n, SendCases
    <3>2. ~busy' /\ flash' = flash
      BY <1>b, <3>1 DEF Dropped, Ignored
    <3>3. Dropped => rx'.lost
      BY <1>0 DEF Dropped, TypeInv, TypeOK
    <3>4. Dumping(c)'
      BY <1>0, <3>1, <3>3, IdleOK DEF Dumping
    <3> QED BY <3>1, <3>2, <3>4, QuietDump
  <2> QED BY <2>0, <2>3, <2>4
<1>5. CASE SendWriteRequest(c)
  <2> DEFINE next == GoesTo(c, "footer")
             waits == TRUE
  <2>0. /\ call[c].pc = "request" /\ call[c].save /\ call[c].recipe \in authorized
        /\ Sends(c, listening, WriteRequest, next, waits)
    BY <1>0, <1>5 DEF SendWriteRequest, SendsDump, At, TypeInv, TypeOK
  <2>n. next \in CallRec /\ next.pc = "footer" /\ next.save = call[c].save
    BY <1>0, GoesToPoint DEF Points
  <2> HIDE DEF next, waits
  <2>w. /\ UNCHANGED <<listening, damage, authorized>>
        /\ \/ call' = [call EXCEPT ![c] = Idle] /\ Ignored
           \/ Ignored /\ call' = [call EXCEPT ![c] = next]
           \/ /\ listening /\ WriteRequest /\ Received(c, next) /\ call[c].live
              /\ waits => turn' = None
    BY <1>0, <1>b, <2>0, <2>n, SendCases
  <2>1. /\ UNCHANGED <<listening, damage, authorized>>
        /\ \/ call' = [call EXCEPT ![c] = Idle] /\ Ignored
           \/ Ignored /\ call' = [call EXCEPT ![c] = next]
           \/ /\ listening /\ WriteRequest /\ Received(c, next) /\ call[c].live
              /\ turn' = None
    BY <2>w DEF waits
  <2>2. call'[c].pc = "idle" \/ (call'[c].pc = "footer" /\ call'[c].save)
    BY <1>0, <2>0, <2>1, <2>n, ReceivedPoint
  <2>3. CASE Ignored
    <3>1. ~busy' /\ flash' = flash
      BY <1>b, <2>3 DEF Ignored
    <3> QED BY <2>1, <2>2, <3>1, ElsewhereDump
  <2>4. CASE /\ listening /\ WriteRequest /\ Received(c, next) /\ call[c].live
             /\ turn' = None
    <3>1. ~rx.lost => rx.patch = Whole(call[c].recipe)
      <4>1. ~rx.lost => \A k \in Chunks : rx.patch[k] = call[c].recipe
        BY <2>0, <2>4, HydrasynthConstants DEF DumpInv, Dumping, Sent, Chunks
      <4> QED BY <1>0, <4>1 DEF Patches, Whole
    <3>2. UNCHANGED <<flash, rx>>
      BY <2>4 DEF WriteRequest
    <3>3. Pending'
      BY <2>0, <2>1, <3>1, <3>2 DEF Pending, Whole
    <3>4. call'[c].pc = "footer" /\ call'[c].save
      BY <1>0, <2>0, <2>4, <2>n DEF Received, CallRec
    <3>5. ASSUME NEW d \in Calls
          PROVE  Dumping(d)' /\ call'[d].pc = "footer" /\ call'[d].save
      <4>1. d = c
        BY DEF OneCall
      <4> QED BY <3>4, <4>1 DEF Dumping
    <3>6. FlashIsWhole' /\ FlashIsLeftAlone'
      BY <2>1, <3>2 DEF DumpInv, FlashIsWhole, FlashIsLeftAlone, damage
    <3>7. Waited'
      BY <2>4, <3>5 DEF Waited
    <3> QED BY <3>3, <3>5, <3>6, <3>7 DEF DumpInv
  <2> QED BY <2>1, <2>3, <2>4
<1>6. CASE SendFooter(c)
  <2>1. Footer => ~busy' /\ flash' = flash
    BY <1>b DEF Footer
  <2>2. Sends(c, listening, Footer, GoesTo(c, AfterFooter(call[c])), call[c].dance = "none")
    BY <1>6 DEF SendFooter, SendsDump
  <2>3. AfterFooter(call[c]) \in Points \ {"chunk", "request"}
    BY DEF AfterFooter, Points
  <2>4. /\ GoesTo(c, AfterFooter(call[c])) \in CallRec
        /\ GoesTo(c, AfterFooter(call[c])).pc \notin {"chunk", "request"}
    BY <1>t, <2>3
  <2> QED BY <1>b, <2>1, <2>2, <2>4, QuietSend
<1>7. CASE BounceOut(c)
  BY <1>7, <1>g, <1>s, <1>t DEF BounceOut, Points
<1>8. CASE SettleOut(c)
  BY <1>8, <1>g, <1>s, <1>t DEF SettleOut, At, Points
<1>9. CASE Navigate(c)
  <2>1. Idle \in CallRec /\ Idle.pc = "idle"
    BY IdleOK DEF Fit
  <2> QED BY <1>9, <1>g, <1>s, <2>1 DEF Navigate, At
<1> QED BY <1>1, <1>2, <1>3, <1>4, <1>5, <1>6, <1>7, <1>8, <1>9

\* A call begins at the first message of the dance or of the dump.
LEMMA StepDump ==
  ASSUME OneCall, DumpInv, TypeInv', NEW c \in Calls, Step(c)
  PROVE  DumpInv'
<1>1. CASE ApplyPatch(c) \/ ApplyInit(c) \/ NavigateTo(c)
  <2>1. /\ call[c].pc = "idle" /\ authorized \subseteq authorized'
        /\ UNCHANGED <<device, damage>>
        /\ call'[c].pc \in {"bounceIn", "header", "goto"}
    <3>1. CASE ApplyPatch(c)
      <4>1. PICK recipe \in Recipes, slot \in Targets \cup {Scratch}, dance \in Dances,
                 save \in BOOLEAN : Begin(c, recipe, slot, dance, save)
        BY <3>1 DEF ApplyPatch
      <4>2. authorized \subseteq authorized'
        BY <3>1 DEF ApplyPatch
      <4> QED BY <4>1, <4>2 DEF Begin, At, Others, Idle
    <3>2. CASE ApplyInit(c)
      <4>1. PICK slot \in Targets \cup {Scratch}, dance \in Dances :
              Begin(c, Init0, slot, dance, FALSE)
        BY <3>2 DEF ApplyInit, Dances
      <4> QED BY <3>2, <4>1 DEF ApplyInit, Begin, At, Others, Idle
    <3>3. CASE NavigateTo(c)
      BY <3>3 DEF NavigateTo, At, Others, Idle
    <3> QED BY <1>1, <3>1, <3>2, <3>3
  <2>2. ~busy
    BY <2>1, NotBusy
  <2> QED BY <2>1, <2>2, ElsewhereDump DEF device
<1>2. CASE Reply(c)
  <2>1. call[c].pc = "drain" /\ call'[c].pc = "idle"
        /\ UNCHANGED <<device, damage, authorized>>
    BY <1>2 DEF Reply, At, DumpInv, TypeInv, TypeOK, CallRec
  <2>2. ~busy
    BY <2>1, NotBusy
  <2> QED BY <2>1, <2>2, ElsewhereDump DEF device
<1>3. CASE \/ BounceIn(c) \/ SettleIn(c) \/ SendHeader(c) \/ SendChunk(c)
           \/ SendWriteRequest(c) \/ SendFooter(c) \/ BounceOut(c) \/ SettleOut(c)
           \/ Navigate(c)
  BY <1>3, SendDump
<1> QED BY <1>1, <1>2, <1>3 DEF Step

\* What only tells the calls that something happened, and a write that ends.
LEMMA TouchedDump ==
  ASSUME OneCall, DumpInv, TypeInv', UNCHANGED <<turn, disturbed, authorized>>,
         FlashIsWhole', busy' => busy /\ UNCHANGED rx,
         \A c \in Calls : /\ call'[c].pc = call[c].pc /\ call'[c].save = call[c].save
                          /\ Dumping(c)'
  PROVE  DumpInv'
<1>1. Waited' /\ Pending'
  BY DEF DumpInv, Waited, Pending
<1> QED BY <1>1 DEF DumpInv, FlashIsLeftAlone

LEMMA ShakenPoint ==
  ASSUME TypeInv, NEW still \in BOOLEAN, call' = Shaken(still), NEW c \in Calls
  PROVE  /\ call'[c].pc = call[c].pc /\ call'[c].save = call[c].save
         /\ call'[c].i = call[c].i /\ call'[c].recipe = call[c].recipe
         /\ call'[c].live => call[c].live /\ still
<1>1. call'[c] = [call[c] EXCEPT !.calm = FALSE, !.live = call[c].live /\ still]
  BY DEF Shaken
<1>2. call[c] \in CallRec
  BY DEF TypeInv, TypeOK
<1> QED BY <1>1, <1>2 DEF CallRec

\* The write that ends is of a recipe with leave, or its slot is spoilt.
LEMMA WrittenWhole ==
  ASSUME DumpInv, FlashWritten
  PROVE  FlashIsWhole'
<1>0. /\ flash \in [Slots -> Patches] /\ rx.slot \in Slots \cup {None}
      /\ busy /\ UNCHANGED authorized
  BY DEF DumpInv, TypeInv, TypeOK, FlashWritten
<1>1. CASE rx.slot = None
  BY <1>0, <1>1 DEF FlashWritten, DumpInv, FlashIsWhole
<1>2. CASE rx.slot # None
  <2>1. /\ flash' = [flash EXCEPT ![rx.slot] = rx.patch] /\ rx.slot \in Slots
        /\ spoilt' = IF rx.lost THEN spoilt \cup {rx.slot} ELSE spoilt \ {rx.slot}
    BY <1>0, <1>2 DEF FlashWritten
  <2>2. ASSUME NEW s \in Slots, s \notin spoilt'
        PROVE  flash'[s] \in {Whole(r) : r \in authorized \cup {Factory}}
    <3> HIDE DEF Whole
    <3>1. CASE s = rx.slot
      <4>1. ~rx.lost /\ flash'[s] = rx.patch
        BY <1>0, <2>1, <2>2, <3>1
      <4>2. PICK r \in authorized : rx.patch = Whole(r)
        BY <1>0, <4>1 DEF DumpInv, Pending
      <4> QED BY <4>1, <4>2
    <3>2. CASE s # rx.slot
      <4>1. flash'[s] = flash[s] /\ s \notin spoilt
        BY <1>0, <2>1, <2>2, <3>2
      <4> QED BY <4>1 DEF DumpInv, FlashIsWhole
    <3> QED BY <3>1, <3>2
  <2> QED BY <1>0, <2>2 DEF FlashIsWhole
<1> QED BY <1>1, <1>2

\* A write that loses its power spoils no slot but its own.
LEMMA TornWhole ==
  ASSUME DumpInv, Torn, UNCHANGED authorized
  PROVE  FlashIsWhole'
<1>1. \A s \in Slots \ spoilt' : s \notin spoilt /\ flash'[s] = flash[s]
  BY TypeDevice, TornType DEF DumpInv, TypeInv, TypeOK
<1> QED BY <1>1 DEF DumpInv, FlashIsWhole

LEMMA OtherDump ==
  ASSUME OneCall, DumpInv, TypeInv',
         \/ CannotOpen \/ ReconnectMidi
         \/ FlashWritten \/ PanelUsed \/ PanelHeard \/ PowerOff \/ PowerOn
  PROVE  DumpInv'
<1>0. TypeInv /\ \A c \in Calls : Dumping(c)
  BY DEF DumpInv
<1>w. UNCHANGED <<flash, spoilt, authorized>> => FlashIsWhole'
  BY DEF DumpInv, FlashIsWhole
<1>1. CASE CannotOpen \/ PowerOn
  <2>1. UNCHANGED <<turn, call, listening, rx, flash, busy, disturbed, spoilt, authorized>>
    BY <1>1 DEF CannotOpen, PowerOn, server, device, damage
  <2> QED BY <1>0, <1>w, <2>1, TouchedDump DEF Dumping
<1>6. CASE FlashWritten
  <2>1. UNCHANGED <<turn, call, listening, rx, disturbed, authorized>> /\ ~busy'
    BY <1>6 DEF FlashWritten, server
  <2>2. FlashIsWhole'
    BY <1>6, WrittenWhole
  <2> QED BY <1>0, <2>1, <2>2, TouchedDump DEF Dumping
<1>2. CASE ReconnectMidi
  <2>1. call' = Shaken(FALSE)
        /\ UNCHANGED <<turn, listening, rx, flash, busy, disturbed, spoilt, authorized>>
    BY <1>2 DEF ReconnectMidi, device, damage
  <2>2. \A c \in Calls : Dumping(c)'
    BY <1>0, <2>1, ShakenPoint DEF Dumping
  <2> QED BY <1>0, <1>w, <2>1, <2>2, ShakenPoint, TouchedDump
<1>3. CASE PanelUsed
  <2>1. call' = Shaken(TRUE)
        /\ UNCHANGED <<turn, rx, flash, busy, disturbed, spoilt, authorized>>
        /\ (listening' = listening \/ \A c \in Calls : call[c].pc = "idle")
    BY <1>3 DEF PanelUsed, Goto, Ignored, At, damage
  <2>2. ASSUME NEW c \in Calls PROVE Dumping(c)'
    <3>1. /\ call'[c].pc = call[c].pc /\ call'[c].recipe = call[c].recipe
          /\ call'[c].i = call[c].i /\ (call'[c].live => call[c].live)
      BY <1>0, <2>1, ShakenPoint
    <3>2. Sent(call'[c]) = Sent(call[c])
      BY <3>1 DEF Sent
    <3>3. call[c].pc \in {"chunk", "request"} /\ listening' => listening
      BY <2>1
    <3> QED BY <1>0, <2>1, <3>1, <3>2, <3>3 DEF Dumping
  <2> QED BY <1>0, <1>w, <2>1, <2>2, ShakenPoint, TouchedDump
<1>4. CASE PanelHeard
  <2>1. UNCHANGED <<turn, listening, rx, flash, busy, disturbed, spoilt, authorized>>
    BY <1>4 DEF PanelHeard, device, damage
  <2>2. ASSUME NEW c \in Calls
        PROVE  /\ call'[c].pc = call[c].pc /\ call'[c].save = call[c].save
               /\ call'[c].i = call[c].i /\ call'[c].recipe = call[c].recipe
               /\ call'[c].live = call[c].live
    <3>1. \E h : call'[c] = [call[c] EXCEPT !.calm = FALSE, !.heard = h]
      BY <1>4 DEF PanelHeard
    <3>2. call[c] \in CallRec
      BY <1>0 DEF TypeInv, TypeOK
    <3> QED BY <3>1, <3>2 DEF CallRec
  <2>3. ASSUME NEW c \in Calls PROVE Dumping(c)'
    BY <1>0, <2>1, <2>2 DEF Dumping, Sent
  <2> QED BY <1>w, <2>1, <2>2, <2>3, TouchedDump
<1>5. CASE PowerOff
  <2>1. call' = Shaken(FALSE) /\ UNCHANGED <<turn, disturbed, authorized>> /\ ~busy' /\ Torn
    BY <1>5 DEF PowerOff
  <2>2. \A c \in Calls : Dumping(c)'
    BY <1>0, <2>1, ShakenPoint DEF Dumping
  <2>3. FlashIsWhole'
    BY <2>1, TornWhole
  <2> QED BY <1>0, <2>1, <2>2, <2>3, ShakenPoint, TouchedDump
<1> QED BY <1>1, <1>2, <1>3, <1>4, <1>5, <1>6

THEOREM DumpInvariant == ASSUME OneCall PROVE Spec => []DumpInv
<1>1. DumpInv /\ [Next]_vars => DumpInv'
  <2> SUFFICES ASSUME DumpInv, [Next]_vars PROVE DumpInv'
    OBVIOUS
  <2>1. CASE UNCHANGED vars
    BY <2>1 DEF vars, server, device, damage, DumpInv, TypeInv, TypeOK, Leave, FlashIsWhole,
                FlashIsLeftAlone, Waited, Pending, Dumping, Sent
  <2>2. CASE Next
    <3>1. TypeInv /\ TypeInv'
      BY <2>2, StepType, OtherType DEF DumpInv, Next
    <3> QED BY <2>2, <3>1, StepDump, OtherDump DEF Next
  <2> QED BY <2>1, <2>2
<1> QED BY InitDump, <1>1, PTL DEF Spec

\* Whatever throws, closes or loses power on the way to a write, the flash holds
\* no patch but whole ones that somebody asked to save
\* (tools/patch.ts:854-891), for any number of chunks and one call at a time;
\* but for slots whose last dump lost a chunk at the device, or whose write lost
\* its power, from which the code has no protection (tools/shared.ts:138-167).
THEOREM FlashStaysWhole == ASSUME OneCall PROVE Spec => []FlashIsWhole
<1>1. DumpInv => FlashIsWhole
  BY DEF DumpInv
<1> QED BY <1>1, DumpInvariant, PTL

\* Nothing is sent to a device that writes its flash, for one call at a time.
THEOREM FlashStaysAlone == ASSUME OneCall PROVE Spec => []FlashIsLeftAlone
<1>1. DumpInv => FlashIsLeftAlone
  BY DEF DumpInv
<1> QED BY <1>1, DumpInvariant, PTL

----------------------------------------------------------------------------
(* One call at a time: what an applied patch means.                        *)

\* A call that has not replied; it heard something only from a device that
\* listens, unless somebody played it.
Answered(c) ==
  call[c].pc # "idle" =>
    call[c].reply = "none" /\ (call[c].calm /\ call[c].heard => listening)

Undisturbed(c) ==
  call[c].dance = "both" /\ call[c].calm /\ listening /\ pgmRx

\* The device holds the first i chunks of a call's dump.
Holds(c, i) ==
  /\ \A k \in Chunks : k < i => rx.patch[k] = call[c].recipe
  /\ i > 0 => rx.slot = call[c].slot

\* How far a full dance has taken a device that listens to all of it and is left
\* alone.
OnItsWay(c) ==
  Undisturbed(c) =>
    /\ call[c].pc \in {"header", "chunk", "request", "footer"} => active = call[c].slot
    /\ call[c].pc = "chunk" => Holds(c, call[c].i)
    /\ call[c].pc \in {"request", "footer"} => Holds(c, ChunkCount)
    /\ call[c].pc \in {"bounceOut", "settleOut"} =>
         ram[call[c].slot] = Whole(call[c].recipe)
    /\ call[c].pc = "settleOut" => active = Bounce
    /\ call[c].pc = "drain" /\ call[c].slot # Bounce => Plays(c)

Heard(c) == Claims(c) /\ pgmRx /\ call[c].slot # Bounce => Plays(c)

WayInv == /\ TypeInv /\ Waited
          /\ \A c \in Calls : Answered(c) /\ OnItsWay(c) /\ Heard(c)

LEMMA InitWay == Init => WayInv
<1> SUFFICES ASSUME Init PROVE WayInv
  OBVIOUS
<1>1. TypeInv /\ Waited
  BY InitDump DEF DumpInv
<1>2. \A c \in Calls : call[c].pc = "idle" /\ call[c].dance = "none"
  BY DEF Init, Idle
<1> QED BY <1>1, <1>2 DEF WayInv, Answered, OnItsWay, Undisturbed, Heard, Claims

\* What one call shows, the only one does.
LEMMA OnlyWay ==
  ASSUME OneCall, TypeInv', Waited', NEW c \in Calls,
         Answered(c)', OnItsWay(c)', Heard(c)'
  PROVE  WayInv'
<1>1. \A d \in Calls : d = c
  BY DEF OneCall
<1> QED BY <1>1 DEF WayInv

\* A call that is idle and claims nothing.
LEMMA IdleWay ==
  ASSUME OneCall, TypeInv', Waited', NEW c \in Calls,
         call'[c].pc = "idle", call'[c].reply = "none"
  PROVE  WayInv'
<1>1. Answered(c)' /\ OnItsWay(c)' /\ Heard(c)'
  BY DEF Answered, OnItsWay, Heard, Claims
<1> QED BY <1>1, OnlyWay

\* A message to a device that does not listen.
LEMMA DeafWay ==
  ASSUME OneCall, WayInv, TypeInv', Waited', NEW c \in Calls, call[c].pc # "idle",
         ~(listening /\ pgmRx)', UNCHANGED <<listening, pgmRx>>,
         call'[c].heard = call[c].heard, call'[c].calm => call[c].calm,
         call'[c].reply = call[c].reply
  PROVE  WayInv'
<1>1. Answered(c)' /\ OnItsWay(c)' /\ Heard(c)'
  BY DEF WayInv, Answered, OnItsWay, Undisturbed, Heard, Claims
<1> QED BY <1>1, OnlyWay

\* A message to one that does.
LEMMA HeardWay ==
  ASSUME OneCall, WayInv, TypeInv', Waited', NEW c \in Calls, call[c].pc # "idle",
         listening', call'[c].reply = call[c].reply, OnItsWay(c)'
  PROVE  WayInv'
<1>1. Answered(c)' /\ Heard(c)'
  BY DEF WayInv, Answered, Heard, Claims
<1> QED BY <1>1, OnlyWay

\* A call whose calm is over claims nothing.
LEMMA ShakenWay ==
  ASSUME WayInv, TypeInv', Waited',
         \A c \in Calls : /\ call'[c].pc = call[c].pc /\ call'[c].reply = call[c].reply
                          /\ ~call'[c].calm
  PROVE  WayInv'
  BY DEF WayInv, Answered, OnItsWay, Undisturbed, Heard, Claims

\* A send throws, or the device ignores its message or receives it.
LEMMA SendHeard ==
  ASSUME TypeInv, ~busy, NEW c \in Calls, NEW next \in CallRec, NEW taken, NEW waits,
         NEW ACTION effect, Sends(c, taken, effect, next, waits)
  PROVE  /\ UNCHANGED <<listening, pgmRx>>
         /\ \/ call' = [call EXCEPT ![c] = Idle]
            \/ ~taken /\ call' = [call EXCEPT ![c] = next]
            \/ taken /\ effect /\ Received(c, next)
  BY SendCases

LEMMA GotoHeard ==
  ASSUME TypeInv, ~busy, NEW c \in Calls, NEW next \in CallRec, NEW s \in Slots,
         SendsGoto(c, s, next)
  PROVE  /\ UNCHANGED <<listening, pgmRx>>
         /\ \/ call' = [call EXCEPT ![c] = Idle]
            \/ ~(listening /\ pgmRx) /\ call' = [call EXCEPT ![c] = next]
            \/ listening /\ pgmRx /\ Goto(s) /\ Received(c, next)
<1> DEFINE taken == listening /\ pgmRx
           waits == TRUE
<1>1. Sends(c, taken, Goto(s), next, waits)
  BY DEF SendsGoto
<1> HIDE DEF taken, waits
<1>2. /\ UNCHANGED <<listening, pgmRx>>
      /\ \/ call' = [call EXCEPT ![c] = Idle]
         \/ ~taken /\ call' = [call EXCEPT ![c] = next]
         \/ taken /\ Goto(s) /\ Received(c, next)
  BY <1>1, SendHeard
<1> QED BY <1>2 DEF taken

\* The record of a call that received an answer, or none.
LEMMA ReceivedRecord ==
  ASSUME TypeInv, NEW c \in Calls, NEW next \in CallRec, Received(c, next)
  PROVE  /\ call'[c].pc = next.pc /\ call'[c].i = next.i
         /\ call'[c].recipe = next.recipe /\ call'[c].slot = next.slot
         /\ call'[c].dance = next.dance /\ call'[c].calm = next.calm
         /\ call'[c].reply = next.reply
  BY DEF Received, CallRec, TypeInv, TypeOK

\* A move to a point keeps the rest of the record.
LEMMA GoesToRecord ==
  ASSUME TypeInv, NEW c \in Calls, NEW pc \in Points
  PROVE  LET r == GoesTo(c, pc) IN
         /\ r \in CallRec
         /\ r.pc = pc /\ r.i = call[c].i /\ r.recipe = call[c].recipe
         /\ r.slot = call[c].slot /\ r.dance = call[c].dance /\ r.calm = call[c].calm
         /\ r.heard = call[c].heard /\ r.reply = call[c].reply
  BY DEF TypeInv, TypeOK, GoesTo, CallRec

\* A throw, or a message nobody listens to, whatever the message.
LEMMA UnheardWay ==
  ASSUME OneCall, WayInv, TypeInv', Waited', NEW c \in Calls, call[c].pc # "idle",
         NEW next \in CallRec, next.heard = call[c].heard, next.calm => call[c].calm,
         next.reply = call[c].reply, UNCHANGED <<listening, pgmRx>>,
         \/ call' = [call EXCEPT ![c] = Idle]
         \/ ~(listening /\ pgmRx) /\ call' = [call EXCEPT ![c] = next]
  PROVE  WayInv'
<1>0. call \in [Calls -> CallRec]
  BY DEF WayInv, TypeInv, TypeOK
<1>1. CASE call' = [call EXCEPT ![c] = Idle]
  <2>1. call'[c].pc = "idle" /\ call'[c].reply = "none"
    BY <1>0, <1>1 DEF Idle
  <2> QED BY <2>1, IdleWay
<1>2. CASE ~(listening /\ pgmRx) /\ call' = [call EXCEPT ![c] = next]
  <2>1. call'[c] = next /\ ~(listening /\ pgmRx)'
    BY <1>0, <1>2
  <2> QED BY <2>1, DeafWay
<1> QED BY <1>1, <1>2

LEMMA SendWay ==
  ASSUME OneCall, WayInv, TypeInv', Waited', ~busy, NEW c \in Calls,
         \/ BounceIn(c) \/ SettleIn(c) \/ SendHeader(c) \/ SendChunk(c)
         \/ SendWriteRequest(c) \/ SendFooter(c) \/ BounceOut(c) \/ SettleOut(c)
         \/ Navigate(c)
  PROVE  WayInv'
<1>0. /\ TypeInv /\ call \in [Calls -> CallRec] /\ OnItsWay(c)
      /\ active \in Slots /\ ram \in [Slots -> Patches] /\ rx.patch \in Patches
      /\ Bounce \in Slots
  BY HydrasynthConstants DEF WayInv, TypeInv, TypeOK
<1>s. /\ call[c].pc # "idle" => call[c].slot \in Slots
      /\ call[c].pc = "chunk" => call[c].i \in Nat /\ call[c].i < ChunkCount
  BY HydrasynthConstants DEF WayInv, TypeInv, TypeOK, CallRec
<1>1. CASE BounceIn(c)
  <2> DEFINE next == GoesTo(c, "settleIn")
  <2>1. call[c].pc = "bounceIn" /\ SendsGoto(c, Bounce, next)
    BY <1>1 DEF BounceIn, At
  <2>2. /\ next \in CallRec /\ next.pc = "settleIn" /\ next.recipe = call[c].recipe
        /\ next.slot = call[c].slot /\ next.dance = call[c].dance
        /\ next.heard = call[c].heard /\ next.calm = call[c].calm
        /\ next.reply = call[c].reply
    BY <1>0, GoesToRecord DEF Points
  <2> HIDE DEF next
  <2>3. /\ UNCHANGED <<listening, pgmRx>>
        /\ \/ call' = [call EXCEPT ![c] = Idle]
           \/ ~(listening /\ pgmRx) /\ call' = [call EXCEPT ![c] = next]
           \/ listening /\ pgmRx /\ Goto(Bounce) /\ Received(c, next)
    BY <1>0, <1>s, <2>1, <2>2, GotoHeard
  <2>4. CASE listening /\ pgmRx /\ Goto(Bounce) /\ Received(c, next)
    <3>1. /\ call'[c].pc = "settleIn" /\ listening' /\ call'[c].reply = call[c].reply
          /\ call'[c].recipe = call[c].recipe /\ call'[c].slot = call[c].slot
          /\ call'[c].dance = call[c].dance /\ call'[c].calm = call[c].calm
      BY <1>0, <2>2, <2>3, <2>4, ReceivedRecord
    <3>2. OnItsWay(c)'
      BY <3>1 DEF OnItsWay
    <3> QED BY <2>1, <3>1, <3>2, HeardWay
  <2> QED BY <2>1, <2>2, <2>3, <2>4, UnheardWay
<1>2. CASE SettleIn(c)
  <2> DEFINE next == GoesTo(c, "header")
  <2>1. call[c].pc = "settleIn" /\ SendsGoto(c, call[c].slot, next)
    BY <1>2 DEF SettleIn, At
  <2>2. /\ next \in CallRec /\ next.pc = "header" /\ next.recipe = call[c].recipe
        /\ next.slot = call[c].slot /\ next.dance = call[c].dance
        /\ next.heard = call[c].heard /\ next.calm = call[c].calm
        /\ next.reply = call[c].reply
    BY <1>0, GoesToRecord DEF Points
  <2> HIDE DEF next
  <2>3. /\ UNCHANGED <<listening, pgmRx>>
        /\ \/ call' = [call EXCEPT ![c] = Idle]
           \/ ~(listening /\ pgmRx) /\ call' = [call EXCEPT ![c] = next]
           \/ listening /\ pgmRx /\ Goto(call[c].slot) /\ Received(c, next)
    BY <1>0, <1>s, <2>1, <2>2, GotoHeard
  <2>4. CASE listening /\ pgmRx /\ Goto(call[c].slot) /\ Received(c, next)
    <3>1. /\ call'[c].pc = "header" /\ listening' /\ call'[c].reply = call[c].reply
          /\ call'[c].recipe = call[c].recipe /\ call'[c].slot = call[c].slot
          /\ call'[c].dance = call[c].dance /\ call'[c].calm = call[c].calm
      BY <1>0, <2>2, <2>3, <2>4, ReceivedRecord
    <3>2. OnItsWay(c)'
      BY <2>4, <3>1 DEF OnItsWay, Goto
    <3> QED BY <2>1, <3>1, <3>2, HeardWay
  <2> QED BY <2>1, <2>2, <2>3, <2>4, UnheardWay
<1>3. CASE SendHeader(c)
  <2> DEFINE next == [call[c] EXCEPT !.pc = "chunk", !.i = 0]
  <2>1. call[c].pc = "header" /\ Sends(c, listening, Header, next, FALSE)
    BY <1>3 DEF SendHeader, SendsDump, At
  <2>2. /\ next \in CallRec /\ next.pc = "chunk" /\ next.i = 0 /\ next.recipe = call[c].recipe
        /\ next.slot = call[c].slot /\ next.dance = call[c].dance
        /\ next.heard = call[c].heard /\ next.calm = call[c].calm
        /\ next.reply = call[c].reply
    <3>1. 0 \in 0 .. ChunkCount /\ "chunk" \in Points /\ call[c] \in CallRec
      BY <1>0, HydrasynthConstants DEF Points
    <3> QED BY <3>1 DEF CallRec
  <2> HIDE DEF next
  <2>3. /\ UNCHANGED <<listening, pgmRx>>
        /\ \/ call' = [call EXCEPT ![c] = Idle]
           \/ ~listening /\ call' = [call EXCEPT ![c] = next]
           \/ listening /\ Header /\ Received(c, next)
    BY <1>0, <2>1, <2>2, SendHeard
  <2>4. CASE listening /\ Header /\ Received(c, next)
    <3>1. /\ call'[c].pc = "chunk" /\ call'[c].i = 0 /\ listening' /\ call'[c].reply = call[c].reply
          /\ call'[c].recipe = call[c].recipe /\ call'[c].slot = call[c].slot
          /\ call'[c].dance = call[c].dance /\ call'[c].calm = call[c].calm
      BY <1>0, <2>2, <2>3, <2>4, ReceivedRecord
    <3>2. OnItsWay(c)'
      BY <1>0, <2>1, <2>3, <2>4, <3>1 DEF OnItsWay, Undisturbed, Holds, Header, Chunks
    <3> QED BY <2>1, <3>1, <3>2, HeardWay
  <2> QED BY <2>1, <2>2, <2>3, <2>4, UnheardWay
<1>4. CASE SendChunk(c)
  <2> DEFINE i == call[c].i
             waits == ~Last(call[c])
             next == ChunkSent(call[c])
             less == [ChunkSent(call[c]) EXCEPT !.calm = FALSE]
  <2>1. /\ call[c].pc = "chunk"
        /\ \/ Sends(c, listening, Chunk(i, call[c].recipe, call[c].slot), next, waits)
           \/ Sends(c, listening, Dropped, less, waits)
    BY <1>4 DEF SendChunk, SendsDump, At
  <2>i. i \in Chunks /\ i + 1 \in 0 .. ChunkCount /\ i \in Nat
    BY <1>s, <2>1, HydrasynthConstants DEF Chunks
  <2>2. /\ next \in CallRec /\ next.i = i + 1 /\ next.recipe = call[c].recipe
        /\ next.slot = call[c].slot /\ next.dance = call[c].dance
        /\ next.heard = call[c].heard /\ next.calm = call[c].calm
        /\ next.reply = call[c].reply
        /\ next.pc \in {"chunk", "request", "footer"}
        /\ next.pc # "chunk" => i + 1 = ChunkCount
    BY <1>0, <2>1, ChunkSentOK
  <2>d. less \in CallRec /\ less.heard = call[c].heard /\ ~less.calm /\ less.reply = call[c].reply
    BY <1>0, <2>1, ChunkSentOK, ChunkDroppedOK
  <2> HIDE DEF i, next, less, waits
  <2>3. CASE Sends(c, listening, Chunk(i, call[c].recipe, call[c].slot), next, waits)
    <3>1. /\ UNCHANGED <<listening, pgmRx>>
          /\ \/ call' = [call EXCEPT ![c] = Idle]
             \/ ~listening /\ call' = [call EXCEPT ![c] = next]
             \/ listening /\ Chunk(i, call[c].recipe, call[c].slot) /\ Received(c, next)
      BY <1>0, <2>2, <2>3, SendHeard
    <3>2. CASE listening /\ Chunk(i, call[c].recipe, call[c].slot) /\ Received(c, next)
      <4>1. /\ call'[c].pc = next.pc /\ call'[c].i = i + 1 /\ listening'
            /\ call'[c].reply = call[c].reply
            /\ call'[c].recipe = call[c].recipe /\ call'[c].slot = call[c].slot
            /\ call'[c].dance = call[c].dance /\ call'[c].calm = call[c].calm
        BY <1>0, <2>2, <3>1, <3>2, ReceivedRecord
      <4>2. ASSUME Undisturbed(c)'
            PROVE  /\ active' = call'[c].slot /\ rx'.slot = call'[c].slot
                   /\ \A k \in Chunks : k < i + 1 => rx'.patch[k] = call'[c].recipe
        <5>1. active = call[c].slot /\ Holds(c, i)
          BY <1>0, <2>1, <3>1, <3>2, <4>1, <4>2 DEF OnItsWay, Undisturbed, i
        <5>2. active' = active /\ rx'.slot = (IF i = 0 THEN call[c].slot ELSE rx.slot)
          BY <3>2 DEF Chunk
        <5>3. \A k \in Chunks : k < i + 1 => rx'.patch[k] = call[c].recipe
          BY <1>0, <2>i, <3>2, <5>1, ChunkHeld DEF Holds
        <5>4. rx'.slot = call[c].slot
          BY <2>i, <5>1, <5>2 DEF Holds
        <5> QED BY <4>1, <5>1, <5>2, <5>3, <5>4
      <4>3. OnItsWay(c)'
        BY <2>2, <4>1, <4>2 DEF OnItsWay, Holds
      <4> QED BY <2>1, <4>1, <4>3, HeardWay
    <3> QED BY <2>1, <2>2, <3>1, <3>2, UnheardWay
  <2>4. CASE Sends(c, listening, Dropped, less, waits)
    <3>1. /\ UNCHANGED <<listening, pgmRx>>
          /\ \/ call' = [call EXCEPT ![c] = Idle]
             \/ ~listening /\ call' = [call EXCEPT ![c] = less]
             \/ listening /\ Received(c, less)
      BY <1>0, <2>4, <2>d, SendHeard
    <3>2. CASE listening /\ Received(c, less)
      <4>1. listening' /\ call'[c].reply = call[c].reply /\ ~call'[c].calm
        BY <1>0, <2>d, <3>1, <3>2, ReceivedRecord
      <4>2. OnItsWay(c)'
        BY <4>1 DEF OnItsWay, Undisturbed
      <4> QED BY <2>1, <4>1, <4>2, HeardWay
    <3> QED BY <2>1, <2>d, <3>1, <3>2, UnheardWay
  <2> QED BY <2>1, <2>3, <2>4
<1>5. CASE SendWriteRequest(c)
  <2> DEFINE next == GoesTo(c, "footer")
  <2>1. call[c].pc = "request" /\ Sends(c, listening, WriteRequest, next, TRUE)
    BY <1>5 DEF SendWriteRequest, SendsDump, At
  <2>2. /\ next \in CallRec /\ next.pc = "footer" /\ next.recipe = call[c].recipe
        /\ next.slot = call[c].slot /\ next.dance = call[c].dance
        /\ next.heard = call[c].heard /\ next.calm = call[c].calm
        /\ next.reply = call[c].reply
    BY <1>0, GoesToRecord DEF Points
  <2> HIDE DEF next
  <2>3. /\ UNCHANGED <<listening, pgmRx>>
        /\ \/ call' = [call EXCEPT ![c] = Idle]
           \/ ~listening /\ call' = [call EXCEPT ![c] = next]
           \/ listening /\ WriteRequest /\ Received(c, next)
    BY <1>0, <2>1, <2>2, SendHeard
  <2>4. CASE listening /\ WriteRequest /\ Received(c, next)
    <3>1. /\ call'[c].pc = "footer" /\ listening' /\ call'[c].reply = call[c].reply
          /\ call'[c].recipe = call[c].recipe /\ call'[c].slot = call[c].slot
          /\ call'[c].dance = call[c].dance /\ call'[c].calm = call[c].calm
      BY <1>0, <2>2, <2>3, <2>4, ReceivedRecord
    <3>2. OnItsWay(c)'
      BY <1>0, <2>1, <2>3, <2>4, <3>1 DEF OnItsWay, Undisturbed, Holds, WriteRequest
    <3> QED BY <2>1, <3>1, <3>2, HeardWay
  <2> QED BY <2>1, <2>2, <2>3, <2>4, UnheardWay
<1>6. CASE SendFooter(c)
  <2> DEFINE pc == AfterFooter(call[c])
             waits == call[c].dance = "none"
             next == GoesTo(c, pc)
  <2>1. call[c].pc = "footer" /\ Sends(c, listening, Footer, next, waits)
    BY <1>6 DEF SendFooter, SendsDump, At
  <2>0. pc \in {"drain", "bounceOut"} /\ (call[c].dance = "both" => pc = "bounceOut")
    BY DEF AfterFooter
  <2>w. waits \in BOOLEAN
    OBVIOUS
  <2> HIDE DEF pc, waits
  <2>2. /\ next \in CallRec /\ next.pc = pc /\ next.recipe = call[c].recipe
        /\ next.slot = call[c].slot /\ next.dance = call[c].dance
        /\ next.heard = call[c].heard /\ next.calm = call[c].calm
        /\ next.reply = call[c].reply
    BY <1>0, <2>0, GoesToRecord DEF Points
  <2> HIDE DEF next
  <2>3. /\ UNCHANGED <<listening, pgmRx>>
        /\ \/ call' = [call EXCEPT ![c] = Idle]
           \/ ~listening /\ call' = [call EXCEPT ![c] = next]
           \/ listening /\ Footer /\ Received(c, next)
    BY <1>0, <2>1, <2>2, <2>w, SendHeard
  <2>4. CASE listening /\ Footer /\ Received(c, next)
    <3>1. /\ call'[c].pc = pc /\ listening' /\ call'[c].reply = call[c].reply
          /\ call'[c].recipe = call[c].recipe /\ call'[c].slot = call[c].slot
          /\ call'[c].dance = call[c].dance /\ call'[c].calm = call[c].calm
      BY <1>0, <2>2, <2>3, <2>4, ReceivedRecord
    <3>2. OnItsWay(c)'
      <4> SUFFICES ASSUME Undisturbed(c)' PROVE ram'[call[c].slot] = Whole(call[c].recipe)
        BY <2>0, <3>1 DEF OnItsWay, Undisturbed
      <4>1. active = call[c].slot /\ Holds(c, ChunkCount)
        BY <1>0, <2>1, <2>3, <2>4, <3>1 DEF OnItsWay, Undisturbed
      <4>2. \A k \in Chunks : rx.patch[k] = call[c].recipe
        BY <4>1, HydrasynthConstants DEF Holds, Chunks
      <4>3. rx.patch = Whole(call[c].recipe) /\ rx.slot = active
        BY <1>0, <4>1, <4>2, HydrasynthConstants DEF Holds, Patches, Whole
      <4> HIDE DEF Whole
      <4> QED BY <1>0, <2>4, <4>1, <4>3 DEF Footer
    <3> QED BY <2>1, <3>1, <3>2, HeardWay
  <2> QED BY <2>1, <2>2, <2>3, <2>4, UnheardWay
<1>7. CASE BounceOut(c)
  <2> DEFINE next == GoesTo(c, "settleOut")
  <2>1. call[c].pc = "bounceOut" /\ SendsGoto(c, Bounce, next)
    BY <1>7 DEF BounceOut, At
  <2>2. /\ next \in CallRec /\ next.pc = "settleOut" /\ next.recipe = call[c].recipe
        /\ next.slot = call[c].slot /\ next.dance = call[c].dance
        /\ next.heard = call[c].heard /\ next.calm = call[c].calm
        /\ next.reply = call[c].reply
    BY <1>0, GoesToRecord DEF Points
  <2> HIDE DEF next
  <2>3. /\ UNCHANGED <<listening, pgmRx>>
        /\ \/ call' = [call EXCEPT ![c] = Idle]
           \/ ~(listening /\ pgmRx) /\ call' = [call EXCEPT ![c] = next]
           \/ listening /\ pgmRx /\ Goto(Bounce) /\ Received(c, next)
    BY <1>0, <1>s, <2>1, <2>2, GotoHeard
  <2>4. CASE listening /\ pgmRx /\ Goto(Bounce) /\ Received(c, next)
    <3>1. /\ call'[c].pc = "settleOut" /\ listening' /\ call'[c].reply = call[c].reply
          /\ call'[c].recipe = call[c].recipe /\ call'[c].slot = call[c].slot
          /\ call'[c].dance = call[c].dance /\ call'[c].calm = call[c].calm
      BY <1>0, <2>2, <2>3, <2>4, ReceivedRecord
    <3>2. OnItsWay(c)'
      BY <1>0, <2>1, <2>3, <2>4, <3>1 DEF OnItsWay, Undisturbed, Goto
    <3> QED BY <2>1, <3>1, <3>2, HeardWay
  <2> QED BY <2>1, <2>2, <2>3, <2>4, UnheardWay
<1>8. CASE SettleOut(c)
  <2> DEFINE next == GoesTo(c, "drain")
  <2>1. call[c].pc = "settleOut" /\ SendsGoto(c, call[c].slot, next)
    BY <1>8 DEF SettleOut, At
  <2>2. /\ next \in CallRec /\ next.pc = "drain" /\ next.recipe = call[c].recipe
        /\ next.slot = call[c].slot /\ next.dance = call[c].dance
        /\ next.heard = call[c].heard /\ next.calm = call[c].calm
        /\ next.reply = call[c].reply
    BY <1>0, GoesToRecord DEF Points
  <2> HIDE DEF next
  <2>3. /\ UNCHANGED <<listening, pgmRx>>
        /\ \/ call' = [call EXCEPT ![c] = Idle]
           \/ ~(listening /\ pgmRx) /\ call' = [call EXCEPT ![c] = next]
           \/ listening /\ pgmRx /\ Goto(call[c].slot) /\ Received(c, next)
    BY <1>0, <1>s, <2>1, <2>2, GotoHeard
  <2>4. CASE listening /\ pgmRx /\ Goto(call[c].slot) /\ Received(c, next)
    <3>1. /\ call'[c].pc = "drain" /\ listening' /\ call'[c].reply = call[c].reply
          /\ call'[c].recipe = call[c].recipe /\ call'[c].slot = call[c].slot
          /\ call'[c].dance = call[c].dance /\ call'[c].calm = call[c].calm
      BY <1>0, <2>2, <2>3, <2>4, ReceivedRecord
    <3>2. OnItsWay(c)'
      BY <1>0, <2>1, <2>3, <2>4, <3>1 DEF OnItsWay, Undisturbed, Goto, Plays
    <3> QED BY <2>1, <3>1, <3>2, HeardWay
  <2> QED BY <2>1, <2>2, <2>3, <2>4, UnheardWay
<1>9. CASE Navigate(c)
  <2>1. call[c].pc = "goto" /\ SendsGoto(c, call[c].slot, Idle)
    BY <1>9 DEF Navigate, At
  <2>2. Idle \in CallRec /\ Idle.pc = "idle" /\ Idle.reply = "none"
    BY IdleOK DEF Fit, Idle
  <2>3. \/ call' = [call EXCEPT ![c] = Idle]
        \/ Received(c, Idle)
    BY <1>0, <1>s, <2>1, <2>2, GotoHeard
  <2>4. call'[c].pc = "idle" /\ call'[c].reply = "none"
    BY <1>0, <2>2, <2>3, ReceivedRecord
  <2> QED BY <2>4, IdleWay
<1> QED BY <1>1, <1>2, <1>3, <1>4, <1>5, <1>6, <1>7, <1>8, <1>9

\* A full dance begins at the bounce slot.
LEMMA BeginWay ==
  ASSUME OneCall, WayInv, TypeInv', Waited', NEW c \in Calls,
         ApplyPatch(c) \/ ApplyInit(c) \/ NavigateTo(c)
  PROVE  WayInv'
<1>1. /\ call'[c].reply = "none" /\ ~call'[c].heard
      /\ call'[c].dance = "both" => call'[c].pc = "bounceIn"
  <2>1. ASSUME NEW recipe, NEW slot, NEW dance, NEW save, Begin(c, recipe, slot, dance, save)
        PROVE  /\ call'[c].reply = "none" /\ ~call'[c].heard
               /\ call'[c].dance = "both" => call'[c].pc = "bounceIn"
    <3>1. call'[c] = Starting(recipe, slot, dance, save, hasInput', HandleLive, Alone(c))
      BY <2>1 DEF Begin, Others, Starting
    <3> QED BY <3>1 DEF Starting, Idle
  <2>2. CASE ApplyPatch(c)
    BY <2>1, <2>2 DEF ApplyPatch
  <2>3. CASE ApplyInit(c)
    BY <2>1, <2>3 DEF ApplyInit
  <2>4. CASE NavigateTo(c)
    <3>1. PICK slot \in Targets :
            call'[c] = [Idle EXCEPT !.pc = "goto", !.slot = slot, !.live = HandleLive]
      BY <2>4 DEF NavigateTo, Others
    <3> QED BY <3>1 DEF Idle
  <2> QED BY <2>2, <2>3, <2>4
<1>2. Answered(c)' /\ OnItsWay(c)' /\ Heard(c)'
  BY <1>1 DEF Answered, OnItsWay, Undisturbed, Heard, Claims
<1> QED BY <1>2, OnlyWay

\* A claim is made at the end of the way, by a call that was heard.
LEMMA ReplyWay ==
  ASSUME OneCall, WayInv, TypeInv', Waited', NEW c \in Calls, Reply(c)
  PROVE  WayInv'
<1>0. call \in [Calls -> CallRec] /\ Answered(c) /\ OnItsWay(c)
  BY DEF WayInv, TypeInv, TypeOK
<1>1. /\ call[c].pc = "drain" /\ call'[c].pc = "idle"
      /\ call'[c].recipe = call[c].recipe /\ call'[c].slot = call[c].slot
      /\ call'[c].dance = call[c].dance /\ call'[c].calm = call[c].calm
      /\ call'[c].input = call[c].input
      /\ call'[c].reply = "applied" => ~Silent(c)
      /\ UNCHANGED <<active, sound, pgmRx>>
  BY <1>0 DEF Reply, Verdict, At, CallRec, device
<1>2. Heard(c)'
  BY <1>0, <1>1 DEF Answered, OnItsWay, Undisturbed, Heard, Claims, Plays, Silent
<1>3. Answered(c)' /\ OnItsWay(c)'
  BY <1>1 DEF Answered, OnItsWay
<1> QED BY <1>2, <1>3, OnlyWay

LEMMA OtherWay ==
  ASSUME WayInv, TypeInv', Waited',
         \/ CannotOpen \/ ReconnectMidi
         \/ FlashWritten \/ PanelUsed \/ PanelHeard \/ PowerOff \/ PowerOn
  PROVE  WayInv'
<1>0. call \in [Calls -> CallRec]
  BY DEF WayInv, TypeInv, TypeOK
<1>1. CASE CannotOpen \/ FlashWritten \/ PowerOn
  <2>1. UNCHANGED <<call, listening, pgmRx, active, sound, ram, rx>>
    BY <1>1 DEF CannotOpen, FlashWritten, PowerOn, server, device
  <2> QED BY <2>1 DEF WayInv, Answered, OnItsWay, Undisturbed, Holds, Heard, Claims, Plays
<1>2. CASE ReconnectMidi \/ PanelUsed \/ PowerOff
  <2>1. PICK still \in BOOLEAN : call' = Shaken(still)
    BY <1>2 DEF ReconnectMidi, PanelUsed, PowerOff
  <2>2. ASSUME NEW c \in Calls
        PROVE  /\ call'[c].pc = call[c].pc /\ call'[c].reply = call[c].reply
               /\ ~call'[c].calm
    <3>1. call'[c] = [call[c] EXCEPT !.calm = FALSE, !.live = call[c].live /\ still]
      BY <2>1 DEF Shaken
    <3> QED BY <1>0, <3>1 DEF CallRec
  <2> QED BY <2>2, ShakenWay
<1>3. CASE PanelHeard
  <2>1. ASSUME NEW c \in Calls
        PROVE  /\ call'[c].pc = call[c].pc /\ call'[c].reply = call[c].reply
               /\ ~call'[c].calm
    <3>1. \E h : call'[c] = [call[c] EXCEPT !.calm = FALSE, !.heard = h]
      BY <1>3 DEF PanelHeard
    <3> QED BY <1>0, <3>1 DEF CallRec
  <2> QED BY <2>1, ShakenWay
<1> QED BY <1>1, <1>2, <1>3

LEMMA StepWay ==
  ASSUME OneCall, DumpInv, WayInv, TypeInv', Waited', NEW c \in Calls, Step(c)
  PROVE  WayInv'
<1>1. CASE \/ BounceIn(c) \/ SettleIn(c) \/ SendHeader(c) \/ SendChunk(c)
           \/ SendWriteRequest(c) \/ SendFooter(c) \/ BounceOut(c) \/ SettleOut(c)
           \/ Navigate(c)
  <2>1. ~busy
    BY <1>1, NotBusy DEF BounceIn, SettleIn, SendHeader, SendChunk, SendWriteRequest,
                         SendFooter, BounceOut, SettleOut, Navigate, At
  <2> QED BY <1>1, <2>1, SendWay
<1> QED BY <1>1, BeginWay, ReplyWay DEF Step

\* A reply "Patch applied successfully" is the truth (tools/patch.ts:941-959),
\* for one call at a time and any number of chunks, slots and recipes: after the
\* full dance, at a device that takes program changes ("hard precondition",
\* tools/patch.ts:629) and drops no chunk, with an open input and nothing else
\* going on, the device plays the recipe at the slot, unless that is the slot the
\* dance goes by.
THEOREM AppliedMeansHeard == ASSUME OneCall PROVE Spec => []AppliedIsHeard
<1>1. DumpInv /\ DumpInv' /\ WayInv /\ [Next]_vars => WayInv'
  <2> SUFFICES ASSUME DumpInv, DumpInv', WayInv, [Next]_vars PROVE WayInv'
    OBVIOUS
  <2>1. TypeInv' /\ Waited'
    BY DEF DumpInv
  <2>2. CASE UNCHANGED vars
    BY <2>1, <2>2 DEF vars, server, device, WayInv, Answered, OnItsWay, Undisturbed,
                      Holds, Heard, Claims, Plays
  <2> QED BY <2>1, <2>2, StepWay, OtherWay DEF Next
<1>2. WayInv => AppliedIsHeard
  BY DEF WayInv, Heard, AppliedIsHeard
<1> QED BY InitWay, DumpInvariant, <1>1, <1>2, PTL DEF Spec

-----------------------------------------------------------------------------
(* Values: HydrasynthValues.                                                *)

\* What fits in two data bytes of seven bits, and in two bytes of eight.
Wire(w) == w \in Int /\ 0 <= w /\ w <= 16383
Word(v) == v \in Int /\ 0 <= v /\ v <= 65535

LEMMA WireIsWord == ASSUME NEW w, Wire(w) PROVE Word(w)
BY DEF Wire, Word

LEMMA WordFits ==
  ASSUME NEW p, p.enc = "u16le", NEW v, Word(v)
  PROVE  Accepts(p, v)
BY DEF Accepts, Between, Word

\* The wire value in two data bytes of seven bits, and in two of eight.
LEMMA SevenBits ==
  ASSUME NEW w, Wire(w)
  PROVE  128 * ((w \div 128) % 128) + (w % 128) = w
BY DEF Wire

LEMMA EightBits ==
  ASSUME NEW s, Word(s)
  PROVE  (s % 256) + 256 * ((s \div 256) % 256) = s
BY DEF Word

LEMMA OneByte ==
  ASSUME NEW s \in Int, 0 <= s, s <= 255
  PROVE  s % 256 = s
OBVIOUS

LEMMA OneDataByte ==
  ASSUME NEW s \in Int, 0 <= s, s <= 127
  PROVE  s % 128 = s
OBVIOUS

\* Two's complement in seven bits, and in eight.
LEMMA SignedSeven ==
  ASSUME NEW n \in Int, -64 <= n, n <= 63
  PROVE  Signed(n % 128, 128) = n
BY DEF Signed

LEMMA SignedEight ==
  ASSUME NEW n \in Int, -128 <= n, n <= 127
  PROVE  Signed(n % 256, 256) = n
BY DEF Signed

\* Dividing undoes multiplying, rounded or not.
LEMMA Unscaled ==
  ASSUME NEW n \in Int, NEW s \in Int, n >= 0, s > 0
  PROVE  (n * s) \div s = n /\ Rounded(n * s, s) = n
BY DEF Rounded

LEMMA QuotientBounds ==
  ASSUME NEW a \in Int, NEW d \in Nat \ {0}
  PROVE  \E q \in Int : a \div d = q /\ d * q <= a /\ a < d * q + d
<1>1. a \div d \in Int /\ d * (a \div d) <= a /\ a < d * (a \div d) + d
  OBVIOUS
<1> QED BY <1>1

LEMMA ProductBound ==
  ASSUME NEW a \in Nat, NEW b \in Nat, NEW c \in Nat, a <= b
  PROVE  a * c <= b * c
OBVIOUS

LEMMA FactorBound ==
  ASSUME NEW d \in Nat \ {0}, NEW a \in Int, NEW b \in Int, d * a < d * b
  PROVE  a < b
OBVIOUS

LEMMA RoundedBound ==
  ASSUME NEW d \in Nat \ {0}, NEW y \in Nat, NEW m \in Nat, NEW q \in Int,
         y <= d * m, (2 * d) * q <= 2 * y + d, 2 * y + d < (2 * d) * q + 2 * d
  PROVE  q \in 0 .. m
<1>1. (2 * d) * q < (2 * d) * (m + 1)
  OBVIOUS
<1>2. (2 * d) * 0 < (2 * d) * (q + 1)
  OBVIOUS
<1>3. 2 * d \in Nat \ {0} /\ m + 1 \in Int /\ q + 1 \in Int /\ 0 \in Int
  OBVIOUS
<1>4. q < m + 1 /\ 0 < q + 1
  BY <1>1, <1>2, <1>3, FactorBound
<1> QED BY <1>4

\* x parts of d are a position of 0 .. m.
LEMMA RoundedWithin ==
  ASSUME NEW d \in Nat \ {0}, NEW x \in Nat, x <= d, NEW m \in Nat
  PROVE  Rounded(x * m, d) \in Nat /\ Rounded(x * m, d) <= m
<1>1. PICK y \in Nat : y = x * m /\ y <= d * m
  <2>1. x * m \in Nat /\ x * m <= d * m
    BY ProductBound
  <2> QED BY <2>1
<1>2. PICK a \in Int : a = 2 * y + d
  OBVIOUS
<1>3. PICK b \in Nat \ {0} : b = 2 * d
  OBVIOUS
<1>4. PICK q \in Int : a \div b = q /\ b * q <= a /\ a < b * q + b
  BY QuotientBounds
<1>5. q \in 0 .. m
  BY <1>1, <1>2, <1>3, <1>4, RoundedBound
<1> QED BY <1>1, <1>2, <1>3, <1>4, <1>5 DEF Rounded

LEMMA PlaceWithin ==
  ASSUME NEW lo \in Int, NEW hi \in Int, NEW n \in Int, NEW m \in Nat,
         lo < hi, lo <= n, n <= hi
  PROVE  Rounded((n - lo) * m, hi - lo) \in Nat /\ Rounded((n - lo) * m, hi - lo) <= m
<1>1. PICK d \in Nat \ {0} : d = hi - lo
  OBVIOUS
<1>2. PICK x \in Nat : x = n - lo /\ x <= d
  BY <1>1
<1>3. Rounded(x * m, d) \in Nat /\ Rounded(x * m, d) <= m
  BY <1>2, RoundedWithin
<1> QED BY <1>1, <1>2, <1>3

-----------------------------------------------------------------------------
(* From the wire to the device.                                             *)

\* Where an NRPN puts the device, and where a patch does.
PlacedLive(p, w) == NrpnPosition(p, DataMsb(p, w), DataLsb(w))
PlacedByPatch(p, v) == PatchPosition(p, LowByte(p, v), HighByte(p, v))

\* Fourteen bits that are the position, and that are a scale times it.
Plain(p) == p.slot = FALSE /\ p.enc # "s16le" /\ p.scale = 0 /\ p # Rate
Scaled(p) == p.slot = FALSE /\ p.enc # "s16le" /\ p.scale \in Nat \ {0} /\ p # Rate

LEMMA SentPlain ==
  ASSUME NEW p, Plain(p), NEW w, Wire(w)
  PROVE  PlacedLive(p, w) = w
<1>1. 128 * ((w \div 128) % 128) + (w % 128) = w
  BY SevenBits
<1>2. DataMsb(p, w) = (w \div 128) % 128 /\ DataLsb(w) = w % 128
  BY DEF DataMsb, DataLsb, Plain
<1>3. NrpnPosition(p, DataMsb(p, w), DataLsb(w)) = 128 * DataMsb(p, w) + DataLsb(w)
  BY DEF NrpnPosition, Plain
<1> QED BY <1>1, <1>2, <1>3 DEF PlacedLive

LEMMA SentScaled ==
  ASSUME NEW p, Scaled(p), NEW w, Wire(w)
  PROVE  PlacedLive(p, w) = w \div p.scale
<1>1. 128 * ((w \div 128) % 128) + (w % 128) = w
  BY SevenBits
<1>2. DataMsb(p, w) = (w \div 128) % 128 /\ DataLsb(w) = w % 128
  BY DEF DataMsb, DataLsb, Scaled
<1>3. NrpnPosition(p, DataMsb(p, w), DataLsb(w))
        = (128 * DataMsb(p, w) + DataLsb(w)) \div p.scale
  BY DEF NrpnPosition, Scaled
<1>4. 128 * DataMsb(p, w) + DataLsb(w) = w
  BY <1>1, <1>2
<1> QED BY <1>3, <1>4 DEF PlacedLive

LEMMA SentInSlot ==
  ASSUME NEW p, p.slot = TRUE, p.enc # "s16le", p.scale = 0, p # Rate, NEW w \in Int
  PROVE  /\ p.enc # "s8" /\ 0 <= w /\ w <= 127 => PlacedLive(p, w) = w
         /\ p.enc = "s8" /\ -64 <= w /\ w <= 63 => PlacedLive(p, w) = w
<1>1. CASE p.enc # "s8" /\ 0 <= w /\ w <= 127
  <2>1. w % 128 = w
    BY <1>1, OneDataByte
  <2> QED BY <1>1, <2>1 DEF PlacedLive, NrpnPosition, DataLsb
<1>2. CASE p.enc = "s8" /\ -64 <= w /\ w <= 63
  <2>1. Signed(w % 128, 128) = w
    BY <1>2, SignedSeven
  <2> QED BY <1>2, <2>1 DEF PlacedLive, NrpnPosition, DataLsb
<1> QED BY <1>1, <1>2

\* The two bytes of a number stored in sixteen bits.
LEMMA StoredWhole ==
  ASSUME NEW p, p.enc = "u16le", NEW v, NEW s,
         Eighth(v) = s, Word(s)
  PROVE  LowByte(p, v) + 256 * HighByte(p, v) = s
<1>1. (s % 256) + 256 * ((s \div 256) % 256) = s
  BY EightBits
<1>2. Stored(p, v) = s
  BY DEF Stored
<1>3. LowByte(p, v) = s % 256 /\ HighByte(p, v) = (s \div 256) % 256
  BY <1>2 DEF LowByte, HighByte
<1> QED BY <1>1, <1>3

\* A number comes back as eight times the eighth that was stored.
LEMMA WrittenNumber ==
  ASSUME NEW p, p.enc = "u16le", p.names = 0, NEW w, Word(w)
  PROVE  PlacedByPatch(p, w) = 8 * Eighth(w)
<1>1. Word(Eighth(w))
  BY DEF Eighth, Rounded, Word
<1>2. LowByte(p, w) + 256 * HighByte(p, w) = Eighth(w)
  BY <1>1, StoredWhole
<1>3. PatchPosition(p, LowByte(p, w), HighByte(p, w))
        = 8 * (LowByte(p, w) + 256 * HighByte(p, w))
  BY DEF PatchPosition
<1> QED BY <1>2, <1>3 DEF PlacedByPatch

LEMMA WrittenName ==
  ASSUME NEW p, p.enc = "u16le", p.names > 0, p.scale = 0,
         NEW i \in Int, 0 <= i, i <= 8191
  PROVE  PlacedByPatch(p, i * 8) = i
<1>1. Eighth(i * 8) = i /\ Word(i)
  BY Unscaled DEF Eighth, Word
<1>2. LowByte(p, i * 8) + 256 * HighByte(p, i * 8) = i
  BY <1>1, StoredWhole
<1>3. PatchPosition(p, LowByte(p, i * 8), HighByte(p, i * 8))
        = LowByte(p, i * 8) + 256 * HighByte(p, i * 8)
  BY DEF PatchPosition
<1> QED BY <1>2, <1>3 DEF PlacedByPatch

LEMMA WrittenScaledName ==
  ASSUME NEW p, p.enc = "u16le", p.names > 0, p.scale > 0,
         NEW i \in Int, 0 <= i, i <= 1000
  PROVE  PlacedByPatch(p, i * 64) = i
<1>1. PICK s \in Int : s = i * 8 /\ i * 64 = s * 8 /\ 0 <= s /\ s <= 8000
  OBVIOUS
<1>2. Eighth(s * 8) = s /\ Word(s)
  BY <1>1, Unscaled DEF Eighth, Word
<1>3. LowByte(p, s * 8) + 256 * HighByte(p, s * 8) = s
  BY <1>1, <1>2, StoredWhole
<1>4. PatchPosition(p, LowByte(p, s * 8), HighByte(p, s * 8))
        = (LowByte(p, s * 8) + 256 * HighByte(p, s * 8)) \div 8
  BY DEF PatchPosition
<1>5. s \div 8 = i
  BY <1>1, Unscaled
<1> QED BY <1>1, <1>3, <1>4, <1>5 DEF PlacedByPatch

LEMMA WrittenByte ==
  ASSUME NEW p, p.enc = "u8", NEW v \in Int, 0 <= v, v <= 255
  PROVE  PlacedByPatch(p, v) = v
<1>1. v % 256 = v
  BY OneByte
<1> QED BY <1>1 DEF PlacedByPatch, PatchPosition, LowByte, Stored

LEMMA WrittenSigned ==
  ASSUME NEW p, p.enc = "s8", NEW v \in Int, -128 <= v, v <= 127
  PROVE  PlacedByPatch(p, v) = v
<1>1. Signed(v % 256, 256) = v
  BY SignedEight
<1> QED BY <1>1 DEF PlacedByPatch, PatchPosition, LowByte, Stored

-----------------------------------------------------------------------------
(* From the value to the device.                                            *)

LiveOf(p, v) ==
  LET r == resolveNrpnValue(p, v)
      w == Truncated(r.wire) IN
  IF r.ok THEN Put(TRUE, NrpnPosition(p, DataMsb(p, w), DataLsb(w))) ELSE Put(FALSE, 0)
PatchOf(p, v) ==
  LET r == resolveNrpnValue(p, v)
      h == patchBufferValueFor(p, r.wire)
      b == h \div 2 IN
  IF r.ok /\ Fits(p, h) THEN Put(TRUE, PatchPosition(p, LowByte(p, b), HighByte(p, b)))
                        ELSE Put(FALSE, 0)

\* Set live the device goes to one place, in a patch to another.
Placed(p, v, a, b) == LiveOf(p, v) = Put(TRUE, a) /\ PatchOf(p, v) = Put(TRUE, b)
\* Neither way does it move.
Rejected(p, v) == LiveOf(p, v) = Put(FALSE, 0) /\ PatchOf(p, v) = Put(FALSE, 0)

LEMMA RefusedRejected ==
  ASSUME NEW p, NEW v, resolveNrpnValue(p, v) = Refused
  PROVE  Rejected(p, v)
<1>1. resolveNrpnValue(p, v).ok = FALSE
  BY DEF Refused
<1> QED BY <1>1 DEF Rejected, LiveOf, PatchOf

\* A whole number is itself to the shifts and to the range check.
LEMMA HalvesOfWhole ==
  ASSUME NEW w \in Int
  PROVE  Truncated(2 * w) = w /\ Integral(2 * w) /\ (2 * w) \div 2 = w
BY DEF Truncated, Integral

LEMMA FromWire ==
  ASSUME NEW p, NEW v, NEW w \in Int, NEW b \in Int,
         resolveNrpnValue(p, v) = Resolved(2 * w),
         patchBufferValueFor(p, 2 * w) = 2 * b, Accepts(p, b)
  PROVE  Placed(p, v, PlacedLive(p, w), PlacedByPatch(p, b))
<1>1. resolveNrpnValue(p, v).ok = TRUE /\ resolveNrpnValue(p, v).wire = 2 * w
  BY DEF Resolved
<1>2. Truncated(2 * w) = w /\ Integral(2 * b) /\ (2 * b) \div 2 = b
  BY HalvesOfWhole
<1>3. LiveOf(p, v) = Put(TRUE, PlacedLive(p, w))
  BY <1>1, <1>2 DEF LiveOf, PlacedLive
<1>4. Fits(p, 2 * b)
  BY <1>2 DEF Fits
<1>5. PatchOf(p, v) = Put(TRUE, PlacedByPatch(p, b))
  BY <1>1, <1>2, <1>4 DEF PatchOf, PlacedByPatch
<1> QED BY <1>3, <1>5 DEF Placed

\* A number sent in fourteen bits and stored as an eighth.
InEighths(p) ==
  /\ p.enc = "u16le" /\ p.names = 0 /\ p.scale = 0 /\ p.slot = FALSE
  /\ p.wireMax \in Nat /\ 127 < p.wireMax /\ p.wireMax <= 16383

LEMMA NumberPlaced ==
  ASSUME NEW p, InEighths(p), NEW v, NEW w, Wire(w),
         resolveNrpnValue(p, v) = Resolved(2 * w)
  PROVE  Placed(p, v, w, 8 * Eighth(w))
<1>1. w \in Int
  BY DEF Wire
<1>2. Plain(p)
  BY DEF InEighths, Plain, Rate, Kind
<1>3. PlacedLive(p, w) = w
  BY <1>2, SentPlain
<1>4. patchBufferValueFor(p, 2 * w) = 2 * w
  BY DEF patchBufferValueFor, InEighths
<1>5. PlacedByPatch(p, w) = 8 * Eighth(w)
  BY WireIsWord, WrittenNumber DEF InEighths
<1>6. Accepts(p, w)
  BY WireIsWord, WordFits DEF InEighths
<1> QED BY <1>1, <1>3, <1>4, <1>5, <1>6, FromWire

LEMMA EighthNear ==
  ASSUME NEW w, Wire(w)
  PROVE  8 * Eighth(w) \in Int /\ Near(w, 8 * Eighth(w))
BY DEF Wire, Eighth, Rounded, Near

\* On a ranged parameter, the number's place in the range.
Ranged(p) ==
  /\ InEighths(p) /\ p.ranged = TRUE
  /\ p.lo \in Int /\ p.hi \in Int /\ p.lo < p.hi

LEMMA OnRangeIs ==
  ASSUME NEW p, Ranged(p), NEW h \in Int, 2 * p.lo <= h, h <= 2 * p.hi
  PROVE  /\ OnRange(p, h) = Rounded((h - 2 * p.lo) * p.wireMax, 2 * p.hi - 2 * p.lo)
         /\ Wire(OnRange(p, h))
<1>1. PICK m \in Nat : p.wireMax = m /\ m <= 16383
  BY DEF Ranged, InEighths
<1>2. PICK lo \in Int, hi \in Int :
        2 * p.lo = lo /\ 2 * p.hi = hi /\ lo < hi /\ lo <= h /\ h <= hi
  BY DEF Ranged
<1>3. PICK w \in Nat : w = Rounded((h - lo) * m, hi - lo) /\ w <= m
  BY <1>2, PlaceWithin
<1>4. AtMost(AtLeast(w, 0), m) = w
  BY <1>3 DEF AtMost, AtLeast
<1>5. OnRange(p, h) = w
  BY <1>1, <1>2, <1>3, <1>4 DEF OnRange
<1>6. Wire(w)
  BY <1>1, <1>3 DEF Wire
<1> QED BY <1>1, <1>2, <1>3, <1>5, <1>6

\* On another, its place on a dial of 0 .. 128.
LEMMA OnDialIs ==
  ASSUME NEW p, InEighths(p), NEW h \in Nat, h <= 256
  PROVE  OnDial(p, h) = Rounded(h * p.wireMax, 256) /\ Wire(OnDial(p, h))
<1>1. PICK m \in Nat : p.wireMax = m /\ m <= 16383
  BY DEF InEighths
<1>2. PICK d \in Nat \ {0} : d = 256
  OBVIOUS
<1>3. PICK w \in Nat : w = Rounded(h * m, d) /\ w <= m
  BY <1>2, RoundedWithin
<1>4. AtMost(w, m) = w
  BY <1>3 DEF AtMost
<1>5. OnDial(p, h) = w
  BY <1>1, <1>2, <1>3, <1>4 DEF OnDial
<1>6. Wire(w)
  BY <1>1, <1>3 DEF Wire
<1> QED BY <1>1, <1>2, <1>3, <1>5, <1>6

LEMMA EighthsAreFourteenBit ==
  ASSUME NEW p, InEighths(p)
  PROVE  FourteenBit(p) /\ ~(p.names > 0) /\ ~(p.scale > 0)
BY DEF FourteenBit, InEighths

LEMMA RangedResolved ==
  ASSUME NEW p, Ranged(p), NEW v, v.name = FALSE, v.n \in Int,
         2 * p.lo <= v.n, v.n <= 2 * p.hi
  PROVE  resolveNrpnValue(p, v) = Resolved(2 * OnRange(p, v.n))
<1>1. v.n \in 2 * p.lo .. 2 * p.hi
  BY DEF Ranged
<1>2. FourteenBit(p) /\ p.ranged = TRUE /\ ~(p.names > 0)
  BY EighthsAreFourteenBit DEF Ranged
<1> QED BY <1>1, <1>2 DEF resolveNrpnValue

\* A position of the dial, on a parameter that has one.
Dial(p) == InEighths(p) /\ p.ranged = FALSE /\ p.top = 128
Position(v) == v.name = FALSE /\ v.n \in Nat /\ v.n <= 256

LEMMA DialResolved ==
  ASSUME NEW p, Dial(p), NEW v, Position(v)
  PROVE  resolveNrpnValue(p, v) = Resolved(2 * OnDial(p, v.n))
<1>1. v.n \in 0 .. 256 /\ v.name = FALSE
  BY DEF Position
<1>2. FourteenBit(p) /\ ~(p.names > 0) /\ p.ranged = FALSE
  BY EighthsAreFourteenBit DEF Dial
<1> QED BY <1>1, <1>2 DEF resolveNrpnValue, Unranged

\* A value, whatever kind it is for.
Value(v) == v.name \in BOOLEAN /\ v.n \in Int /\ (v.name => v = Named(v.n)) /\ (~v.name => v = Number(v.n))

\* Either a number of fourteen bits goes to the wire, or nothing does.
Whatever(p, v) ==
  resolveNrpnValue(p, v) = Refused \/ \E w : Wire(w) /\ resolveNrpnValue(p, v) = Resolved(2 * w)

LEMMA UnrangedWire ==
  ASSUME NEW p, InEighths(p), NEW h \in Int,
         0 <= h, h <= 32767, h <= 256 \/ Integral(h)
  PROVE  \E w : Wire(w) /\ Unranged(p, h) = Resolved(2 * w)
<1>1. CASE h <= 256
  <2>1. Wire(OnDial(p, h))
    BY <1>1, OnDialIs
  <2>2. h \in 0 .. 256 /\ FourteenBit(p)
    BY <1>1, EighthsAreFourteenBit
  <2> QED BY <2>1, <2>2 DEF Unranged
<1>2. CASE ~(h <= 256)
  <2>1. PICK w \in Int : w = h \div 2 /\ h = 2 * w
    BY <1>2 DEF Integral
  <2>2. Wire(w)
    BY <2>1 DEF Wire
  <2>3. Unranged(p, h) = Resolved(h)
    BY <1>2 DEF Unranged
  <2> QED BY <2>1, <2>2, <2>3
<1> QED BY <1>1, <1>2

\* A number the rules cover, on a parameter stored in eighths.
LEMMA RuledWire ==
  ASSUME NEW p, InEighths(p), Ranged(p) \/ Dial(p), NEW v, Value(v), Ruled(p, v)
  PROVE  Whatever(p, v)
<1> v.name \in BOOLEAN /\ v.n \in Int
  BY DEF Value
<1>1. FourteenBit(p) /\ ~(p.names > 0) /\ ~(p.scale > 0) /\ p.names = 0
  <2>1. p.names = 0
    BY DEF InEighths
  <2> QED BY <2>1, EighthsAreFourteenBit
<1>2. CASE v.name
  <2>1. ~IndexOn(p, v.n)
    BY <1>1 DEF IndexOn
  <2> QED BY <1>2, <2>1 DEF resolveNrpnValue, Whatever
<1>3. CASE ~v.name /\ Ranged(p)
  <2>1. p.lo \in Int /\ p.hi \in Int /\ p.lo < p.hi /\ p.ranged = TRUE
    BY <1>3 DEF Ranged
  <2>2. CASE 2 * p.lo <= v.n /\ v.n <= 2 * p.hi
    <3>1. resolveNrpnValue(p, v) = Resolved(2 * OnRange(p, v.n))
      BY <1>3, <2>2, RangedResolved
    <3>2. Wire(OnRange(p, v.n))
      BY <1>3, <2>2, OnRangeIs
    <3> QED BY <3>1, <3>2 DEF Whatever
  <2>3. CASE ~(2 * p.lo <= v.n /\ v.n <= 2 * p.hi) /\ p.lo < 0
    <3>1. v.n \notin 2 * p.lo .. 2 * p.hi
      BY <2>1, <2>3
    <3> QED BY <1>1, <1>3, <2>1, <2>3, <3>1 DEF resolveNrpnValue, Whatever
  <2>4. CASE ~(2 * p.lo <= v.n /\ v.n <= 2 * p.hi) /\ ~(p.lo < 0)
    <3>1. v.n \notin 2 * p.lo .. 2 * p.hi
      BY <2>1, <2>4
    <3>2. ~Showable(p, v)
      BY <1>1, <1>3, <2>1, <3>1 DEF Showable, Lowest, Highest
    <3>3. Integral(v.n) /\ 0 <= v.n /\ v.n <= 32767
      BY <1>1, <1>3, <2>4, <3>2 DEF Ruled, Between
    <3>4. resolveNrpnValue(p, v) = Unranged(p, v.n)
      BY <1>1, <1>3, <2>1, <2>4, <3>1 DEF resolveNrpnValue
    <3> QED BY <3>3, <3>4, UnrangedWire DEF Whatever
  <2> QED BY <2>2, <2>3, <2>4
<1>4. CASE ~v.name /\ ~Ranged(p)
  <2>1. p.ranged = FALSE /\ p.top = 128
    BY <1>4 DEF Dial
  <2>2. 0 <= v.n /\ v.n <= 32767 /\ (v.n <= 256 \/ Integral(v.n))
    BY <1>1, <1>4, <2>1 DEF Ruled, Showable, Lowest, Highest, Between
  <2>3. resolveNrpnValue(p, v) = Unranged(p, v.n)
    BY <1>1, <1>4, <2>1 DEF resolveNrpnValue
  <2> QED BY <2>2, <2>3, UnrangedWire DEF Whatever
<1> QED BY <1>2, <1>3, <1>4

\* The two outcomes agree.
Together(p, v) ==
  \/ Rejected(p, v)
  \/ \E a, b : /\ Placed(p, v, a, b)
               /\ IF Tolerance(p) THEN Near(a, b) ELSE a = b

LEMMA EighthsTogether ==
  ASSUME NEW p, InEighths(p), NEW v, Whatever(p, v)
  PROVE  Together(p, v)
<1>1. CASE resolveNrpnValue(p, v) = Refused
  BY <1>1, RefusedRejected DEF Together
<1>2. CASE \E w : Wire(w) /\ resolveNrpnValue(p, v) = Resolved(2 * w)
  <2>1. PICK w : Wire(w) /\ resolveNrpnValue(p, v) = Resolved(2 * w)
    BY <1>2
  <2>2. Placed(p, v, w, 8 * Eighth(w)) /\ Near(w, 8 * Eighth(w))
    BY <2>1, NumberPlaced, EighthNear
  <2>3. Tolerance(p)
    BY DEF Tolerance, InEighths
  <2> QED BY <2>2, <2>3 DEF Together
<1> QED BY <1>1, <1>2 DEF Whatever

\* A value that is the i-th name, or its index as a number.
Index(v, i) == v = Named(i) \/ v = Number(2 * i)

\* Names: their index times their scale.
LEMMA NameResolved ==
  ASSUME NEW p, NEW k \in Int, p.names = k, NEW s \in Nat, p.scale = s,
         NEW i \in Int, 0 <= i, i < k, NEW v, Index(v, i)
  PROVE  /\ s = 0 => resolveNrpnValue(p, v) = Resolved(2 * i)
         /\ s # 0 => resolveNrpnValue(p, v) = Resolved(2 * (i * s))
<1>1. i \in 0 .. p.names - 1 /\ p.names > 0 /\ IndexOn(p, i)
  BY DEF IndexOn
<1>2. CASE v = Named(i)
  <2>1. v.name = TRUE /\ v.n = i
    BY <1>2 DEF Named
  <2>2. resolveNrpnValue(p, v) = Resolved(2 * (i * FactorOf(p)))
    BY <1>1, <2>1 DEF resolveNrpnValue
  <2>3. s = 0 => i * FactorOf(p) = i
    BY DEF FactorOf
  <2>4. s # 0 => i * FactorOf(p) = i * s
    BY DEF FactorOf
  <2> QED BY <2>2, <2>3, <2>4
<1>3. CASE v = Number(2 * i)
  <2>1. v.name = FALSE /\ v.n = 2 * i
    BY <1>3 DEF Number
  <2>2. Integral(v.n) /\ v.n \div 2 = i
    BY <2>1, HalvesOfWhole
  <2>3. ASSUME s = 0 PROVE resolveNrpnValue(p, v) = Resolved(2 * i)
    <3>1. ~FourteenBit(p) /\ ~(p.scale > 0)
      BY <1>1, <2>3 DEF FourteenBit
    <3> QED BY <2>1, <3>1 DEF resolveNrpnValue, Unranged
  <2>4. ASSUME s # 0 PROVE resolveNrpnValue(p, v) = Resolved(2 * (i * s))
    <3>1. p.scale > 0
      BY <2>4
    <3> QED BY <1>1, <2>1, <2>2, <3>1 DEF resolveNrpnValue
  <2> QED BY <2>3, <2>4
<1> QED BY <1>2, <1>3 DEF Index

\* Names in sixteen bits without a scale.
Indexed(p) ==
  /\ p.enc = "u16le" /\ p.scale = 0 /\ p.slot = FALSE /\ p # Rate
  /\ p.names \in Nat /\ p.names <= 8192

LEMMA IndexPlaced ==
  ASSUME NEW p, Indexed(p), NEW i \in Nat, i < p.names, NEW v, Index(v, i)
  PROVE  Placed(p, v, i, i)
<1>1. PICK k \in Nat : p.names = k /\ i < k /\ k <= 8192
  BY DEF Indexed
<1>2. p.enc = "u16le" /\ p.scale = 0 /\ p.names > 0 /\ Plain(p)
  BY DEF Indexed, Plain
<1>3. Wire(i) /\ Word(i * 8) /\ i <= 8191
  BY <1>1 DEF Wire, Word
<1>4. resolveNrpnValue(p, v) = Resolved(2 * i)
  BY <1>1, <1>2, NameResolved
<1>5. PlacedLive(p, i) = i
  BY <1>2, <1>3, SentPlain
<1>6. patchBufferValueFor(p, 2 * i) = 2 * (i * 8)
  BY <1>2 DEF patchBufferValueFor
<1>7. PlacedByPatch(p, i * 8) = i
  BY <1>2, <1>3, WrittenName
<1>8. Accepts(p, i * 8)
  BY <1>2, <1>3, WordFits
<1> QED BY <1>4, <1>5, <1>6, <1>7, <1>8, FromWire

\* Names in sixteen bits at 64 to a name.
Spread(p) ==
  /\ p.enc = "u16le" /\ p.scale = 64 /\ p.slot = FALSE
  /\ p.names \in Nat /\ p.names <= 256

LEMMA SpreadPlaced ==
  ASSUME NEW p, Spread(p), NEW i \in Nat, i < p.names, NEW v, Index(v, i)
  PROVE  Placed(p, v, i, i)
<1>1. PICK k \in Nat : p.names = k /\ i < k /\ k <= 256
  BY DEF Spread
<1>2. p.enc = "u16le" /\ p.scale = 64 /\ p.names > 0 /\ p.scale > 0 /\ Scaled(p)
  BY DEF Spread, Scaled, Rate, Kind
<1>3. Wire(i * 64) /\ i <= 1000
  BY <1>1 DEF Wire
<1>4. resolveNrpnValue(p, v) = Resolved(2 * (i * 64))
  BY <1>1, <1>2, NameResolved
<1>5. PlacedLive(p, i * 64) = i
  <2>1. PlacedLive(p, i * 64) = (i * 64) \div 64
    BY <1>2, <1>3, SentScaled
  <2>2. (i * 64) \div 64 = i
    BY Unscaled
  <2> QED BY <2>1, <2>2
<1>6. patchBufferValueFor(p, 2 * (i * 64)) = 2 * (i * 64)
  BY <1>2 DEF patchBufferValueFor
<1>7. PlacedByPatch(p, i * 64) = i
  BY <1>2, <1>3, WrittenScaledName
<1>8. Accepts(p, i * 64)
  BY <1>2, <1>3, WireIsWord, WordFits
<1> QED BY <1>4, <1>5, <1>6, <1>7, <1>8, FromWire

\* Names in a byte that lose their scale.
LosesScale(p) ==
  /\ p.enc = "u8" /\ p.slot = FALSE
  /\ p.scale \in Nat \ {0} /\ p.scale <= 64
  /\ p.names \in Nat /\ p.names <= 255

LEMMA UnscaledPlaced ==
  ASSUME NEW p, LosesScale(p), NEW i \in Nat, i < p.names, NEW v, Index(v, i)
  PROVE  Placed(p, v, i, i)
<1>1. PICK k \in Nat : p.names = k /\ i < k /\ k <= 255
  BY DEF LosesScale
<1>2. PICK s \in Nat \ {0} : p.scale = s /\ s <= 64
  BY DEF LosesScale
<1>3. p.enc = "u8" /\ Scaled(p)
  BY DEF LosesScale, Scaled, Rate, Kind
<1>4. PICK w \in Nat : w = i * s /\ Wire(w)
  <2>1. i * s \in Nat
    OBVIOUS
  <2>2. i * s <= 255 * s
    BY <1>1, ProductBound
  <2>3. Wire(i * s)
    BY <1>2, <2>1, <2>2 DEF Wire
  <2> QED BY <2>1, <2>3
<1>5. resolveNrpnValue(p, v) = Resolved(2 * w)
  BY <1>1, <1>2, <1>4, NameResolved
<1>6. w \div s = i
  BY <1>4, Unscaled
<1>7. PlacedLive(p, w) = i
  <2>1. PlacedLive(p, w) = w \div p.scale
    BY <1>3, <1>4, SentScaled
  <2> QED BY <1>2, <1>6, <2>1
<1>8. Rounded(2 * w, 2 * s) = i
  <2>1. PICK t \in Nat \ {0} : t = 2 * s
    OBVIOUS
  <2>2. 2 * w = i * t
    <3>1. 2 * (i * s) = i * (2 * s)
      OBVIOUS
    <3> QED BY <1>4, <2>1, <3>1
  <2>3. Rounded(i * t, t) = i
    BY Unscaled
  <2> QED BY <2>1, <2>2, <2>3
<1>9. patchBufferValueFor(p, 2 * w) = 2 * i
  BY <1>2, <1>3, <1>8 DEF patchBufferValueFor
<1>10. PlacedByPatch(p, i) = i
  <2>1. i <= 255
    BY <1>1
  <2> QED BY <1>3, <2>1, WrittenByte
<1>11. Accepts(p, i)
  BY <1>1, <1>3 DEF Accepts, Between
<1> QED BY <1>5, <1>7, <1>9, <1>10, <1>11, FromWire

\* A byte that is the wire value, of a slot or not.
LEMMA BytePlaced ==
  ASSUME NEW p, p.enc = "u8", p.scale = 0,
         NEW v, NEW w \in Int, 0 <= w, w <= 255,
         p.slot = FALSE \/ (p.slot = TRUE /\ w <= 127),
         resolveNrpnValue(p, v) = Resolved(2 * w)
  PROVE  Placed(p, v, w, w)
<1>1. p # Rate
  BY DEF Rate, Kind
<1>2. PlacedLive(p, w) = w
  <2>1. CASE p.slot = TRUE
    BY <1>1, <2>1, SentInSlot
  <2>2. CASE p.slot = FALSE
    <3>1. Wire(w) /\ Plain(p)
      BY <1>1, <2>2 DEF Wire, Plain
    <3> QED BY <3>1, SentPlain
  <2> QED BY <2>1, <2>2
<1>3. patchBufferValueFor(p, 2 * w) = 2 * w
  BY DEF patchBufferValueFor
<1>4. PlacedByPatch(p, w) = w
  BY WrittenByte
<1>5. Accepts(p, w)
  BY DEF Accepts, Between
<1> QED BY <1>2, <1>3, <1>4, <1>5, FromWire

\* A signed number of a slot.
LEMMA SignedPlaced ==
  ASSUME NEW p, p.enc = "s8", p.names = 0, p.scale = 0, p.wireMax = 0, p.slot = TRUE,
         NEW n \in Int, -64 <= n, n <= 63, NEW v, v.name = FALSE, v.n = 2 * n
  PROVE  Placed(p, v, n, n)
<1>1. p # Rate /\ ~FourteenBit(p)
  BY DEF Rate, Kind, FourteenBit
<1>2. resolveNrpnValue(p, v) = Resolved(2 * n)
  BY <1>1 DEF resolveNrpnValue, Unranged
<1>3. PlacedLive(p, n) = n
  BY <1>1, SentInSlot
<1>4. patchBufferValueFor(p, 2 * n) = 2 * n
  BY DEF patchBufferValueFor
<1>5. PlacedByPatch(p, n) = n
  <2>1. -128 <= n /\ n <= 127
    OBVIOUS
  <2> QED BY <2>1, WrittenSigned
<1>6. Accepts(p, n)
  BY DEF Accepts, Between
<1> QED BY <1>2, <1>3, <1>4, <1>5, <1>6, FromWire

-----------------------------------------------------------------------------
(* The regular kinds have these shapes.                                     *)

LEMMA LinearKinds ==
  \A p \in {Bipolar, Keytrack, Percent, Feedback, Predelay} : Ranged(p)
<1> USE DEF Ranged, InEighths, Kind
<1>1. Ranged(Bipolar)  BY DEF Bipolar
<1>2. Ranged(Keytrack)  BY DEF Keytrack
<1>3. Ranged(Percent)  BY DEF Percent
<1>4. Ranged(Feedback)  BY DEF Feedback
<1>5. Ranged(Predelay)  BY DEF Predelay
<1> QED BY ONLY <1>1, <1>2, <1>3, <1>4, <1>5

LEMMA DialKind == Dial(Knob)
BY DEF Dial, InEighths, Kind, Knob

LEMMA InputIsValue ==
  ASSUME NEW p, NEW v \in Inputs(p)
  PROVE  Value(v)
<1>1. CASE v \in {Named(i) : i \in 0 .. p.names}
  <2>1. PICK i \in 0 .. p.names : v = Named(i)
    BY <1>1
  <2>2. i \in Int
    OBVIOUS
  <2> QED BY <2>1, <2>2 DEF Value, Named
<1>2. CASE v \in {Number(h) : h \in Around(p) \cup Limits}
  <2>1. PICK h \in Around(p) \cup Limits : v = Number(h)
    BY <1>2
  <2>2. h \in Int
    <3>1. ASSUME NEW x \in Limits PROVE x \in Int
      <4>1. PICK n \in {-129, 110, 127, 128, 200, 255, 300, 8192, 16383, 16384, 65536},
                 f \in {0, 1} : x = 2 * n + f
        BY <3>1 DEF Limits
      <4>2. n \in Int /\ f \in Int
        OBVIOUS
      <4> QED BY <4>1, <4>2
    <3>2. Around(p) \subseteq Int
      BY DEF Around
    <3> QED BY <3>1, <3>2
  <2> QED BY <2>1, <2>2 DEF Value, Number
<1> QED BY <1>1, <1>2 DEF Inputs

\* On a parameter with names, a value the device shows is one of them.
LEMMA ShownIndex ==
  ASSUME NEW p, p.names \in Nat, p.names > 0, p.ranged = FALSE,
         NEW v, Value(v), Showable(p, v)
  PROVE  \E i \in Nat : i < p.names /\ Index(v, i)
<1>1. CASE v.name
  <2>1. v.n \in Nat /\ v.n < p.names
    BY <1>1 DEF Value, Showable, IndexOn
  <2> QED BY <1>1, <2>1 DEF Value, Index
<1>2. CASE ~v.name
  <2>1. v.n \in 0 .. 2 * (p.names - 1) /\ Integral(v.n)
    BY <1>2 DEF Showable, Lowest, Highest, FourteenBit
  <2>2. PICK i \in Nat : v.n = 2 * i /\ i < p.names
    <3>1. v.n \div 2 \in Nat /\ v.n = 2 * (v.n \div 2) /\ v.n \div 2 < p.names
      BY <2>1 DEF Integral
    <3> QED BY <3>1
  <2> QED BY <1>2, <2>2 DEF Value, Index
<1> QED BY <1>1, <1>2

\* Each name, and its index as a number, goes to its own place both ways.
LEMMA NamedKindsPlaced ==
  \A p \in {FxType, Time, Division, Wave, Mode} : \A i \in Nat : \A v :
     i < p.names /\ Index(v, i) => Placed(p, v, i, i)
<1>1. \A i \in Nat : \A v : i < FxType.names /\ Index(v, i) => Placed(FxType, v, i, i)
  <2>1. LosesScale(FxType)
    BY DEF FxType, Kind, LosesScale
  <2> QED BY <2>1, UnscaledPlaced
<1>2. \A i \in Nat : \A v : i < Time.names /\ Index(v, i) => Placed(Time, v, i, i)
  <2>1. Spread(Time)
    BY DEF Time, Kind, Spread
  <2> QED BY <2>1, SpreadPlaced
<1>3. \A i \in Nat : \A v : i < Division.names /\ Index(v, i) => Placed(Division, v, i, i)
  <2>1. Indexed(Division)
    BY DEF Division, Rate, Kind, Indexed
  <2> QED BY <2>1, IndexPlaced
<1>4. \A i \in Nat : \A v : i < Wave.names /\ Index(v, i) => Placed(Wave, v, i, i)
  <2> SUFFICES ASSUME NEW i \in Nat, NEW v, i < Wave.names, Index(v, i)
               PROVE  Placed(Wave, v, i, i)
    OBVIOUS
  <2>1. Wave.enc = "u8" /\ Wave.scale = 0 /\ Wave.slot = FALSE /\ Wave.names = 219
    BY DEF Wave, Kind
  <2>2. resolveNrpnValue(Wave, v) = Resolved(2 * i)
    BY <2>1, NameResolved
  <2>3. i \in Int /\ 0 <= i /\ i <= 255
    BY <2>1
  <2> QED BY <2>1, <2>2, <2>3, BytePlaced
<1>5. \A i \in Nat : \A v : i < Mode.names /\ Index(v, i) => Placed(Mode, v, i, i)
  <2> SUFFICES ASSUME NEW i \in Nat, NEW v, i < Mode.names, Index(v, i)
               PROVE  Placed(Mode, v, i, i)
    OBVIOUS
  <2>1. Mode.enc = "u8" /\ Mode.scale = 0 /\ Mode.slot = TRUE /\ Mode.names = 2
    BY DEF Mode, Kind
  <2>2. resolveNrpnValue(Mode, v) = Resolved(2 * i)
    BY <2>1, NameResolved
  <2>3. i \in Int /\ 0 <= i /\ i <= 127 /\ i <= 255
    BY <2>1
  <2> QED BY <2>1, <2>2, <2>3, BytePlaced
<1> QED BY ONLY <1>1, <1>2, <1>3, <1>4, <1>5

LEMMA NamedKinds ==
  \A p \in {FxType, Time, Division, Wave, Mode} :
     /\ p.names \in Nat /\ p.names > 0 /\ p.ranged = FALSE
     /\ p.enc # "u16le" \/ p.names > 0
     /\ ~FourteenBit(p) /\ p.scale \in Nat /\ ~Tolerance(p)
<1> USE DEF FourteenBit, Tolerance, Kind
<1>1. FxType.names = 10 /\ FxType.ranged = FALSE /\ FxType.scale = 8 BY DEF FxType
<1>2. Time.names = 129 /\ Time.ranged = FALSE /\ Time.scale = 64 BY DEF Time
<1>3. Division.names = 21 /\ Division.ranged = FALSE /\ Division.scale = 0 BY DEF Division
<1>4. Wave.names = 219 /\ Wave.ranged = FALSE /\ Wave.scale = 0 BY DEF Wave
<1>5. Mode.names = 2 /\ Mode.ranged = FALSE /\ Mode.scale = 0 BY DEF Mode
<1> QED BY <1>1, <1>2, <1>3, <1>4, <1>5

\* Anything else the rules cover is refused.
LEMMA NamedKindsRefuse ==
  ASSUME NEW p \in {FxType, Time, Division, Wave, Mode}, NEW v, Value(v),
         Ruled(p, v), ~Showable(p, v)
  PROVE  Rejected(p, v)
<1>1. /\ p.names \in Nat /\ p.names > 0 /\ p.ranged = FALSE
      /\ ~FourteenBit(p) /\ p.scale \in Nat
  BY NamedKinds
<1>2. CASE v.name
  <2>1. ~IndexOn(p, v.n)
    BY <1>2 DEF Showable
  <2>2. resolveNrpnValue(p, v) = Refused
    BY <1>2, <2>1 DEF resolveNrpnValue
  <2> QED BY <2>2, RefusedRejected
<1>3. CASE ~v.name
  <2>1. p.scale > 0
    BY <1>1, <1>3 DEF Ruled
  <2>2. ~(Integral(v.n) /\ IndexOn(p, v.n \div 2))
    <3>1. SUFFICES ASSUME Integral(v.n), IndexOn(p, v.n \div 2) PROVE FALSE
      OBVIOUS
    <3>2. v.n = 2 * (v.n \div 2) /\ v.n \div 2 \in 0 .. p.names - 1
      BY <3>1 DEF Integral, IndexOn, Value
    <3>3. v.n \in 2 * 0 .. 2 * (p.names - 1)
      BY <1>1, <3>2
    <3> QED BY <1>1, <1>3, <3>1, <3>3 DEF Showable, Lowest, Highest
  <2>3. resolveNrpnValue(p, v) = Refused
    BY <1>1, <1>3, <2>1, <2>2 DEF resolveNrpnValue
  <2> QED BY <2>3, RefusedRejected
<1> QED BY <1>2, <1>3

\* Glide times and semitones: whole numbers of the range, and no names.
LEMMA GlidePlaced ==
  ASSUME NEW v, Value(v)
  PROVE  /\ v.name => Rejected(Glide, v)
         /\ Showable(Glide, v) =>
              ~v.name /\ \E n \in Int : v.n = 2 * n /\ Placed(Glide, v, n, n)
<1>1. /\ Glide.enc = "u8" /\ Glide.scale = 0 /\ Glide.slot = FALSE /\ Glide.ranged = FALSE
      /\ Glide.names = 0 /\ Glide.top = 127 /\ Glide.wireMax = 127
  BY DEF Glide, Kind
<1>2. ~FourteenBit(Glide) /\ ~IndexOn(Glide, v.n)
  BY <1>1 DEF FourteenBit, IndexOn
<1>3. ASSUME v.name PROVE Rejected(Glide, v)
  <2>1. resolveNrpnValue(Glide, v) = Refused
    BY <1>2, <1>3 DEF resolveNrpnValue
  <2> QED BY <2>1, RefusedRejected
<1>4. ASSUME Showable(Glide, v)
      PROVE  ~v.name /\ \E n \in Int : v.n = 2 * n /\ Placed(Glide, v, n, n)
  <2>1. ~v.name /\ v.n \in 0 .. 254 /\ Integral(v.n)
    BY <1>1, <1>2, <1>4 DEF Showable, Lowest, Highest
  <2>2. PICK n \in Int : v.n = 2 * n /\ 0 <= n /\ n <= 255
    <3>1. v.n \div 2 \in Int /\ v.n = 2 * (v.n \div 2) /\ 0 <= v.n \div 2 /\ v.n \div 2 <= 255
      BY <2>1 DEF Integral
    <3> QED BY <2>1, <3>1
  <2>3. resolveNrpnValue(Glide, v) = Resolved(2 * n)
    BY <1>1, <1>2, <2>1, <2>2 DEF resolveNrpnValue, Unranged
  <2>4. Placed(Glide, v, n, n)
    BY <1>1, <2>2, <2>3, BytePlaced
  <2> QED BY <2>1, <2>2, <2>4
<1> QED BY <1>3, <1>4

LEMMA SemitonePlaced ==
  ASSUME NEW v, Value(v)
  PROVE  /\ v.name => Rejected(Semitone, v)
         /\ Showable(Semitone, v) =>
              ~v.name /\ \E n \in Int : v.n = 2 * n /\ Placed(Semitone, v, n, n)
<1>1. /\ Semitone.enc = "s8" /\ Semitone.names = 0 /\ Semitone.scale = 0
      /\ Semitone.wireMax = 0 /\ Semitone.slot = TRUE /\ Semitone.ranged = TRUE
      /\ Semitone.lo = -36 /\ Semitone.hi = 36
  BY DEF Semitone, Kind
<1>2. ~FourteenBit(Semitone) /\ ~IndexOn(Semitone, v.n)
  BY <1>1 DEF FourteenBit, IndexOn
<1>3. ASSUME v.name PROVE Rejected(Semitone, v)
  <2>1. resolveNrpnValue(Semitone, v) = Refused
    BY <1>2, <1>3 DEF resolveNrpnValue
  <2> QED BY <2>1, RefusedRejected
<1>4. ASSUME Showable(Semitone, v)
      PROVE  ~v.name /\ \E n \in Int : v.n = 2 * n /\ Placed(Semitone, v, n, n)
  <2>1. ~v.name /\ v.n \in -72 .. 72 /\ Integral(v.n)
    BY <1>1, <1>2, <1>4 DEF Showable, Lowest, Highest
  <2>2. PICK n \in Int : v.n = 2 * n /\ -64 <= n /\ n <= 63
    <3>1. v.n = 2 * (v.n \div 2) /\ -64 <= v.n \div 2 /\ v.n \div 2 <= 63
      BY <2>1 DEF Integral
    <3> QED BY <2>1, <3>1
  <2>3. v.name = FALSE
    BY <2>1 DEF Value
  <2>4. Placed(Semitone, v, n, n)
    BY <1>1, <2>2, <2>3, SignedPlaced
  <2> QED BY <2>1, <2>2, <2>4
<1> QED BY <1>3, <1>4

LEMMA UnmarkedKinds ==
  \A p \in {Glide, Semitone} :
     ~FourteenBit(p) /\ ~(p.scale > 0) /\ p.enc # "u16le" /\ ~Tolerance(p)
<1> USE DEF FourteenBit, Tolerance, Kind
<1>1. Glide.enc = "u8" /\ Glide.scale = 0 /\ ~FourteenBit(Glide) BY DEF Glide
<1>2. Semitone.enc = "s8" /\ Semitone.scale = 0 /\ ~FourteenBit(Semitone) BY DEF Semitone
<1> QED BY <1>1, <1>2

LEMMA RegularTogether ==
  ASSUME NEW p \in Regular, NEW v, Value(v), Ruled(p, v)
  PROVE  Together(p, v)
<1>1. CASE p \in {Bipolar, Keytrack, Percent, Feedback, Predelay}
  <2>1. Ranged(p) /\ InEighths(p)
    BY <1>1, LinearKinds DEF Ranged
  <2>2. Whatever(p, v)
    BY <2>1, RuledWire
  <2> QED BY <2>1, <2>2, EighthsTogether
<1>2. CASE p = Knob
  <2>1. Dial(p) /\ InEighths(p)
    BY <1>2, DialKind DEF Dial
  <2>2. Whatever(p, v)
    BY <2>1, RuledWire
  <2> QED BY <2>1, <2>2, EighthsTogether
<1>3. CASE p \in {FxType, Time, Division, Wave, Mode}
  <2>1. /\ p.names \in Nat /\ p.names > 0 /\ p.ranged = FALSE /\ ~Tolerance(p)
    BY <1>3, NamedKinds
  <2>2. CASE Showable(p, v)
    <3>1. PICK i \in Nat : i < p.names /\ Index(v, i)
      BY <2>1, <2>2, ShownIndex
    <3>2. Placed(p, v, i, i)
      BY <1>3, <3>1, NamedKindsPlaced
    <3> QED BY <2>1, <3>2 DEF Together
  <2>3. CASE ~Showable(p, v)
    BY <1>3, <2>3, NamedKindsRefuse DEF Together
  <2> QED BY <2>2, <2>3
<1>4. CASE p \in {Glide, Semitone}
  <2>1. v.name \/ Showable(p, v)
    BY <1>4, UnmarkedKinds DEF Ruled
  <2> QED BY <1>4, <2>1, UnmarkedKinds, GlidePlaced, SemitonePlaced DEF Together
<1> QED BY <1>1, <1>2, <1>3, <1>4 DEF Regular

-----------------------------------------------------------------------------
(* What the device shows.                                                   *)

\* Both places show the value that was asked for.
Shown(p, v) ==
  \E a, b : Placed(p, v, a, b) /\ Shows(p, v, a) /\ Shows(p, v, b)

\* A position that is a name or a whole number.
LEMMA PlainShown ==
  ASSUME NEW p, p.enc # "u16le" \/ p.names > 0, NEW v, NEW n \in Int, Asked(v) = 10 * n
  PROVE  Shows(p, v, n)
<1>1. /\ p # Knob /\ p # Bipolar /\ p # Percent /\ p # Feedback /\ p # Keytrack
      /\ p # Predelay
  BY DEF Knob, Bipolar, Percent, Feedback, Keytrack, Predelay, Kind
<1>2. Display(p, n) = 10 * n /\ Under(p) = 0 /\ Over(p) = 0
  BY <1>1 DEF Display, Under, Over
<1> QED BY <1>2 DEF Shows, Between

\* The place of a number in halves, and what is shown of it there and within
\* half of a patch's step.
LEMMA PercentShown ==
  ASSUME NEW h \in Int, 0 <= h, h <= 200, NEW w \in Int, w = Rounded(h * 8192, 200),
         NEW at \in Int, Near(w, at)
  PROVE  Between(10 * ((at * 100) \div 8192) - 5 * h, -10, 0)
<1>1. 400 * w <= 16384 * h + 200 /\ 16384 * h + 200 < 400 * w + 400
  BY DEF Rounded
<1>2. w - 4 <= at /\ at <= w + 4
  BY DEF Near
<1>3. PICK q \in Int : (at * 100) \div 8192 = q /\ 8192 * q <= at * 100 /\ at * 100 < 8192 * q + 8192
  OBVIOUS
<1>4. 2 * q <= h /\ h <= 2 * q + 2
  BY <1>1, <1>2, <1>3
<1> QED BY <1>3, <1>4 DEF Between

LEMMA FeedbackShown ==
  ASSUME NEW h \in Int, 0 <= h, h <= 300, NEW w \in Int, w = Rounded(h * 8192, 300),
         NEW at \in Int, Near(w, at)
  PROVE  Between(10 * ((at * 150) \div 8192) - 5 * h, -10, 0)
<1>1. 600 * w <= 16384 * h + 300 /\ 16384 * h + 300 < 600 * w + 600
  BY DEF Rounded
<1>2. w - 4 <= at /\ at <= w + 4
  BY DEF Near
<1>3. PICK q \in Int : (at * 150) \div 8192 = q /\ 8192 * q <= at * 150 /\ at * 150 < 8192 * q + 8192
  OBVIOUS
<1>4. 2 * q <= h /\ h <= 2 * q + 2
  BY <1>1, <1>2, <1>3
<1> QED BY <1>3, <1>4 DEF Between

LEMMA KeytrackShown ==
  ASSUME NEW h \in Int, -400 <= h, h <= 400,
         NEW w \in Int, w = Rounded((h + 400) * 8192, 800), NEW at \in Int, Near(w, at)
  PROVE  Between(10 * ((at * 400) \div 8192 - 200) - 5 * h, -10, 0)
<1>1. 1600 * w <= 16384 * (h + 400) + 800 /\ 16384 * (h + 400) + 800 < 1600 * w + 1600
  BY DEF Rounded
<1>2. w - 4 <= at /\ at <= w + 4
  BY DEF Near
<1>3. PICK q \in Int : (at * 400) \div 8192 = q /\ 8192 * q <= at * 400 /\ at * 400 < 8192 * q + 8192
  OBVIOUS
<1>4. 2 * q <= h + 400 /\ h + 400 <= 2 * q + 2
  BY <1>1, <1>2, <1>3
<1> QED BY <1>3, <1>4 DEF Between

LEMMA PredelayShown ==
  ASSUME NEW h \in Int, 0 <= h, h <= 500, NEW w \in Int, w = Rounded(h * 8192, 500),
         NEW at \in Int, Near(w, at)
  PROVE  Between((Rounded(at * 2495, 8192) + 5) - 5 * h, -1, 6)
<1>1. 1000 * w <= 16384 * h + 500 /\ 16384 * h + 500 < 1000 * w + 1000
  BY DEF Rounded
<1>2. w - 4 <= at /\ at <= w + 4
  BY DEF Near
<1>3. PICK q \in Int : /\ Rounded(at * 2495, 8192) = q
                       /\ 16384 * q <= 4990 * at + 8192 /\ 4990 * at + 8192 < 16384 * q + 16384
  BY DEF Rounded
<1>4. q + 5 <= 5 * h + 6 /\ 5 * h - 1 <= q + 5
  BY <1>1, <1>2, <1>3
<1> QED BY <1>3, <1>4 DEF Between

\* A number whose place is a multiple of a patch's step is shown as it is.
LEMMA WholeSteps ==
  ASSUME NEW x \in Int
  PROVE  /\ Rounded(x * 8192, 256) = 32 * x
         /\ 8 * Eighth(32 * x) = 32 * x
         /\ Rounded(10 * (32 * x), 64) = 5 * x
BY DEF Rounded, Eighth

LEMMA RangedPlaced ==
  ASSUME NEW p, Ranged(p), NEW v, Value(v), Showable(p, v)
  PROVE  /\ ~v.name /\ 2 * p.lo <= v.n /\ v.n <= 2 * p.hi
         /\ Wire(OnRange(p, v.n))
         /\ OnRange(p, v.n) = Rounded((v.n - 2 * p.lo) * p.wireMax, 2 * p.hi - 2 * p.lo)
         /\ Placed(p, v, OnRange(p, v.n), 8 * Eighth(OnRange(p, v.n)))
<1>1. p.names = 0 /\ p.ranged = TRUE /\ p.lo \in Int /\ p.hi \in Int /\ InEighths(p)
  BY DEF Ranged, InEighths
<1>2. ~v.name /\ 2 * p.lo <= v.n /\ v.n <= 2 * p.hi
  BY <1>1 DEF Showable, Lowest, Highest, IndexOn
<1>3. v.name = FALSE /\ v.n \in Int
  BY <1>2 DEF Value
<1>4. /\ Wire(OnRange(p, v.n))
      /\ OnRange(p, v.n) = Rounded((v.n - 2 * p.lo) * p.wireMax, 2 * p.hi - 2 * p.lo)
  BY <1>2, <1>3, OnRangeIs
<1>5. resolveNrpnValue(p, v) = Resolved(2 * OnRange(p, v.n))
  BY <1>2, <1>3, RangedResolved
<1> QED BY <1>1, <1>2, <1>4, <1>5, NumberPlaced

LEMMA KnobShown ==
  ASSUME NEW v, Value(v), Showable(Knob, v)
  PROVE  Shown(Knob, v)
<1>1. /\ InEighths(Knob) /\ Knob.ranged = FALSE /\ Knob.top = 128
      /\ Knob.names = 0 /\ Knob.wireMax = 8192
  BY DialKind DEF Dial, Knob, Kind
<1>2. v.name = FALSE /\ v.n \in Nat /\ v.n <= 256
  BY <1>1 DEF Value, Showable, Lowest, Highest, IndexOn
<1>3. OnDial(Knob, v.n) = 32 * v.n /\ Wire(32 * v.n)
  BY <1>1, <1>2, OnDialIs, WholeSteps
<1>4. resolveNrpnValue(Knob, v) = Resolved(2 * (32 * v.n))
  <2>1. resolveNrpnValue(Knob, v) = Resolved(2 * OnDial(Knob, v.n))
    BY <1>2, DialKind, DialResolved DEF Position
  <2> QED BY <1>3, <2>1
<1>5. Placed(Knob, v, 32 * v.n, 32 * v.n)
  <2>1. Placed(Knob, v, 32 * v.n, 8 * Eighth(32 * v.n))
    BY <1>1, <1>3, <1>4, NumberPlaced
  <2> QED BY <1>2, <2>1, WholeSteps
<1>6. Shows(Knob, v, 32 * v.n)
  <2>1. Knob # Bipolar /\ Knob # Predelay /\ Knob \notin {Percent, Feedback, Keytrack}
    BY DEF Knob, Bipolar, Predelay, Percent, Feedback, Keytrack, Kind
  <2>2. Display(Knob, 32 * v.n) = 5 * v.n
    <3>1. Display(Knob, 32 * v.n) = Rounded(10 * (32 * v.n), 64)
      BY <2>1 DEF Display
    <3> QED BY <1>2, <3>1, WholeSteps
  <2>3. Asked(v) = 5 * v.n
    BY <1>2 DEF Asked
  <2> QED BY <1>2, <2>1, <2>2, <2>3 DEF Shows, Under, Over, Between
<1> QED BY <1>5, <1>6 DEF Shown

LEMMA BipolarShown ==
  ASSUME NEW v, Value(v), Showable(Bipolar, v)
  PROVE  Shown(Bipolar, v)
<1>1. /\ Ranged(Bipolar) /\ Bipolar.wireMax = 8192
      /\ 2 * Bipolar.lo = -128 /\ 2 * Bipolar.hi = 128
  BY LinearKinds DEF Bipolar, Kind
<1>2. /\ v.name = FALSE /\ v.n \in Int
      /\ OnRange(Bipolar, v.n) = Rounded((v.n + 128) * 8192, 256)
      /\ Placed(Bipolar, v, OnRange(Bipolar, v.n), 8 * Eighth(OnRange(Bipolar, v.n)))
  <2>1. v.n \in Int /\ v.name \in BOOLEAN
    BY DEF Value
  <2>2. v.n - (-128) = v.n + 128 /\ 128 - (-128) = 256
    BY <2>1
  <2> QED BY <1>1, <2>1, <2>2, RangedPlaced
<1>3. PICK x \in Int : x = v.n + 128
  BY <1>2
<1>4. Placed(Bipolar, v, 32 * x, 32 * x)
  BY <1>2, <1>3, WholeSteps
<1>5. Shows(Bipolar, v, 32 * x)
  <2>1. Bipolar # Knob /\ Bipolar # Predelay /\ Bipolar \notin {Percent, Feedback, Keytrack}
    BY DEF Bipolar, Knob, Predelay, Percent, Feedback, Keytrack, Kind
  <2>2. Display(Bipolar, 32 * x) = 5 * x - 640
    BY <1>3, <2>1, WholeSteps DEF Display
  <2>3. Asked(v) = 5 * v.n
    BY <1>2 DEF Asked
  <2> QED BY <1>2, <1>3, <2>1, <2>2, <2>3 DEF Shows, Under, Over, Between
<1> QED BY <1>4, <1>5 DEF Shown

\* A parameter on a range is shown within its bounds at each place near its
\* wire value.
LEMMA RangedShown ==
  ASSUME NEW p, Ranged(p), NEW v, Value(v), Showable(p, v),
         \A at \in Int : Near(OnRange(p, v.n), at) => Shows(p, v, at)
  PROVE  Shown(p, v)
<1>1. Wire(OnRange(p, v.n)) /\ Placed(p, v, OnRange(p, v.n), 8 * Eighth(OnRange(p, v.n)))
  BY RangedPlaced
<1>2. OnRange(p, v.n) \in Int /\ Near(OnRange(p, v.n), OnRange(p, v.n))
  BY <1>1 DEF Wire, Near
<1>3. /\ 8 * Eighth(OnRange(p, v.n)) \in Int
      /\ Near(OnRange(p, v.n), 8 * Eighth(OnRange(p, v.n)))
  BY <1>1, EighthNear
<1> QED BY <1>1, <1>2, <1>3 DEF Shown

LEMMA PercentagesShown ==
  ASSUME NEW p \in {Percent, Feedback, Keytrack}, NEW v, Value(v), Showable(p, v)
  PROVE  Shown(p, v)
<1>1. /\ Ranged(p) /\ ~v.name /\ v.n \in Int /\ 2 * p.lo <= v.n /\ v.n <= 2 * p.hi
      /\ Wire(OnRange(p, v.n))
      /\ OnRange(p, v.n) = Rounded((v.n - 2 * p.lo) * p.wireMax, 2 * p.hi - 2 * p.lo)
  BY LinearKinds, RangedPlaced DEF Value
<1>2. OnRange(p, v.n) \in Int
  BY <1>1 DEF Wire
<1>3. Asked(v) = 5 * v.n
  BY <1>1 DEF Asked
<1>4. p # Knob /\ p # Bipolar /\ p # Predelay
  BY DEF Knob, Bipolar, Predelay, Percent, Feedback, Keytrack, Kind
<1>5. \A at : Display(p, at) = 10 * ((at * (p.hi - p.lo)) \div p.wireMax + p.lo)
  BY <1>4 DEF Display
<1>6. Under(p) = 10 /\ Over(p) = 0
  BY <1>4 DEF Under, Over
<1>7. ASSUME NEW at \in Int, Near(OnRange(p, v.n), at) PROVE Shows(p, v, at)
  <2>1. CASE p = Percent
    <3>1. p.lo = 0 /\ p.hi = 100 /\ p.wireMax = 8192
      BY <2>1 DEF Percent, Kind
    <3>2. OnRange(p, v.n) = Rounded(v.n * 8192, 200) /\ 0 <= v.n /\ v.n <= 200
      BY <1>1, <3>1
    <3>3. Between(10 * ((at * 100) \div 8192) - 5 * v.n, -10, 0)
      BY <1>1, <1>2, <1>7, <3>2, PercentShown
    <3>4. Display(p, at) = 10 * ((at * 100) \div 8192)
      BY <1>5, <3>1
    <3> QED BY <1>3, <1>6, <3>3, <3>4 DEF Shows
  <2>2. CASE p = Feedback
    <3>1. p.lo = 0 /\ p.hi = 150 /\ p.wireMax = 8192
      BY <2>2 DEF Feedback, Kind
    <3>2. OnRange(p, v.n) = Rounded(v.n * 8192, 300) /\ 0 <= v.n /\ v.n <= 300
      BY <1>1, <3>1
    <3>3. Between(10 * ((at * 150) \div 8192) - 5 * v.n, -10, 0)
      BY <1>1, <1>2, <1>7, <3>2, FeedbackShown
    <3>4. Display(p, at) = 10 * ((at * 150) \div 8192)
      BY <1>5, <3>1
    <3> QED BY <1>3, <1>6, <3>3, <3>4 DEF Shows
  <2>3. CASE p = Keytrack
    <3>1. p.lo = -200 /\ p.hi = 200 /\ p.wireMax = 8192
      BY <2>3 DEF Keytrack, Kind
    <3>2. OnRange(p, v.n) = Rounded((v.n + 400) * 8192, 800) /\ -400 <= v.n /\ v.n <= 400
      <4>1. v.n - 2 * p.lo = v.n + 400 /\ 2 * p.hi - 2 * p.lo = 800
        BY <1>1, <3>1
      <4>2. -400 <= v.n /\ v.n <= 400
        BY <1>1, <3>1
      <4> QED BY <1>1, <3>1, <4>1, <4>2
    <3>3. Between(10 * ((at * 400) \div 8192 - 200) - 5 * v.n, -10, 0)
      BY <1>1, <1>2, <1>7, <3>2, KeytrackShown
    <3>4. Display(p, at) = 10 * ((at * 400) \div 8192 - 200)
      BY <1>5, <3>1
    <3> QED BY <1>3, <1>6, <3>3, <3>4 DEF Shows
  <2> QED BY <2>1, <2>2, <2>3
<1> QED BY <1>1, <1>7, RangedShown

LEMMA PredelaysShown ==
  ASSUME NEW v, Value(v), Showable(Predelay, v)
  PROVE  Shown(Predelay, v)
<1>1. /\ Ranged(Predelay) /\ ~v.name /\ v.n \in Int
      /\ 2 * Predelay.lo <= v.n /\ v.n <= 2 * Predelay.hi
      /\ Wire(OnRange(Predelay, v.n))
      /\ OnRange(Predelay, v.n)
           = Rounded((v.n - 2 * Predelay.lo) * Predelay.wireMax, 2 * Predelay.hi - 2 * Predelay.lo)
  BY LinearKinds, RangedPlaced DEF Value
<1>2. Predelay.lo = 0 /\ Predelay.hi = 250 /\ Predelay.wireMax = 8192
  BY DEF Predelay, Kind
<1>3. /\ OnRange(Predelay, v.n) = Rounded(v.n * 8192, 500) /\ 0 <= v.n /\ v.n <= 500
      /\ OnRange(Predelay, v.n) \in Int
  BY <1>1, <1>2 DEF Wire
<1>4. Asked(v) = 5 * v.n
  BY <1>1 DEF Asked
<1>5. Predelay # Knob /\ Predelay # Bipolar /\ Predelay \notin {Percent, Feedback, Keytrack}
  BY DEF Knob, Bipolar, Predelay, Percent, Feedback, Keytrack, Kind
<1>6. ASSUME NEW at \in Int, Near(OnRange(Predelay, v.n), at) PROVE Shows(Predelay, v, at)
  <2>1. Display(Predelay, at) = Rounded(at * 2495, 8192) + 5
    BY <1>2, <1>5 DEF Display
  <2>2. Under(Predelay) = 1 /\ Over(Predelay) = 6
    BY <1>5 DEF Under, Over
  <2>3. Between((Rounded(at * 2495, 8192) + 5) - 5 * v.n, -1, 6)
    BY <1>1, <1>3, <1>6, PredelayShown
  <2> QED BY <1>4, <2>1, <2>2, <2>3 DEF Shows
<1> QED BY <1>1, <1>6, RangedShown

LEMMA RegularShown ==
  ASSUME NEW p \in Regular, NEW v, Value(v), Showable(p, v)
  PROVE  Shown(p, v)
<1>1. CASE p \in {FxType, Time, Division, Wave, Mode}
  <2>1. /\ p.names \in Nat /\ p.names > 0 /\ p.ranged = FALSE
        /\ p.enc # "u16le" \/ p.names > 0
    BY <1>1, NamedKinds
  <2>2. PICK i \in Nat : i < p.names /\ Index(v, i)
    BY <2>1, ShownIndex
  <2>3. Placed(p, v, i, i)
    BY <1>1, <2>2, NamedKindsPlaced
  <2>4. Asked(v) = 10 * i
    BY <2>2 DEF Index, Named, Number, Asked
  <2>5. Shows(p, v, i)
    BY <2>1, <2>4, PlainShown
  <2> QED BY <2>3, <2>5 DEF Shown
<1>2. CASE p \in {Glide, Semitone}
  <2>1. PICK n \in Int : ~v.name /\ v.n = 2 * n /\ Placed(p, v, n, n)
    BY <1>2, GlidePlaced, SemitonePlaced
  <2>2. Asked(v) = 10 * n
    BY <2>1 DEF Asked
  <2>3. Shows(p, v, n)
    BY <1>2, <2>2, UnmarkedKinds, PlainShown
  <2> QED BY <2>1, <2>3 DEF Shown
<1>3. CASE p \in {Percent, Feedback, Keytrack}
  BY <1>3, PercentagesShown
<1>4. CASE p = Knob
  BY <1>4, KnobShown
<1>5. CASE p = Bipolar
  BY <1>5, BipolarShown
<1>6. CASE p = Predelay
  BY <1>6, PredelaysShown
<1> QED BY <1>1, <1>2, <1>3, <1>4, <1>5, <1>6 DEF Regular

-----------------------------------------------------------------------------
(* The specification.                                                       *)

\* What was sent and what was written are what the encodings make of the value.
ValueInv ==
  /\ param \in Kinds /\ input \in Inputs(param)
  /\ live \in {Unset, LiveOf(param, input)}
  /\ patched \in {Unset, PatchOf(param, input)}

\* Whatever is set live or written in a patch is what the encodings make of the
\* value the caller asked for: neither way depends on the other having run.
THEOREM ValueInvariant == ValueSpec => []ValueInv
<1>1. ValueInit => ValueInv
  BY DEF ValueInit, ValueInv
<1>2. ValueInv /\ [ValueNext]_valueVars => ValueInv'
  <2> SUFFICES ASSUME ValueInv, [ValueNext]_valueVars PROVE ValueInv'
    OBVIOUS
  <2>1. CASE SetParam
    <3>1. live' = LiveOf(param, input) /\ UNCHANGED <<param, input, patched>>
      BY <2>1 DEF SetParam, LiveOf
    <3> QED BY <3>1 DEF ValueInv
  <2>2. CASE EncodePatch
    <3>1. patched' = PatchOf(param, input) /\ UNCHANGED <<param, input, live>>
      BY <2>2 DEF EncodePatch, PatchOf
    <3> QED BY <3>1 DEF ValueInv
  <2>3. CASE UNCHANGED valueVars
    BY <2>3 DEF ValueInv, valueVars
  <2> QED BY <2>1, <2>2, <2>3 DEF ValueNext
<1> QED BY <1>1, <1>2, PTL DEF ValueSpec

\* A value of a regular kind that the resolver has a rule for, set live and put in
\* a patch, takes the device to the same place, to half of a patch's step of
\* eight, or is refused both ways (resolveNrpnValue, nrpnMessagesFor and
\* writePatchValue); a number that is out of the range of a kind whose range
\* nothing enforces, or a fraction of a whole one, is not covered.
THEOREM SameWays == ValueSpec => []SameEitherWay
<1>1. ValueInv => SameEitherWay
  <2> SUFFICES ASSUME ValueInv, param \in Regular, Ruled(param, input), live.set, patched.set
               PROVE  /\ live.ok = patched.ok
                      /\ live.ok => IF Tolerance(param) THEN Near(live.at, patched.at)
                                                        ELSE live.at = patched.at
    BY DEF SameEitherWay, Agree
  <2>1. live = LiveOf(param, input) /\ patched = PatchOf(param, input)
    BY DEF ValueInv, Unset
  <2>2. Together(param, input)
    BY InputIsValue, RegularTogether DEF ValueInv
  <2>3. CASE Rejected(param, input)
    <3>1. live = Put(FALSE, 0) /\ patched = Put(FALSE, 0)
      BY <2>1, <2>3 DEF Rejected
    <3>2. live.ok = FALSE /\ patched.ok = FALSE
      BY <3>1 DEF Put
    <3> QED BY <3>2
  <2>4. CASE ~Rejected(param, input)
    <3>1. PICK a, b : /\ Placed(param, input, a, b)
                      /\ IF Tolerance(param) THEN Near(a, b) ELSE a = b
      BY <2>2, <2>4 DEF Together
    <3>2. live = Put(TRUE, a) /\ patched = Put(TRUE, b)
      BY <2>1, <3>1 DEF Placed
    <3>3. live.ok = TRUE /\ patched.ok = TRUE /\ live.at = a /\ patched.at = b
      BY <3>2 DEF Put
    <3> QED BY <3>1, <3>3
  <2> QED BY <2>3, <2>4
<1> QED BY <1>1, ValueInvariant, PTL

\* A value the device can show is shown, whichever way it was sent, as the
\* device's display rounds it: exactly, or a percentage at most one below, or a
\* predelay at most six tenths of a millisecond above.
THEOREM AsAsked == ValueSpec => []ShowsWhatWasAsked
<1>1. ValueInv => ShowsWhatWasAsked
  <2> SUFFICES ASSUME ValueInv, param \in Regular, Showable(param, input)
               PROVE  /\ live.set => live.ok /\ Shows(param, input, live.at)
                      /\ patched.set => patched.ok /\ Shows(param, input, patched.at)
    BY DEF ShowsWhatWasAsked
  <2>1. PICK a, b : /\ Placed(param, input, a, b)
                    /\ Shows(param, input, a) /\ Shows(param, input, b)
    BY InputIsValue, RegularShown DEF ValueInv, Shown
  <2>2. live \in {Unset, Put(TRUE, a)} /\ patched \in {Unset, Put(TRUE, b)}
    BY <2>1 DEF ValueInv, Placed
  <2>3. ~Unset.set /\ Put(TRUE, a).ok /\ Put(TRUE, a).at = a /\ Put(TRUE, b).ok /\ Put(TRUE, b).at = b
    BY DEF Unset, Put
  <2> QED BY <2>1, <2>2, <2>3
<1> QED BY <1>1, ValueInvariant, PTL

=============================================================================
