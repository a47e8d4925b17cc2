-------------------------- MODULE MCAM4ApplyPreset --------------------------
(* AM4ApplyPreset with a few specifications, buffers and memories. *)
EXTENDS AM4ApplyPreset

\* No parameters on plain blocks.
SmallSlotLists ==
  {l \in SlotLists : \A p \in Positions :
     l[p] # Unset /\ l[p].block \in PlainBlocks => l[p].flat = NoParams}

\* Slots that write every channel they can.
Busy(l) ==
  \A p \in Positions :
    l[p] # Unset /\ l[p].block \in ChannelBlocks =>
      /\ l[p].nested # Unset
      /\ \A c \in ChannelNumbers : l[p].nested[c] # NoParams /\ l[p].nested[c].knob

\* Any parameters with no scene listed, one listed scene with busy slots.
SmallSpecs ==
  [slots : SmallSlotLists, scenes : {NoScenes}, landing : Scenes, name : {Unset}] \cup
  [slots : {l \in SmallSlotLists : Busy(l)},
   scenes : {[NoScenes EXCEPT ![x] = i] : x \in Scenes, i \in SceneInputs},
   landing : {1}, name : {"asked"}]

Default == [c \in ChannelNumbers |-> CHOOSE t \in Types : TRUE]

\* A block in every slot it can be in.
Crowded == CHOOSE f \in [Positions -> SlotBlocks \cup {Empty}] :
             /\ \A p, q \in Positions : p # q /\ f[p] # Empty => f[p] # f[q]
             /\ \A b \in SlotBlocks : b \in {f[p] : p \in Positions}
                                    \/ Empty \notin {f[p] : p \in Positions}

\* Slots taken, every block bypassed, every knob at a value nobody asks for;
\* the types and the scenes' channels anything.
SmallBuffers ==
  [slots : {Crowded},
   active : Scenes,
   pointer : [Scenes -> [ChannelBlocks -> ChannelNumbers]],
   bypassed : {[x \in Scenes |-> SlotBlocks]},
   sceneName : {[x \in Scenes |-> "old"]},
   name : {"old"},
   type : {[b \in SlotBlocks |-> IF b \in ChannelBlocks THEN f[b] ELSE Default] :
             f \in [ChannelBlocks -> [ChannelNumbers -> Types]]},
   knob : {[b \in SlotBlocks |-> [c \in ChannelNumbers |-> 0]]}]

SmallMemories ==
  {[b \in SlotBlocks |-> IF b \in ChannelBlocks THEN f[b] ELSE Unset] :
     f \in [ChannelBlocks -> Types \cup {Unset}]}

=============================================================================
