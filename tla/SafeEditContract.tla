-------------------------- MODULE SafeEditContract --------------------------
(***************************************************************************)
(* The safe-edit contract of docs/SAFE-EDIT-WORKFLOW.md as the server's    *)
(* dirty gates enforce it, free of any device: one working buffer, the     *)
(* presets stored in flash, and the edits of the buffer that are not       *)
(* stored anywhere.  AM4SafeEdit (a polled fingerprint) and                *)
(* AxeFxIISafeEdit (a broadcast-driven dirty flag) each implement it.      *)
(*                                                                         *)
(* `guarded' says that the buffer holds edits the device's detector is     *)
(* able to see; `waived' that whoever moves the device now has accepted to *)
(* lose them: the caller passed on_active_preset_edited = "discard", the   *)
(* player turned the front panel, or the detector could not be read, in    *)
(* which case the code proceeds.                                           *)
(***************************************************************************)
CONSTANTS Locations,   \* preset locations of the device
          Content      \* what a preset or the working buffer may hold

VARIABLES active, buffer, flash, guarded, waived

contractVars == <<active, buffer, flash, guarded, waived>>

ContractInit ==
  /\ active \in Locations
  /\ flash \in [Locations -> Content]
  /\ buffer \in Content
  /\ guarded = FALSE
  /\ waived \in BOOLEAN

\* An edit changes the buffer; it never makes earlier edits unprotected.
Edit ==
  /\ buffer' \in Content
  /\ guarded' \in BOOLEAN
  /\ guarded => guarded'
  /\ UNCHANGED <<active, flash>>

\* Storing the buffer, renamed on the way or not, makes its edits safe.
Store(l) ==
  /\ buffer' \in Content
  /\ flash' = [flash EXCEPT ![l] = buffer']
  /\ guarded' = FALSE
  /\ UNCHANGED active

\* A location is overwritten with other content (factory restore); the
\* edits in the buffer are as safe as before.
Overwrite(l) ==
  /\ flash'[l] \in Content
  /\ flash' = [flash EXCEPT ![l] = flash'[l]]
  /\ UNCHANGED <<active, buffer, guarded>>

\* Leaving the active preset loads another one over the buffer.
Leave(l) ==
  /\ guarded => waived'
  /\ active' = l
  /\ buffer' = flash[l]
  /\ guarded' = FALSE
  /\ UNCHANGED flash

\* The detector forgets what it knew: the server restarted, or a request to
\* store or to leave the buffer was not carried out and the caller was told.
Forget ==
  /\ waived'
  /\ buffer' \in Content
  /\ guarded' = FALSE
  /\ UNCHANGED <<active, flash>>

\* Callers come and go: only what they waive changes.
Callers == UNCHANGED <<active, buffer, flash, guarded>>

ContractNext ==
  /\ waived' \in BOOLEAN
  /\ \/ Edit
     \/ \E l \in Locations : Store(l) \/ Overwrite(l) \/ Leave(l)
     \/ Forget
     \/ Callers

Contract == ContractInit /\ [][ContractNext]_contractVars
=============================================================================
