---------------------------- MODULE MCMidiStream ----------------------------
(***************************************************************************)
(* MidiStream with the lists TLC tries: of one or more notes or values, no *)
(* longer than MaxList, none twice.                                        *)
(***************************************************************************)
EXTENDS MidiStream

CONSTANT MaxList

ListsOf(S) == UNION {{l \in [1 .. n -> S] : IsInjective(l)} : n \in 1 .. MaxList}

MCChords == ListsOf(Notes)
MCLists == ListsOf(Bytes)
=============================================================================
