----------------------- MODULE MidiConnections_proofs -----------------------
(***************************************************************************)
(* Proofs about MidiConnections, for any number of handles and calls and   *)
(* any threshold: its type invariant, that no port is left open but the    *)
(* one the registry gives out, and that the counter of misses never hides  *)
(* a dead handle.                                                          *)
(***************************************************************************)
EXTENDS MidiConnections, TLAPS

\* An answer counts as one of the registry's handle only because no other
\* handle is open, and a handle is dropped only because the counter is right:
\* the three facts are kept together.
RegistryInv == TypeOK /\ OneOpenHandle /\ MissesAreCounted

CallRec == [pc : {"idle", "answer"}, handle : Handles \cup {None},
            write : BOOLEAN, left : 0..MaxRequests]

\* What is kept of a call: it has a handle while it awaits an answer.
CallsOK == /\ call \in [Calls -> CallRec]
           /\ \A c \in Calls : call[c].pc = "answer" => call[c].handle # None

LEMMA IdleIsCallRec == Idle \in CallRec /\ Idle.pc # "answer"
  BY MidiConnectionsConstants DEF Idle, CallRec

\* One more miss stays in the counter's range, and counting one on each of
\* two counters keeps their order.
LEMMA CountedInRange ==
  /\ 0 \in Counter
  /\ \A n \in Counter : Counted(n) \in Counter /\ Counted(n) >= n
  /\ \A m, n \in Counter : n >= m => Counted(n) >= Counted(m)
  BY MidiConnectionsConstants DEF Counter, Counted

LEMMA InitRegistry == Init => RegistryInv
<1> SUFFICES ASSUME Init PROVE RegistryInv
  OBVIOUS
<1>1. TypeOK
  BY IdleIsCallRec, CountedInRange DEF Init, TypeOK, CallRec
<1>2. OneOpenHandle /\ MissesAreCounted
  BY DEF Init, OneOpenHandle, MissesAreCounted
<1> QED BY <1>1, <1>2 DEF RegistryInv

----------------------------------------------------------------------------
(* The registry.                                                           *)

\* What a fresh handle, or a failure to get one, leaves behind.
PortsOK == /\ plugged \in BOOLEAN /\ error \in BOOLEAN
           /\ open \subseteq Handles /\ live \subseteq open
           /\ conn \in Handles \cup {None}
           /\ timeouts \in Counter /\ missed \in Counter
           /\ live # {} => plugged
           /\ conn = None => timeouts = 0

LEMMA RegistryInvSplit ==
  /\ RegistryInv <=> PortsOK /\ CallsOK /\ orphan \in BOOLEAN
                     /\ OneOpenHandle /\ MissesAreCounted
  /\ RegistryInv' <=> PortsOK' /\ CallsOK' /\ orphan' \in BOOLEAN
                      /\ OneOpenHandle' /\ MissesAreCounted'
  BY DEF RegistryInv, TypeOK, PortsOK, CallsOK, CallRec

LEMMA FactoryKeeps ==
  ASSUME PortsOK, OneOpenHandle, NEW got \in Handles \cup {None}, Factory(got)
  PROVE  PortsOK' /\ OneOpenHandle' /\ MissesAreCounted'
<1> USE MidiConnectionsConstants
<1>1. open' = {got} \ {None}
  BY DEF Factory, Drop, OneOpenHandle
<1>2. conn' = got /\ timeouts' = 0 /\ missed' = 0 /\ plugged' = plugged
  BY DEF Factory
<1>3. error' = (got = None)
  BY DEF Factory
<1>4. error' \in BOOLEAN
  BY <1>3, Zenon
<1>5. live' \subseteq open'
  BY DEF Factory
<1>6. live' # {} => plugged'
  BY <1>1, <1>5 DEF Factory
<1>7. PortsOK'
  BY <1>1, <1>2, <1>4, <1>5, <1>6, CountedInRange DEF PortsOK
<1>8. error' => conn' = None
  BY <1>2, <1>3, Zenon
<1>9. open' = {conn'} \ {None}
  BY <1>1, <1>2
<1>10. MissesAreCounted'
  BY <1>2 DEF MissesAreCounted
<1> QED BY <1>7, <1>8, <1>9, <1>10 DEF OneOpenHandle

LEMMA EnsureKeeps ==
  ASSUME PortsOK, OneOpenHandle, MissesAreCounted, NEW force \in BOOLEAN,
         NEW got \in Handles \cup {None}, ensureConnection(force, got)
  PROVE  PortsOK' /\ OneOpenHandle' /\ MissesAreCounted'
<1>1. Factory(got) \/ UNCHANGED <<ports, registry, missed>>
  BY DEF ensureConnection
<1>2. CASE UNCHANGED <<ports, registry, missed>>
  BY <1>2 DEF PortsOK, OneOpenHandle, MissesAreCounted, ports, registry
<1> QED BY <1>1, <1>2, FactoryKeeps

LEMMA SendKeeps ==
  ASSUME CallsOK, orphan \in BOOLEAN, NEW c \in Calls, NEW h \in Handles,
         NEW write \in BOOLEAN, NEW left \in 0..MaxRequests, Send(c, h, write, left)
  PROVE  CallsOK' /\ orphan' \in BOOLEAN
<1>1. CASE call' = [call EXCEPT ![c] = [pc |-> "answer", handle |-> h,
                                        write |-> write, left |-> left]]
           /\ UNCHANGED orphan
  <2>1. [pc |-> "answer", handle |-> h, write |-> write, left |-> left] \in CallRec
    BY DEF CallRec
  <2> QED BY <1>1, <2>1, MidiConnectionsConstants DEF CallsOK
<1>2. CASE call' = [call EXCEPT ![c] = Idle] /\ orphan' = TRUE
  BY <1>2, IdleIsCallRec DEF CallsOK
<1> QED BY <1>1, <1>2 DEF Send

----------------------------------------------------------------------------
(* The steps.                                                              *)

LEMMA StartKeeps ==
  ASSUME RegistryInv, NEW c \in Calls, NEW got \in Handles \cup {None},
         NEW write \in BOOLEAN, Start(c, got, write)
  PROVE  RegistryInv'
<1>1. PortsOK' /\ OneOpenHandle' /\ MissesAreCounted'
  BY EnsureKeeps, RegistryInvSplit DEF Start
<1>2. CallsOK' /\ orphan' \in BOOLEAN
  <2>1. CASE got = None
    BY <2>1, RegistryInvSplit DEF Start, CallsOK
  <2>2. CASE got # None
    <3>1. PICK n \in 1..MaxRequests : Send(c, got, write, n - 1)
      BY <2>2 DEF Start
    <3>2. n - 1 \in 0..MaxRequests
      BY MidiConnectionsConstants
    <3> QED BY <2>2, <3>1, <3>2, SendKeeps, RegistryInvSplit
  <2> QED BY <2>1, <2>2
<1> QED BY <1>1, <1>2, RegistryInvSplit

\* An answer comes through a live handle only, and the only live handle is
\* the registry's: an acknowledgement resets both counters.
LEMMA AnsweredKeeps ==
  ASSUME RegistryInv, NEW c \in Calls, NEW acked \in BOOLEAN, Answered(c, acked)
  PROVE  RegistryInv'
<1> USE MidiConnectionsConstants
<1>1. PortsOK /\ CallsOK /\ orphan \in BOOLEAN /\ OneOpenHandle /\ MissesAreCounted
  BY RegistryInvSplit
<1>2. call[c] \in CallRec /\ call[c].pc = "answer" /\ call[c].handle \in Handles
  BY <1>1 DEF Answered, CallsOK, CallRec
<1>3. acked => call[c].handle = conn
  BY <1>1 DEF Answered, PortsOK, OneOpenHandle
<1>4. UNCHANGED <<ports, conn, error>>
  BY DEF Answered
<1>5. /\ timeouts' \in Counter /\ missed' \in Counter /\ timeouts' >= missed'
      /\ conn = None => timeouts' = 0
  <2>1. timeouts \in Counter /\ missed \in Counter /\ timeouts >= missed
        /\ (conn = None => timeouts = 0)
    BY <1>1 DEF PortsOK, MissesAreCounted
  <2>2. CASE ~call[c].write
    BY <2>1, <2>2 DEF Answered
  <2>3. CASE call[c].write /\ conn = None
    BY <1>2, <2>1, <2>3 DEF Answered, recordAckOutcome
  <2>4. CASE call[c].write /\ conn # None /\ acked
    <3>1. timeouts' = 0 /\ missed' = 0
      BY <1>3, <2>4 DEF Answered, recordAckOutcome
    <3> QED BY <3>1, <2>4, CountedInRange
  <2>5. CASE call[c].write /\ conn # None /\ ~acked
    <3>1. timeouts' = Counted(timeouts) /\ missed' \in {missed, Counted(missed)}
      BY <2>5 DEF Answered, recordAckOutcome
    <3>2. /\ Counted(timeouts) \in Counter /\ Counted(missed) \in Counter
          /\ Counted(timeouts) >= timeouts /\ Counted(timeouts) >= Counted(missed)
      BY <2>1, CountedInRange
    <3>3. \A x, y, z \in Counter : x >= y /\ y >= z => x >= z
      BY DEF Counter
    <3> QED BY <3>1, <3>2, <3>3, <2>1, <2>5
  <2> QED BY <2>2, <2>3, <2>4, <2>5
<1>6. PortsOK' /\ OneOpenHandle' /\ MissesAreCounted'
  BY <1>1, <1>4, <1>5 DEF PortsOK, OneOpenHandle, MissesAreCounted, ports
<1>7. CallsOK' /\ orphan' \in BOOLEAN
  <2>1. CASE call' = [call EXCEPT ![c] = Idle] /\ UNCHANGED orphan
    BY <1>1, <2>1, IdleIsCallRec DEF CallsOK
  <2>2. CASE call[c].left > 0 /\ \E write \in BOOLEAN :
                Send(c, call[c].handle, write, call[c].left - 1)
    <3>1. PICK write \in BOOLEAN : Send(c, call[c].handle, write, call[c].left - 1)
      BY <2>2
    <3>2. call[c].left - 1 \in 0..MaxRequests
      BY <1>2, <2>2 DEF CallRec
    <3> QED BY <1>1, <1>2, <3>1, <3>2, SendKeeps
  <2> QED BY <2>1, <2>2 DEF Answered
<1> QED BY <1>6, <1>7, RegistryInvSplit

LEMMA NextRegistry == RegistryInv /\ [Next]_vars => RegistryInv'
<1> SUFFICES ASSUME RegistryInv, [Next]_vars PROVE RegistryInv'
  OBVIOUS
<1>1. ASSUME NEW c \in Calls, StartWriting(c) PROVE RegistryInv'
  BY <1>1, StartKeeps DEF StartWriting
<1>2. ASSUME NEW c \in Calls, StartReading(c) PROVE RegistryInv'
  BY <1>2, StartKeeps DEF StartReading
<1>3. ASSUME NEW c \in Calls, NEW acked \in BOOLEAN, Answered(c, acked) PROVE RegistryInv'
  BY <1>3, AnsweredKeeps
<1>4. CASE Reconnect
  <2>1. PICK got \in Handles \cup {None} : ensureConnection(TRUE, got)
    BY <1>4 DEF Reconnect
  <2>2. PortsOK' /\ OneOpenHandle' /\ MissesAreCounted'
    BY <2>1, EnsureKeeps, RegistryInvSplit
  <2>3. CallsOK' /\ orphan' \in BOOLEAN
    BY <1>4, RegistryInvSplit DEF Reconnect, CallsOK
  <2> QED BY <2>2, <2>3, RegistryInvSplit
<1>5. CASE Unplug
  BY <1>5 DEF Unplug, RegistryInv, TypeOK, OneOpenHandle, MissesAreCounted, registry
<1>6. CASE Plug
  BY <1>6 DEF Plug, RegistryInv, TypeOK, OneOpenHandle, MissesAreCounted, registry
<1>7. CASE ProcessExit
  <2>1. TypeOK'
    BY <1>7, IdleIsCallRec, CountedInRange DEF ProcessExit, RegistryInv, TypeOK, CallRec
  <2>2. OneOpenHandle' /\ MissesAreCounted'
    BY <1>7 DEF ProcessExit, OneOpenHandle, MissesAreCounted
  <2> QED BY <2>1, <2>2 DEF RegistryInv
<1>8. CASE UNCHANGED vars
  BY <1>8 DEF vars, ports, registry, RegistryInv, TypeOK, OneOpenHandle, MissesAreCounted
<1> QED BY <1>1, <1>2, <1>3, <1>4, <1>5, <1>6, <1>7, <1>8 DEF Next

----------------------------------------------------------------------------
\* The registry's invariant holds whatever the calls, reconnects, failed
\* connects and unplugged cables (connections.ts).
THEOREM RegistryInvariant == Spec => []RegistryInv
<1> QED BY InitRegistry, NextRegistry, PTL DEF Spec

\* Handles, counters and calls keep their types.
THEOREM TypeCorrect == Spec => []TypeOK
<1>1. RegistryInv => TypeOK
  BY DEF RegistryInv
<1> QED BY <1>1, RegistryInvariant, PTL

\* No port is left open but the one the registry gives out, and a cached
\* error never hides an open port (connections.ts, ensureConnection).
THEOREM NoPortLeaks == Spec => []OneOpenHandle
<1>1. RegistryInv => OneOpenHandle
  BY DEF RegistryInv
<1> QED BY <1>1, RegistryInvariant, PTL

\* The counter of misses is never below the misses of the registry's own
\* handle (connections.ts, recordAckOutcome).
THEOREM NoMissIsHidden == Spec => []MissesAreCounted
<1>1. RegistryInv => MissesAreCounted
  BY DEF RegistryInv
<1> QED BY <1>1, RegistryInvariant, PTL

=============================================================================
