-------------------------- MODULE MidiStream_proofs --------------------------
(***************************************************************************)
(* What TLAPS proves of the tools that send plain MIDI, for any number of  *)
(* calls, handles, notes and values, and chords and batches of any length. *)
(*                                                                         *)
(* What the synthesizer does with a segment is a recursion over its        *)
(* messages.  Facts about recursive functions are proved here from the     *)
(* least number at which one would fail.                                   *)
(***************************************************************************)
EXTENDS MidiStream, SequenceTheorems, WellFoundedInduction, TLAPS

----------------------------------------------------------------------------
(* Numbers and recursions.                                                 *)

Less == {p \in Nat \X Nat : p[1] < p[2]}

\* Every non-empty set of numbers has a least one.
LEMMA LeastNumber ==
  ASSUME NEW T, T \subseteq Nat, T # {}
  PROVE  \E n \in T : \A m \in T : n <= m
<1>1. Less = OpToRel(<, Nat)
  BY DEF Less, OpToRel
<1>2. PICK n \in T : \A m \in T : <<m, n>> \notin Less
  BY <1>1, NatLessThanWellFounded, WFMin
<1>3. \A m \in T : n <= m
  <2> TAKE m \in T
  <2>1. <<m, n>> \in Nat \X Nat
    BY <1>2
  <2>2. ~(m < n)
    BY <1>2, <2>1 DEF Less
  <2> QED BY <2>2, <1>2
<1> QED BY <1>3

\* f is what becomes of s, message by message, up to the n-th.
Runs(f, s, messages, n) ==
  f = [i \in 0 .. n |-> IF i = 0 THEN s ELSE Hear(f[i - 1], messages[i])]

LEMMA RunExists ==
  ASSUME NEW s, NEW messages, NEW n \in Nat
  PROVE  \E f : Runs(f, s, messages, n)
<1> DEFINE T == {k \in Nat : ~\E f : Runs(f, s, messages, k)}
<1> SUFFICES ASSUME T # {} PROVE FALSE
  OBVIOUS
<1>1. PICK k \in T : \A m \in T : k <= m
  BY LeastNumber
<1>2. CASE k = 0
  <2> DEFINE f == [i \in 0 .. 0 |-> s]
  <2>1. Runs(f, s, messages, 0)
    BY DEF Runs
  <2> QED BY <1>2, <2>1
<1>3. CASE k # 0
  <2>1. k - 1 \in Nat /\ k - 1 \notin T
    BY <1>1, <1>3
  <2>2. PICK g : Runs(g, s, messages, k - 1)
    BY <2>1
  <2> DEFINE f == [i \in 0 .. k |-> IF i = k THEN Hear(g[k - 1], messages[k]) ELSE g[i]]
  <2>3. ASSUME NEW i \in 0 .. k
        PROVE  f[i] = IF i = 0 THEN s ELSE Hear(f[i - 1], messages[i])
    <3>1. CASE i = 0
      BY <1>3, <3>1, <2>1, <2>2 DEF Runs
    <3>2. CASE i = k
      BY <1>3, <3>2, <2>1, <2>2
    <3>3. CASE i # 0 /\ i # k
      <4>1. i \in 0 .. (k - 1) /\ i - 1 \in 0 .. k /\ i - 1 # k
        BY <3>3, <1>1
      <4>2. g[i] = Hear(g[i - 1], messages[i])
        BY <4>1, <3>3, <2>2 DEF Runs
      <4> QED BY <4>1, <4>2, <3>3
    <3> QED BY <3>1, <3>2, <3>3
  <2>4. Runs(f, s, messages, k)
    <3>1. f = [i \in 0 .. k |-> f[i]]
      OBVIOUS
    <3> HIDE DEF f
    <3> QED BY <3>1, <2>3 DEF Runs
  <2> QED BY <2>4, <1>1
<1> QED BY <1>2, <1>3

LEMMA RunUnique ==
  ASSUME NEW s, NEW messages, NEW n \in Nat, NEW k \in Nat, NEW f, NEW g,
         Runs(f, s, messages, n), Runs(g, s, messages, k),
         NEW i \in Nat, i <= n, i <= k
  PROVE  f[i] = g[i]
<1> DEFINE T == {j \in Nat : j <= n /\ j <= k /\ f[j] # g[j]}
<1> SUFFICES ASSUME T # {} PROVE FALSE
  OBVIOUS
<1>1. PICK j \in T : \A m \in T : j <= m
  BY LeastNumber
<1>2. j # 0
  BY <1>1 DEF Runs
<1>3. j - 1 \in Nat /\ f[j - 1] = g[j - 1]
  BY <1>1, <1>2
<1>4. j \in 0 .. n /\ j \in 0 .. k
  BY <1>1
<1>5. f[j] = Hear(f[j - 1], messages[j]) /\ g[j] = Hear(g[j - 1], messages[j])
  BY <1>2, <1>4 DEF Runs
<1> QED BY <1>1, <1>3, <1>5

LEMMA AfterRun ==
  ASSUME NEW s, NEW messages, NEW n \in Nat
  PROVE  \E f : Runs(f, s, messages, n) /\ After(s, messages, n) = f[n]
<1> DEFINE f == CHOOSE f : Runs(f, s, messages, n)
<1>1. Runs(f, s, messages, n)
  BY RunExists
<1>2. After(s, messages, n) = f[n]
  BY DEF After, Runs
<1> QED BY <1>1, <1>2

\* After is the recursion it looks like.
LEMMA AfterNone ==
  ASSUME NEW s, NEW messages
  PROVE  After(s, messages, 0) = s
BY AfterRun DEF Runs

LEMMA AfterNext ==
  ASSUME NEW s, NEW messages, NEW n \in Nat \ {0}
  PROVE  After(s, messages, n) = Hear(After(s, messages, n - 1), messages[n])
<1>1. PICK f : Runs(f, s, messages, n) /\ After(s, messages, n) = f[n]
  BY AfterRun
<1>2. PICK g : Runs(g, s, messages, n - 1) /\ After(s, messages, n - 1) = g[n - 1]
  BY AfterRun
<1>3. f[n - 1] = g[n - 1]
  BY <1>1, <1>2, RunUnique
<1>4. f[n] = Hear(f[n - 1], messages[n])
  BY <1>1 DEF Runs
<1> QED BY <1>1, <1>2, <1>3, <1>4

\* A batch of one-segment scripts is the script of their segments.
LEMMA FlattenScripts ==
  ASSUME NEW S, NEW segments \in Seq(S), segments # <<>>
  PROVE  FlattenSeq([i \in DOMAIN segments |-> <<segments[i]>>]) = segments
<1> DEFINE n == Len(segments)
           seqs == [i \in DOMAIN segments |-> <<segments[i]>>]
           Flattens(f) == f = [i \in 1 .. n |-> IF i = 1 THEN seqs[i] ELSE f[i - 1] \o seqs[i]]
           front == [i \in 1 .. n |-> SubSeq(segments, 1, i)]
<1>1. n \in Nat \ {0} /\ DOMAIN segments = 1 .. n /\ Len(seqs) = n
  <2>1. n \in Nat \ {0} /\ DOMAIN segments = 1 .. n
    BY EmptySeq, LenProperties
  <2>2. seqs \in [1 .. n -> {<<x>> : x \in S}]
    BY <2>1, ElementOfSeq
  <2>3. seqs \in Seq({<<x>> : x \in S}) /\ DOMAIN seqs = 1 .. n
    BY <2>1, <2>2, SeqDef
  <2>4. Len(seqs) = n
    BY <2>1, <2>3, LenProperties
  <2> QED BY <2>1, <2>4
<1>2. Flattens(front)
  <2>1. ASSUME NEW i \in 1 .. n
        PROVE  front[i] = IF i = 1 THEN seqs[i] ELSE front[i - 1] \o seqs[i]
    <3>1. CASE i = 1
      <4>1. SubSeq(segments, 1, 1) = <<segments[1]>>
        <5>1. SubSeq(segments, 1, 1) = SubSeq(segments, 1, 0) \o <<segments[1]>>
          BY <1>1, SubSeqRecursiveSecond
        <5>2. SubSeq(segments, 1, 0) = <<>>
          BY SubSeqEmpty
        <5>3. <<segments[1]>> \in Seq(S)
          BY <1>1, ElementOfSeq
        <5> QED BY <5>1, <5>2, <5>3, ConcatEmptySeq
      <4> QED BY <3>1, <4>1, <1>1
    <3>2. CASE i # 1
      <4>1. SubSeq(segments, 1, i) = SubSeq(segments, 1, i - 1) \o <<segments[i]>>
        BY <1>1, <3>2, SubSeqRecursiveSecond
      <4> QED BY <4>1, <3>2, <1>1
    <3> QED BY <3>1, <3>2
  <2>2. front = [i \in 1 .. n |-> front[i]]
    OBVIOUS
  <2> HIDE DEF front
  <2> QED BY <2>1, <2>2
<1>3. front[n] = segments
  BY <1>1, SubSeqFull
<1>4. FlattenSeq(seqs) = (CHOOSE f : Flattens(f))[n]
  BY <1>1 DEF FlattenSeq
<1> HIDE DEF n, seqs, front
<1>5. ASSUME NEW f, Flattens(f) PROVE f[n] = front[n]
  <2> DEFINE T == {j \in Nat : j \in 1 .. n /\ f[j] # front[j]}
  <2>1. \A i \in 1 .. n : /\ f[i] = IF i = 1 THEN seqs[i] ELSE f[i - 1] \o seqs[i]
                          /\ front[i] = IF i = 1 THEN seqs[i] ELSE front[i - 1] \o seqs[i]
    BY <1>2, <1>5
  <2>2. CASE T # {}
    <3>1. PICK j \in T : \A m \in T : j <= m
      BY <2>2, LeastNumber
    <3>2. j \in 1 .. n /\ f[j] # front[j]
      BY <3>1
    <3>3. j # 1
      BY <3>2, <2>1
    <3>4. j - 1 \in 1 .. n /\ j - 1 \in Nat /\ j - 1 \notin T
      BY <3>1, <3>2, <3>3, <1>1
    <3> QED BY <3>2, <3>3, <3>4, <2>1
  <2>3. CASE T = {}
    BY <2>3, <1>1
  <2> QED BY <2>2, <2>3
<1> HIDE DEF Flattens
<1>6. Flattens(CHOOSE f : Flattens(f))
  BY <1>2
<1> QED BY <1>3, <1>4, <1>5, <1>6 DEF n, seqs

----------------------------------------------------------------------------
(* What the synthesizer makes of a segment.                                *)

Values == Bytes \cup {0}

Kinds == {"on", "off", "allOff", "cc0", "cc6", "cc32", "cc38", "cc98", "cc99",
          "cc120", "program"}

\* Messages that ask for nothing that could come out wrong, and all messages.
Parts ==
  {m \in [kind : Kinds, value : Notes \cup Values, asked : {<<>>}] :
     IF m.kind \in {"on", "off"} THEN m.value \in Notes ELSE m.value \in Values}

Messages ==
  Parts \cup {Final("cc38", b, <<b, b, b, b>>) : b \in Bytes}
        \cup {Final("program", b, <<h, b, b>>) : h \in Values, b \in Bytes}

Synths == [down : SUBSET Notes, msb : Values, lsb : Values, high : Values,
           bankHigh : Values, bank : Values, mixed : BOOLEAN]

\* A synthesizer that has put nothing together.
Sound == {s \in Synths : s.mixed = FALSE}

\* Messages keep the kinds of the registers.
LEMMA HeardOK ==
  ASSUME NEW s \in Synths, NEW m \in Messages
  PROVE  Heard(s, m) \in Synths /\ Heard(s, m).mixed = s.mixed
<1>1. m.kind \in Kinds
  BY DEF Messages, Parts, Final, Kinds
<1>2. m.kind \in {"on", "off"} => m.value \in Notes
  BY DEF Messages, Parts, Final
<1>3. m.kind \notin {"on", "off"} => m.value \in Values
  BY DEF Messages, Parts, Final, Values
<1>4. CASE m.kind \in {"on", "off", "allOff"}
  BY <1>2, <1>4 DEF Heard, Synths
<1>5. CASE m.kind \in {"cc99", "cc98", "cc6"}
  BY <1>3, <1>5 DEF Heard, Synths
<1>6. CASE m.kind \in {"cc0", "cc32"}
  BY <1>3, <1>6 DEF Heard, Synths
<1>7. CASE m.kind \in {"cc38", "cc120", "program"}
  BY <1>7 DEF Heard, Synths
<1> QED BY <1>1, <1>4, <1>5, <1>6, <1>7 DEF Kinds

\* A message that asks for nothing, or for what comes of it, mixes nothing.
LEMMA HearOK ==
  ASSUME NEW s \in Sound, NEW m \in Messages, m.asked \in {<<>>, Done(s, m)}
  PROVE  Hear(s, m) \in Sound
<1>1. Heard(s, m) \in Synths /\ Heard(s, m).mixed = FALSE
  BY HeardOK DEF Sound
<1> DEFINE t == Heard(s, m)
           mixed == t.mixed \/ m.asked \notin {<<>>, Done(s, m)}
<1>2. Hear(s, m) = [t EXCEPT !.mixed = mixed]
  BY DEF Hear
<1>3. mixed = FALSE
  BY <1>1, Zenon
<1>4. t \in Synths
  BY <1>1
<1> HIDE DEF t, mixed
<1>5. [t EXCEPT !.mixed = FALSE] \in Sound
  BY <1>4 DEF Synths, Sound
<1> QED BY <1>2, <1>3, <1>5

LEMMA HearPart ==
  ASSUME NEW s \in Sound, NEW m \in Messages, m.asked = <<>>
  PROVE  Hear(s, m) \in Sound
BY HearOK

\* The registers are those that Heard leaves.
LEMMA HearFields ==
  ASSUME NEW s \in Synths, NEW m \in Messages
  PROVE  \A f \in {"msb", "lsb", "high", "bankHigh", "bank"} : Hear(s, m)[f] = Heard(s, m)[f]
<1>1. Heard(s, m) \in Synths
  BY HeardOK
<1> QED BY <1>1 DEF Hear, Synths

LEMMA PartOK ==
  ASSUME NEW kind \in Kinds \ {"on", "off"}, NEW v \in Values
  PROVE  Message(kind, v) \in Messages /\ Message(kind, v).asked = <<>>
BY DEF Message, Messages, Parts

\* What each message of a request leaves behind.
LEMMA HearStores ==
  ASSUME NEW s \in Sound, NEW v \in Values
  PROVE  /\ LET t == Hear(s, Message("cc99", v))
            IN  t \in Sound /\ t.msb = v
         /\ LET t == Hear(s, Message("cc98", v))
            IN  t \in Sound /\ t.msb = s.msb /\ t.lsb = v
         /\ LET t == Hear(s, Message("cc6", v))
            IN  t \in Sound /\ t.msb = s.msb /\ t.lsb = s.lsb /\ t.high = v
         /\ LET t == Hear(s, Message("cc0", v))
            IN  t \in Sound /\ t.bankHigh = v
         /\ LET t == Hear(s, Message("cc32", v))
            IN  t \in Sound /\ t.bankHigh = s.bankHigh /\ t.bank = v
<1>0. s \in Synths
  BY DEF Sound
<1>1. \A kind : Message(kind, v).kind = kind /\ Message(kind, v).value = v
  BY DEF Message
<1>2. ASSUME NEW kind \in {"cc99", "cc98", "cc6", "cc0", "cc32"}
      PROVE  /\ Hear(s, Message(kind, v)) \in Sound
             /\ \A f \in {"msb", "lsb", "high", "bankHigh", "bank"} :
                  Hear(s, Message(kind, v))[f] = Heard(s, Message(kind, v))[f]
  <2>1. kind \in Kinds \ {"on", "off"}
    BY DEF Kinds
  <2> QED BY <1>0, <2>1, PartOK, HearPart, HearFields
<1> HIDE DEF Message
<1>3. LET t == Hear(s, Message("cc99", v)) IN  t \in Sound /\ t.msb = v
  BY <1>0, <1>1, <1>2 DEF Heard, Synths
<1>4. LET t == Hear(s, Message("cc98", v)) IN  t \in Sound /\ t.msb = s.msb /\ t.lsb = v
  BY <1>0, <1>1, <1>2 DEF Heard, Synths
<1>5. LET t == Hear(s, Message("cc6", v))
      IN  t \in Sound /\ t.msb = s.msb /\ t.lsb = s.lsb /\ t.high = v
  BY <1>0, <1>1, <1>2 DEF Heard, Synths
<1>6. LET t == Hear(s, Message("cc0", v)) IN  t \in Sound /\ t.bankHigh = v
  BY <1>0, <1>1, <1>2 DEF Heard, Synths
<1>7. LET t == Hear(s, Message("cc32", v))
      IN  t \in Sound /\ t.bankHigh = s.bankHigh /\ t.bank = v
  BY <1>0, <1>1, <1>2 DEF Heard, Synths
<1> QED BY <1>3, <1>4, <1>5, <1>6, <1>7

Nrpn(b) == Address(b) \o Data(b)

\* What is sent in one go: nothing that asks for anything, one parameter with
\* its value, or one preset with its bank.
Segments ==
  {segment \in Seq(Messages) :
     \/ \A i \in DOMAIN segment : segment[i].asked = <<>>
     \/ \E b \in Bytes : segment = Nrpn(b)
     \/ \E h \in Values, b \in Bytes : segment = Load(h, b)}

\* However far a segment gets, the synthesizer puts nothing else together.
LEMMA PartsHeard ==
  ASSUME NEW s \in Sound, NEW segment \in Seq(Messages),
         \A i \in DOMAIN segment : segment[i].asked = <<>>,
         NEW n \in 0 .. Len(segment)
  PROVE  After(s, segment, n) \in Sound
<1> DEFINE T == {k \in Nat : k <= Len(segment) /\ After(s, segment, k) \notin Sound}
<1> SUFFICES ASSUME T # {} PROVE FALSE
  BY LenProperties
<1>1. PICK k \in T : \A j \in T : k <= j
  BY LeastNumber
<1>2. k # 0
  BY <1>1, AfterNone
<1>3. k - 1 \in Nat /\ After(s, segment, k - 1) \in Sound
  BY <1>1, <1>2, LenProperties
<1>4. k \in DOMAIN segment /\ segment[k] \in Messages /\ segment[k].asked = <<>>
  BY <1>1, <1>2, LenProperties, ElementOfSeq
<1>5. After(s, segment, k) = Hear(After(s, segment, k - 1), segment[k])
  BY <1>1, <1>2, AfterNext
<1> QED BY <1>1, <1>3, <1>4, <1>5, HearPart

LEMMA NrpnHeard ==
  ASSUME NEW s \in Sound, NEW b \in Bytes, NEW n \in 0 .. 4
  PROVE  After(s, Nrpn(b), n) \in Sound
<1> DEFINE m == Nrpn(b)
           last == Final("cc38", b, <<b, b, b, b>>)
<1>1. /\ m[1] = Message("cc99", b) /\ m[2] = Message("cc98", b)
      /\ m[3] = Message("cc6", b) /\ m[4] = last
  BY DEF Nrpn, Address, Data
<1>2. last \in Messages /\ last.kind = "cc38" /\ last.value = b /\ last.asked = <<b, b, b, b>>
  BY DEF Messages, Final
<1> HIDE DEF m, last
<1> DEFINE s0 == After(s, m, 0)
           s1 == After(s, m, 1)
           s2 == After(s, m, 2)
           s3 == After(s, m, 3)
           s4 == After(s, m, 4)
<1>3. s0 = s /\ s0 \in Sound /\ b \in Values
  BY AfterNone DEF Values
<1>4. /\ s1 = Hear(s0, Message("cc99", b)) /\ s2 = Hear(s1, Message("cc98", b))
      /\ s3 = Hear(s2, Message("cc6", b)) /\ s4 = Hear(s3, last)
  BY <1>1, AfterNext
<1> HIDE DEF s0, s1, s2, s3, s4
<1>5. s1 \in Sound /\ s1.msb = b
  BY <1>3, <1>4, HearStores
<1>6. s2 \in Sound /\ s2.msb = b /\ s2.lsb = b
  BY <1>3, <1>5, <1>4, HearStores
<1>7. s3 \in Sound /\ s3.msb = b /\ s3.lsb = b /\ s3.high = b
  BY <1>3, <1>6, <1>4, HearStores
<1>8. Done(s3, last) = last.asked
  BY <1>2, <1>7 DEF Done
<1>9. s4 \in Sound
  BY <1>2, <1>4, <1>7, <1>8, HearOK
<1>10. n = 0 \/ n = 1 \/ n = 2 \/ n = 3 \/ n = 4
  OBVIOUS
<1> QED BY <1>3, <1>5, <1>6, <1>7, <1>9, <1>10 DEF s0, s1, s2, s3, s4, m

LEMMA LoadHeard ==
  ASSUME NEW s \in Sound, NEW h \in Values, NEW b \in Bytes, NEW n \in 0 .. 3
  PROVE  After(s, Load(h, b), n) \in Sound
<1> DEFINE m == Load(h, b)
           last == Final("program", b, <<h, b, b>>)
<1>1. m[1] = Message("cc0", h) /\ m[2] = Message("cc32", b) /\ m[3] = last
  BY DEF Load
<1>2. last \in Messages /\ last.kind = "program" /\ last.value = b /\ last.asked = <<h, b, b>>
  BY DEF Messages, Final
<1> HIDE DEF m, last
<1> DEFINE s0 == After(s, m, 0)
           s1 == After(s, m, 1)
           s2 == After(s, m, 2)
           s3 == After(s, m, 3)
<1>3. s0 = s /\ s0 \in Sound /\ b \in Values
  BY AfterNone DEF Values
<1>4. /\ s1 = Hear(s0, Message("cc0", h)) /\ s2 = Hear(s1, Message("cc32", b))
      /\ s3 = Hear(s2, last)
  BY <1>1, AfterNext
<1> HIDE DEF s0, s1, s2, s3
<1>5. s1 \in Sound /\ s1.bankHigh = h
  BY <1>3, <1>4, HearStores
<1>6. s2 \in Sound /\ s2.bankHigh = h /\ s2.bank = b
  BY <1>3, <1>5, <1>4, HearStores
<1>7. Done(s2, last) = last.asked
  BY <1>2, <1>6 DEF Done
<1>8. s3 \in Sound
  BY <1>2, <1>4, <1>6, <1>7, HearOK
<1>9. n = 0 \/ n = 1 \/ n = 2 \/ n = 3
  OBVIOUS
<1> QED BY <1>3, <1>5, <1>6, <1>8, <1>9 DEF s0, s1, s2, s3, m

LEMMA SegmentHeard ==
  ASSUME NEW s \in Sound, NEW segment \in Segments, NEW n \in 0 .. Len(segment)
  PROVE  After(s, segment, n) \in Sound
<1>1. CASE \A i \in DOMAIN segment : segment[i].asked = <<>>
  BY <1>1, PartsHeard DEF Segments
<1>2. ASSUME NEW b \in Bytes, segment = Nrpn(b)
      PROVE  After(s, segment, n) \in Sound
  <2>1. Len(segment) = 4
    BY <1>2 DEF Nrpn, Address, Data
  <2> QED BY <1>2, <2>1, NrpnHeard
<1>3. ASSUME NEW h \in Values, NEW b \in Bytes, segment = Load(h, b)
      PROVE  After(s, segment, n) \in Sound
  <2>1. Len(segment) = 3
    BY <1>3 DEF Load
  <2> QED BY <1>3, <2>1, LoadHeard
<1> QED BY <1>1, <1>2, <1>3 DEF Segments

----------------------------------------------------------------------------
(* The scripts of the tools consist of such segments.                      *)

Scripts == Seq(Segments) \ {<<>>}

LEMMA PartsSegment ==
  ASSUME NEW segment \in Seq(Messages),
         \A i \in DOMAIN segment : segment[i].asked = <<>>
  PROVE  segment \in Segments
BY DEF Segments

\* One or two messages that ask for nothing.
LEMMA ShortSegments ==
  ASSUME NEW m \in Messages, m.asked = <<>>, NEW q \in Messages, q.asked = <<>>
  PROVE  <<m>> \in Segments /\ <<m, q>> \in Segments
<1>1. <<m>> \in Seq(Messages) /\ \A i \in DOMAIN <<m>> : <<m>>[i] = m
  OBVIOUS
<1>2. <<m, q>> \in Seq(Messages) /\ DOMAIN <<m, q>> = {1, 2}
  OBVIOUS
<1>3. <<m, q>>[1] = m /\ <<m, q>>[2] = q
  OBVIOUS
<1>4. <<m>> \in Segments
  BY <1>1, PartsSegment
<1>5. \A i \in DOMAIN <<m, q>> : <<m, q>>[i].asked = <<>>
  BY <1>2, <1>3
<1> QED BY <1>2, <1>4, <1>5, PartsSegment

LEMMA OneSegment ==
  ASSUME NEW segment \in Segments
  PROVE  <<segment>> \in Scripts
BY DEF Scripts

\* Notes, on or off, in any number.
LEMMA NotesSegment ==
  ASSUME NEW ns \in Seq(Notes), NEW kind \in {"on", "off"}
  PROVE  [i \in DOMAIN ns |-> Message(kind, ns[i])] \in Segments
<1> DEFINE segment == [i \in DOMAIN ns |-> Message(kind, ns[i])]
<1>1. Len(ns) \in Nat /\ DOMAIN ns = 1 .. Len(ns)
  BY LenProperties
<1>2. \A i \in DOMAIN ns : /\ Message(kind, ns[i]) \in Messages
                           /\ Message(kind, ns[i]).asked = <<>>
  BY ElementOfSeq, <1>1 DEF Message, Messages, Parts, Kinds
<1> HIDE DEF Message
<1>3. segment \in [1 .. Len(ns) -> Messages]
  BY <1>1, <1>2
<1>4. segment \in Seq(Messages)
  BY <1>1, <1>3, SeqDef
<1>5. \A i \in DOMAIN segment : segment[i].asked = <<>>
  BY <1>2
<1> QED BY <1>4, <1>5, PartsSegment

LEMMA NoteScripts ==
  ASSUME NEW n \in Notes
  PROVE  PlayNote(n) \in Scripts
<1>1. <<n>> \in Seq(Notes) /\ DOMAIN <<n>> = 1 .. 1 /\ <<n>>[1] = n
  OBVIOUS
<1>2. ASSUME NEW kind \in {"on", "off"}
      PROVE  <<Message(kind, n)>> \in Segments
  <2>1. [i \in DOMAIN <<n>> |-> Message(kind, <<n>>[i])] = <<Message(kind, n)>>
    BY <1>1
  <2> QED BY <1>1, <2>1, NotesSegment
<1>3. <<On(n)>> \in Segments /\ <<Off(n)>> \in Segments
  BY <1>2 DEF On, Off
<1> QED BY <1>3 DEF PlayNote, Scripts

LEMMA ChordScripts ==
  ASSUME NEW ns \in Seq(Notes), NEW strum \in BOOLEAN
  PROVE  PlayChord(ns, strum) \in Scripts
<1>1. Release(ns) \in Segments
  BY NotesSegment DEF Release, Off
<1>2. [i \in DOMAIN ns |-> On(ns[i])] \in Segments
  BY NotesSegment DEF On
<1>3. [i \in DOMAIN ns |-> <<On(ns[i])>>] \in Seq(Segments)
  <2>1. Len(ns) \in Nat /\ DOMAIN ns = 1 .. Len(ns)
    BY LenProperties
  <2>2. ASSUME NEW i \in DOMAIN ns
        PROVE  <<On(ns[i])>> \in Segments
    <3>1. ns[i] \in Notes
      BY <2>1, ElementOfSeq
    <3>2. PlayNote(ns[i]) \in Scripts /\ PlayNote(ns[i])[1] = <<On(ns[i])>>
      BY <3>1, NoteScripts DEF PlayNote
    <3> QED BY <3>2, ElementOfSeq DEF Scripts, PlayNote
  <2>3. [i \in DOMAIN ns |-> <<On(ns[i])>>] \in [1 .. Len(ns) -> Segments]
    BY <2>1, <2>2
  <2> QED BY <2>1, <2>3, SeqDef
<1> DEFINE front == IF strum THEN [i \in DOMAIN ns |-> <<On(ns[i])>>]
                             ELSE <<[i \in DOMAIN ns |-> On(ns[i])]>>
<1>4. front \in Seq(Segments)
  BY <1>2, <1>3
<1> HIDE DEF front
<1>5. <<Release(ns)>> \in Seq(Segments) /\ Len(<<Release(ns)>>) = 1
  BY <1>1
<1>6. /\ front \o <<Release(ns)>> \in Seq(Segments)
      /\ Len(front \o <<Release(ns)>>) = Len(front) + 1
  BY <1>4, <1>5, ConcatProperties
<1>7. front \o <<Release(ns)>> # <<>>
  BY <1>4, <1>6, LenProperties, EmptySeq
<1> QED BY <1>6, <1>7 DEF PlayChord, front, Scripts

LEMMA RequestSegments ==
  ASSUME NEW h \in Values, NEW b \in Bytes
  PROVE  Nrpn(b) \in Segments /\ Load(h, b) \in Segments
<1>1. b \in Values
  BY DEF Values
<1>2. /\ Message("cc99", b) \in Messages /\ Message("cc98", b) \in Messages
      /\ Message("cc6", b) \in Messages
      /\ Message("cc0", h) \in Messages /\ Message("cc32", b) \in Messages
  BY <1>1, PartOK DEF Kinds
<1>3. Final("cc38", b, <<b, b, b, b>>) \in Messages /\ Final("program", b, <<h, b, b>>) \in Messages
  BY DEF Messages
<1> HIDE DEF Message, Final
<1>4. Nrpn(b) \in Seq(Messages)
  BY <1>2, <1>3 DEF Nrpn, Address, Data
<1>5. Load(h, b) \in Seq(Messages)
  BY <1>2, <1>3 DEF Load
<1> QED BY <1>4, <1>5 DEF Segments

\* Messages that ask for nothing, one after the other.
PartsOnly == {segment \in Seq(Messages) : \A i \in DOMAIN segment : segment[i].asked = <<>>}

LEMMA PartsJoin ==
  ASSUME NEW s \in PartsOnly, NEW q \in PartsOnly
  PROVE  s \o q \in PartsOnly
<1>1. s \in Seq(Messages) /\ q \in Seq(Messages)
  BY DEF PartsOnly
<1>2. /\ s \o q \in Seq(Messages) /\ Len(s \o q) = Len(s) + Len(q)
      /\ Len(s) \in Nat /\ Len(q) \in Nat
      /\ DOMAIN s = 1 .. Len(s) /\ DOMAIN q = 1 .. Len(q) /\ DOMAIN (s \o q) = 1 .. Len(s \o q)
  BY <1>1, ConcatProperties, LenProperties
<1>3. ASSUME NEW i \in DOMAIN (s \o q)
      PROVE  (s \o q)[i].asked = <<>>
  <2>1. CASE i <= Len(s)
    <3>1. i \in DOMAIN s /\ (s \o q)[i] = s[i]
      BY <1>1, <1>2, <2>1, ConcatProperties
    <3> QED BY <3>1 DEF PartsOnly
  <2>2. CASE ~(i <= Len(s))
    <3>1. i - Len(s) \in DOMAIN q /\ (s \o q)[i] = q[i - Len(s)]
      BY <1>1, <1>2, <2>2, ConcatProperties
    <3> QED BY <3>1 DEF PartsOnly
  <2> QED BY <2>1, <2>2
<1> QED BY <1>2, <1>3 DEF PartsOnly

\* A program change, with all of its bank or less.
LEMMA ProgramScripts ==
  ASSUME NEW b \in Bytes, NEW highGiven \in BOOLEAN, NEW lowGiven \in BOOLEAN
  PROVE  SendProgramChange(b, highGiven, lowGiven) \in Scripts
<1>0. b \in Values
  BY DEF Values
<1>1. ASSUME NEW kind \in {"cc0", "cc32", "program"}
      PROVE  <<Message(kind, b)>> \in PartsOnly
  <2> DEFINE m == Message(kind, b)
  <2>1. m \in Messages /\ m.asked = <<>>
    BY <1>0, PartOK DEF Kinds
  <2> HIDE DEF m
  <2>2. <<m>> \in Seq(Messages) /\ \A i \in DOMAIN <<m>> : <<m>>[i] = m
    BY <2>1
  <2> QED BY <2>1, <2>2 DEF PartsOnly, m
<1>2. CASE highGiven /\ lowGiven
  <2>1. Load(b, b) \in Segments
    BY <1>0, RequestSegments
  <2> QED BY <1>2, <2>1, OneSegment DEF SendProgramChange
<1>3. CASE ~(highGiven /\ lowGiven)
  <2> DEFINE high == IF highGiven THEN <<Message("cc0", b)>> ELSE <<>>
             low == IF lowGiven THEN <<Message("cc32", b)>> ELSE <<>>
             program == <<Message("program", b)>>
  <2>1. SendProgramChange(b, highGiven, lowGiven) = <<high \o low \o program>>
    BY <1>3 DEF SendProgramChange
  <2>2. <<>> \in PartsOnly
    BY DEF PartsOnly
  <2>3. high \in PartsOnly /\ low \in PartsOnly /\ program \in PartsOnly
    <3>1. <<Message("cc0", b)>> \in PartsOnly /\ <<Message("cc32", b)>> \in PartsOnly
          /\ <<Message("program", b)>> \in PartsOnly
      BY <1>1
    <3> QED BY <2>2, <3>1, Zenon
  <2> HIDE DEF high, low, program
  <2>4. high \o low \o program \in Segments
    <3>1. high \o low \in PartsOnly
      BY <2>3, PartsJoin, Zenon
    <3>2. (high \o low) \o program \in PartsOnly
      BY <2>3, <3>1, PartsJoin, Zenon
    <3> QED BY <3>2, PartsSegment, Zenon DEF PartsOnly
  <2> QED BY <2>1, <2>4, OneSegment
<1> QED BY <1>2, <1>3

LEMMA BatchScripts ==
  ASSUME NEW bs \in Seq(Bytes), bs # <<>>
  PROVE  SetParams(bs) \in Scripts
<1> DEFINE segments == [i \in DOMAIN bs |-> Nrpn(bs[i])]
<1>1. Len(bs) \in Nat \ {0} /\ DOMAIN bs = 1 .. Len(bs)
  BY LenProperties, EmptySeq
<1>2. segments \in [1 .. Len(bs) -> Segments]
  BY <1>1, ElementOfSeq, RequestSegments DEF Values
<1>3. segments \in Seq(Segments) /\ DOMAIN segments = DOMAIN bs
  BY <1>1, <1>2, SeqDef
<1>4. segments # <<>>
  BY <1>1, <1>3
<1>5. [i \in DOMAIN segments |-> <<segments[i]>>] = [i \in DOMAIN bs |-> NrpnMessages(bs[i])]
  BY <1>3 DEF NrpnMessages, Nrpn
<1>6. SetParams(bs) = segments
  BY <1>3, <1>4, <1>5, FlattenScripts DEF SetParams
<1> QED BY <1>3, <1>4, <1>6 DEF Scripts

LEMMA SingleScripts == Single \subseteq Scripts
<1> SUFFICES ASSUME NEW script \in Single PROVE script \in Scripts
  OBVIOUS
<1>1. CASE \E n \in Notes : script = PlayNote(n)
  BY <1>1, NoteScripts
<1>2. CASE \E ns \in Chords, strum \in BOOLEAN : script = PlayChord(ns, strum)
  BY <1>2, ChordScripts, MidiStreamConstants
<1>3. CASE \E b \in Bytes : script = NrpnMessages(b)
  BY <1>3, RequestSegments, OneSegment DEF NrpnMessages, Nrpn, Values
<1>4. CASE \E b \in Bytes : script = SwitchPreset(b)
  BY <1>4, RequestSegments, OneSegment DEF SwitchPreset, Values
<1>5. CASE \E b \in Bytes : script = SendNrpn(b)
  <2> PICK b \in Bytes : script = SendNrpn(b)
    BY <1>5
  <2>1. Message("cc99", b) \in Messages /\ Message("cc99", b).asked = <<>>
    BY PartOK DEF Kinds, Values
  <2>2. <<Message("cc99", b)>> \in Segments
    BY <2>1, ShortSegments
  <2> QED BY <2>2, OneSegment DEF SendNrpn
<1>6. CASE script = SendPanic
  <2>1. /\ Message("cc120", 0) \in Messages /\ Message("cc120", 0).asked = <<>>
        /\ Message("allOff", 0) \in Messages /\ Message("allOff", 0).asked = <<>>
    BY PartOK DEF Kinds, Values
  <2>2. <<Message("cc120", 0), Message("allOff", 0)>> \in Segments
    BY <2>1, ShortSegments
  <2> QED BY <1>6, <2>2, OneSegment DEF SendPanic
<1>7. CASE \E b \in Bytes, highGiven \in BOOLEAN, lowGiven \in BOOLEAN :
             script = SendProgramChange(b, highGiven, lowGiven)
  BY <1>7, ProgramScripts
<1>8. CASE \E controller \in Controllers, b \in Bytes : script = SendCC(controller, b)
  <2> PICK controller \in Controllers, b \in Bytes : script = SendCC(controller, b)
    BY <1>8
  <2>1. controller \in Kinds \ {"on", "off"} /\ b \in Values
    BY MidiStreamConstants DEF Kinds, Values
  <2>2. Message(controller, b) \in Messages /\ Message(controller, b).asked = <<>>
    BY <2>1, PartOK
  <2>3. <<Message(controller, b)>> \in Segments
    BY <2>2, ShortSegments
  <2> QED BY <2>3, OneSegment DEF SendCC
<1> QED BY <1>1, <1>2, <1>3, <1>4, <1>5, <1>6, <1>7, <1>8 DEF Single

----------------------------------------------------------------------------
(* Every step.                                                             *)

CallRec == [script : Seq(Segments), handle : Nat, batch : BOOLEAN]

\* Nothing is put together that was not asked for, and nothing will be.
StreamInv ==
  /\ synth \in Sound
  /\ live \in Nat /\ opened \in Nat
  /\ call \in [Calls -> CallRec]

LEMMA SendKeeps ==
  ASSUME StreamInv, NEW c \in Calls, NEW h \in Nat, NEW script \in Scripts,
         NEW batch \in BOOLEAN, Send(c, h, script, batch)
  PROVE  synth' \in Sound /\ call' \in [Calls -> CallRec]
<1>1. script[1] \in Segments /\ Tail(script) \in Seq(Segments)
  BY HeadTailProperties, ElementOfSeq, EmptySeq, LenProperties DEF Scripts
<1>2. PICK heard \in 0 .. Len(script[1]) :
        LET whole == heard = Len(script[1])
            left == IF whole \/ batch THEN Tail(script) ELSE <<>>
        IN  /\ synth' = After(synth, script[1], heard)
            /\ call' = [call EXCEPT ![c] = IF left = <<>> THEN Idle
                          ELSE [script |-> left, handle |-> h, batch |-> batch]]
  BY DEF Send
<1>3. synth' \in Sound
  BY <1>1, <1>2, SegmentHeard DEF StreamInv
<1>4. Idle \in CallRec
  BY DEF Idle, CallRec
<1>5. PICK left \in Seq(Segments) :
        call' = [call EXCEPT ![c] = IF left = <<>> THEN Idle
                   ELSE [script |-> left, handle |-> h, batch |-> batch]]
  <2> DEFINE left == IF heard = Len(script[1]) \/ batch THEN Tail(script) ELSE <<>>
  <2>1. left \in Seq(Segments)
    BY <1>1
  <2> QED BY <1>2, <2>1
<1>6. [script |-> left, handle |-> h, batch |-> batch] \in CallRec
  BY DEF CallRec
<1> QED BY <1>3, <1>4, <1>5, <1>6 DEF StreamInv

LEMMA InitStream == Init => StreamInv
BY DEF Init, StreamInv, Sound, Synths, Values, Idle, CallRec

LEMMA BeginKeeps ==
  ASSUME StreamInv, NEW c \in Calls, Begin(c)
  PROVE  StreamInv'
<1>1. live' \in Nat /\ opened' \in Nat
  BY DEF Begin, StreamInv
<1>2. CASE \E script \in Single : Send(c, live', script, FALSE)
  BY <1>1, <1>2, SendKeeps, SingleScripts DEF StreamInv
<1>3. CASE \E script \in Batches : Send(c, live', script, TRUE)
  <2>1. PICK bs \in Lists : Send(c, live', SetParams(bs), TRUE)
    BY <1>3 DEF Batches
  <2>2. SetParams(bs) \in Scripts
    BY BatchScripts, MidiStreamConstants
  <2> QED BY <1>1, <2>1, <2>2, SendKeeps DEF StreamInv
<1> QED BY <1>2, <1>3 DEF Begin

LEMMA ContinueKeeps ==
  ASSUME StreamInv, NEW c \in Calls, Continue(c)
  PROVE  StreamInv'
<1>1. call[c] \in CallRec
  BY DEF StreamInv
<1>2. call[c].script \in Scripts /\ call[c].handle \in Nat /\ call[c].batch \in BOOLEAN
  BY <1>1 DEF CallRec, Continue, Scripts
<1> QED BY <1>2, SendKeeps DEF Continue, StreamInv

LEMMA StreamStep == StreamInv /\ [Next]_vars => StreamInv'
<1> SUFFICES ASSUME StreamInv, [Next]_vars PROVE StreamInv'
  OBVIOUS
<1>1. CASE \E c \in Calls : Begin(c)
  BY <1>1, BeginKeeps
<1>2. CASE \E c \in Calls : Continue(c)
  BY <1>2, ContinueKeeps
<1>3. CASE ReconnectMidi
  BY <1>3 DEF ReconnectMidi, StreamInv
<1>4. CASE UNCHANGED vars
  BY <1>4 DEF vars, StreamInv
<1> QED BY <1>1, <1>2, <1>3, <1>4 DEF Next

\* Whatever calls are in flight, whatever half-finished addresses and banks
\* they leave behind, wherever a send throws and whenever the handle is
\* replaced: a request that names all it wants done is carried out as asked or
\* not at all.
THEOREM RequestsWhole == Spec => []RequestsArriveWhole
<1>1. StreamInv => RequestsArriveWhole
  BY DEF StreamInv, Sound, RequestsArriveWhole
<1> QED BY <1>1, InitStream, StreamStep, PTL DEF Spec
=============================================================================
