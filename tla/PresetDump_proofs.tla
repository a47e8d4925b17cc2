-------------------------- MODULE PresetDump_proofs --------------------------
(***************************************************************************)
(* Proofs about PresetDump and the SysExAssembler under it, for a driver   *)
(* that ends its fragments at every F7, and for any number of calls,       *)
(* chunks, bytes of a chunk, dumps and edits: types; each lost fragment    *)
(* mangles at most one dispatched message; a dump that is given out shows  *)
(* the edits known when it was asked for; and, as long as fewer fragments  *)
(* are lost than a dump has messages, it is one dump.                      *)
(*                                                                         *)
(* All of it rests on the order of the bytes on the wire (InOrder): a      *)
(* fragment is part of the message at the front, and messages follow one   *)
(* another as the device sends them.                                       *)
(***************************************************************************)
EXTENDS PresetDump, Integers, SequenceTheorems, TLAPS

----------------------------------------------------------------------------
(* The order of bytes.                                                     *)

StreamMessages == {m \in Messages : m.i = 0 <=> m.kind # "chunk"}

Byte == [of : StreamMessages, at : Nat \ {0}]

\* What the device may send after message m.
Succeeds(m, next) ==
  IF m.kind \in {"footer", "ack"} THEN next.kind \in {"header", "ack"}
  ELSE /\ next.dump = m.dump /\ next.content = m.content
       /\ IF m.i = CHUNKS_PER_PRESET THEN next.kind = "footer"
          ELSE next.kind = "chunk" /\ next.i = m.i + 1

\* Bytes as they leave the device: those of a message up to its F7, then those
\* of one that may succeed it.
Run(s) ==
  /\ \A i, j \in DOMAIN s :
       i <= j /\ (\A k \in i..(j - 1) : ~IsF7(s[k])) =>
         s[j].of = s[i].of /\ s[j].at = s[i].at + (j - i)
  /\ \A i \in 1..(Len(s) - 1) :
       IsF7(s[i]) => IsF0(s[i + 1]) /\ Succeeds(s[i].of, s[i + 1].of)
  /\ \A i, j \in DOMAIN s : i <= j => s[i].of.content <= s[j].of.content

\* They end with a dump or an acknowledgement.
InOrder(s) ==
  Run(s) /\ (s # <<>> => IsF7(s[Len(s)]) /\ s[Len(s)].of.kind \in {"footer", "ack"})

WireInv ==
  /\ wire \in Seq(Byte) /\ InOrder(wire)
  /\ accumulator \in Seq(Byte) /\ AccumulatorOK
  /\ losses \in 0..MaxLosses /\ glued \in Nat
  /\ version \in 0..MaxEdits /\ dumps \in 0..MaxDumps /\ known \in 0..version
  /\ \A i \in DOMAIN wire : wire[i].of.content \in known..version

LEMMA ByteParts ==
  ASSUME NEW b \in Byte
  PROVE  /\ b.of \in StreamMessages /\ b.at \in Nat \ {0}
         /\ b.of.kind \in {"header", "chunk", "footer", "ack"}
         /\ b.of.dump \in Nat /\ b.of.content \in Nat /\ b.of.i \in Nat
  BY PresetDumpConstants DEF Byte, StreamMessages, Messages, DumpKinds

LEMMA LengthOK ==
  ASSUME NEW m \in StreamMessages
  PROVE  Length(m) \in Nat \ {0, 1} /\ (m.kind = "chunk" => Length(m) = ChunkLength)
<1>1. Length(m) = MessageLength(m)
  BY MessageLengths DEF StreamMessages
<1> QED BY <1>1, PresetDumpConstants DEF MessageLength

LEMMA BytesOK ==
  ASSUME NEW m \in StreamMessages
  PROVE  /\ Bytes(m) \in Seq(Byte) /\ Len(Bytes(m)) = Length(m)
         /\ Bytes(m) # <<>>
         /\ \A i \in 1..Length(m) : Bytes(m)[i] = [of |-> m, at |-> i]
<1>1. Length(m) \in Nat \ {0, 1}
  BY LengthOK
<1>2. \A i \in 1..Length(m) : [of |-> m, at |-> i] \in Byte
  BY <1>1 DEF Byte
<1>3. Bytes(m) = [i \in 1..Length(m) |-> [of |-> m, at |-> i]]
  BY DEF Bytes
<1> HIDE DEF Bytes
<1> QED BY <1>1, <1>2, <1>3

\* What holds of two runs that fit holds of one after the other.
LEMMA ConcatRun ==
  ASSUME NEW s \in Seq(Byte), NEW t \in Seq(Byte), Run(s), Run(t),
         s # <<>> /\ t # <<>> =>
           /\ IsF7(s[Len(s)]) /\ IsF0(t[1])
           /\ Succeeds(s[Len(s)].of, t[1].of)
           /\ s[Len(s)].of.content <= t[1].of.content
  PROVE  Run(s \o t)
<1> DEFINE u == s \o t
<1>1. /\ u \in Seq(Byte) /\ Len(u) = Len(s) + Len(t) /\ DOMAIN u = 1..Len(u)
      /\ DOMAIN s = 1..Len(s) /\ DOMAIN t = 1..Len(t)
      /\ Len(s) \in Nat /\ Len(t) \in Nat
      /\ (s # <<>> <=> Len(s) > 0) /\ (t # <<>> <=> Len(t) > 0)
  BY ConcatProperties
<1>2. \A i \in 1..(Len(s) + Len(t)) : u[i] = IF i <= Len(s) THEN s[i] ELSE t[i - Len(s)]
  BY ConcatProperties
<1> HIDE DEF u
<1>3. ASSUME NEW i \in DOMAIN u, NEW j \in DOMAIN u, i <= j,
             \A k \in i..(j - 1) : ~IsF7(u[k])
      PROVE  u[j].of = u[i].of /\ u[j].at = u[i].at + (j - i)
  <2>0. i \in 1..(Len(s) + Len(t)) /\ j \in 1..(Len(s) + Len(t))
    BY <1>1
  <2>1. CASE j <= Len(s)
    <3>1. \A k \in i..(j - 1) : u[k] = s[k]
      BY <1>1, <1>2, <2>0, <2>1
    <3>2. u[i] = s[i] /\ u[j] = s[j] /\ i \in DOMAIN s /\ j \in DOMAIN s
      BY <1>1, <1>2, <1>3, <2>0, <2>1
    <3> QED BY <1>3, <3>1, <3>2 DEF Run
  <2>2. CASE i > Len(s)
    <3> DEFINE a == i - Len(s)  b == j - Len(s)
    <3>1. a \in DOMAIN t /\ b \in DOMAIN t /\ a <= b /\ u[i] = t[a] /\ u[j] = t[b] /\ b - a = j - i
      BY <1>1, <1>2, <1>3, <2>0, <2>2
    <3>2. ASSUME NEW k \in a..(b - 1) PROVE ~IsF7(t[k])
      <4>1. k + Len(s) \in i..(j - 1) /\ k + Len(s) \in DOMAIN u /\ u[k + Len(s)] = t[k]
        BY <1>1, <1>2, <1>3, <2>0, <2>2
      <4> QED BY <1>3, <4>1
    <3> HIDE DEF a, b
    <3>3. t[b].of = t[a].of /\ t[b].at = t[a].at + (b - a)
      BY <3>1, <3>2 DEF Run
    <3> QED BY <3>1, <3>3
  <2>3. CASE i <= Len(s) /\ j > Len(s)
    <3>1. Len(s) \in i..(j - 1) /\ u[Len(s)] = s[Len(s)] /\ s # <<>> /\ t # <<>>
      BY <1>1, <1>2, <1>3, <2>0, <2>3
    <3> QED BY <1>3, <3>1
  <2> QED BY <2>0, <1>1, <2>1, <2>2, <2>3
<1>4. ASSUME NEW i \in 1..(Len(u) - 1), IsF7(u[i])
      PROVE  IsF0(u[i + 1]) /\ Succeeds(u[i].of, u[i + 1].of)
  <2>0. i \in Nat /\ i + 1 \in Nat /\ i \in 1..(Len(s) + Len(t)) /\ i + 1 \in 1..(Len(s) + Len(t))
    BY <1>1
  <2>1. CASE i < Len(s)
    <3>1. i <= Len(s) /\ i + 1 <= Len(s) /\ i \in 1..(Len(s) - 1)
      BY <1>1, <2>0, <2>1
    <3>2. u[i] = s[i] /\ u[i + 1] = s[i + 1]
      BY <1>2, <2>0, <3>1
    <3> QED BY <1>4, <3>1, <3>2 DEF Run
  <2>2. CASE i = Len(s)
    <3>1. u[i] = s[Len(s)] /\ u[i + 1] = t[1] /\ s # <<>> /\ t # <<>>
      BY <1>1, <1>2, <2>0, <2>2
    <3> QED BY <3>1
  <2>3. CASE i > Len(s)
    <3> DEFINE a == i - Len(s)
    <3>1. a \in 1..(Len(t) - 1) /\ ~(i <= Len(s)) /\ ~(i + 1 <= Len(s))
          /\ (i + 1) - Len(s) = a + 1
      BY <1>1, <2>0, <2>3
    <3>2. u[i] = t[a]
      BY <1>2, <2>0, <3>1
    <3>3. u[i + 1] = t[(i + 1) - Len(s)]
      BY <1>2, <2>0, <3>1
    <3> HIDE DEF a
    <3>4. u[i + 1] = t[a + 1]
      BY <3>1, <3>3
    <3> QED BY <1>4, <3>1, <3>2, <3>4 DEF Run
  <2>4. Len(s) \in Nat
    BY <1>1
  <2>5. i < Len(s) \/ i = Len(s) \/ i > Len(s)
    BY <2>0, <2>4
  <2> QED BY <2>1, <2>2, <2>3, <2>5
<1>5. ASSUME NEW i \in DOMAIN u, NEW j \in DOMAIN u, i <= j
      PROVE  u[i].of.content <= u[j].of.content
  <2>0. i \in 1..(Len(s) + Len(t)) /\ j \in 1..(Len(s) + Len(t))
    BY <1>1
  <2>1. CASE j <= Len(s)
    BY <1>1, <1>2, <1>5, <2>0, <2>1 DEF Run
  <2>2. CASE i > Len(s)
    <3>1. i - Len(s) \in DOMAIN t /\ j - Len(s) \in DOMAIN t /\ i - Len(s) <= j - Len(s)
          /\ u[i] = t[i - Len(s)] /\ u[j] = t[j - Len(s)]
      BY <1>1, <1>2, <1>5, <2>0, <2>2
    <3> QED BY <3>1 DEF Run
  <2>3. CASE i <= Len(s) /\ j > Len(s)
    <3>1. u[i] = s[i] /\ u[j] = t[j - Len(s)] /\ i \in DOMAIN s /\ j - Len(s) \in DOMAIN t
          /\ Len(s) \in DOMAIN s /\ 1 \in DOMAIN t /\ s # <<>> /\ t # <<>>
      BY <1>1, <1>2, <2>0, <2>3
    <3>2. /\ s[i].of.content <= s[Len(s)].of.content
          /\ t[1].of.content <= t[j - Len(s)].of.content
      BY <1>1, <3>1 DEF Run
    <3>3. s[Len(s)].of.content <= t[1].of.content
      BY <3>1
    <3>4. s[i] \in Byte /\ s[Len(s)] \in Byte /\ t[1] \in Byte /\ t[j - Len(s)] \in Byte
      BY <1>1, <3>1
    <3> QED BY <3>1, <3>2, <3>3, <3>4, ByteParts
  <2> QED BY <2>0, <1>1, <2>1, <2>2, <2>3
<1>6. Run(u)
  BY <1>3, <1>4, <1>5 DEF Run
<1> QED BY <1>6 DEF u

LEMMA SuffixIs ==
  ASSUME NEW s \in Seq(Byte), NEW n \in 0..Len(s)
  PROVE  /\ SubSeq(s, n + 1, Len(s)) \in Seq(Byte)
         /\ Len(SubSeq(s, n + 1, Len(s))) = Len(s) - n
         /\ \A i \in 1..(Len(s) - n) : SubSeq(s, n + 1, Len(s))[i] = s[i + n]
<1> DEFINE a == n + 1  b == Len(s)
<1>1. a \in Int /\ b \in Nat /\ a - 1 = n /\ n \in 0..b
      /\ \A i \in a..b : s[i] \in Byte
  OBVIOUS
<1> HIDE DEF a, b
<1>2. /\ SubSeq(s, a, b) \in Seq(Byte)
      /\ Len(SubSeq(s, a, b)) = (IF a <= b THEN b - a + 1 ELSE 0)
      /\ \A i \in 1..(b - a + 1) : SubSeq(s, a, b)[i] = s[a + i - 1]
  BY <1>1, SubSeqProperties
<1>3. (IF a <= b THEN b - a + 1 ELSE 0) = b - n /\ b - a + 1 = b - n
      /\ \A i \in 1..(b - n) : a + i - 1 = i + n
  BY <1>1
<1>4. /\ SubSeq(s, a, b) \in Seq(Byte) /\ Len(SubSeq(s, a, b)) = b - n
      /\ \A i \in 1..(b - n) : SubSeq(s, a, b)[i] = s[i + n]
  BY <1>2, <1>3
<1> QED BY <1>4 DEF a, b

LEMMA SuffixOf ==
  ASSUME NEW s \in Seq(Byte), NEW t \in Suffixes(s)
  PROVE  \E n \in 0..Len(s) : t = SubSeq(s, n + 1, Len(s))
<1>0. Len(s) \in Nat
  OBVIOUS
<1>1. CASE t = <<>>
  <2> DEFINE u == SubSeq(s, Len(s) + 1, Len(s))
  <2>1. u \in Seq(Byte) /\ Len(u) = Len(s) - Len(s)
    BY <1>0, SuffixIs
  <2> HIDE DEF u
  <2>2. u = <<>>
    BY <1>0, <2>1
  <2> QED BY <1>0, <1>1, <2>2 DEF u
<1>2. ASSUME NEW l \in 1..Len(s), t = SubSeq(s, l, Len(s))
      PROVE  \E n \in 0..Len(s) : t = SubSeq(s, n + 1, Len(s))
  <2>1. l - 1 \in 0..Len(s) /\ (l - 1) + 1 = l
    BY <1>0
  <2> QED BY <1>2, <2>1
<1> QED BY <1>1, <1>2 DEF Suffixes

\* What is left of bytes in order is in order.
LEMMA SuffixOrder ==
  ASSUME NEW s \in Seq(Byte), InOrder(s), NEW n \in 0..Len(s),
         NEW t \in Seq(Byte), Len(t) = Len(s) - n,
         \A i \in 1..(Len(s) - n) : t[i] = s[i + n]
  PROVE  InOrder(t)
<1>1. Len(s) \in Nat /\ DOMAIN s = 1..Len(s) /\ Len(t) \in Nat /\ n \in Nat
  OBVIOUS
<1>2. /\ DOMAIN t = 1..(Len(s) - n)
      /\ (t # <<>> <=> Len(t) > 0) /\ (s # <<>> <=> Len(s) > 0)
  OBVIOUS
<1>3. ASSUME NEW i \in DOMAIN t, NEW j \in DOMAIN t, i <= j,
             \A k \in i..(j - 1) : ~IsF7(t[k])
      PROVE  t[j].of = t[i].of /\ t[j].at = t[i].at + (j - i)
  <2> DEFINE a == i + n  b == j + n
  <2>1. /\ a \in DOMAIN s /\ b \in DOMAIN s /\ a <= b /\ b - a = j - i
        /\ t[i] = s[a] /\ t[j] = s[b]
    BY <1>1, <1>2, <1>3
  <2>2. ASSUME NEW k \in a..(b - 1) PROVE ~IsF7(s[k])
    <3>1. k - n \in i..(j - 1) /\ t[k - n] = s[k]
      BY <1>1, <1>2, <1>3
    <3> QED BY <1>3, <3>1
  <2> HIDE DEF a, b
  <2>3. s[b].of = s[a].of /\ s[b].at = s[a].at + (b - a)
    BY <2>1, <2>2 DEF InOrder, Run
  <2> QED BY <2>1, <2>3
<1>4. ASSUME NEW i \in 1..(Len(t) - 1), IsF7(t[i])
      PROVE  IsF0(t[i + 1]) /\ Succeeds(t[i].of, t[i + 1].of)
  <2>1. i + n \in 1..(Len(s) - 1) /\ t[i] = s[i + n] /\ t[i + 1] = s[(i + n) + 1]
    BY <1>1, <1>2
  <2> QED BY <1>4, <2>1 DEF InOrder, Run
<1>5. ASSUME NEW i \in DOMAIN t, NEW j \in DOMAIN t, i <= j
      PROVE  t[i].of.content <= t[j].of.content
  <2>1. /\ i + n \in DOMAIN s /\ j + n \in DOMAIN s /\ i + n <= j + n
        /\ t[i] = s[i + n] /\ t[j] = s[j + n]
    BY <1>1, <1>2, <1>5
  <2> QED BY <2>1 DEF InOrder, Run
<1>6. t # <<>> => t[Len(t)] = s[Len(s)] /\ s # <<>>
  BY <1>1, <1>2
<1>7. InOrder(t)
  BY <1>3, <1>4, <1>5, <1>6 DEF InOrder, Run
<1> QED BY <1>7

LEMMA MessageRun ==
  ASSUME NEW m \in StreamMessages
  PROVE  /\ Run(Bytes(m))
         /\ IsF0(Bytes(m)[1]) /\ IsF7(Bytes(m)[Len(Bytes(m))])
         /\ Bytes(m)[1].of = m /\ Bytes(m)[Len(Bytes(m))].of = m
         /\ \A i \in DOMAIN Bytes(m) : Bytes(m)[i].of = m
<1> DEFINE s == Bytes(m)
<1>1. /\ Length(m) \in Nat \ {0, 1} /\ Len(s) = Length(m) /\ DOMAIN s = 1..Length(m)
      /\ \A i \in 1..Length(m) : s[i] = [of |-> m, at |-> i]
      /\ m.content \in Nat
  <2>1. m.content \in Nat
    BY DEF StreamMessages, Messages
  <2> QED BY <2>1, LengthOK, BytesOK
<1> HIDE DEF s
<1>2. \A i \in 1..Length(m) : IsF7(s[i]) <=> i = Length(m)
  BY <1>1 DEF IsF7
<1>3. Run(s)
  BY <1>1, <1>2 DEF Run
<1>4. /\ IsF0(s[1]) /\ IsF7(s[Len(s)])
      /\ s[1].of = m /\ s[Len(s)].of = m
      /\ \A i \in DOMAIN s : s[i].of = m
  BY <1>1, <1>2 DEF IsF0
<1> QED BY <1>3, <1>4 DEF s

----------------------------------------------------------------------------
(* The chunks of a dump.                                                   *)

LEMMA Times == ASSUME NEW l \in Nat, NEW x \in Nat, NEW y \in Nat, x <= y
               PROVE  l * x <= l * y
  OBVIOUS

LEMMA TimesNext == ASSUME NEW l \in Nat, NEW x \in Nat
                   PROVE  l * (x + 1) = l * x + l /\ l * x \in Nat
  OBVIOUS

LEMMA Division ==
  ASSUME NEW a \in Nat, NEW l \in Nat \ {0}
  PROVE  a \div l \in Nat /\ a % l \in 0..(l - 1) /\ a = l * (a \div l) + (a % l)
  OBVIOUS

LEMMA Quotient ==
  ASSUME NEW l \in Nat \ {0}, NEW q \in Nat, NEW r \in 0..(l - 1)
  PROVE  (l * q + r) \div l = q /\ (l * q + r) % l = r
<1> DEFINE a == l * q + r  p == a \div l
<1>1. l * q \in Nat /\ a \in Nat
  BY TimesNext
<1>2. p \in Nat /\ a % l \in 0..(l - 1) /\ a = l * p + (a % l) /\ l * p \in Nat
  BY <1>1, Division, TimesNext
<1>3. ~(p < q)
  <2> SUFFICES ASSUME p < q PROVE FALSE
    OBVIOUS
  <2>1. l * (p + 1) <= l * q /\ l * (p + 1) = l * p + l
    BY <1>2, Times, TimesNext
  <2> HIDE DEF p
  <2> QED BY <1>1, <1>2, <2>1
<1>4. ~(q < p)
  <2> SUFFICES ASSUME q < p PROVE FALSE
    OBVIOUS
  <2>1. l * (q + 1) <= l * p /\ l * (q + 1) = l * q + l
    BY <1>2, Times, TimesNext
  <2> HIDE DEF p
  <2> QED BY <1>1, <1>2, <2>1
<1>5. p = q
  BY <1>2, <1>3, <1>4
<1> QED BY <1>1, <1>2, <1>5

\* The bytes of the chunks, as DumpBytes has them.
ChunkBytes(dump, content) ==
  [k \in 1..(CHUNKS_PER_PRESET * ChunkLength) |->
     [of |-> Message("chunk", dump, content, ((k - 1) \div ChunkLength) + 1),
      at |-> ((k - 1) % ChunkLength) + 1]]

\* Place k of C times L places is place r of part q.
LEMMA Places ==
  ASSUME NEW C \in Nat \ {0}, NEW L \in Nat \ {0}
  PROVE  /\ C * L \in Nat \ {0} /\ L * C = C * L
         /\ \A k \in 1..(C * L) :
              /\ (k - 1) \div L \in 0..(C - 1) /\ (k - 1) % L \in 0..(L - 1)
              /\ L * ((k - 1) \div L) \in Nat
              /\ k - 1 = L * ((k - 1) \div L) + ((k - 1) % L)
<1>1. C * L \in Nat \ {0} /\ L * C = C * L /\ L * C \in Nat
  <2>1. L * 1 <= L * C /\ L * C \in Nat
    BY Times, TimesNext
  <2> QED BY <2>1
<1>2. ASSUME NEW k \in 1..(C * L)
      PROVE  /\ (k - 1) \div L \in 0..(C - 1) /\ (k - 1) % L \in 0..(L - 1)
             /\ L * ((k - 1) \div L) \in Nat
             /\ k - 1 = L * ((k - 1) \div L) + ((k - 1) % L)
  <2> DEFINE q == (k - 1) \div L  r == (k - 1) % L
  <2>1. k - 1 \in Nat /\ k - 1 < L * C
    BY <1>1
  <2>2. q \in Nat /\ r \in 0..(L - 1) /\ k - 1 = L * q + r
    BY <2>1, Division
  <2> HIDE DEF q, r
  <2>3. L * q \in Nat
    BY <2>2, TimesNext
  <2>4. ~(C <= q)
    <3> SUFFICES ASSUME C <= q PROVE FALSE
      OBVIOUS
    <3>1. L * C <= L * q
      BY <2>2, Times
    <3> QED BY <1>1, <2>1, <2>2, <2>3, <3>1
  <2>5. q \in 0..(C - 1)
    BY <2>2, <2>4
  <2> QED BY <2>2, <2>3, <2>5 DEF q, r
<1> QED BY <1>1, <1>2

LEMMA ChunkMessage ==
  ASSUME NEW dump \in 0..MaxDumps, NEW content \in 0..MaxEdits,
         NEW i \in 1..CHUNKS_PER_PRESET
  PROVE  LET m == Message("chunk", dump, content, i) IN
         /\ m \in StreamMessages /\ Length(m) = ChunkLength
         /\ m.kind = "chunk" /\ m.i = i /\ m.dump = dump /\ m.content = content
<1> DEFINE m == Message("chunk", dump, content, i)
<1>1. m.kind = "chunk" /\ m.i = i /\ m.dump = dump /\ m.content = content
  BY DEF Message
<1>2. m \in Messages
  BY PresetDumpConstants DEF Message, Messages, DumpKinds
<1> HIDE DEF m
<1>3. m \in StreamMessages /\ Length(m) = ChunkLength
  BY <1>1, <1>2, PresetDumpConstants, LengthOK DEF StreamMessages
<1> QED BY <1>1, <1>3 DEF m

LEMMA ChunkBytesRun ==
  ASSUME NEW dump \in 0..MaxDumps, NEW content \in 0..MaxEdits
  PROVE  LET s == ChunkBytes(dump, content) IN
         /\ s \in Seq(Byte) /\ s # <<>>
         /\ Run(s)
         /\ s[1] = [of |-> Message("chunk", dump, content, 1), at |-> 1]
         /\ s[Len(s)].of = Message("chunk", dump, content, CHUNKS_PER_PRESET)
         /\ IsF7(s[Len(s)])
         /\ \A k \in 1..Len(s) : s[k].of.content = content
<1> DEFINE C == CHUNKS_PER_PRESET
           L == ChunkLength
           N == C * L
           Q(k) == (k - 1) \div L
           R(k) == (k - 1) % L
           P(k) == L * Q(k)
           m(i) == Message("chunk", dump, content, i)
           s == ChunkBytes(dump, content)
<1>0. C \in Nat \ {0} /\ L \in Nat \ {0, 1}
  BY PresetDumpConstants
<1>m. \A i \in 1..C : /\ m(i) \in StreamMessages /\ Length(m(i)) = L
                      /\ m(i).kind = "chunk" /\ m(i).i = i /\ m(i).dump = dump
                      /\ m(i).content = content
  BY ChunkMessage
<1>n. N \in Nat \ {0} /\ N = L * C
  BY <1>0, Places
<1>q. \A k \in 1..N : /\ Q(k) \in 0..(C - 1) /\ R(k) \in 0..(L - 1) /\ P(k) \in Nat
                      /\ k - 1 = P(k) + R(k) /\ Q(k) + 1 \in 1..C
  <2> SUFFICES ASSUME NEW k \in 1..N
               PROVE  /\ Q(k) \in 0..(C - 1) /\ R(k) \in 0..(L - 1) /\ P(k) \in Nat
                      /\ k - 1 = P(k) + R(k) /\ Q(k) + 1 \in 1..C
    OBVIOUS
  <2>1. Q(k) \in 0..(C - 1) /\ R(k) \in 0..(L - 1) /\ P(k) \in Nat /\ k - 1 = P(k) + R(k)
    BY <1>0, Places
  <2> HIDE DEF Q, R, P, C, L
  <2> QED BY <1>0, <2>1
<1>u. ASSUME NEW q \in Nat, NEW r \in 0..(L - 1), NEW k \in Nat \ {0}, k - 1 = L * q + r
      PROVE  Q(k) = q /\ R(k) = r
  BY <1>0, <1>u, Quotient
<1>p. ASSUME NEW k \in 1..N PROVE P(k) = L * Q(k) /\ L * (Q(k) + 1) = P(k) + L
  BY <1>0, <1>q, TimesNext
<1>s. s = [k \in 1..N |-> [of |-> m(Q(k) + 1), at |-> R(k) + 1]]
  BY DEF ChunkBytes
<1> HIDE DEF s, m, Q, R, P, N, C, L
<1>b. \A k \in 1..N : [of |-> m(Q(k) + 1), at |-> R(k) + 1] \in Byte
  <2> TAKE k \in 1..N
  <2>1. m(Q(k) + 1) \in StreamMessages /\ R(k) + 1 \in Nat \ {0}
    BY <1>0, <1>m, <1>q
  <2> QED BY <2>1 DEF Byte
<1>t. s \in [1..N -> Byte] /\ \A k \in 1..N : s[k].of = m(Q(k) + 1) /\ s[k].at = R(k) + 1
  BY <1>s, <1>b
<1>2. s \in Seq(Byte) /\ Len(s) = N /\ DOMAIN s = 1..N /\ s # <<>>
  <2>1. s \in Seq(Byte) /\ Len(s) = N /\ DOMAIN s = 1..N
    BY <1>n, <1>t
  <2> QED BY <1>n, <2>1
<1>3. ASSUME NEW k \in 1..N PROVE IsF7(s[k]) <=> R(k) = L - 1
  <2>1. s[k].at = R(k) + 1 /\ Length(s[k].of) = L /\ R(k) \in 0..(L - 1)
    BY <1>m, <1>q, <1>t
  <2> QED BY <1>0, <2>1 DEF IsF7
<1>4. ASSUME NEW i \in 1..N, NEW j \in 1..N, i <= j, \A k \in i..(j - 1) : ~IsF7(s[k])
      PROVE  s[j].of = s[i].of /\ s[j].at = s[i].at + (j - i)
  <2>0. /\ Q(i) \in Nat /\ R(i) \in 0..(L - 1) /\ P(i) \in Nat /\ i - 1 = P(i) + R(i)
        /\ P(i) = L * Q(i) /\ i \in Nat /\ j \in Nat
    BY <1>0, <1>n, <1>p, <1>q
  <2>1. R(i) + (j - i) < L
    <3> SUFFICES ASSUME R(i) + (j - i) >= L PROVE FALSE
      BY <1>0, <1>4, <2>0
    <3> DEFINE k == i + ((L - 1) - R(i))
    <3>1. k \in i..(j - 1) /\ k \in 1..N /\ L - 1 \in 0..(L - 1)
      BY <1>0, <1>4, <2>0, <1>n
    <3>2. k - 1 = P(i) + (L - 1)
      BY <1>0, <2>0
    <3> HIDE DEF k
    <3>3. k \in Nat \ {0} /\ k - 1 = L * Q(i) + (L - 1)
      BY <1>n, <2>0, <3>1, <3>2
    <3>4. R(k) = L - 1
      BY <2>0, <3>1, <3>3, <1>u
    <3> QED BY <1>3, <1>4, <3>1, <3>4
  <2>2. R(i) + (j - i) \in 0..(L - 1)
    BY <1>0, <2>0, <1>4, <2>1
  <2>3. j - 1 = L * Q(i) + (R(i) + (j - i)) /\ j \in Nat \ {0}
    <3>1. j - 1 = P(i) + (R(i) + (j - i)) /\ j \in Nat \ {0}
      BY <1>n, <2>0
    <3> QED BY <2>0, <3>1
  <2>4. Q(j) = Q(i) /\ R(j) = R(i) + (j - i)
    BY <2>0, <2>2, <2>3, <1>u
  <2>5. s[j].at = R(j) + 1 /\ s[i].at = R(i) + 1 /\ s[j].of = m(Q(j) + 1) /\ s[i].of = m(Q(i) + 1)
    BY <1>t
  <2>6. s[j].of = s[i].of
    BY <2>4, <2>5
  <2>7. s[j].at = s[i].at + (j - i)
    BY <2>0, <2>4, <2>5, <1>0
  <2> QED BY <2>6, <2>7
<1>5. ASSUME NEW i \in 1..(N - 1), IsF7(s[i])
      PROVE  IsF0(s[i + 1]) /\ Succeeds(s[i].of, s[i + 1].of)
  <2>1. R(i) = L - 1 /\ i \in 1..N /\ i + 1 \in 1..N
    BY <1>3, <1>5, <1>n
  <2>2. /\ Q(i) \in Nat /\ Q(i) + 1 \in Nat /\ 0 \in 0..(L - 1)
        /\ i - 1 = P(i) + R(i) /\ P(i) \in Nat /\ L * (Q(i) + 1) = P(i) + L
    BY <1>0, <1>p, <1>q, <2>1
  <2>3. (i + 1) - 1 = L * (Q(i) + 1) + 0 /\ i + 1 \in Nat \ {0}
    <3>1. i = P(i) + L
      BY <1>0, <2>1, <2>2, <1>n
    <3>2. i = L * (Q(i) + 1) /\ i \in Nat
      BY <1>n, <2>1, <2>2, <3>1
    <3> QED BY <3>2
  <2>4. Q(i + 1) = Q(i) + 1 /\ R(i + 1) = 0
    BY <2>2, <2>3, <1>u
  <2> DEFINE a == Q(i) + 1
  <2>5. s[i].of = m(a) /\ s[i + 1].of = m(a + 1) /\ s[i + 1].at = 1
        /\ a \in 1..C /\ a + 1 \in 1..C
    <3>1. s[i].of = m(Q(i) + 1) /\ s[i + 1].of = m(Q(i + 1) + 1) /\ s[i + 1].at = R(i + 1) + 1
          /\ Q(i) + 1 \in 1..C /\ Q(i + 1) + 1 \in 1..C
      BY <1>q, <1>t, <2>1
    <3> QED BY <2>4, <3>1
  <2> HIDE DEF a
  <2>6. a # C
    BY <1>0, <2>5
  <2> QED BY <1>m, <2>5, <2>6 DEF Succeeds, IsF0, C
<1>6. ASSUME NEW k \in 1..N PROVE s[k].of.content = content
  BY <1>q, <1>t, <1>m
<1>7. Run(s)
  <2>1. content \in Nat
    OBVIOUS
  <2>2. \A i, j \in DOMAIN s : i <= j => s[i].of.content <= s[j].of.content
    BY <2>1, <1>2, <1>6
  <2>3. \A i, j \in DOMAIN s :
          i <= j /\ (\A k \in i..(j - 1) : ~IsF7(s[k])) =>
            s[j].of = s[i].of /\ s[j].at = s[i].at + (j - i)
    BY <1>2, <1>4
  <2>4. \A i \in 1..(Len(s) - 1) :
          IsF7(s[i]) => IsF0(s[i + 1]) /\ Succeeds(s[i].of, s[i + 1].of)
    BY <1>2, <1>5
  <2> QED BY <2>2, <2>3, <2>4 DEF Run
<1>8. s[1] = [of |-> m(1), at |-> 1]
  <2>1. 1 - 1 = L * 0 + 0 /\ 0 \in 0..(L - 1)
    BY <1>0
  <2>2. Q(1) = 0 /\ R(1) = 0
    BY <2>1, <1>u
  <2>3. 1 \in 1..N
    BY <1>n
  <2> QED BY <1>s, <2>2, <2>3
<1>9. s[N].of = m(C) /\ IsF7(s[N])
  <2>1. C - 1 \in Nat /\ L - 1 \in 0..(L - 1) /\ L * ((C - 1) + 1) = L * (C - 1) + L
        /\ L * (C - 1) \in Nat
    BY <1>0, TimesNext
  <2>2. N - 1 = L * (C - 1) + (L - 1)
    <3>1. (C - 1) + 1 = C
      BY <1>0
    <3>2. N = L * (C - 1) + L
      BY <1>n, <2>1, <3>1
    <3> QED BY <1>0, <1>n, <2>1, <3>2
  <2>3. Q(N) = C - 1 /\ R(N) = L - 1
    BY <1>n, <2>1, <2>2, <1>u
  <2>4. N \in 1..N /\ (C - 1) + 1 = C
    BY <1>0, <1>n
  <2> QED BY <1>3, <1>t, <2>3, <2>4
<1> QED BY <1>2, <1>6, <1>7, <1>8, <1>9 DEF s, m, C

\* What the device sends at once, a dump or an acknowledgement.
Sendable(s, content) ==
  /\ s \in Seq(Byte) /\ s # <<>> /\ InOrder(s)
  /\ IsF0(s[1]) /\ s[1].of.kind \in {"header", "ack"}
  /\ \A i \in DOMAIN s : s[i].of.content = content

LEMMA AckSendable ==
  ASSUME NEW content \in 0..MaxEdits
  PROVE  Sendable(Bytes(Message("ack", 0, content, 0)), content)
<1> DEFINE m == Message("ack", 0, content, 0)
<1>1. m \in StreamMessages /\ m.kind = "ack" /\ m.content = content
  BY PresetDumpConstants DEF Message, StreamMessages, Messages
<1> HIDE DEF m
<1> DEFINE s == Bytes(m)
<1>2. s \in Seq(Byte) /\ s # <<>>
  BY <1>1, BytesOK
<1>3. /\ Run(s) /\ IsF0(s[1]) /\ IsF7(s[Len(s)])
      /\ s[1].of = m /\ s[Len(s)].of = m /\ \A i \in DOMAIN s : s[i].of = m
  BY <1>1, MessageRun
<1> HIDE DEF s
<1>4. Sendable(s, content)
  BY <1>1, <1>2, <1>3 DEF Sendable, InOrder
<1> QED BY <1>4 DEF s, m

LEMMA DumpSendable ==
  ASSUME NEW dump \in 0..MaxDumps, NEW content \in 0..MaxEdits
  PROVE  Sendable(DumpBytes(dump, content), content)
<1> DEFINE h == Message("header", dump, content, 0)
           f == Message("footer", dump, content, 0)
           hs == Bytes(h)  cs == ChunkBytes(dump, content)  fs == Bytes(f)
           c(i) == Message("chunk", dump, content, i)
<1>1. /\ h \in StreamMessages /\ h.kind = "header" /\ h.content = content /\ h.dump = dump
      /\ h.i = 0 /\ f \in StreamMessages /\ f.kind = "footer" /\ f.content = content
      /\ f.dump = dump /\ content \in Nat
  BY PresetDumpConstants DEF Message, StreamMessages, Messages, DumpKinds
<1>2. /\ hs \in Seq(Byte) /\ hs # <<>> /\ Run(hs) /\ IsF0(hs[1]) /\ IsF7(hs[Len(hs)])
      /\ hs[1].of = h /\ hs[Len(hs)].of = h /\ \A i \in DOMAIN hs : hs[i].of = h
      /\ fs \in Seq(Byte) /\ fs # <<>> /\ Run(fs) /\ IsF0(fs[1]) /\ IsF7(fs[Len(fs)])
      /\ fs[1].of = f /\ fs[Len(fs)].of = f /\ \A i \in DOMAIN fs : fs[i].of = f
  <2> HIDE DEF h, f
  <2>1. /\ hs \in Seq(Byte) /\ hs # <<>> /\ Run(hs) /\ IsF0(hs[1]) /\ IsF7(hs[Len(hs)])
        /\ hs[1].of = h /\ hs[Len(hs)].of = h /\ \A i \in DOMAIN hs : hs[i].of = h
    BY <1>1, BytesOK, MessageRun
  <2>2. /\ fs \in Seq(Byte) /\ fs # <<>> /\ Run(fs) /\ IsF0(fs[1]) /\ IsF7(fs[Len(fs)])
        /\ fs[1].of = f /\ fs[Len(fs)].of = f /\ \A i \in DOMAIN fs : fs[i].of = f
    BY <1>1, BytesOK, MessageRun
  <2> QED BY <2>1, <2>2
<1>3. /\ cs \in Seq(Byte) /\ cs # <<>> /\ Run(cs)
      /\ cs[1].of = c(1) /\ cs[1].at = 1 /\ cs[Len(cs)].of = c(CHUNKS_PER_PRESET)
      /\ IsF7(cs[Len(cs)])
      /\ \A k \in DOMAIN cs : cs[k].of.content = content
  <2> HIDE DEF cs, c
  <2>1. /\ cs \in Seq(Byte) /\ cs # <<>> /\ Run(cs)
        /\ cs[1] = [of |-> c(1), at |-> 1] /\ cs[Len(cs)].of = c(CHUNKS_PER_PRESET)
        /\ IsF7(cs[Len(cs)])
        /\ \A k \in 1..Len(cs) : cs[k].of.content = content
    BY ChunkBytesRun DEF cs, c
  <2> QED BY <2>1
<1>4. /\ c(1).kind = "chunk" /\ c(1).i = 1 /\ c(1).dump = dump /\ c(1).content = content
      /\ c(CHUNKS_PER_PRESET).kind = "chunk" /\ c(CHUNKS_PER_PRESET).i = CHUNKS_PER_PRESET
      /\ c(CHUNKS_PER_PRESET).dump = dump /\ c(CHUNKS_PER_PRESET).content = content
  BY DEF Message
<1>5. Succeeds(h, c(1)) /\ Succeeds(c(CHUNKS_PER_PRESET), f)
  <2> HIDE DEF h, f, c
  <2> QED BY <1>1, <1>4, PresetDumpConstants DEF Succeeds
<1>6. DumpBytes(dump, content) = (hs \o cs) \o fs
  BY DEF DumpBytes, ChunkBytes
<1> HIDE DEF h, f, hs, cs, fs, c
<1> DEFINE hc == hs \o cs  s == hc \o fs
<1>7. Run(hc)
  BY <1>1, <1>2, <1>3, <1>4, <1>5, ConcatRun DEF IsF0
<1>8. /\ hc \in Seq(Byte) /\ hc # <<>> /\ hc[1] = hs[1] /\ hc[Len(hc)] = cs[Len(cs)]
      /\ \A i \in DOMAIN hc : hc[i].of.content = content
  BY <1>1, <1>2, <1>3, ConcatProperties
<1> HIDE DEF hc
<1>9. Run(s)
  BY <1>1, <1>2, <1>3, <1>4, <1>5, <1>7, <1>8, ConcatRun DEF IsF0
<1>10. /\ s \in Seq(Byte) /\ s # <<>> /\ s[1] = hs[1] /\ s[Len(s)] = fs[Len(fs)]
       /\ \A i \in DOMAIN s : s[i].of.content = content
  BY <1>1, <1>2, <1>8, ConcatProperties
<1> HIDE DEF s
<1>11. Sendable(s, content)
  BY <1>1, <1>2, <1>9, <1>10 DEF Sendable, InOrder
<1> QED BY <1>6, <1>11 DEF s, hc

----------------------------------------------------------------------------
(* The wire stays in order.                                                *)

LEMMA Transmitted ==
  ASSUME WireInv, NEW content \in Nat, version <= content,
         NEW s, Sendable(s, content)
  PROVE  /\ (wire \o s) \in Seq(Byte) /\ InOrder(wire \o s)
         /\ \A i \in DOMAIN (wire \o s) : (wire \o s)[i].of.content \in known..content
<1>1. /\ wire \in Seq(Byte) /\ s \in Seq(Byte) /\ s # <<>> /\ Run(wire) /\ InOrder(s)
      /\ (wire # <<>> => IsF7(wire[Len(wire)]) /\ wire[Len(wire)].of.kind \in {"footer", "ack"})
      /\ IsF0(s[1]) /\ s[1].of.kind \in {"header", "ack"}
      /\ \A i \in DOMAIN s : s[i].of.content = content
      /\ \A i \in DOMAIN wire : wire[i].of.content \in known..version
      /\ known \in Nat /\ version \in Nat /\ known <= version
  BY PresetDumpConstants DEF WireInv, InOrder, Sendable
<1>2. s[1].of.content = content
  BY <1>1
<1>3. wire # <<>> => wire[Len(wire)].of.content <= content
                     /\ wire[Len(wire)].of.content \in Nat
  <2>1. wire # <<>> => Len(wire) \in DOMAIN wire
    BY <1>1
  <2> QED BY <1>1, <2>1
<1>4. wire # <<>> => Succeeds(wire[Len(wire)].of, s[1].of)
  BY <1>1 DEF Succeeds
<1>5. Run(wire \o s)
  BY <1>1, <1>2, <1>3, <1>4, ConcatRun DEF InOrder
<1>6. /\ (wire \o s) \in Seq(Byte) /\ Len(wire \o s) = Len(wire) + Len(s)
      /\ \A i \in 1..(Len(wire) + Len(s)) :
           (wire \o s)[i] = IF i <= Len(wire) THEN wire[i] ELSE s[i - Len(wire)]
  BY <1>1, ConcatProperties
<1> DEFINE u == wire \o s
<1> HIDE DEF u
<1>7. /\ u \in Seq(Byte) /\ Len(u) = Len(wire) + Len(s)
      /\ DOMAIN u = 1..Len(u) /\ Len(wire) \in Nat /\ Len(s) \in Nat \ {0}
      /\ DOMAIN wire = 1..Len(wire) /\ DOMAIN s = 1..Len(s)
      /\ \A i \in 1..(Len(wire) + Len(s)) :
           u[i] = IF i <= Len(wire) THEN wire[i] ELSE s[i - Len(wire)]
  BY <1>1, <1>6 DEF u
<1>8. u[Len(u)] = s[Len(s)]
  BY <1>7
<1>9. ASSUME NEW i \in DOMAIN u PROVE u[i].of.content \in known..content
  <2>1. CASE i <= Len(wire)
    <3>1. u[i] = wire[i] /\ i \in DOMAIN wire
      BY <1>7, <2>1
    <3> QED BY <1>1, <3>1
  <2>2. CASE ~(i <= Len(wire))
    <3>1. u[i] = s[i - Len(wire)] /\ i - Len(wire) \in DOMAIN s
      BY <1>7, <2>2
    <3>2. u[i].of.content = content
      BY <1>1, <3>1
    <3> QED BY <1>1, <3>2
  <2> QED BY <2>1, <2>2
<1>10. InOrder(u)
  BY <1>1, <1>5, <1>8 DEF InOrder, u
<1> QED BY <1>7, <1>9, <1>10 DEF u

\* A fragment is the next part of the message at the front.
LEMMA FragmentIs ==
  ASSUME WireInv, CutAtF7, NEW bytes \in Fragments
  PROVE  /\ bytes \in Seq(Byte) /\ Len(bytes) \in 1..Len(wire) /\ Len(wire) \in Nat
         /\ \A i \in 1..Len(bytes) : bytes[i] = wire[i]
         /\ \A i \in 1..Len(bytes) :
              bytes[i].of = wire[1].of /\ bytes[i].at = wire[1].at + (i - 1)
         /\ \A i \in 1..(Len(bytes) - 1) : ~IsF7(bytes[i])
         /\ Last(bytes) = wire[Len(bytes)]
<1>1. PICK n \in (1..BufferSize) \cap DOMAIN wire : bytes = SubSeq(wire, 1, n)
  BY DEF Fragments
<1>2. ~\E i \in DOMAIN Front(bytes) : IsF7(bytes[i])
  BY DEF Fragments
<1>3. wire \in Seq(Byte) /\ n \in 1..Len(wire) /\ Len(wire) \in Nat
      /\ DOMAIN wire = 1..Len(wire)
  BY <1>1 DEF WireInv
<1>4. bytes \in Seq(Byte) /\ Len(bytes) = n /\ \A i \in 1..n : bytes[i] = wire[i]
  <2>1. \A i \in 1..n : wire[i] \in Byte
    BY <1>3
  <2>2. /\ SubSeq(wire, 1, n) \in Seq(Byte)
        /\ Len(SubSeq(wire, 1, n)) = (IF 1 <= n THEN n - 1 + 1 ELSE 0)
        /\ \A i \in 1..(n - 1 + 1) : SubSeq(wire, 1, n)[i] = wire[1 + i - 1]
    BY <1>3, <2>1, SubSeqProperties
  <2>3. (IF 1 <= n THEN n - 1 + 1 ELSE 0) = n /\ n - 1 + 1 = n
        /\ \A i \in 1..n : 1 + i - 1 = i
    BY <1>3
  <2> QED BY <1>1, <2>2, <2>3
<1>5. \A i \in 1..(n - 1) : ~IsF7(bytes[i])
  <2>1. DOMAIN Front(bytes) = 1..(n - 1)
    <3>1. DOMAIN SubSeq(bytes, 1, n - 1) = 1..(n - 1)
      BY <1>3, <1>4
    <3> QED BY <1>4, <3>1 DEF Front
  <2> QED BY <1>2, <2>1
<1>6. ASSUME NEW i \in 1..n
      PROVE  bytes[i].of = wire[1].of /\ bytes[i].at = wire[1].at + (i - 1)
  <2>1. 1 \in DOMAIN wire /\ i \in DOMAIN wire /\ 1 <= i
    BY <1>3
  <2>2. \A k \in 1..(i - 1) : ~IsF7(wire[k])
    BY <1>3, <1>4, <1>5
  <2>3. wire[i].of = wire[1].of /\ wire[i].at = wire[1].at + (i - 1)
    BY <2>1, <2>2 DEF WireInv, InOrder, Run
  <2> QED BY <1>4, <2>3
<1>7. Last(bytes) = wire[n]
  BY <1>3, <1>4 DEF Last
<1> QED BY <1>3, <1>4, <1>5, <1>6, <1>7

\* Bytes that are gone leave an orderly wire.
LEMMA Shortened ==
  ASSUME WireInv, NEW n \in 0..Len(wire), NEW rest \in Seq(Byte),
         Len(rest) = Len(wire) - n,
         \A i \in 1..(Len(wire) - n) : rest[i] = wire[i + n]
  PROVE  InOrder(rest) /\ \A i \in DOMAIN rest : rest[i].of.content \in known..version
<1>1. wire \in Seq(Byte) /\ InOrder(wire) /\ Len(wire) \in Nat
      /\ \A i \in DOMAIN wire : wire[i].of.content \in known..version
  BY DEF WireInv
<1>2. InOrder(rest)
  BY <1>1, SuffixOrder
<1>3. ASSUME NEW i \in DOMAIN rest PROVE rest[i].of.content \in known..version
  <2>1. rest[i] = wire[i + n] /\ i + n \in DOMAIN wire
    BY <1>1
  <2> QED BY <1>1, <2>1
<1> QED BY <1>2, <1>3

\* What is at the front when a fragment is gone.
LEMMA AfterFragment ==
  ASSUME WireInv, CutAtF7, NEW bytes \in Fragments, NEW rest \in Seq(Byte),
         Len(rest) = Len(wire) - Len(bytes),
         \A i \in 1..(Len(wire) - Len(bytes)) : rest[i] = wire[i + Len(bytes)]
  PROVE  /\ ~IsF7(Last(bytes)) =>
              /\ rest # <<>> /\ rest[1].of = wire[1].of
              /\ rest[1].at = wire[1].at + Len(bytes)
         /\ IsF7(Last(bytes)) =>
              IF rest = <<>> THEN wire[1].of.kind \in {"footer", "ack"}
              ELSE IsF0(rest[1]) /\ Succeeds(wire[1].of, rest[1].of)
         /\ \A i \in DOMAIN rest : rest[i].of.content >= wire[1].of.content
<1> DEFINE n == Len(bytes)
<1>1. /\ wire \in Seq(Byte) /\ InOrder(wire) /\ Len(wire) \in Nat /\ n \in 1..Len(wire)
      /\ DOMAIN wire = 1..Len(wire) /\ DOMAIN rest = 1..(Len(wire) - n)
      /\ (rest = <<>> <=> n = Len(wire)) /\ wire # <<>>
      /\ \A i \in 1..n : wire[i].of = wire[1].of /\ wire[i].at = wire[1].at + (i - 1)
      /\ \A i \in 1..(n - 1) : ~IsF7(wire[i])
      /\ Last(bytes) = wire[n]
      /\ \A i \in 1..(Len(wire) - n) : rest[i] = wire[i + n]
  <2>1. wire \in Seq(Byte) /\ InOrder(wire)
    BY DEF WireInv
  <2>2. /\ Len(wire) \in Nat /\ n \in 1..Len(wire) /\ Last(bytes) = wire[n]
        /\ \A i \in 1..n : bytes[i] = wire[i]
        /\ \A i \in 1..n : bytes[i].of = wire[1].of /\ bytes[i].at = wire[1].at + (i - 1)
        /\ \A i \in 1..(n - 1) : ~IsF7(bytes[i])
    BY FragmentIs
  <2> HIDE DEF n
  <2>3. /\ \A i \in 1..n : wire[i].of = wire[1].of /\ wire[i].at = wire[1].at + (i - 1)
        /\ \A i \in 1..(n - 1) : ~IsF7(wire[i])
    <3>1. ASSUME NEW i \in 1..n
          PROVE  wire[i].of = wire[1].of /\ wire[i].at = wire[1].at + (i - 1)
      BY <2>2
    <3>2. ASSUME NEW i \in 1..(n - 1) PROVE ~IsF7(wire[i])
      <4>1. i \in 1..n
        BY <2>2
      <4> QED BY <2>2, <4>1
    <3> QED BY <3>1, <3>2
  <2>4. Len(rest) = Len(wire) - n /\ \A i \in 1..(Len(wire) - n) : rest[i] = wire[i + n]
    BY DEF n
  <2>5. DOMAIN wire = 1..Len(wire) /\ wire # <<>>
    BY <2>1, <2>2
  <2>6. DOMAIN rest = 1..(Len(wire) - n) /\ (rest = <<>> <=> n = Len(wire))
    BY <2>2, <2>4
  <2> QED BY <2>1, <2>2, <2>3, <2>4, <2>5, <2>6
<1> HIDE DEF n
<1>2. ASSUME ~IsF7(wire[n])
      PROVE  rest # <<>> /\ rest[1].of = wire[1].of /\ rest[1].at = wire[1].at + n
  <2>1. n # Len(wire)
    BY <1>1, <1>2 DEF InOrder
  <2>2. /\ 1 \in DOMAIN wire /\ n + 1 \in DOMAIN wire /\ 1 <= n + 1
        /\ rest[1] = wire[n + 1] /\ (n + 1) - 1 = n /\ rest # <<>>
        /\ \A k \in 1..((n + 1) - 1) : ~IsF7(wire[k])
    BY <1>1, <1>2, <2>1
  <2> DEFINE j == n + 1
  <2>a. j \in DOMAIN wire /\ 1 \in DOMAIN wire /\ 1 <= j
        /\ \A k \in 1..(j - 1) : ~IsF7(wire[k])
    BY <2>2
  <2> HIDE DEF j
  <2>b. wire[j].of = wire[1].of /\ wire[j].at = wire[1].at + (j - 1)
    BY <1>1, <2>a DEF InOrder, Run
  <2>3. wire[n + 1].of = wire[1].of /\ wire[n + 1].at = wire[1].at + ((n + 1) - 1)
    BY <2>b DEF j
  <2> QED BY <2>2, <2>3
<1>3. ASSUME IsF7(wire[n])
      PROVE  IF rest = <<>> THEN wire[1].of.kind \in {"footer", "ack"}
             ELSE IsF0(rest[1]) /\ Succeeds(wire[1].of, rest[1].of)
  <2>1. CASE rest = <<>>
    <3>1. wire[n].of = wire[1].of /\ n = Len(wire)
      BY <1>1, <2>1
    <3> QED BY <1>1, <2>1, <3>1 DEF InOrder
  <2>2. CASE rest # <<>>
    <3>1. n \in 1..(Len(wire) - 1) /\ rest[1] = wire[n + 1] /\ wire[n].of = wire[1].of
      BY <1>1, <2>2
    <3>2. IsF0(wire[n + 1]) /\ Succeeds(wire[n].of, wire[n + 1].of)
      BY <1>1, <1>3, <3>1 DEF InOrder, Run
    <3> QED BY <2>2, <3>1, <3>2
  <2> QED BY <2>1, <2>2
<1>4. ASSUME NEW i \in DOMAIN rest PROVE rest[i].of.content >= wire[1].of.content
  <2>1. 1 \in DOMAIN wire /\ i + n \in DOMAIN wire /\ 1 <= i + n /\ rest[i] = wire[i + n]
    BY <1>1
  <2>2. wire[1].of.content <= wire[i + n].of.content
    BY <1>1, <2>1 DEF InOrder, Run
  <2>3. wire[1].of.content \in Nat /\ wire[i + n].of.content \in Nat
    BY <1>1, <2>1, ByteParts
  <2> QED BY <2>1, <2>2, <2>3
<1> QED BY <1>1, <1>2, <1>3, <1>4 DEF n

\* A step of the assembler: a fragment is added to what is open, or what is open
\* is dispatched with it.
LEMMA HandUpCases ==
  ASSUME WireInv, CutAtF7, NEW bytes \in Fragments, NEW msg, HandUp(bytes, msg)
  PROVE  \/ /\ msg = <<>> /\ accumulator' = accumulator \o bytes /\ ~IsF7(Last(bytes))
            /\ accumulator = <<>> => IsF0(bytes[1])
         \/ /\ msg # <<>> /\ accumulator' = <<>> /\ msg = accumulator \o bytes
            /\ accumulator # <<>> \/ IsF0(bytes[1]) => IsF7(Last(bytes))
<1>1. accumulator \in Seq(Byte) /\ bytes \in Seq(Byte) /\ bytes # <<>>
  BY FragmentIs DEF WireInv
<1>2. <<>> \o bytes = bytes /\ accumulator \o bytes # <<>>
  BY <1>1
<1> DEFINE u == accumulator \o bytes
<1>3. accumulator = <<>> => u = bytes
  BY <1>2
<1>4. u # <<>>
  BY <1>2
<1> HIDE DEF u
<1>5. msg = IF accumulator = <<>> /\ (IsF0(bytes[1]) => IsF7(Last(bytes))) THEN bytes
            ELSE IF IsF7(Last(bytes)) THEN u ELSE <<>>
  BY DEF HandUp, dispatch, u
<1>6. accumulator' = IF msg = <<>> THEN u ELSE <<>>
  BY DEF HandUp, accumulate, u
<1> QED BY <1>1, <1>3, <1>4, <1>5, <1>6 DEF u

\* The last byte dispatched is the last one handed up.
LEMMA DispatchedIs ==
  ASSUME WireInv, CutAtF7, NEW bytes \in Fragments
  PROVE  LET msg == accumulator \o bytes IN
         /\ msg \in Seq(Byte) /\ Len(msg) = Len(accumulator) + Len(bytes)
         /\ Len(accumulator) \in Nat
         /\ \A i \in 1..(Len(accumulator) + Len(bytes)) :
              msg[i] = IF i <= Len(accumulator) THEN accumulator[i]
                       ELSE bytes[i - Len(accumulator)]
         /\ msg[Len(msg)] = Last(bytes) /\ Last(bytes).of = wire[1].of
<1>1. accumulator \in Seq(Byte) /\ bytes \in Seq(Byte) /\ Len(bytes) \in Nat \ {0}
      /\ Len(accumulator) \in Nat
  BY FragmentIs DEF WireInv
<1> DEFINE msg == accumulator \o bytes
<1>2. /\ msg \in Seq(Byte) /\ Len(msg) = Len(accumulator) + Len(bytes)
      /\ \A i \in 1..(Len(accumulator) + Len(bytes)) :
           msg[i] = IF i <= Len(accumulator) THEN accumulator[i]
                    ELSE bytes[i - Len(accumulator)]
  BY <1>1, ConcatProperties
<1> HIDE DEF msg
<1>3. msg[Len(msg)] = bytes[Len(bytes)]
  BY <1>1, <1>2
<1>4. Last(bytes) = bytes[Len(bytes)] /\ bytes[Len(bytes)].of = wire[1].of
  BY <1>1, FragmentIs DEF Last
<1> QED BY <1>1, <1>2, <1>3, <1>4 DEF msg

\* A whole message that is dispatched is the one at the front, and ends there.
LEMMA WholeIsFront ==
  ASSUME WireInv, CutAtF7, NEW bytes \in Fragments,
         Whole(accumulator \o bytes)
  PROVE  /\ wire[1].of \in StreamMessages /\ IsF7(Last(bytes))
         /\ accumulator \o bytes = Bytes(wire[1].of)
         /\ (accumulator \o bytes)[1].of = wire[1].of
<1> DEFINE msg == accumulator \o bytes
<1>1. /\ msg \in Seq(Byte) /\ Len(msg) \in Nat \ {0} /\ msg[Len(msg)] = Last(bytes)
      /\ Last(bytes).of = wire[1].of
  BY DispatchedIs, FragmentIs
<1> HIDE DEF msg
<1> DEFINE m == msg[1].of
<1>2. m \in StreamMessages /\ msg = Bytes(m)
  <2>1. msg[1] \in Byte
    BY <1>1
  <2> QED BY <2>1, ByteParts DEF Whole, msg
<1> HIDE DEF m
<1>3. IsF7(msg[Len(msg)]) /\ msg[Len(msg)].of = m /\ msg[1].of = m
  BY <1>2, MessageRun
<1> QED BY <1>1, <1>2, <1>3 DEF msg

\* The assembler keeps its part of the invariant.
LEMMA Gathered ==
  ASSUME WireInv, CutAtF7, NEW bytes \in Fragments, NEW msg, HandUp(bytes, msg)
  PROVE  accumulator' \in Seq(Byte) /\ AccumulatorOK'
<1>1. CASE msg # <<>> /\ accumulator' = <<>>
  BY <1>1 DEF AccumulatorOK
<1>2. CASE /\ accumulator' = accumulator \o bytes /\ ~IsF7(Last(bytes))
           /\ accumulator = <<>> => IsF0(bytes[1])
  <2> DEFINE u == accumulator \o bytes
  <2>1. /\ u \in Seq(Byte) /\ Len(u) = Len(accumulator) + Len(bytes)
        /\ Len(accumulator) \in Nat /\ Len(bytes) \in Nat \ {0}
        /\ \A i \in 1..(Len(accumulator) + Len(bytes)) :
             u[i] = IF i <= Len(accumulator) THEN accumulator[i]
                    ELSE bytes[i - Len(accumulator)]
    BY DispatchedIs, FragmentIs
  <2> HIDE DEF u
  <2>2. accumulator \in Seq(Byte) /\ AccumulatorOK /\ DOMAIN accumulator = 1..Len(accumulator)
        /\ (accumulator = <<>> <=> Len(accumulator) = 0)
    BY DEF WireInv
  <2>3. IsF0(u[1])
    <3>1. u[1] = IF accumulator = <<>> THEN bytes[1] ELSE accumulator[1]
      BY <2>1, <2>2
    <3> QED BY <1>2, <2>2, <3>1 DEF AccumulatorOK
  <2>4. ASSUME NEW i \in DOMAIN u PROVE ~IsF7(u[i])
    <3>0. i \in 1..(Len(accumulator) + Len(bytes))
      BY <2>1
    <3>1. CASE i <= Len(accumulator)
      <4>1. u[i] = accumulator[i] /\ i \in DOMAIN accumulator /\ accumulator # <<>>
        BY <2>1, <2>2, <3>0, <3>1
      <4> QED BY <2>2, <4>1 DEF AccumulatorOK
    <3>2. CASE i = Len(accumulator) + Len(bytes)
      BY <1>2, <2>1, <3>2, DispatchedIs DEF u
    <3>3. CASE i > Len(accumulator) /\ i # Len(accumulator) + Len(bytes)
      <4>1. u[i] = bytes[i - Len(accumulator)] /\ i - Len(accumulator) \in 1..(Len(bytes) - 1)
        BY <2>1, <3>0, <3>3
      <4> QED BY <4>1, FragmentIs
    <3> QED BY <2>1, <3>0, <3>1, <3>2, <3>3
  <2> QED BY <1>2, <2>1, <2>3, <2>4 DEF AccumulatorOK, u
<1> QED BY <1>1, <1>2, HandUpCases

\* The wire after a step that takes n bytes off it.
LEMMA Taken ==
  ASSUME WireInv, NEW n \in 0..Len(wire), wire' = SubSeq(wire, n + 1, Len(wire))
  PROVE  /\ wire' \in Seq(Byte) /\ Len(wire') = Len(wire) - n
         /\ \A i \in 1..(Len(wire) - n) : wire'[i] = wire[i + n]
         /\ InOrder(wire')
         /\ \A i \in DOMAIN wire' : wire'[i].of.content \in known..version
<1>1. wire \in Seq(Byte)
  BY DEF WireInv
<1> DEFINE rest == SubSeq(wire, n + 1, Len(wire))
<1>2. /\ rest \in Seq(Byte) /\ Len(rest) = Len(wire) - n
      /\ \A i \in 1..(Len(wire) - n) : rest[i] = wire[i + n]
  BY <1>1, SuffixIs
<1> HIDE DEF rest
<1>3. InOrder(rest) /\ \A i \in DOMAIN rest : rest[i].of.content \in known..version
  BY <1>2, Shortened
<1> QED BY <1>2, <1>3 DEF rest

\* Every step keeps the wire in order.
LEMMA WireStep ==
  ASSUME WireInv, CutAtF7, [Next]_vars
  PROVE  WireInv'
<1>0. /\ wire \in Seq(Byte) /\ InOrder(wire) /\ Len(wire) \in Nat
      /\ accumulator \in Seq(Byte) /\ AccumulatorOK
      /\ losses \in 0..MaxLosses /\ glued \in Nat
      /\ version \in 0..MaxEdits /\ dumps \in 0..MaxDumps /\ known \in 0..version
      /\ \A i \in DOMAIN wire : wire[i].of.content \in known..version
      /\ MaxLosses \in Nat /\ MaxEdits \in Nat /\ MaxDumps \in Nat
  BY PresetDumpConstants, SysExAssemblerConstants DEF WireInv
<1>1. ASSUME UNCHANGED <<medium, version, known>>, dumps' \in 0..MaxDumps
      PROVE  WireInv'
  BY <1>0, <1>1 DEF WireInv, medium, AccumulatorOK
<1>2. ASSUME NEW c \in Calls, StartDump(c) PROVE WireInv'
  <2>1. dumps' \in 0..MaxDumps /\ UNCHANGED <<version, known>>
    BY <1>0, <1>2 DEF StartDump
  <2>2. CASE UNCHANGED medium
    BY <1>1, <2>1, <2>2
  <2>3. CASE Transmit(DumpBytes(dumps', version))
    <3>1. Sendable(DumpBytes(dumps', version), version) /\ version \in Nat /\ version <= version
      BY <1>0, <2>1, DumpSendable
    <3> DEFINE s == DumpBytes(dumps', version)
    <3> HIDE DEF s
    <3>2. /\ (wire \o s) \in Seq(Byte) /\ InOrder(wire \o s)
          /\ \A i \in DOMAIN (wire \o s) : (wire \o s)[i].of.content \in known..version
      BY <3>1, Transmitted DEF s
    <3>3. wire' = wire \o s /\ UNCHANGED <<accumulator, losses, glued>>
      BY <2>3 DEF Transmit, s
    <3> QED BY <1>0, <2>1, <3>2, <3>3 DEF WireInv, AccumulatorOK
  <2> QED BY <1>2, <2>2, <2>3 DEF StartDump
<1>3. ASSUME Edit PROVE WireInv'
  <2>1. /\ version' = version + 1 /\ version' \in 0..MaxEdits
        /\ UNCHANGED <<dumps, known>> /\ known \in 0..version'
    BY <1>0, <1>3 DEF Edit
  <2> DEFINE s == Bytes(Message("ack", 0, version', 0))
  <2>2. Sendable(s, version') /\ version' \in Nat /\ version <= version'
    BY <1>0, <2>1, AckSendable
  <2>3. wire' = wire \o s /\ UNCHANGED <<accumulator, losses, glued>>
    BY <1>3 DEF Edit, Transmit
  <2> HIDE DEF s
  <2>4. /\ (wire \o s) \in Seq(Byte) /\ InOrder(wire \o s)
        /\ \A i \in DOMAIN (wire \o s) : (wire \o s)[i].of.content \in known..version'
    BY <2>2, Transmitted
  <2> QED BY <1>0, <2>1, <2>3, <2>4 DEF WireInv, AccumulatorOK
<1>4. ASSUME NEW bytes \in Fragments, Arrive(bytes) PROVE WireInv'
  <2>1. PICK msg \in {dispatch(bytes)} :
          /\ HandUp(bytes, msg)
          /\ known' = IF msg # <<>> /\ Whole(msg) /\ msg[1].of.kind = "ack"
                      THEN msg[1].of.content ELSE known
    BY <1>4 DEF Arrive
  <2>2. accumulator' \in Seq(Byte) /\ AccumulatorOK'
    BY <2>1, Gathered
  <2>3. losses' \in 0..MaxLosses /\ glued' \in Nat /\ UNCHANGED <<version, dumps>>
    BY <1>0, <1>4, <2>1 DEF HandUp, Arrive
  <2>4. wire' = SubSeq(wire, Len(bytes) + 1, Len(wire)) /\ Len(bytes) \in 0..Len(wire)
        /\ wire # <<>>
    BY <1>0, <2>1, FragmentIs DEF HandUp
  <2>5. /\ wire' \in Seq(Byte) /\ Len(wire') = Len(wire) - Len(bytes)
        /\ \A i \in 1..(Len(wire) - Len(bytes)) : wire'[i] = wire[i + Len(bytes)]
        /\ InOrder(wire')
        /\ \A i \in DOMAIN wire' : wire'[i].of.content \in known..version
    BY <2>4, Taken
  <2>6. known' \in known..version /\ (known' = known \/ known' = wire[1].of.content)
    <3>1. CASE msg # <<>> /\ Whole(msg) /\ msg[1].of.kind = "ack"
      <4>1. msg = accumulator \o bytes
        BY <2>1, <3>1, HandUpCases
      <4>2. msg[1].of = wire[1].of
        BY <3>1, <4>1, WholeIsFront
      <4>3. wire[1].of.content \in known..version
        BY <1>0, <2>4
      <4> QED BY <2>1, <3>1, <4>2, <4>3
    <3>2. CASE ~(msg # <<>> /\ Whole(msg) /\ msg[1].of.kind = "ack")
      BY <1>0, <2>1, <3>2
    <3> QED BY <3>1, <3>2
  <2>7. ASSUME NEW i \in DOMAIN wire' PROVE wire'[i].of.content \in known'..version
    <3>1. wire'[i].of.content \in known..version
      BY <2>5
    <3>2. wire'[i].of.content >= wire[1].of.content
      BY <2>5, AfterFragment
    <3> QED BY <1>0, <2>6, <3>1, <3>2
  <2>8. known' \in 0..version'
    BY <1>0, <2>3, <2>6
  <2> QED BY <1>0, <2>2, <2>3, <2>5, <2>7, <2>8 DEF WireInv
<1>5. ASSUME NEW bytes \in Fragments, LoseFragment(bytes) PROVE WireInv'
  <2>1. /\ wire' = SubSeq(wire, Len(bytes) + 1, Len(wire)) /\ Len(bytes) \in 0..Len(wire)
        /\ losses' \in 0..MaxLosses /\ UNCHANGED <<accumulator, glued, version, dumps, known>>
    BY <1>0, <1>5, FragmentIs DEF LoseFragment, Lose
  <2>2. /\ wire' \in Seq(Byte) /\ InOrder(wire')
        /\ \A i \in DOMAIN wire' : wire'[i].of.content \in known..version
    BY <2>1, Taken
  <2> QED BY <1>0, <2>1, <2>2 DEF WireInv, AccumulatorOK
<1>6. ASSUME Reconnect PROVE WireInv'
  <2>1. /\ wire' \in Suffixes(wire) /\ accumulator' = <<>>
        /\ UNCHANGED <<losses, glued, version, dumps, known>>
    BY <1>6 DEF Reconnect, Reopen
  <2>2. \E n \in 0..Len(wire) : wire' = SubSeq(wire, n + 1, Len(wire))
    BY <1>0, <2>1, SuffixOf
  <2>2a. PICK n \in 0..Len(wire) : wire' = SubSeq(wire, n + 1, Len(wire))
    BY <2>2
  <2>3. /\ wire' \in Seq(Byte) /\ InOrder(wire')
        /\ \A i \in DOMAIN wire' : wire'[i].of.content \in known..version
    BY <2>2a, Taken
  <2> QED BY <1>0, <2>1, <2>3 DEF WireInv, AccumulatorOK
<1>7. ASSUME NEW c \in Calls, Timeout(c) \/ Use(c) PROVE WireInv'
  BY <1>0, <1>1, <1>7 DEF Timeout, Use
<1>8. CASE UNCHANGED vars
  BY <1>0, <1>1, <1>8 DEF vars
<1> QED BY <1>2, <1>3, <1>4, <1>5, <1>6, <1>7, <1>8 DEF Next

LEMMA WireInit == ASSUME Init PROVE WireInv
<1>1. wire = <<>> /\ accumulator = <<>> /\ losses = 0 /\ glued = 0
      /\ version = 0 /\ dumps = 0 /\ known = 0
  BY DEF Init, MediumInit
<1>2. InOrder(<<>>) /\ <<>> \in Seq(Byte)
  BY DEF InOrder, Run
<1> QED BY <1>1, <1>2, PresetDumpConstants, SysExAssemblerConstants DEF WireInv, AccumulatorOK

----------------------------------------------------------------------------
(* What is open continues on the wire.                                     *)

Seamless ==
  accumulator # <<>> =>
    /\ wire # <<>> /\ wire[1].at = Len(accumulator) + 1
    /\ \A i \in DOMAIN accumulator : accumulator[i] = [of |-> wire[1].of, at |-> i]

LossInv == WireInv /\ glued + (IF Seamless THEN 0 ELSE 1) <= losses

\* Nothing being lost, what is gathered is the beginning of the message at the
\* front, and what is dispatched is that message.
LEMMA GatheredSeamlessly ==
  ASSUME WireInv, CutAtF7, NEW bytes \in Fragments, Seamless,
         accumulator = <<>> => IsF0(bytes[1])
  PROVE  /\ \A i \in 1..(Len(accumulator) + Len(bytes)) :
              (accumulator \o bytes)[i] = [of |-> wire[1].of, at |-> i]
         /\ wire[1].at = Len(accumulator) + 1
         /\ IsF7(Last(bytes)) => Whole(accumulator \o bytes)
<1> DEFINE u == accumulator \o bytes  a == Len(accumulator)  b == Len(bytes)  m == wire[1].of
<1>1. /\ u \in Seq(Byte) /\ Len(u) = a + b /\ a \in Nat /\ b \in Nat \ {0}
      /\ \A i \in 1..(a + b) : u[i] = IF i <= a THEN accumulator[i] ELSE bytes[i - a]
      /\ u[Len(u)] = Last(bytes) /\ Last(bytes).of = m
  BY DispatchedIs, FragmentIs
<1>2. /\ \A i \in 1..b : bytes[i] \in Byte /\ bytes[i].of = m /\ bytes[i].at = wire[1].at + (i - 1)
      /\ wire[1] \in Byte /\ bytes[1] = wire[1]
  <2>1. bytes \in Seq(Byte) /\ wire \in Seq(Byte) /\ b \in 1..Len(wire)
    BY FragmentIs DEF WireInv
  <2>2. ASSUME NEW i \in 1..b
        PROVE  bytes[i] \in Byte /\ bytes[i].of = m /\ bytes[i].at = wire[1].at + (i - 1)
    BY <2>1, FragmentIs
  <2>3. bytes[1] = wire[1] /\ wire[1] \in Byte
    BY <2>1, FragmentIs
  <2> QED BY <2>2, <2>3
<1>3. /\ (accumulator = <<>> <=> a = 0) /\ DOMAIN accumulator = 1..a
      /\ wire[1].at \in Nat /\ m \in StreamMessages
  BY <1>2, ByteParts DEF WireInv
<1>4. wire[1].at = a + 1
  BY <1>1, <1>2, <1>3 DEF Seamless, IsF0
<1>5. \A i \in 1..a : accumulator[i] = [of |-> m, at |-> i]
  BY <1>1, <1>3 DEF Seamless
<1> HIDE DEF u, a, b, m
<1>6. ASSUME NEW i \in 1..(a + b) PROVE u[i] = [of |-> m, at |-> i]
  <2>1. CASE i <= a
    <3>1. i \in 1..a /\ u[i] = accumulator[i]
      BY <1>1, <2>1
    <3> QED BY <1>5, <3>1
  <2>2. CASE ~(i <= a)
    <3>1. i - a \in 1..b /\ u[i] = bytes[i - a] /\ wire[1].at + ((i - a) - 1) = i
      BY <1>1, <1>4, <2>2
    <3>2. u[i] \in Byte /\ u[i].of = m /\ u[i].at = i
      BY <1>2, <3>1
    <3> QED BY <3>2 DEF Byte
  <2> QED BY <2>1, <2>2
<1>7. ASSUME IsF7(Last(bytes)) PROVE Whole(u)
  <2>1. u[a + b] = [of |-> m, at |-> a + b] /\ u[1] = [of |-> m, at |-> 1]
    BY <1>1, <1>6
  <2>2. a + b = Length(m) /\ u[1].of = m
    BY <1>1, <1>7, <2>1 DEF IsF7
  <2>3. /\ Bytes(m) \in Seq(Byte) /\ Len(Bytes(m)) = a + b
        /\ \A i \in 1..(a + b) : Bytes(m)[i] = [of |-> m, at |-> i]
    BY <1>3, <2>2, BytesOK
  <2> DEFINE v == Bytes(m)
  <2> HIDE DEF v
  <2>4. v \in Seq(Byte) /\ Len(v) = Len(u) /\ \A i \in 1..Len(u) : u[i] = v[i]
    BY <1>1, <1>6, <2>3 DEF v
  <2>5. u = v
    BY <1>1, <2>4
  <2> QED BY <2>2, <2>5 DEF Whole, v
<1> QED BY <1>4, <1>6, <1>7 DEF u, a, b, m

\* What is sent behind the front does not disturb it.
LEMMA FrontStays ==
  ASSUME WireInv, NEW s \in Seq(Byte), wire' = wire \o s, wire # <<>>
  PROVE  wire' # <<>> /\ wire'[1] = wire[1]
<1>1. wire \in Seq(Byte)
  BY DEF WireInv
<1>2. wire'[1] = wire[1] /\ Len(wire') > 0
  BY <1>1, ConcatProperties
<1> QED BY <1>1, <1>2

\* A transmission: a dump or an acknowledgement, behind what is on the wire.
LEMMA TransmitCases ==
  ASSUME WireInv, [Next]_vars, ~UNCHANGED medium,
         \A bytes \in Fragments : ~Arrive(bytes) /\ ~LoseFragment(bytes), ~Reconnect
  PROVE  \E s \in Seq(Byte) : Sendable(s, version') /\ Transmit(s)
<1>0. version \in 0..MaxEdits /\ dumps \in 0..MaxDumps /\ MaxEdits \in Nat /\ MaxDumps \in Nat
  BY PresetDumpConstants DEF WireInv
<1>1. ASSUME NEW c \in Calls, StartDump(c)
      PROVE  \E s \in Seq(Byte) : Sendable(s, version') /\ Transmit(s)
  <2>1. dumps' \in 0..MaxDumps /\ version' = version /\ Transmit(DumpBytes(dumps', version))
    BY <1>0, <1>1 DEF StartDump
  <2>2. Sendable(DumpBytes(dumps', version), version)
    BY <1>0, <2>1, DumpSendable
  <2> QED BY <2>1, <2>2 DEF Sendable
<1>2. ASSUME Edit PROVE \E s \in Seq(Byte) : Sendable(s, version') /\ Transmit(s)
  <2>1. version' \in 0..MaxEdits /\ Transmit(Bytes(Message("ack", 0, version', 0)))
    BY <1>0, <1>2 DEF Edit
  <2>2. Sendable(Bytes(Message("ack", 0, version', 0)), version')
    BY <1>0, <2>1, AckSendable
  <2> QED BY <2>1, <2>2 DEF Sendable
<1> QED BY <1>1, <1>2 DEF Next, Timeout, Use, vars, medium

LEMMA LossStep ==
  ASSUME LossInv, CutAtF7, [Next]_vars
  PROVE  LossInv'
<1>0. WireInv /\ glued \in Nat /\ losses \in Nat /\ glued <= losses
      /\ (~Seamless => glued + 1 <= losses)
  BY SysExAssemblerConstants DEF LossInv, WireInv
<1>1. WireInv'
  BY <1>0, WireStep
<1> SUFFICES glued' + (IF Seamless' THEN 0 ELSE 1) <= losses'
  BY <1>1 DEF LossInv
<1>2. ASSUME glued' = glued, losses' = losses, Seamless => Seamless'
      PROVE  glued' + (IF Seamless' THEN 0 ELSE 1) <= losses'
  BY <1>0, <1>2
<1>3. CASE UNCHANGED medium
  BY <1>2, <1>3 DEF medium, Seamless
<1>4. ASSUME NEW bytes \in Fragments, Arrive(bytes)
      PROVE  glued' + (IF Seamless' THEN 0 ELSE 1) <= losses'
  <2>1. PICK msg \in {dispatch(bytes)} : HandUp(bytes, msg)
    BY <1>4 DEF Arrive
  <2>2. /\ losses' = losses /\ glued' = (IF IsGlued(msg) THEN glued + 1 ELSE glued)
        /\ wire' = SubSeq(wire, Len(bytes) + 1, Len(wire))
    BY <2>1 DEF HandUp
  <2>3. CASE /\ msg = <<>> /\ accumulator' = accumulator \o bytes /\ ~IsF7(Last(bytes))
             /\ accumulator = <<>> => IsF0(bytes[1])
    <3>1. glued' = glued
      BY <2>2, <2>3 DEF IsGlued
    <3>2. ASSUME Seamless PROVE Seamless'
      <4>1. /\ \A i \in 1..(Len(accumulator) + Len(bytes)) :
                  (accumulator \o bytes)[i] = [of |-> wire[1].of, at |-> i]
            /\ wire[1].at = Len(accumulator) + 1
        BY <1>0, <2>3, <3>2, GatheredSeamlessly
      <4>2. /\ wire' \in Seq(Byte) /\ Len(wire') = Len(wire) - Len(bytes)
            /\ \A i \in 1..(Len(wire) - Len(bytes)) : wire'[i] = wire[i + Len(bytes)]
            /\ Len(bytes) \in Nat
        <5>1. Len(bytes) \in 0..Len(wire) /\ Len(bytes) \in Nat
          BY <1>0, FragmentIs
        <5> QED BY <1>0, <2>2, <5>1, Taken
      <4>3. wire' # <<>> /\ wire'[1].of = wire[1].of /\ wire'[1].at = wire[1].at + Len(bytes)
        BY <1>0, <2>3, <4>2, AfterFragment
      <4>4. /\ accumulator' \in Seq(Byte) /\ Len(accumulator') = Len(accumulator) + Len(bytes)
            /\ Len(accumulator) \in Nat
        BY <1>0, <2>3, DispatchedIs
      <4>5. wire'[1].at = Len(accumulator') + 1
        BY <4>1, <4>2, <4>3, <4>4
      <4>6. \A i \in DOMAIN accumulator' : accumulator'[i] = [of |-> wire'[1].of, at |-> i]
        BY <2>3, <4>1, <4>3, <4>4
      <4> QED BY <4>3, <4>5, <4>6 DEF Seamless
    <3> QED BY <1>2, <2>2, <3>1, <3>2
  <2>4. CASE /\ msg # <<>> /\ accumulator' = <<>> /\ msg = accumulator \o bytes
             /\ accumulator # <<>> \/ IsF0(bytes[1]) => IsF7(Last(bytes))
    <3>1. Seamless'
      BY <2>4 DEF Seamless
    <3>2. ASSUME IsGlued(msg), Seamless PROVE FALSE
      <4>1. accumulator = <<>> => IsF0(bytes[1])
        <5>1. accumulator = <<>> => msg[1] = bytes[1]
          BY <1>0, <2>4, DispatchedIs, FragmentIs
        <5> QED BY <3>2, <5>1 DEF IsGlued
      <4>2. Whole(accumulator \o bytes)
        BY <1>0, <2>4, <3>2, <4>1, GatheredSeamlessly
      <4> QED BY <2>4, <3>2, <4>2 DEF IsGlued
    <3> QED BY <1>0, <2>2, <3>1, <3>2
  <2> QED BY <1>0, <2>1, <2>3, <2>4, HandUpCases
<1>5. ASSUME NEW bytes \in Fragments, LoseFragment(bytes)
      PROVE  glued' + (IF Seamless' THEN 0 ELSE 1) <= losses'
  BY <1>0, <1>5 DEF LoseFragment, Lose
<1>6. ASSUME Reconnect PROVE glued' + (IF Seamless' THEN 0 ELSE 1) <= losses'
  BY <1>2, <1>6 DEF Reconnect, Reopen, Seamless
<1>7. ASSUME NEW s \in Seq(Byte), Transmit(s)
      PROVE  glued' + (IF Seamless' THEN 0 ELSE 1) <= losses'
  <2>1. wire' = wire \o s /\ UNCHANGED <<accumulator, losses, glued>>
    BY <1>7 DEF Transmit
  <2>2. wire # <<>> => wire' # <<>> /\ wire'[1] = wire[1]
    BY <1>0, <2>1, FrontStays
  <2> QED BY <1>2, <2>1, <2>2 DEF Seamless
<1> QED BY <1>0, <1>3, <1>4, <1>5, <1>6, <1>7, TransmitCases

LEMMA LossOK == ASSUME CutAtF7 PROVE Spec => []LossInv
<1>1. Init => LossInv
  BY WireInit DEF LossInv, Seamless, Init, MediumInit
<1>2. LossInv /\ [Next]_vars => LossInv'
  BY LossStep
<1> QED BY <1>1, <1>2, PTL DEF Spec

\* Each lost fragment mangles at most one dispatched message
\* (packages/core/src/midi/transport.ts:66): the beginning that an open message
\* keeps of what was lost is spent with the message it is dispatched in.
THEOREM LossContained == ASSUME CutAtF7 PROVE Spec => []LossIsContained
<1>1. LossInv => LossIsContained
  BY SysExAssemblerConstants DEF LossInv, WireInv, LossIsContained
<1> QED BY <1>1, LossOK, PTL

----------------------------------------------------------------------------
(* What the calls have received.                                           *)

CallRecords ==
  [pc : {"idle", "waiting", "resolved"}, since : Nat, listening : BOOLEAN,
   header : Seq(Byte), chunks : Seq(Seq(Byte)), footer : Seq(Byte)]

\* A header in one piece, and then chunks, and then a footer; what the header
\* shows was in the buffer when the dump was asked for, or later.
CallInv(r) ==
  /\ r \in CallRecords
  /\ r.listening => r.pc = "waiting" /\ r.since <= known
  /\ r.header # <<>> =>
       /\ \E m \in StreamMessages : m.kind = "header" /\ r.header = Bytes(m)
       /\ r.header[1].of.content >= r.since
  /\ Len(r.chunks) <= CHUNKS_PER_PRESET
  /\ r.header = <<>> => r.chunks = <<>>
  /\ r.footer # <<>> <=> r.pc = "resolved"
  /\ r.pc = "resolved" => r.header # <<>>

CallsInv == WireInv /\ DOMAIN call = Calls /\ \A c \in Calls : CallInv(call[c])

TakesHeader(r, m, next) ==
  m.kind = "header" /\ r.header = <<>> /\ next = [r EXCEPT !.header = Bytes(m)]

TakesChunk(r, m, next) ==
  /\ m.kind = "chunk" /\ r.header # <<>> /\ Len(r.chunks) < CHUNKS_PER_PRESET
  /\ next = [r EXCEPT !.chunks = Append(r.chunks, Bytes(m))]

TakesFooter(r, m, next) ==
  /\ m.kind = "footer" /\ r.header # <<>> /\ Len(r.chunks) = CHUNKS_PER_PRESET
  /\ next = [r EXCEPT !.footer = Bytes(m), !.pc = "resolved", !.listening = FALSE]

\* What a message does to a call: nothing, it rejects the dump, or it is the
\* message at the front and is taken whole.
LEMMA Delivery ==
  ASSUME WireInv, CutAtF7, NEW bytes \in Fragments, NEW msg, HandUp(bytes, msg),
         NEW r
  PROVE  LET m == wire[1].of  next == onMessage(r, msg) IN
         \/ /\ next = r
            /\ ~r.listening \/ msg = <<>> \/ ~IsF0(msg[1]) \/ msg[1].of.kind \notin DumpKinds
         \/ next = Idle
         \/ /\ r.listening /\ msg # <<>> /\ Whole(msg) /\ m \in StreamMessages
            /\ TakesHeader(r, m, next) \/ TakesChunk(r, m, next) \/ TakesFooter(r, m, next)
<1> DEFINE m == wire[1].of  next == onMessage(r, msg)
           passes == ~r.listening \/ msg = <<>> \/ ~IsF0(msg[1]) \/ msg[1].of.kind \notin DumpKinds
<1>1. CASE passes
  BY <1>1 DEF onMessage
<1>2. CASE ~passes /\ ~Fits(r, msg)
  BY <1>2 DEF onMessage
<1>3. CASE ~passes /\ Fits(r, msg)
  <2>1. msg = accumulator \o bytes /\ Whole(msg) /\ msg # <<>> /\ r.listening
    BY <1>3, HandUpCases DEF Fits
  <2>2. m \in StreamMessages /\ msg = Bytes(m) /\ msg[1].of = m
    BY <2>1, WholeIsFront
  <2>3. next = Take(r, msg) /\ m.kind \in {"header", "chunk", "footer"}
    BY <1>3, <2>2 DEF onMessage, DumpKinds
  <2> HIDE DEF m, next
  <2>4. CASE m.kind = "header"
    <3>1. TakesHeader(r, m, next)
      BY <1>3, <2>2, <2>3, <2>4 DEF Fits, Take, TakesHeader
    <3> QED BY <2>1, <2>2, <3>1 DEF m, next
  <2>5. CASE m.kind = "chunk"
    <3>1. TakesChunk(r, m, next)
      BY <1>3, <2>2, <2>3, <2>5 DEF Fits, Take, TakesChunk
    <3> QED BY <2>1, <2>2, <3>1 DEF m, next
  <2>6. CASE m.kind = "footer"
    <3>1. TakesFooter(r, m, next)
      BY <1>3, <2>2, <2>3, <2>6 DEF Fits, Take, TakesFooter
    <3> QED BY <2>1, <2>2, <3>1 DEF m, next
  <2> QED BY <2>3, <2>4, <2>5, <2>6
<1> QED BY <1>1, <1>2, <1>3

LEMMA IdleOK ==
  /\ Idle \in CallRecords /\ ~Idle.listening /\ Idle.pc = "idle"
  /\ Idle.header = <<>> /\ Idle.chunks = <<>> /\ Len(Idle.chunks) = 0 /\ Idle.footer = <<>>
<1>1. <<>> \in Seq(Byte) /\ <<>> \in Seq(Seq(Byte))
  OBVIOUS
<1> QED BY <1>1 DEF Idle, CallRecords

LEMMA TakenOK ==
  ASSUME CallsInv, NEW r, CallInv(r), r.listening,
         NEW m \in StreamMessages, m.content \in Nat, m.content >= known, NEW next,
         TakesHeader(r, m, next) \/ TakesChunk(r, m, next) \/ TakesFooter(r, m, next)
  PROVE  CallInv(next)
<1>1. /\ r \in CallRecords /\ r.pc = "waiting" /\ r.since <= known /\ r.since \in Nat
      /\ r.header \in Seq(Byte) /\ r.chunks \in Seq(Seq(Byte)) /\ r.footer = <<>>
      /\ known \in Nat /\ Len(r.chunks) <= CHUNKS_PER_PRESET
      /\ Len(r.chunks) \in Nat /\ CHUNKS_PER_PRESET \in Nat
      /\ (r.header = <<>> => r.chunks = <<>>)
  BY PresetDumpConstants DEF CallsInv, WireInv, CallInv, CallRecords
<1>2. Bytes(m) \in Seq(Byte) /\ Bytes(m) # <<>> /\ Bytes(m)[1].of = m
  BY BytesOK, MessageRun
<1>3. CASE TakesHeader(r, m, next)
  <2>1. /\ next \in CallRecords /\ next.header = Bytes(m) /\ next.pc = r.pc
        /\ next.since = r.since /\ next.listening = r.listening
        /\ next.chunks = r.chunks /\ next.footer = r.footer
    BY <1>1, <1>2, <1>3 DEF TakesHeader, CallRecords
  <2>2. next.header[1].of.content >= next.since /\ m.kind = "header"
    BY <1>1, <1>2, <1>3, <2>1 DEF TakesHeader
  <2> QED BY <1>1, <1>2, <2>1, <2>2 DEF CallInv
<1>4. CASE TakesChunk(r, m, next)
  <2> DEFINE more == Append(r.chunks, Bytes(m))
  <2>0. more \in Seq(Seq(Byte)) /\ Len(more) = Len(r.chunks) + 1
    BY <1>1, <1>2
  <2>a. next = [r EXCEPT !.chunks = more]
    BY <1>4 DEF TakesChunk
  <2> HIDE DEF more
  <2>1. /\ next \in CallRecords /\ next.header = r.header /\ next.pc = r.pc
        /\ next.since = r.since /\ next.listening = r.listening
        /\ next.chunks = more /\ next.footer = r.footer
    BY <1>1, <2>0, <2>a DEF CallRecords
  <2>2. Len(next.chunks) <= CHUNKS_PER_PRESET /\ r.header # <<>>
    BY <1>1, <1>4, <2>0, <2>1 DEF TakesChunk
  <2> QED BY <1>1, <2>1, <2>2 DEF CallInv
<1>5. CASE TakesFooter(r, m, next)
  <2>1. /\ next \in CallRecords /\ next.header = r.header /\ next.pc = "resolved"
        /\ next.since = r.since /\ next.listening = FALSE
        /\ next.chunks = r.chunks /\ next.footer = Bytes(m) /\ r.header # <<>>
    BY <1>1, <1>2, <1>5 DEF TakesFooter, CallRecords
  <2> QED BY <1>1, <1>2, <2>1 DEF CallInv
<1> QED BY <1>3, <1>4, <1>5

LEMMA CallsStep ==
  ASSUME CallsInv, CutAtF7, [Next]_vars
  PROVE  CallsInv'
<1>0. /\ WireInv /\ WireInv' /\ DOMAIN call = Calls /\ \A c \in Calls : CallInv(call[c])
      /\ known \in Nat /\ known' \in Nat
  BY PresetDumpConstants, WireStep DEF CallsInv, WireInv
<1>k. ASSUME known' = known, DOMAIN call' = Calls,
             \A d \in Calls : CallInv(call[d]) => CallInv(call'[d])
      PROVE  CallsInv'
  BY <1>0, <1>k DEF CallsInv, CallInv
<1>i. CallInv(Idle)
  BY IdleOK, PresetDumpConstants DEF CallInv
<1>1. ASSUME NEW c \in Calls, StartDump(c) PROVE CallsInv'
  <2> DEFINE r == [Idle EXCEPT !.pc = "waiting", !.since = known, !.listening = TRUE]
  <2>1. CallInv(r)
    <3>1. /\ r \in CallRecords /\ r.pc = "waiting" /\ r.since = known /\ r.listening
          /\ r.header = <<>> /\ r.chunks = <<>> /\ r.footer = <<>>
      BY <1>0, IdleOK DEF Idle, CallRecords
    <3> HIDE DEF r
    <3> QED BY <1>0, <3>1, PresetDumpConstants DEF CallInv
  <2>2. call' = [call EXCEPT ![c] = r] /\ known' = known
    BY <1>1 DEF StartDump
  <2> HIDE DEF r
  <2> QED BY <1>0, <1>k, <2>1, <2>2
<1>2. ASSUME Edit PROVE CallsInv'
  BY <1>0, <1>2, <1>k DEF Edit
<1>3. ASSUME NEW bytes \in Fragments, Arrive(bytes) PROVE CallsInv'
  <2>1. PICK msg \in {dispatch(bytes)} :
          /\ HandUp(bytes, msg)
          /\ call' = [c \in Calls |-> onMessage(call[c], msg)]
          /\ known' = IF msg # <<>> /\ Whole(msg) /\ msg[1].of.kind = "ack"
                      THEN msg[1].of.content ELSE known
    BY <1>3 DEF Arrive
  <2> DEFINE m == wire[1].of
  <2>2. wire[1].of.content >= known /\ wire[1].of.content \in Nat
    <3>1. wire \in Seq(Byte) /\ \A i \in DOMAIN wire : wire[i].of.content \in known..version
      BY <1>0 DEF WireInv
    <3>2. Len(wire) \in Nat \ {0}
      BY <1>0, FragmentIs
    <3>3. 1 \in DOMAIN wire
      BY <3>1, <3>2
    <3>4. wire[1].of.content \in known..version /\ version \in Nat
      BY <1>0, <3>1, <3>3, PresetDumpConstants DEF WireInv
    <3> QED BY <1>0, <3>4
  <2>3. known <= known'
    <3>1. CASE msg # <<>> /\ Whole(msg) /\ msg[1].of.kind = "ack"
      <4>1. msg = accumulator \o bytes
        BY <1>0, <2>1, <3>1, HandUpCases
      <4>2. msg[1].of = wire[1].of
        BY <1>0, <3>1, <4>1, WholeIsFront
      <4> QED BY <1>0, <2>1, <2>2, <3>1, <4>2
    <3>2. CASE ~(msg # <<>> /\ Whole(msg) /\ msg[1].of.kind = "ack")
      BY <1>0, <2>1, <3>2
    <3> QED BY <3>1, <3>2
  <2>4. ASSUME NEW c \in Calls PROVE CallInv(onMessage(call[c], msg))
    <3> DEFINE r == call[c]  next == onMessage(r, msg)
    <3> HIDE DEF r, next, m
    <3>1. CallInv(r)
      BY <1>0 DEF r
    <3>2. \/ next = r \/ next = Idle
          \/ /\ r.listening /\ m \in StreamMessages
             /\ TakesHeader(r, m, next) \/ TakesChunk(r, m, next) \/ TakesFooter(r, m, next)
      BY <1>0, <2>1, Delivery DEF next, m
    <3>3. m.content \in Nat /\ m.content >= known
      BY <2>2 DEF m
    <3>4. CallInv(next)
      BY <1>i, <3>1, <3>2, <3>3, TakenOK
    <3> QED BY <3>4 DEF next, r
  <2>5. ASSUME NEW c \in Calls PROVE CallInv(call[c])'
    <3> DEFINE r == onMessage(call[c], msg)
    <3>1. CallInv(r)
      BY <2>4
    <3>2. call'[c] = r
      BY <2>1
    <3> HIDE DEF r
    <3> QED BY <1>0, <2>3, <3>1, <3>2 DEF CallInv, CallRecords
  <2>6. DOMAIN call' = Calls
    BY <2>1
  <2> QED BY <1>0, <2>5, <2>6 DEF CallsInv
<1>4. ASSUME NEW bytes \in Fragments, LoseFragment(bytes) PROVE CallsInv'
  BY <1>0, <1>4, <1>k DEF LoseFragment
<1>5. ASSUME Reconnect PROVE CallsInv'
  <2>1. call' = [c \in Calls |-> [call[c] EXCEPT !.listening = FALSE]] /\ known' = known
    BY <1>5 DEF Reconnect
  <2>2. ASSUME NEW d \in Calls, CallInv(call[d]) PROVE CallInv(call'[d])
    <3> DEFINE r == call[d]  next == [r EXCEPT !.listening = FALSE]
    <3>1. CallInv(r) /\ call'[d] = next
      BY <2>1, <2>2
    <3> HIDE DEF r
    <3>2. /\ next \in CallRecords /\ next.header = r.header /\ next.pc = r.pc
          /\ next.since = r.since /\ next.listening = FALSE
          /\ next.chunks = r.chunks /\ next.footer = r.footer
      BY <3>1 DEF CallInv, CallRecords
    <3> HIDE DEF next
    <3> QED BY <3>1, <3>2 DEF CallInv
  <2> QED BY <1>k, <2>1, <2>2
<1>6. ASSUME NEW c \in Calls, Timeout(c) \/ Use(c) PROVE CallsInv'
  <2>1. call' = [call EXCEPT ![c] = Idle] /\ known' = known
    BY <1>6 DEF Timeout, Use
  <2> QED BY <1>0, <1>i, <1>k, <2>1
<1>7. CASE UNCHANGED vars
  BY <1>0, <1>k, <1>7 DEF vars
<1> QED BY <1>1, <1>2, <1>3, <1>4, <1>5, <1>6, <1>7 DEF Next

LEMMA CallsOK == ASSUME CutAtF7 PROVE Spec => []CallsInv
<1>1. Init => CallsInv
  <2> SUFFICES ASSUME Init PROVE CallsInv
    OBVIOUS
  <2>1. call = [c \in Calls |-> Idle] /\ WireInv
    BY WireInit DEF Init
  <2> QED BY <2>1, IdleOK, PresetDumpConstants DEF CallsInv, CallInv
<1>2. CallsInv /\ [Next]_vars => CallsInv'
  BY CallsStep
<1> QED BY <1>1, <1>2, PTL DEF Spec

\* State of the right shape; a call that waits has received a prefix of a dump
\* (packages/am4/src/presetDump.ts:322-384).
THEOREM TypeCorrect == ASSUME CutAtF7 PROVE Spec => []TypeOK
<1>1. CallsInv => TypeOK
  <2> SUFFICES ASSUME CallsInv PROVE TypeOK
    OBVIOUS
  <2>1. /\ version \in Nat /\ dumps \in 0..MaxDumps /\ known \in 0..version /\ AccumulatorOK
        /\ \A c \in Calls : CallInv(call[c])
    BY PresetDumpConstants DEF CallsInv, WireInv
  <2>2. ASSUME NEW c \in Calls PROVE CallOK(call[c])
    <3> DEFINE r == call[c]
    <3>1. CallInv(r)
      BY <2>1
    <3> HIDE DEF r
    <3>2. r.header = <<>> \/ Whole(r.header)
      <4>1. CASE r.header # <<>>
        <5>1. PICK m \in StreamMessages : r.header = Bytes(m)
          BY <3>1, <4>1 DEF CallInv
        <5>2. Bytes(m)[1].of = m
          BY MessageRun
        <5> QED BY <5>1, <5>2 DEF Whole
      <4> QED BY <4>1
    <3>3. CallOK(r)
      BY <3>1, <3>2 DEF CallInv, CallRecords, CallOK
    <3> QED BY <3>3 DEF r
  <2> QED BY <2>1, <2>2 DEF TypeOK
<1> QED BY <1>1, CallsOK, PTL

\* A dump that is given out may be a late answer, and shows every edit whose
\* acknowledgement had arrived when it was asked for
\* (packages/am4/src/presetDump.ts:322-384, packages/am4/src/safeEdit.ts): what
\* is on the wire is at least as new as what is known, at any time.
THEOREM KnownEditsShown == ASSUME CutAtF7 PROVE Spec => []DumpShowsKnownEdits
<1>1. CallsInv => DumpShowsKnownEdits
  <2> SUFFICES ASSUME CallsInv, NEW c \in Calls, call[c].pc = "resolved"
               PROVE  call[c].header[1].of.content >= call[c].since
    BY DEF DumpShowsKnownEdits
  <2>1. CallInv(call[c])
    BY DEF CallsInv
  <2> QED BY <2>1 DEF CallInv
<1> QED BY <1>1, CallsOK, PTL

----------------------------------------------------------------------------
(* How many messages of dumps have gone by since a header.                 *)

\* The place in its dump of the message at the front.
Place ==
  IF wire = <<>> THEN 0
  ELSE CASE wire[1].of.kind = "chunk" -> wire[1].of.i
         [] wire[1].of.kind = "footer" -> CHUNKS_PER_PRESET + 1
         [] OTHER -> 0

\* A loss has been paid for a message of a dump that is still at the front, or
\* still to come: its beginning is gone, or what is open is an acknowledgement
\* that will swallow it.
Owes ==
  /\ IF wire = <<>> THEN accumulator # <<>>
     ELSE wire[1].of.kind \in DumpKinds /\ (accumulator # <<>> \/ ~IsF0(wire[1]))
  /\ accumulator # <<>> => accumulator[1].of.kind = "ack"

\* The front of the wire, and the losses spent on what went by before it.
WireFront ==
  [of |-> wire[1].of, place |-> Place, spent |-> IF Owes THEN losses - 1 ELSE losses]

FrontOK(f) ==
  /\ f.place \in 0..(CHUNKS_PER_PRESET + 1) /\ f.spent \in Int /\ f.spent <= MaxLosses
  /\ f.place > 0 => f.of.kind \in {"chunk", "footer"}
  /\ f.place > 0 /\ f.of.kind = "chunk" => f.of.i = f.place
  /\ f.place > 0 /\ f.of.kind = "footer" => f.place = CHUNKS_PER_PRESET + 1

\* The front is in the dump of the header: chunk j is not an earlier one than
\* the j-th, and as many have gone by without a loss as were received.
SameDump(r, f) ==
  LET h == r.header[1].of  k == Len(r.chunks) IN
  /\ f.place > 0 /\ f.of.dump = h.dump /\ f.of.content = h.content
  /\ k <= f.place - 1 /\ f.place - 1 - k <= f.spent
  /\ \A j \in 1..k : \E i \in j..(f.place - 1 - (k - j)) :
       r.chunks[j] = Bytes(Message("chunk", h.dump, h.content, i))

\* The front is beyond that dump.
LaterDump(r, f) ==
  CHUNKS_PER_PRESET + 1 + f.place - Len(r.chunks) <= f.spent

\* The call was given one dump.
OnePiece(r) ==
  LET h == r.header[1].of IN
  /\ Len(r.chunks) = CHUNKS_PER_PRESET
  /\ \A j \in 1..CHUNKS_PER_PRESET :
       r.chunks[j] = Bytes(Message("chunk", h.dump, h.content, j))
  /\ r.footer = Bytes(Message("footer", h.dump, h.content, 0))

PieceInv(r, f) ==
  /\ r.listening /\ r.header # <<>> => SameDump(r, f) \/ LaterDump(r, f)
  /\ r.pc = "resolved" => OnePiece(r)

PiecesInv == CallsInv /\ \A c \in Calls : PieceInv(call[c], WireFront)

\* What a step does to the front.  It stays; or a message of a dump has gone by,
\* at the price of a loss when no call has received it.
Stays(f, g) ==
  /\ g.place = f.place /\ f.spent <= g.spent
  /\ f.place > 0 => g.of = f.of

Passes(f, g) ==
  /\ f.of.kind \in DumpKinds /\ f.spent <= g.spent
  /\ IF f.of.kind = "footer" THEN f.place = CHUNKS_PER_PRESET + 1 /\ g.place = 0
     ELSE /\ g.place = f.place + 1
          /\ g.of.dump = f.of.dump /\ g.of.content = f.of.content

Missed(f, g) == Passes(f, g) /\ f.spent + 1 <= g.spent

LEMMA KeptWhenStaying ==
  ASSUME NEW f, NEW g, FrontOK(f), FrontOK(g), Stays(f, g),
         NEW r \in CallRecords, PieceInv(r, f)
  PROVE  PieceInv(r, g)
<1>1. /\ f.place \in Nat /\ g.place = f.place /\ f.spent \in Int /\ g.spent \in Int
      /\ f.spent <= g.spent /\ CHUNKS_PER_PRESET \in Nat /\ Len(r.chunks) \in Nat
  BY PresetDumpConstants DEF Stays, FrontOK, CallRecords
<1>2. ASSUME SameDump(r, f) PROVE SameDump(r, g)
  <2>1. g.of = f.of
    BY <1>2 DEF SameDump, Stays
  <2>2. g.place - 1 - Len(r.chunks) <= g.spent
    BY <1>1, <1>2 DEF SameDump
  <2> QED BY <1>1, <1>2, <2>1, <2>2 DEF SameDump
<1>3. ASSUME LaterDump(r, f) PROVE LaterDump(r, g)
  BY <1>1, <1>3 DEF LaterDump
<1> QED BY <1>2, <1>3 DEF PieceInv

LEMMA KeptWhenMissed ==
  ASSUME NEW f, NEW g, FrontOK(f), FrontOK(g), Missed(f, g),
         NEW r, CallInv(r), PieceInv(r, f)
  PROVE  PieceInv(r, g)
<1> DEFINE h == r.header[1].of  k == Len(r.chunks)
<1>1. /\ f.place \in Nat /\ g.place \in Nat /\ f.spent \in Int /\ g.spent \in Int
      /\ f.spent + 1 <= g.spent /\ CHUNKS_PER_PRESET \in Nat \ {0} /\ k \in Nat
  BY PresetDumpConstants DEF Missed, FrontOK, CallInv, CallRecords
<1>s. /\ SameDump(r, f) =>
           /\ f.place > 0 /\ f.of.dump = h.dump /\ f.of.content = h.content
           /\ k <= f.place - 1 /\ f.place - 1 - k <= f.spent
           /\ \A j \in 1..k : \E i \in j..(f.place - 1 - (k - j)) :
                r.chunks[j] = Bytes(Message("chunk", h.dump, h.content, i))
      /\ /\ g.place > 0 /\ g.of.dump = h.dump /\ g.of.content = h.content
         /\ k <= g.place - 1 /\ g.place - 1 - k <= g.spent
         /\ \A j \in 1..k : \E i \in j..(g.place - 1 - (k - j)) :
              r.chunks[j] = Bytes(Message("chunk", h.dump, h.content, i))
         => SameDump(r, g)
  BY DEF SameDump
<1>l. /\ LaterDump(r, f) => CHUNKS_PER_PRESET + 1 + f.place - k <= f.spent
      /\ CHUNKS_PER_PRESET + 1 + g.place - k <= g.spent => LaterDump(r, g)
  BY DEF LaterDump
<1> HIDE DEF h, k
<1>2. CASE f.of.kind = "footer"
  <2>1. f.place = CHUNKS_PER_PRESET + 1 /\ g.place = 0
    BY <1>2 DEF Missed, Passes
  <2>2. ASSUME SameDump(r, f) PROVE LaterDump(r, g)
    <3>1. f.place - 1 - k <= f.spent
      BY <1>s, <2>2
    <3>2. CHUNKS_PER_PRESET + 1 + g.place - k <= g.spent
      BY <1>1, <2>1, <3>1
    <3> QED BY <1>l, <3>2
  <2>3. ASSUME LaterDump(r, f) PROVE LaterDump(r, g)
    <3>1. CHUNKS_PER_PRESET + 1 + f.place - k <= f.spent
      BY <1>l, <2>3
    <3>2. CHUNKS_PER_PRESET + 1 + g.place - k <= g.spent
      BY <1>1, <2>1, <3>1
    <3> QED BY <1>l, <3>2
  <2> QED BY <2>2, <2>3 DEF PieceInv
<1>3. CASE f.of.kind # "footer"
  <2>1. g.place = f.place + 1 /\ g.of.dump = f.of.dump /\ g.of.content = f.of.content
    BY <1>3 DEF Missed, Passes
  <2>2. ASSUME LaterDump(r, f) PROVE LaterDump(r, g)
    <3>1. CHUNKS_PER_PRESET + 1 + f.place - k <= f.spent
      BY <1>l, <2>2
    <3>2. CHUNKS_PER_PRESET + 1 + g.place - k <= g.spent
      BY <1>1, <2>1, <3>1
    <3> QED BY <1>l, <3>2
  <2>3. ASSUME SameDump(r, f) PROVE SameDump(r, g)
    <3>0. f.of.dump = h.dump /\ f.of.content = h.content
      BY <1>s, <2>3
    <3>a. f.place > 0 /\ k <= f.place - 1 /\ f.place - 1 - k <= f.spent
      BY <1>s, <2>3
    <3>b. g.place = f.place + 1
      BY <2>1
    <3>1. g.place > 0 /\ k <= g.place - 1 /\ g.place - 1 - k <= g.spent
      BY <1>1, <3>a, <3>b
    <3>2. ASSUME NEW j \in 1..k
          PROVE  \E i \in j..(g.place - 1 - (k - j)) :
                   r.chunks[j] = Bytes(Message("chunk", h.dump, h.content, i))
      <4>1. PICK i \in j..(f.place - 1 - (k - j)) :
               r.chunks[j] = Bytes(Message("chunk", h.dump, h.content, i))
        BY <1>s, <2>3
      <4>2. i \in j..(g.place - 1 - (k - j))
        BY <1>1, <2>1
      <4> QED BY <4>1, <4>2
    <3> QED BY <1>s, <2>1, <3>0, <3>1, <3>2
  <2> QED BY <2>2, <2>3 DEF PieceInv
<1> QED BY <1>2, <1>3

\* A call that takes the message at the front.
LEMMA KeptWhenTaken ==
  ASSUME NEW f, NEW g, FrontOK(f), FrontOK(g), Passes(f, g), 0 <= g.spent,
         MaxLosses < CHUNKS_PER_PRESET + 2,
         NEW r, CallInv(r), r.listening, PieceInv(r, f), f.of \in StreamMessages,
         f.place > 0 <=> f.of.kind \in {"chunk", "footer"}, NEW next,
         \/ TakesHeader(r, f.of, next)
         \/ TakesChunk(r, f.of, next)
         \/ TakesFooter(r, f.of, next)
  PROVE  PieceInv(next, g)
<1> DEFINE m == f.of  h == r.header[1].of  k == Len(r.chunks)
<1>1. /\ f.place \in Nat /\ g.place \in Nat /\ f.spent \in Int /\ g.spent \in Int
      /\ f.spent <= g.spent /\ CHUNKS_PER_PRESET \in Nat \ {0} /\ k \in Nat
      /\ k <= CHUNKS_PER_PRESET
      /\ MaxLosses \in Nat /\ f.spent <= MaxLosses
  BY PresetDumpConstants, SysExAssemblerConstants DEF Passes, FrontOK, CallRecords, CallInv
<1>2. /\ r \in CallRecords /\ r.pc = "waiting"
      /\ r.chunks \in Seq(Seq(Byte)) /\ (r.header = <<>> => r.chunks = <<>>)
      /\ m \in StreamMessages /\ Bytes(m) \in Seq(Byte) /\ Bytes(m) # <<>>
      /\ Bytes(m)[1].of = m
  BY BytesOK, MessageRun DEF CallRecords, CallInv
<1>s. SameDump(r, f) =>
        /\ f.place > 0 /\ f.of.dump = h.dump /\ f.of.content = h.content
        /\ k <= f.place - 1 /\ f.place - 1 - k <= f.spent
        /\ \A j \in 1..k : \E i \in j..(f.place - 1 - (k - j)) :
             r.chunks[j] = Bytes(Message("chunk", h.dump, h.content, i))
  BY DEF SameDump
<1>l. LaterDump(r, f) => CHUNKS_PER_PRESET + 1 + f.place - k <= f.spent
  BY DEF LaterDump
<1>3. CASE TakesHeader(r, m, next)
  <2>1. /\ next.header = Bytes(m) /\ next.pc = "waiting" /\ next.chunks = <<>>
        /\ m.kind = "header"
    BY <1>2, <1>3 DEF TakesHeader, CallRecords
  <2>2. f.place = 0 /\ g.place = 1 /\ g.of.dump = m.dump /\ g.of.content = m.content
    BY <1>1, <2>1 DEF Passes
  <2>3. /\ Len(next.chunks) = 0 /\ next.header[1].of = m
        /\ 0 <= g.place - 1 /\ g.place - 1 - 0 <= g.spent /\ g.place > 0
    BY <1>1, <1>2, <2>1, <2>2
  <2>4. SameDump(next, g)
    BY <2>2, <2>3 DEF SameDump
  <2> QED BY <2>1, <2>4 DEF PieceInv
<1>4. CASE TakesChunk(r, m, next)
  <2> DEFINE more == Append(r.chunks, Bytes(m))  n == Len(more)
  <2>0. /\ more \in Seq(Seq(Byte)) /\ n = k + 1 /\ more[k + 1] = Bytes(m)
        /\ \A j \in 1..k : more[j] = r.chunks[j]
    BY <1>2
  <2>1. next = [r EXCEPT !.chunks = more] /\ m.kind = "chunk" /\ r.header # <<>>
    BY <1>4 DEF TakesChunk
  <2> HIDE DEF more
  <2>2. next.header = r.header /\ next.pc = "waiting" /\ next.chunks = more
    BY <1>2, <2>0, <2>1 DEF CallRecords
  <2>3. /\ f.place > 0 /\ f.place = m.i /\ g.place = f.place + 1
        /\ g.of.dump = m.dump /\ g.of.content = m.content
    BY <2>1 DEF FrontOK, Passes
  <2>s. /\ g.place > 0 /\ g.of.dump = h.dump /\ g.of.content = h.content
        /\ n <= g.place - 1 /\ g.place - 1 - n <= g.spent
        /\ \A j \in 1..n : \E i \in j..(g.place - 1 - (n - j)) :
             more[j] = Bytes(Message("chunk", h.dump, h.content, i))
        => SameDump(next, g)
    BY <2>2 DEF SameDump
  <2>l. CHUNKS_PER_PRESET + 1 + g.place - n <= g.spent => LaterDump(next, g)
    BY <2>2 DEF LaterDump
  <2> HIDE DEF k, n, h, m
  <2>a. g.place = f.place + 1 /\ n = k + 1
    BY <2>0, <2>3
  <2>4. CASE LaterDump(r, f)
    <3>1. CHUNKS_PER_PRESET + 1 + f.place - k <= f.spent
      BY <1>l, <2>4
    <3>2. CHUNKS_PER_PRESET + 1 + g.place - n <= g.spent
      BY <1>1, <2>a, <3>1
    <3> QED BY <2>2, <2>l, <3>2 DEF PieceInv
  <2>5. CASE SameDump(r, f)
    <3>0. f.of.dump = h.dump /\ f.of.content = h.content
      BY <1>s, <2>5
    <3>a. k <= f.place - 1 /\ f.place - 1 - k <= f.spent
      BY <1>s, <2>5
    <3>1. g.place > 0 /\ n <= g.place - 1 /\ g.place - 1 - n <= g.spent
      BY <1>1, <2>a, <3>a
    <3>2. m = Message("chunk", h.dump, h.content, f.place)
      BY <1>2, <2>1, <2>3, <3>0 DEF Message, StreamMessages, Messages, m
    <3>3. ASSUME NEW j \in 1..n
          PROVE  \E i \in j..(g.place - 1 - (n - j)) :
                   more[j] = Bytes(Message("chunk", h.dump, h.content, i))
      <4>1. CASE j = k + 1
        <5>1. f.place \in j..(g.place - 1 - (n - j))
          BY <1>1, <2>a, <3>a, <4>1
        <5> QED BY <2>0, <3>2, <4>1, <5>1
      <4>2. CASE j # k + 1
        <5>1. j \in 1..k
          BY <1>1, <2>a, <4>2
        <5>2. PICK i \in j..(f.place - 1 - (k - j)) :
                 r.chunks[j] = Bytes(Message("chunk", h.dump, h.content, i))
          BY <1>s, <2>5, <5>1
        <5>3. i \in j..(g.place - 1 - (n - j))
          BY <1>1, <2>a, <5>1
        <5> QED BY <2>0, <5>1, <5>2, <5>3
      <4> QED BY <4>1, <4>2
    <3>4. SameDump(next, g)
      BY <2>3, <2>s, <3>0, <3>1, <3>3 DEF m
    <3> QED BY <2>2, <3>4 DEF PieceInv
  <2> QED BY <2>1, <2>4, <2>5 DEF PieceInv
<1>5. CASE TakesFooter(r, m, next)
  <2>1. /\ next.header = r.header /\ next.pc = "resolved" /\ next.chunks = r.chunks
        /\ next.listening = FALSE /\ next.footer = Bytes(m) /\ m.kind = "footer"
        /\ r.header # <<>>
    BY <1>2, <1>5 DEF TakesFooter, CallRecords
  <2>2. f.place = CHUNKS_PER_PRESET + 1 /\ k = CHUNKS_PER_PRESET
    BY <1>5, <2>1 DEF Passes, TakesFooter
  <2>3. SameDump(r, f)
    <3> HIDE DEF k, h, m
    <3>1. ~(CHUNKS_PER_PRESET + 1 + f.place - k <= f.spent)
      BY <1>1, <2>2
    <3> QED BY <1>l, <2>1, <3>1 DEF PieceInv
  <2>4. m = Message("footer", h.dump, h.content, 0)
    <3>1. m.dump = h.dump /\ m.content = h.content /\ m.i = 0
      BY <1>2, <1>s, <2>1, <2>3 DEF StreamMessages
    <3> QED BY <1>2, <2>1, <3>1 DEF Message, StreamMessages, Messages
  <2>5. ASSUME NEW j \in 1..CHUNKS_PER_PRESET
        PROVE  r.chunks[j] = Bytes(Message("chunk", h.dump, h.content, j))
    <3> HIDE DEF k, h, m
    <3>0. j \in 1..k
      BY <2>2
    <3>1. PICK i \in j..(f.place - 1 - (k - j)) :
             r.chunks[j] = Bytes(Message("chunk", h.dump, h.content, i))
      BY <1>s, <2>3, <3>0
    <3>2. i = j
      BY <1>1, <2>2, <3>0
    <3> QED BY <3>1, <3>2
  <2>6. OnePiece(next)
    BY <2>1, <2>2, <2>4, <2>5 DEF OnePiece
  <2> QED BY <2>1, <2>6 DEF PieceInv
<1> QED BY <1>3, <1>4, <1>5

LEMMA FrontTypes == WireInv => FrontOK(WireFront)
<1> SUFFICES ASSUME WireInv PROVE FrontOK(WireFront)
  OBVIOUS
<1> DEFINE f == WireFront
<1>1. /\ f.of = wire[1].of /\ f.place = Place /\ f.spent \in {losses - 1, losses}
  BY DEF WireFront
<1>2. losses \in Nat /\ losses <= MaxLosses /\ MaxLosses \in Nat
      /\ CHUNKS_PER_PRESET \in Nat \ {0}
  BY PresetDumpConstants, SysExAssemblerConstants DEF WireInv
<1> HIDE DEF f
<1>3. f.spent \in Int /\ f.spent <= MaxLosses
  BY <1>1, <1>2
<1>4. CASE wire = <<>>
  <2>1. f.place = 0
    BY <1>1, <1>4 DEF Place
  <2> QED BY <1>2, <1>3, <2>1 DEF FrontOK, f
<1>5. CASE wire # <<>>
  <2> DEFINE m == wire[1].of
  <2>1. m \in StreamMessages
    <3>1. wire[1] \in Byte
      BY <1>5 DEF WireInv
    <3> QED BY <3>1, ByteParts
  <2>2. Place = CASE m.kind = "chunk" -> m.i
                  [] m.kind = "footer" -> CHUNKS_PER_PRESET + 1
                  [] OTHER -> 0
    BY <1>5 DEF Place
  <2>3. f.of = m
    BY <1>1
  <2> HIDE DEF m
  <2>4. m.i \in 0..CHUNKS_PER_PRESET /\ (m.i = 0 <=> m.kind # "chunk")
    BY <2>1 DEF StreamMessages, Messages
  <2>5. /\ m.kind = "chunk" => f.place = m.i
        /\ m.kind = "footer" => f.place = CHUNKS_PER_PRESET + 1
        /\ m.kind \notin {"chunk", "footer"} => f.place = 0
    BY <1>1, <2>2
  <2> QED BY <1>2, <1>3, <2>3, <2>4, <2>5 DEF FrontOK, f
<1> QED BY <1>4, <1>5

LEMMA FrontTypesNext == WireInv' => FrontOK(WireFront')
<1>1. (WireInv => FrontOK(WireFront))'
  BY FrontTypes, PTL
<1> QED BY <1>1

\* Where the front is in its dump.
LEMMA PlaceIs ==
  ASSUME NEW f, f = WireFront, wire # <<>>
  PROVE  /\ f.of = wire[1].of
         /\ wire[1].of.kind = "chunk" => f.place = wire[1].of.i
         /\ wire[1].of.kind = "footer" => f.place = CHUNKS_PER_PRESET + 1
         /\ wire[1].of.kind \notin {"chunk", "footer"} => f.place = 0
  BY DEF WireFront, Place

LEMMA FirstByte ==
  ASSUME WireInv, wire # <<>>
  PROVE  /\ wire[1] \in Byte /\ wire[1].of \in StreamMessages
         /\ wire[1].of.kind \in {"header", "chunk", "footer", "ack"}
         /\ wire[1].of.i \in 0..CHUNKS_PER_PRESET
         /\ wire[1].of.i = 0 <=> wire[1].of.kind # "chunk"
<1>1. wire[1] \in Byte
  BY DEF WireInv
<1>2. /\ wire[1].of \in StreamMessages
      /\ wire[1].of.kind \in {"header", "chunk", "footer", "ack"}
  BY <1>1, ByteParts
<1> QED BY <1>1, <1>2 DEF StreamMessages, Messages

\* A fragment that is gone, up to the F7 of the front or not so far.
LEMMA FragmentGone ==
  ASSUME WireInv, CutAtF7, NEW bytes \in Fragments,
         wire' = SubSeq(wire, Len(bytes) + 1, Len(wire)),
         NEW f, f = WireFront, NEW g, g = WireFront', f.spent <= g.spent
  PROVE  /\ ~IsF7(Last(bytes)) =>
              Stays(f, g) /\ wire' # <<>> /\ wire'[1].of = wire[1].of /\ ~IsF0(wire'[1])
         /\ IsF7(Last(bytes)) =>
              /\ wire' = <<>> \/ IsF0(wire'[1])
              /\ wire[1].of.kind \notin DumpKinds => Stays(f, g)
              /\ wire[1].of.kind \in DumpKinds => Passes(f, g)
<1>1. /\ wire # <<>> /\ Len(bytes) \in 0..Len(wire) /\ Len(bytes) \in Nat \ {0}
  BY FragmentIs DEF WireInv
<1>2. /\ wire' \in Seq(Byte) /\ Len(wire') = Len(wire) - Len(bytes)
      /\ \A i \in 1..(Len(wire) - Len(bytes)) : wire'[i] = wire[i + Len(bytes)]
  BY <1>1, Taken
<1>3. /\ ~IsF7(Last(bytes)) =>
           /\ wire' # <<>> /\ wire'[1].of = wire[1].of
           /\ wire'[1].at = wire[1].at + Len(bytes)
      /\ IsF7(Last(bytes)) =>
           IF wire' = <<>> THEN wire[1].of.kind \in {"footer", "ack"}
           ELSE IsF0(wire'[1]) /\ Succeeds(wire[1].of, wire'[1].of)
  BY <1>2, AfterFragment
<1>4. /\ f.of = wire[1].of
      /\ wire[1].of.kind = "chunk" => f.place = wire[1].of.i
      /\ wire[1].of.kind = "footer" => f.place = CHUNKS_PER_PRESET + 1
      /\ wire[1].of.kind \notin {"chunk", "footer"} => f.place = 0
  BY <1>1, PlaceIs
<1>5. /\ wire' # <<>> =>
           /\ g.of = wire'[1].of
           /\ wire'[1].of.kind = "chunk" => g.place = wire'[1].of.i
           /\ wire'[1].of.kind = "footer" => g.place = CHUNKS_PER_PRESET + 1
           /\ wire'[1].of.kind \notin {"chunk", "footer"} => g.place = 0
      /\ wire' = <<>> => g.place = 0
  BY DEF WireFront, Place
<1>6. /\ wire[1] \in Byte
      /\ wire[1].of.kind \in {"header", "chunk", "footer", "ack"}
      /\ wire[1].of.i \in 0..CHUNKS_PER_PRESET
      /\ wire[1].of.i = 0 <=> wire[1].of.kind # "chunk"
  BY <1>1, FirstByte
<1>7. CHUNKS_PER_PRESET \in Nat \ {0}
  BY PresetDumpConstants
<1>8. CASE ~IsF7(Last(bytes))
  <2>1. ~IsF0(wire'[1])
    <3>1. wire[1].at \in Nat \ {0}
      BY <1>6, ByteParts
    <3>2. wire'[1].at # 1
      BY <1>1, <1>3, <1>8, <3>1
    <3> QED BY <3>2 DEF IsF0
  <2>2. Stays(f, g)
    BY <1>3, <1>4, <1>5, <1>8 DEF Stays
  <2> QED BY <1>3, <1>8, <2>1, <2>2
<1>9. CASE IsF7(Last(bytes))
  <2>1. ASSUME wire[1].of.kind \notin DumpKinds PROVE Stays(f, g)
    <3>1. wire[1].of.kind = "ack" /\ f.place = 0
      BY <1>4, <1>6, <2>1 DEF DumpKinds
    <3>2. wire' # <<>> => wire'[1].of.kind \in {"header", "ack"}
      BY <1>3, <1>9, <3>1 DEF Succeeds
    <3>3. g.place = 0
      BY <1>5, <3>2
    <3> QED BY <3>1, <3>3 DEF Stays
  <2>2. ASSUME wire[1].of.kind \in DumpKinds PROVE Passes(f, g)
    <3>1. CASE wire[1].of.kind = "footer"
      <4>1. f.place = CHUNKS_PER_PRESET + 1 /\ f.of.kind = "footer"
        BY <1>4, <3>1
      <4>2. wire' # <<>> => wire'[1].of.kind \in {"header", "ack"}
        BY <1>3, <1>9, <3>1 DEF Succeeds
      <4>3. g.place = 0
        BY <1>5, <4>2
      <4> QED BY <4>1, <4>3 DEF Passes, DumpKinds
    <3>2. CASE wire[1].of.kind \in {"header", "chunk"}
      <4>1. wire' # <<>> /\ Succeeds(wire[1].of, wire'[1].of)
        BY <1>3, <1>9, <3>2
      <4> DEFINE m == wire[1].of  n == wire'[1].of
      <4>2. f.of = m /\ f.place = m.i /\ g.of = n
        BY <1>4, <1>5, <1>6, <3>2, <4>1
      <4>3. m.kind \in {"header", "chunk"} /\ m.i \in 0..CHUNKS_PER_PRESET
        BY <1>6, <3>2
      <4>4. /\ n.dump = m.dump /\ n.content = m.content
            /\ IF m.i = CHUNKS_PER_PRESET THEN n.kind = "footer"
               ELSE n.kind = "chunk" /\ n.i = m.i + 1
        BY <3>2, <4>1 DEF Succeeds
      <4>5. /\ n.kind = "chunk" => g.place = n.i
            /\ n.kind = "footer" => g.place = CHUNKS_PER_PRESET + 1
        BY <1>5, <4>1
      <4> HIDE DEF m, n
      <4>6. g.place = f.place + 1
        BY <1>7, <4>2, <4>3, <4>4, <4>5
      <4> QED BY <4>2, <4>3, <4>4, <4>6 DEF Passes, DumpKinds
    <3> QED BY <2>2, <3>1, <3>2 DEF DumpKinds
  <2> QED BY <1>3, <1>9, <2>1, <2>2
<1> QED BY <1>8, <1>9

LEMMA Spent ==
  ASSUME NEW f, f = WireFront, NEW g, g = WireFront', losses \in Nat, losses' = losses
  PROVE  /\ (Owes' => Owes) => f.spent <= g.spent
         /\ Owes /\ ~Owes' => f.spent + 1 <= g.spent
         /\ ~Owes' => 0 <= g.spent
<1>1. /\ Owes => f.spent = losses - 1
      /\ ~Owes => f.spent = losses
      /\ Owes' => g.spent = losses - 1
      /\ ~Owes' => g.spent = losses
  BY DEF WireFront
<1> DEFINE o == Owes  p == Owes'
<1> HIDE DEF o, p
<1>2. /\ o => f.spent = losses - 1
      /\ ~o => f.spent = losses
      /\ p => g.spent = losses - 1
      /\ ~p => g.spent = losses
  BY <1>1 DEF o, p
<1>3. /\ (p => o) => f.spent <= g.spent
      /\ o /\ ~p => f.spent + 1 <= g.spent
      /\ ~p => 0 <= g.spent
  BY <1>2
<1> QED BY <1>3 DEF o, p

\* A fragment that comes up.  What is dispatched is the message at the front, or
\* the front is missed at the price of a loss.
LEMMA FrontArrives ==
  ASSUME WireInv, WireInv', CutAtF7, NEW bytes \in Fragments, NEW msg,
         HandUp(bytes, msg), NEW f, f = WireFront, NEW g, g = WireFront'
  PROVE  /\ msg = <<>> \/ ~IsF0(msg[1]) \/ msg[1].of.kind \notin DumpKinds =>
              Stays(f, g) \/ Missed(f, g)
         /\ msg # <<>> /\ Whole(msg) =>
              /\ 0 <= g.spent
              /\ wire[1].of.kind \in DumpKinds => Passes(f, g)
<1>1. /\ wire # <<>> /\ bytes \in Seq(Byte) /\ bytes # <<>> /\ bytes[1] = wire[1]
      /\ accumulator \in Seq(Byte)
      /\ wire' = SubSeq(wire, Len(bytes) + 1, Len(wire))
      /\ losses \in Nat /\ losses' = losses
  BY FragmentIs, SysExAssemblerConstants DEF HandUp, WireInv
<1>2. accumulator # <<>> => IsF0(accumulator[1])
  BY DEF WireInv, AccumulatorOK
<1>3. /\ f.spent <= g.spent /\ ~IsF7(Last(bytes)) =>
           Stays(f, g) /\ wire' # <<>> /\ wire'[1].of = wire[1].of /\ ~IsF0(wire'[1])
      /\ f.spent <= g.spent /\ IsF7(Last(bytes)) =>
           /\ wire[1].of.kind \notin DumpKinds => Stays(f, g)
           /\ wire[1].of.kind \in DumpKinds => Passes(f, g)
  BY <1>1, FragmentGone
<1>4. /\ ~IsF7(Last(bytes)) => wire' # <<>> /\ wire'[1].of = wire[1].of
      /\ IsF7(Last(bytes)) => wire' = <<>> \/ IsF0(wire'[1])
  <2>1. /\ wire' \in Seq(Byte) /\ Len(wire') = Len(wire) - Len(bytes)
        /\ \A i \in 1..(Len(wire) - Len(bytes)) : wire'[i] = wire[i + Len(bytes)]
    <3>1. Len(bytes) \in 0..Len(wire)
      BY FragmentIs
    <3> QED BY <1>1, <3>1, Taken
  <2> QED BY <2>1, AfterFragment
<1>5. /\ (accumulator \o bytes) # <<>>
      /\ accumulator # <<>> => (accumulator \o bytes)[1] = accumulator[1]
      /\ accumulator = <<>> => (accumulator \o bytes)[1] = bytes[1]
  <2> DEFINE u == accumulator \o bytes
  <2>1. /\ Len(u) = Len(accumulator) + Len(bytes) /\ u \in Seq(Byte)
        /\ Len(accumulator) \in Nat /\ Len(bytes) \in Nat \ {0}
        /\ \A i \in 1..(Len(accumulator) + Len(bytes)) :
             u[i] = IF i <= Len(accumulator) THEN accumulator[i]
                    ELSE bytes[i - Len(accumulator)]
        /\ (accumulator = <<>> <=> Len(accumulator) = 0)
    BY <1>1, DispatchedIs
  <2> HIDE DEF u
  <2>2. u # <<>> /\ u[1] = IF accumulator = <<>> THEN bytes[1] ELSE accumulator[1]
    BY <2>1
  <2> QED BY <2>2 DEF u
<1>6. CASE /\ msg = <<>> /\ accumulator' = accumulator \o bytes /\ ~IsF7(Last(bytes))
           /\ accumulator = <<>> => IsF0(bytes[1])
  <2>1. Owes' => Owes
    BY <1>1, <1>4, <1>5, <1>6 DEF Owes, DumpKinds
  <2>2. f.spent <= g.spent
    BY <1>1, <2>1, Spent
  <2> QED BY <1>3, <1>6, <2>2
<1>7. CASE /\ msg # <<>> /\ accumulator' = <<>> /\ msg = accumulator \o bytes
           /\ accumulator # <<>> \/ IsF0(bytes[1]) => IsF7(Last(bytes))
  <2>1. CASE ~IsF7(Last(bytes))
    <3>1. Owes' => Owes
      BY <1>1, <1>4, <1>7, <2>1 DEF Owes
    <3>2. f.spent <= g.spent
      BY <1>1, <3>1, Spent
    <3>3. ~Whole(msg)
      BY <1>7, <2>1, WholeIsFront
    <3> QED BY <1>3, <2>1, <3>2, <3>3
  <2>2. CASE IsF7(Last(bytes))
    <3>1. ~Owes'
      BY <1>4, <1>7, <2>2 DEF Owes
    <3>2. f.spent <= g.spent /\ 0 <= g.spent
      BY <1>1, <3>1, Spent
    <3>3. ASSUME ~IsF0(msg[1]) \/ msg[1].of.kind \notin DumpKinds,
                 wire[1].of.kind \in DumpKinds
          PROVE  Missed(f, g)
      <4>1. Owes
        <5>1. CASE accumulator = <<>>
          <6>1. msg[1] = wire[1]
            BY <1>1, <1>5, <1>7, <5>1
          <6> QED BY <1>1, <3>3, <5>1, <6>1 DEF Owes
        <5>2. CASE accumulator # <<>>
          <6>1. msg[1] = accumulator[1] /\ accumulator[1].of.kind \notin DumpKinds
            BY <1>2, <1>5, <1>7, <3>3, <5>2
          <6>2. accumulator[1] \in Byte
            BY <1>1, <5>2
          <6>3. accumulator[1].of.kind = "ack"
            BY <6>1, <6>2, ByteParts DEF DumpKinds
          <6> QED BY <1>1, <3>3, <5>2, <6>3 DEF Owes
        <5> QED BY <5>1, <5>2
      <4>2. f.spent + 1 <= g.spent
        BY <1>1, <3>1, <4>1, Spent
      <4> QED BY <1>3, <2>2, <3>2, <3>3, <4>2 DEF Missed
    <3> QED BY <1>3, <1>7, <2>2, <3>2, <3>3
  <2> QED BY <2>1, <2>2
<1> QED BY <1>6, <1>7, HandUpCases

\* A fragment that is lost pays for the front, if that ends with it.
LEMMA FrontLost ==
  ASSUME WireInv, WireInv', CutAtF7, NEW bytes \in Fragments, Lose(bytes),
         NEW f, f = WireFront, NEW g, g = WireFront'
  PROVE  Stays(f, g) \/ Missed(f, g)
<1>1. /\ wire # <<>> /\ wire' = SubSeq(wire, Len(bytes) + 1, Len(wire))
      /\ losses \in Nat /\ losses' = losses + 1 /\ accumulator' = accumulator
  BY FragmentIs, SysExAssemblerConstants DEF Lose, WireInv
<1>2. /\ Owes => f.spent = losses - 1
      /\ ~Owes => f.spent = losses
      /\ Owes' => g.spent = losses
      /\ ~Owes' => g.spent = losses + 1
  BY <1>1 DEF WireFront
<1>3. f.spent <= g.spent
  BY <1>1, <1>2
<1>4. /\ ~IsF7(Last(bytes)) => Stays(f, g)
      /\ IsF7(Last(bytes)) =>
           /\ wire' = <<>> \/ IsF0(wire'[1])
           /\ wire[1].of.kind \notin DumpKinds => Stays(f, g)
           /\ wire[1].of.kind \in DumpKinds => Passes(f, g)
  BY <1>1, <1>3, FragmentGone
<1>5. ASSUME IsF7(Last(bytes)), wire[1].of.kind \in DumpKinds PROVE Missed(f, g)
  <2>1. Owes' => Owes
    BY <1>1, <1>4, <1>5 DEF Owes
  <2>2. f.spent + 1 <= g.spent
    BY <1>1, <1>2, <2>1
  <2> QED BY <1>4, <1>5, <2>2 DEF Missed
<1> QED BY <1>4, <1>5

\* What is sent does not disturb the front; on an empty wire, it is a beginning.
LEMMA FrontTransmits ==
  ASSUME WireInv, NEW content, NEW s, Sendable(s, content), Transmit(s),
         NEW f, f = WireFront, NEW g, g = WireFront'
  PROVE  Stays(f, g)
<1>1. /\ wire \in Seq(Byte) /\ s \in Seq(Byte) /\ s # <<>> /\ wire' = wire \o s
      /\ accumulator' = accumulator /\ losses' = losses /\ losses \in Nat
      /\ IsF0(s[1]) /\ s[1].of.kind \in {"header", "ack"}
  BY SysExAssemblerConstants DEF Sendable, Transmit, WireInv
<1>2. CASE wire # <<>>
  <2>1. wire' # <<>> /\ wire'[1] = wire[1]
    BY <1>1, <1>2, FrontStays
  <2>2. f.place = g.place /\ f.of = g.of
    BY <1>2, <2>1 DEF WireFront, Place
  <2>3. Owes' => Owes
    BY <1>1, <1>2, <2>1 DEF Owes
  <2>4. f.spent <= g.spent
    BY <1>1, <2>3, Spent
  <2> QED BY <2>2, <2>4 DEF Stays
<1>3. CASE wire = <<>>
  <2>1. wire' = s
    BY <1>1, <1>3
  <2>2. f.place = 0 /\ g.place = 0
    BY <1>1, <1>3, <2>1 DEF WireFront, Place
  <2>3. Owes' => Owes
    BY <1>1, <1>3, <2>1 DEF Owes
  <2>4. f.spent <= g.spent
    BY <1>1, <2>3, Spent
  <2> QED BY <2>2, <2>4 DEF Stays
<1> QED BY <1>2, <1>3

LEMMA PiecesStep ==
  ASSUME PiecesInv, CutAtF7, MaxLosses < CHUNKS_PER_PRESET + 2, [Next]_vars
  PROVE  PiecesInv'
<1>0. /\ CallsInv /\ CallsInv' /\ WireInv /\ WireInv' /\ DOMAIN call = Calls
      /\ \A c \in Calls : CallInv(call[c]) /\ PieceInv(call[c], WireFront)
  BY CallsStep DEF PiecesInv, CallsInv
<1> PICK f : f = WireFront
  OBVIOUS
<1> PICK g : g = WireFront'
  OBVIOUS
<1>f. FrontOK(f) /\ FrontOK(g)
  BY <1>0, FrontTypes, FrontTypesNext
<1> SUFFICES \A c \in Calls : PieceInv(call'[c], g)
  <2>1. ASSUME NEW c \in Calls, PieceInv(call'[c], g) PROVE PieceInv(call[c], WireFront)'
    BY <2>1
  <2> QED BY <1>0, <2>1 DEF PiecesInv
<1>p. \A c \in Calls : CallInv(call[c]) /\ PieceInv(call[c], f)
  BY <1>0
<1>s. ASSUME NEW r, CallInv(r), PieceInv(r, f), Stays(f, g) \/ Missed(f, g)
      PROVE  PieceInv(r, g)
  <2>1. r \in CallRecords
    BY <1>s DEF CallInv
  <2> QED BY <1>f, <1>s, <2>1, KeptWhenStaying, KeptWhenMissed
<1>i. PieceInv(Idle, g)
  BY IdleOK DEF PieceInv
<1>u. UNCHANGED medium => Stays(f, g)
  BY <1>f DEF medium, WireFront, Place, Owes, Stays, FrontOK
<1>1. ASSUME NEW c \in Calls, StartDump(c) PROVE \A d \in Calls : PieceInv(call'[d], g)
  <2>1. Stays(f, g)
    <3>1. CASE UNCHANGED medium
      BY <1>u, <3>1
    <3>2. CASE Transmit(DumpBytes(dumps', version))
      <4>1. dumps' \in 0..MaxDumps /\ version \in 0..MaxEdits
        BY <1>0, <1>1 DEF StartDump, WireInv
      <4>2. Sendable(DumpBytes(dumps', version), version)
        BY <4>1, DumpSendable
      <4> DEFINE s == DumpBytes(dumps', version)
      <4> HIDE DEF s
      <4>3. Sendable(s, version) /\ Transmit(s)
        BY <3>2, <4>2 DEF s
      <4> QED BY <1>0, <4>3, FrontTransmits
    <3> QED BY <1>1, <3>1, <3>2 DEF StartDump
  <2> DEFINE r == [Idle EXCEPT !.pc = "waiting", !.since = known, !.listening = TRUE]
  <2>2. r.header = <<>> /\ r.pc = "waiting"
    BY DEF Idle
  <2>3. call' = [call EXCEPT ![c] = r]
    BY <1>1 DEF StartDump
  <2> HIDE DEF r
  <2>4. PieceInv(r, g)
    BY <2>2 DEF PieceInv
  <2> QED BY <1>0, <1>p, <1>s, <2>1, <2>3, <2>4
<1>2. ASSUME Edit PROVE \A d \in Calls : PieceInv(call'[d], g)
  <2>1. version' \in 0..MaxEdits /\ call' = call
        /\ Transmit(Bytes(Message("ack", 0, version', 0)))
    BY <1>0, <1>2, PresetDumpConstants DEF Edit, WireInv
  <2> DEFINE s == Bytes(Message("ack", 0, version', 0))
  <2>2. Sendable(s, version') /\ Transmit(s)
    BY <2>1, AckSendable
  <2> HIDE DEF s
  <2>3. Stays(f, g)
    BY <1>0, <2>2, FrontTransmits
  <2> QED BY <1>p, <1>s, <2>1, <2>3
<1>3. ASSUME NEW bytes \in Fragments, Arrive(bytes)
      PROVE  \A d \in Calls : PieceInv(call'[d], g)
  <2>1. PICK msg \in {dispatch(bytes)} :
          HandUp(bytes, msg) /\ call' = [c \in Calls |-> onMessage(call[c], msg)]
    BY <1>3 DEF Arrive
  <2>2. /\ msg = <<>> \/ ~IsF0(msg[1]) \/ msg[1].of.kind \notin DumpKinds =>
             Stays(f, g) \/ Missed(f, g)
        /\ msg # <<>> /\ Whole(msg) =>
             /\ 0 <= g.spent
             /\ wire[1].of.kind \in DumpKinds => Passes(f, g)
    BY <1>0, <2>1, FrontArrives
  <2>3. f.of = wire[1].of /\ (f.place > 0 <=> f.of.kind \in {"chunk", "footer"})
    <3>1. wire # <<>>
      BY <1>0, FragmentIs
    <3>2. /\ f.of = wire[1].of
          /\ f.of.kind = "chunk" => f.place = f.of.i
          /\ f.of.kind = "footer" => f.place = CHUNKS_PER_PRESET + 1
          /\ f.of.kind \notin {"chunk", "footer"} => f.place = 0
      BY <3>1, PlaceIs
    <3>3. f.of.i \in 0..CHUNKS_PER_PRESET /\ (f.of.i = 0 <=> f.of.kind # "chunk")
      BY <1>0, <3>1, <3>2, FirstByte
    <3> QED BY <3>2, <3>3, PresetDumpConstants
  <2>4. ASSUME NEW c \in Calls PROVE PieceInv(onMessage(call[c], msg), g)
    <3> PICK r : r = call[c]
      OBVIOUS
    <3> DEFINE next == onMessage(r, msg)
    <3>1. CallInv(r) /\ PieceInv(r, f)
      BY <1>p
    <3>2. \/ /\ next = r
             /\ ~r.listening \/ msg = <<>> \/ ~IsF0(msg[1]) \/ msg[1].of.kind \notin DumpKinds
          \/ next = Idle
          \/ /\ r.listening /\ msg # <<>> /\ Whole(msg) /\ f.of \in StreamMessages
             /\ \/ TakesHeader(r, f.of, next)
                \/ TakesChunk(r, f.of, next)
                \/ TakesFooter(r, f.of, next)
      BY <1>0, <2>1, <2>3, Delivery
    <3> SUFFICES PieceInv(next, g)
      OBVIOUS
    <3> HIDE DEF next
    <3>3. CASE next = r /\ ~r.listening
      BY <3>1, <3>3 DEF PieceInv
    <3>4. CASE /\ next = r
               /\ msg = <<>> \/ ~IsF0(msg[1]) \/ msg[1].of.kind \notin DumpKinds
      BY <1>s, <2>2, <3>1, <3>4
    <3>5. CASE next = Idle
      BY <1>i, <3>5
    <3>6. CASE /\ r.listening /\ msg # <<>> /\ Whole(msg) /\ f.of \in StreamMessages
               /\ \/ TakesHeader(r, f.of, next)
                  \/ TakesChunk(r, f.of, next)
                  \/ TakesFooter(r, f.of, next)
      <4>1. wire[1].of.kind \in DumpKinds
        BY <2>3, <3>6 DEF TakesHeader, TakesChunk, TakesFooter, DumpKinds
      <4>2. Passes(f, g) /\ 0 <= g.spent
        BY <2>2, <3>6, <4>1
      <4> QED BY <1>f, <2>3, <3>1, <3>6, <4>2, KeptWhenTaken
    <3> QED BY <3>2, <3>3, <3>4, <3>5, <3>6
  <2> QED BY <2>1, <2>4
<1>4. ASSUME NEW bytes \in Fragments, LoseFragment(bytes)
      PROVE  \A d \in Calls : PieceInv(call'[d], g)
  <2>1. Lose(bytes) /\ call' = call
    BY <1>4 DEF LoseFragment
  <2>2. Stays(f, g) \/ Missed(f, g)
    BY <1>0, <2>1, FrontLost
  <2> QED BY <1>p, <1>s, <2>1, <2>2
<1>5. ASSUME Reconnect PROVE \A d \in Calls : PieceInv(call'[d], g)
  <2>1. call' = [c \in Calls |-> [call[c] EXCEPT !.listening = FALSE]]
    BY <1>5 DEF Reconnect
  <2>2. ASSUME NEW d \in Calls PROVE PieceInv(call'[d], g)
    <3> PICK r : r = call[d]
      OBVIOUS
    <3> DEFINE next == [r EXCEPT !.listening = FALSE]
    <3>1. CallInv(r) /\ PieceInv(r, f) /\ call'[d] = next
      BY <1>p, <2>1
    <3>2. /\ next.header = r.header /\ next.pc = r.pc /\ next.listening = FALSE
          /\ next.chunks = r.chunks /\ next.footer = r.footer
      BY <3>1 DEF CallInv, CallRecords
    <3> HIDE DEF next
    <3>3. PieceInv(next, g)
      BY <3>1, <3>2 DEF PieceInv, OnePiece
    <3> QED BY <3>1, <3>3
  <2> QED BY <2>2
<1>6. ASSUME NEW c \in Calls, Timeout(c) \/ Use(c)
      PROVE  \A d \in Calls : PieceInv(call'[d], g)
  <2>1. call' = [call EXCEPT ![c] = Idle] /\ UNCHANGED medium
    BY <1>6 DEF Timeout, Use
  <2> QED BY <1>0, <1>i, <1>p, <1>s, <1>u, <2>1
<1>7. CASE UNCHANGED vars
  <2>1. call' = call /\ UNCHANGED medium
    BY <1>7 DEF vars
  <2> QED BY <1>p, <1>s, <1>u, <2>1
<1> QED BY <1>1, <1>2, <1>3, <1>4, <1>5, <1>6, <1>7 DEF Next

LEMMA PiecesOK ==
  ASSUME CutAtF7, MaxLosses < CHUNKS_PER_PRESET + 2
  PROVE  Spec => []PiecesInv
<1>1. Init /\ CallsInv => PiecesInv
  BY IdleOK DEF Init, PiecesInv, PieceInv
<1>2. PiecesInv /\ [Next]_vars => PiecesInv'
  BY PiecesStep
<1> QED BY <1>1, <1>2, CallsOK, PTL DEF Spec

\* A dump that is given out is one dump, whatever other dumps, mangled messages
\* and losses came in between (packages/am4/src/presetDump.ts:322-384), as long
\* as fewer fragments are lost than a dump has messages: a message that no call
\* has received has cost a loss, and to take another dump's footer for its own a
\* call must have missed the rest of the one it was in.
THEOREM DumpInOnePiece ==
  ASSUME CutAtF7, MaxLosses < CHUNKS_PER_PRESET + 2
  PROVE  Spec => []DumpIsOnePiece
<1>1. PiecesInv => DumpIsOnePiece
  <2> SUFFICES ASSUME PiecesInv, NEW c \in Calls, call[c].pc = "resolved"
               PROVE  LET of == call[c].header[1].of
                          stream == DumpStream(of.dump, of.content)
                      IN  <<call[c].header>> \o call[c].chunks \o <<call[c].footer>>
                            = [i \in DOMAIN stream |-> Bytes(stream[i])]
    BY DEF DumpIsOnePiece
  <2> DEFINE r == call[c]  h == r.header[1].of  N == CHUNKS_PER_PRESET
             first == <<r.header>>  last == <<r.footer>>
             mid == r.chunks  u == first \o mid  s == u \o last
             stream == DumpStream(h.dump, h.content)
             t == [i \in DOMAIN stream |-> Bytes(stream[i])]
  <2>1. CallInv(r) /\ OnePiece(r) /\ N \in Nat \ {0}
    BY PresetDumpConstants DEF PiecesInv, CallsInv, PieceInv
  <2>2. /\ r.chunks \in Seq(Seq(Byte)) /\ Len(r.chunks) = N
        /\ r.header \in Seq(Byte) /\ r.footer \in Seq(Byte)
        /\ \A j \in 1..N : r.chunks[j] = Bytes(Message("chunk", h.dump, h.content, j))
        /\ r.footer = Bytes(Message("footer", h.dump, h.content, 0))
    BY <2>1 DEF CallInv, CallRecords, OnePiece
  <2>3. r.header = Bytes(Message("header", h.dump, h.content, 0))
    <3>1. PICK m \in StreamMessages : m.kind = "header" /\ r.header = Bytes(m)
      BY <2>1 DEF CallInv
    <3>2. h = m
      BY <3>1, MessageRun
    <3>3. m = Message("header", m.dump, m.content, 0)
      BY <3>1 DEF Message, StreamMessages, Messages
    <3> QED BY <3>1, <3>2, <3>3
  <2>4. /\ DOMAIN t = 1..(N + 2)
        /\ t[1] = Bytes(Message("header", h.dump, h.content, 0))
        /\ t[N + 2] = Bytes(Message("footer", h.dump, h.content, 0))
        /\ \A i \in 2..(N + 1) : t[i] = Bytes(Message("chunk", h.dump, h.content, i - 1))
    <3> HIDE DEF h
    <3>1. /\ DOMAIN stream = 1..(N + 2)
          /\ stream[1] = Message("header", h.dump, h.content, 0)
          /\ stream[N + 2] = Message("footer", h.dump, h.content, 0)
          /\ \A i \in 2..(N + 1) : stream[i] = Message("chunk", h.dump, h.content, i - 1)
      BY <2>1 DEF DumpStream
    <3> HIDE DEF stream
    <3> QED BY <2>1, <3>1
  <2>5. /\ first \in Seq(Seq(Byte)) /\ Len(first) = 1 /\ first[1] = r.header
        /\ last \in Seq(Seq(Byte)) /\ Len(last) = 1 /\ last[1] = r.footer
        /\ mid \in Seq(Seq(Byte)) /\ Len(mid) = N /\ mid = r.chunks
    BY <2>2
  <2> HIDE DEF first, mid, last, t, h, N
  <2>6. /\ u \in Seq(Seq(Byte)) /\ Len(u) = N + 1
        /\ \A i \in 1..(N + 1) : u[i] = IF i <= 1 THEN first[i] ELSE mid[i - 1]
    <3>1. /\ u \in Seq(Seq(Byte)) /\ Len(u) = Len(first) + Len(mid)
          /\ \A i \in 1..(Len(first) + Len(mid)) :
               u[i] = IF i <= Len(first) THEN first[i] ELSE mid[i - Len(first)]
      BY <2>5, ConcatProperties
    <3> HIDE DEF u
    <3>2. Len(first) + Len(mid) = N + 1
      BY <2>1, <2>5
    <3> QED BY <2>1, <2>5, <3>1, <3>2
  <2> HIDE DEF u
  <2>7. /\ s \in Seq(Seq(Byte)) /\ Len(s) = N + 2
        /\ \A i \in 1..(N + 2) : s[i] = IF i <= N + 1 THEN u[i] ELSE last[i - (N + 1)]
    <3>1. /\ s \in Seq(Seq(Byte)) /\ Len(s) = Len(u) + Len(last)
          /\ \A i \in 1..(Len(u) + Len(last)) :
               s[i] = IF i <= Len(u) THEN u[i] ELSE last[i - Len(u)]
      BY <2>5, <2>6, ConcatProperties
    <3> HIDE DEF s
    <3>2. Len(u) + Len(last) = N + 2
      BY <2>1, <2>5, <2>6
    <3> QED BY <2>1, <2>5, <2>6, <3>1, <3>2
  <2> HIDE DEF s
  <2>8. ASSUME NEW i \in 1..(N + 2) PROVE s[i] = t[i]
    <3>1. CASE i = 1
      BY <2>1, <2>3, <2>4, <2>5, <2>6, <2>7, <3>1
    <3>2. CASE i = N + 2
      <4>1. s[i] = last[1]
        BY <2>1, <2>7, <3>2
      <4> QED BY <2>2, <2>4, <2>5, <3>2, <4>1
    <3>3. CASE i \in 2..(N + 1)
      <4>0. i \in 1..(N + 2) /\ i \in 1..(N + 1) /\ ~(i <= 1) /\ i <= N + 1 /\ i - 1 \in 1..N
        BY <2>1, <3>3
      <4>1. s[i] = mid[i - 1]
        BY <2>6, <2>7, <4>0
      <4>2. mid[i - 1] = Bytes(Message("chunk", h.dump, h.content, i - 1))
        BY <2>2, <2>5, <4>0
      <4> QED BY <2>4, <3>3, <4>1, <4>2
    <3> QED BY <2>1, <3>1, <3>2, <3>3
  <2>9. s = t
    <3>1. DOMAIN s = 1..(N + 2) /\ s = [i \in DOMAIN s |-> s[i]]
      BY <2>1, <2>7
    <3>2. t = [i \in DOMAIN t |-> t[i]]
      BY DEF t
    <3> QED BY <2>4, <2>8, <3>1, <3>2
  <2> QED BY <2>9 DEF s, u, first, mid, last, t, h, N
<1> QED BY <1>1, PiecesOK, PTL
=============================================================================
