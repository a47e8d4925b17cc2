------------------------- MODULE HydrasynthValues -------------------------
(***************************************************************************)
(* The two ways a parameter value reaches the Hydrasynth.  set_param turns *)
(* it into a wire value (encoding.ts resolveNrpnValue) and sends that as   *)
(* the data of an NRPN (nrpnMessagesFor); hydra_apply_patch takes the same *)
(* wire value and stores it in a patch buffer (patchEncoder.ts             *)
(* patchBufferValueFor, writePatchValue).  The two encodings differ by     *)
(* kind of parameter: parameters of a kind are treated alike, so there is  *)
(* one of each kind here.                                                  *)
(*                                                                         *)
(* How the device reads and displays them (external) is what nrpn.ts,      *)
(* nrpnDisplay.ts and patchEncoder.ts record of it: a knob's NRPN value is *)
(* eight times its patch value.                                            *)
(*                                                                         *)
(* A caller may pass any number, so numbers are counted in halves: a whole *)
(* number and a fraction, within a parameter's range and outside it.       *)
(***************************************************************************)
EXTENDS Integers

----------------------------------------------------------------------------
(* Parameters.                                                             *)

\* enc: layout in the patch; wireMax: 0 if not recorded; names: size of the
\* enumeration, 0 if none; scale: enumValueScale, 0 if none; slot: multi-slot;
\* lo, hi: displayMin and displayMax, if ranged; top: largest value the device
\* displays for an unranged number.
Kind(enc, wireMax, names, scale, slot, ranged, lo, hi, top) ==
  [enc |-> enc, wireMax |-> wireMax, names |-> names, scale |-> scale,
   slot |-> slot, ranged |-> ranged, lo |-> lo, hi |-> hi, top |-> top]

Knob     == Kind("u16le", 8192, 0, 0, FALSE, FALSE, 0, 0, 128)     \* filter1cutoff
Bipolar  == Kind("u16le", 8192, 0, 0, FALSE, TRUE, -64, 64, 0)     \* mixerosc1pan
Keytrack == Kind("u16le", 8192, 0, 0, FALSE, TRUE, -200, 200, 0)   \* filter1keytrack
Percent  == Kind("u16le", 8192, 0, 0, FALSE, TRUE, 0, 100, 0)      \* mutator1wet
Feedback == Kind("u16le", 8192, 0, 0, FALSE, TRUE, 0, 150, 0)      \* mutator1feedback
Predelay == Kind("u16le", 8192, 0, 0, FALSE, TRUE, 0, 250, 0)      \* reverbpredelay
FxType   == Kind("u8", 9, 10, 8, FALSE, FALSE, 0, 0, 0)            \* prefxtype
Time     == Kind("u16le", 8192, 129, 64, FALSE, FALSE, 0, 0, 0)    \* reverbtime
Division == Kind("u16le", 20, 21, 0, FALSE, FALSE, 0, 0, 0)        \* delaytimesyncon
Wave     == Kind("u8", 218, 219, 0, FALSE, FALSE, 0, 0, 0)         \* osc1type
Mode     == Kind("u8", 0, 2, 0, TRUE, FALSE, 0, 0, 0)              \* osc1mode
Semitone == Kind("s8", 0, 0, 0, TRUE, TRUE, -36, 36, 0)            \* osc1semi
Glide    == Kind("u8", 127, 0, 0, FALSE, FALSE, 0, 0, 127)         \* voiceglidetime
Cents    == Kind("s16le", 0, 0, 0, FALSE, TRUE, -50, 50, 0)        \* osc1cent
Rate     == Kind("u16le", 8192, 1025, 0, FALSE, FALSE, 0, 0, 0)    \* lfo1ratesyncoff
Curve    == Kind("s8", 0, 0, 0, FALSE, FALSE, 0, 0, 128)           \* env1atkcurve
OscTrack == Kind("s8", 200, 0, 0, FALSE, FALSE, 0, 0, 200)         \* osc1keytrack
Phase    == Kind("u16le", 360, 0, 0, FALSE, FALSE, 0, 0, 360)      \* lfo1phase

\* The kinds treated alike and as displayed over their range, and the others:
\* negative cents leave 13 bits, rates and delay times are numbered two ways,
\* curves and oscillator key tracking do not fit their byte in a patch, and a
\* phase up to 128 degrees is taken for a position of the dial.
Regular == {Knob, Bipolar, Keytrack, Percent, Feedback, Predelay, FxType, Time,
            Division, Wave, Mode, Semitone, Glide}
Irregular == {Cents, Rate, Curve, OscTrack, Phase}
Kinds == Regular \cup Irregular

\* What a caller may ask for: a name, by its index, or a number, in halves. One
\* more name than there are stands for any that is not in the enumeration.
Named(i) == [name |-> TRUE, n |-> i]
Number(h) == [name |-> FALSE, n |-> h]

\* The numbers displayed, from the lowest to the highest.
Lowest(p) == IF p.ranged THEN p.lo ELSE 0
Highest(p) == IF p.names > 0 THEN p.names - 1 ELSE IF p.ranged THEN p.hi ELSE p.top

\* Numbers around the range, and at the limits of the encodings.
Around(p) == 2 * Lowest(p) - 4 .. 2 * Highest(p) + 4
Limits == {2 * n + f : n \in {-129, 110, 127, 128, 200, 255, 300, 8192, 16383, 16384, 65536},
                       f \in {0, 1}}
Inputs(p) ==
  {Named(i) : i \in 0 .. p.names} \cup {Number(h) : h \in Around(p) \cup Limits}

----------------------------------------------------------------------------
(* From the value to the wire.  Wire values are counted in halves too.     *)

Refused == [ok |-> FALSE, wire |-> 0]
Resolved(h) == [ok |-> TRUE, wire |-> h]

Integral(h) == h % 2 = 0

\* Math.round of a quotient.
Rounded(n, d) == (2 * n + d) \div (2 * d)

AtLeast(a, b) == IF a >= b THEN a ELSE b
AtMost(a, b) == IF a <= b THEN a ELSE b

FourteenBit(p) == p.wireMax > 127 /\ ~p.slot /\ p.names = 0

\* A number within the display range goes linearly to 0 .. wireMax.
FromZero(p, h) ==
  AtMost(Rounded(AtLeast(h, 0) * p.wireMax, 2 * p.hi), p.wireMax)
OnRange(p, h) ==
  AtMost(AtLeast(Rounded((h - 2 * p.lo) * p.wireMax, 2 * p.hi - 2 * p.lo), 0), p.wireMax)

\* One not on a ranged parameter is a position of 0 .. 128; the rest passes.
OnDial(p, h) == AtMost(Rounded(h * p.wireMax, 256), p.wireMax)
Unranged(p, h) ==
  IF FourteenBit(p) /\ h \in 0 .. 256 THEN Resolved(2 * OnDial(p, h)) ELSE Resolved(h)

FactorOf(p) == IF p.scale = 0 THEN 1 ELSE p.scale
IndexOn(p, i) == i \in 0 .. p.names - 1

resolveNrpnValue(p, v) ==
  IF v.name THEN IF IndexOn(p, v.n) THEN Resolved(2 * (v.n * FactorOf(p))) ELSE Refused
  ELSE IF p.names > 0 /\ p.scale > 0
    THEN IF Integral(v.n) /\ IndexOn(p, v.n \div 2)
           THEN Resolved(2 * ((v.n \div 2) * p.scale)) ELSE Refused
  ELSE IF FourteenBit(p) /\ p.ranged
    THEN IF v.n \in 2 * p.lo .. 2 * p.hi THEN Resolved(2 * OnRange(p, v.n))
         ELSE IF p.lo < 0 THEN Refused ELSE Unranged(p, v.n)
  ELSE Unranged(p, v.n)

----------------------------------------------------------------------------
(* From the wire to the device, as an NRPN.                                *)

\* A shift or a mask drops the fraction.
Truncated(h) == IF h >= 0 THEN h \div 2 ELSE -((-h) \div 2)

\* data-MSB and data-LSB; a slot takes the place of the former.
DataMsb(p, w) == IF p.slot THEN 0 ELSE (w \div 128) % 128
DataLsb(w) == w % 128

Signed(n, width) == IF 2 * n >= width THEN n - width ELSE n

\* Where the device goes (external): numbers of a signed parameter wrap within
\* 7 bits, cents within 13; an enumeration is read at its scale.
NrpnPosition(p, msb, lsb) ==
  LET n == 128 * msb + lsb IN
  CASE p.slot -> IF p.enc = "s8" THEN Signed(lsb, 128) ELSE lsb
    [] p.enc = "s16le" -> Signed(n, 8192)
    [] p.scale > 0 -> n \div p.scale
    [] p = Rate -> n \div 8
    [] OTHER -> n

----------------------------------------------------------------------------
(* From the wire to the device, in a patch.                                *)

\* What patchBufferValueFor hands on: an enumeration in 16 bits is multiplied
\* for the division to come, one in 8 bits loses its scale.
WithoutUnscaling(p, h) == h
patchBufferValueFor(p, h) ==
  IF p.enc = "u16le" /\ p.names > 0 /\ p.scale = 0 THEN h * 8
  ELSE IF p.scale > 0 /\ p.enc = "u8" THEN 2 * Rounded(h, 2 * p.scale)
  ELSE h

\* The whole numbers, and the range of them, that writePatchValue accepts.
Between(v, lo, hi) == lo <= v /\ v <= hi
Accepts(p, v) ==
  CASE p.enc = "u16le" -> Between(v, 0, 65535)
    [] p.enc = "s16le" -> Between(v, -32768, 32767)
    [] p.enc = "u8" -> Between(v, 0, 255)
    [] p.enc = "s8" -> Between(v, -128, 127)
Fits(p, h) == Integral(h) /\ Accepts(p, h \div 2)

EighthDown(v) == v \div 8
Eighth(v) == Rounded(v, 8)

\* The two bytes it writes: an eighth, or the value in two's complement.
Stored(p, v) == IF p.enc = "u16le" THEN Eighth(v) ELSE v
LowByte(p, v) == Stored(p, v) % 256
HighByte(p, v) ==
  IF p.enc = "u8" THEN 0 ELSE (Stored(p, v) \div 256) % 256

\* Where the device goes (external), in the units of NrpnPosition: an
\* enumeration is stored as its index, but for reverbtime, an eighth of it.
PatchPosition(p, lo, hi) ==
  LET n == lo + 256 * hi IN
  CASE p.enc = "s8" -> Signed(lo, 256)
    [] p.enc = "s16le" -> Signed(n, 65536)
    [] p.enc = "u8" -> lo
    [] p.enc = "u16le" /\ p.names > 0 /\ p.scale > 0 -> n \div 8
    [] p.enc = "u16le" /\ p.names > 0 /\ p.scale = 0 -> n
    [] OTHER -> 8 * n

----------------------------------------------------------------------------
(* A value sent both ways.                                                 *)

VARIABLES
  param,    \* the kind of parameter
  input,    \* the value asked for
  live,     \* device: where set_param put it
  patched   \* device: where the patch put it

valueVars == <<param, input, live, patched>>

Unset == [set |-> FALSE, ok |-> FALSE, at |-> 0]
Put(ok, at) == [set |-> TRUE, ok |-> ok, at |-> at]

ValueInit ==
  /\ param \in Kinds
  /\ input \in Inputs(param)
  /\ live = Unset /\ patched = Unset

\* Hydrasynth writer.setParam.
SetParam ==
  LET r == resolveNrpnValue(param, input)
      w == Truncated(r.wire) IN
  /\ ~live.set
  /\ live' = IF r.ok
               THEN Put(TRUE, NrpnPosition(param, DataMsb(param, w), DataLsb(w)))
               ELSE Put(FALSE, 0)
  /\ UNCHANGED <<param, input, patched>>

\* encodePatch; a value that does not fit refuses the whole patch.
EncodePatch ==
  LET r == resolveNrpnValue(param, input)
      h == patchBufferValueFor(param, r.wire)
      v == h \div 2 IN
  /\ ~patched.set
  /\ patched' = IF r.ok /\ Fits(param, h)
                  THEN Put(TRUE, PatchPosition(param, LowByte(param, v), HighByte(param, v)))
                  ELSE Put(FALSE, 0)
  /\ UNCHANGED <<param, input, live>>

ValueNext == SetParam \/ EncodePatch
ValueSpec == ValueInit /\ [][ValueNext]_valueVars

----------------------------------------------------------------------------
(* What the device displays (external), in tenths.                         *)

\* The place on the display: names and whole numbers as they are, the dial and
\* the bipolar range to the nearest tenth, percentages cut down to a whole one,
\* the reverb's predelay in 2495 steps from half a millisecond.
Display(p, at) ==
  CASE p = Knob -> Rounded(10 * at, 64)
    [] p = Bipolar -> Rounded(10 * at, 64) - 640
    [] p \in {Percent, Feedback, Keytrack} ->
         10 * ((at * (p.hi - p.lo)) \div p.wireMax + p.lo)
    [] p = Predelay -> Rounded(at * 2495, p.wireMax) + 5
    [] OTHER -> 10 * at

\* The same of what the caller asked for.
Asked(v) == IF v.name THEN 10 * v.n ELSE 5 * v.n

----------------------------------------------------------------------------
(* Properties.                                                             *)

Near(a, b) == a - b <= 4 /\ b - a <= 4
Tolerance(p) == p.enc = "u16le" /\ p.names = 0

\* A value the device can show: a name, or a number of the range, in halves
\* only where there are tenths.
Showable(p, v) ==
  IF v.name THEN IndexOn(p, v.n)
  ELSE /\ v.n \in 2 * Lowest(p) .. 2 * Highest(p)
       /\ FourteenBit(p) \/ Integral(v.n)

\* The values the resolver or the encodings have a rule for: besides those, a
\* name that is none, any number on a kind whose range it enforces, and a whole
\* number of fourteen bits, which passes to the wire.
Ruled(p, v) ==
  \/ v.name
  \/ Showable(p, v)
  \/ p.scale > 0 \/ (FourteenBit(p) /\ p.ranged /\ p.lo < 0)
  \/ FourteenBit(p) /\ Integral(v.n) /\ Between(v.n, 0, 32767)

\* A value set live and the same value in a patch put the device in the same
\* place, to half of the patch's step of eight, or are both refused.
Agree ==
  live.set /\ patched.set =>
    /\ live.ok = patched.ok
    /\ live.ok => IF Tolerance(param) THEN Near(live.at, patched.at)
                                      ELSE live.at = patched.at
SameEitherWay == param \in Regular /\ Ruled(param, input) => Agree

\* A caller gets what it asked for, as the device displays it: names, whole
\* numbers, the dial and the bipolar range exactly, percentages never above and
\* at most one below, and the predelay to six tenths of a millisecond.
Under(p) == IF p \in {Percent, Feedback, Keytrack} THEN 10 ELSE IF p = Predelay THEN 1 ELSE 0
Over(p) == IF p = Predelay THEN 6 ELSE 0
Shows(p, v, at) == Between(Display(p, at) - Asked(v), -Under(p), Over(p))
ShowsWhatWasAsked ==
  param \in Regular /\ Showable(param, input) =>
    /\ live.set => live.ok /\ Shows(param, input, live.at)
    /\ patched.set => patched.ok /\ Shows(param, input, patched.at)

\* tools/patch.ts says that a patch's values have the "same semantics as
\* hydra_set_param": of any number, not only of the ruled ones.
SameForAnyNumber == param \in Regular => Agree

\* encoding.ts says that a number is "treated as a display value": the device
\* shows that value, on the kinds it displays in whole units.
ShownExactly ==
  live.set /\ param \in Regular /\ Showable(param, input) /\ (input.name \/ Integral(input.n)) =>
    Display(param, live.at) = Asked(input)

\* The same of every kind: patchEncoder.ts says that callers "always pass NRPN
\* wire values matching `set_param`".
SameEveryKind == Agree
=============================================================================
