---------------------------- MODULE MelodyProofs ----------------------------
(***************************************************************************)
(* The notes of a melody, for every hop, sample rate and length of a       *)
(* recording and whatever the signal decides: attacks merge into onsets    *)
(* that are far enough apart and lose none, notes keep in turn, and the    *)
(* quantiles deal them evenly to the lanes.                                *)
(***************************************************************************)
EXTENDS MelodyNotes, NumberLemmas

-----------------------------------------------------------------------------
(* Arithmetic.                                                             *)

\* Later frames are not earlier in time.
LEMMA TimeGrows ==
  ASSUME NEW m \in Nat, NEW n \in Nat, m <= n
  PROVE  Time(m) \in Nat /\ Time(n) \in Nat /\ Time(m) <= Time(n)
BY MelodyAssumption DEF Time

\* Start and duration are rounded each on its own: their sum is at most a
\* millisecond past the rounded end, and past that of anything later.
LEMMA MillisAddUp ==
  ASSUME NEW a \in Nat, NEW b \in Nat, NEW c \in Nat, a <= b, b <= c
  PROVE  Millis(a) + Millis(b - a) <= Millis(c) + 1
<1> DEFINE x == Round(a * 1000, SampleRate)
           y == Round((b - a) * 1000, SampleRate)
           z == Round(c * 1000, SampleRate)
<1>1. /\ x \in Nat /\ 2 * (SampleRate * x) <= 2 * (a * 1000) + SampleRate
      /\ y \in Nat /\ 2 * (SampleRate * y) <= 2 * ((b - a) * 1000) + SampleRate
      /\ z \in Nat /\ 2 * (c * 1000) <= 2 * (SampleRate * z) + SampleRate
  <2>1. /\ a * 1000 \in Nat /\ (b - a) * 1000 \in Nat /\ c * 1000 \in Nat
        /\ SampleRate \in Nat \ {0}
    BY MelodyAssumption
  <2>2. \A n \in Nat : /\ Round(n, SampleRate) \in Nat
                       /\ 2 * (SampleRate * Round(n, SampleRate)) <= 2 * n + SampleRate
                       /\ 2 * n <= 2 * (SampleRate * Round(n, SampleRate)) + SampleRate
    BY <2>1, RoundError
  <2>3. x \in Nat /\ 2 * (SampleRate * x) <= 2 * (a * 1000) + SampleRate
    BY <2>1, <2>2
  <2>4. y \in Nat /\ 2 * (SampleRate * y) <= 2 * ((b - a) * 1000) + SampleRate
    BY <2>1, <2>2
  <2>5. z \in Nat /\ 2 * (c * 1000) <= 2 * (SampleRate * z) + SampleRate
    BY <2>1, <2>2
  <2>. QED  BY <2>3, <2>4, <2>5
<1> HIDE DEF x, y, z
<1>2. SampleRate \in Nat \ {0}
  BY MelodyAssumption
<1>3. 2 * (SampleRate * x) + 2 * (SampleRate * y) <= 2 * (SampleRate * z) + 3 * SampleRate
  <2>1. SampleRate * x \in Nat /\ SampleRate * y \in Nat /\ SampleRate * z \in Nat
    BY <1>1, <1>2
  <2>. QED  BY <1>1, <1>2, <2>1
<1>4. ASSUME x + y >= z + 2 PROVE FALSE
  <2>1. SampleRate * (x + y) >= SampleRate * (z + 2)
    BY <1>1, <1>2, <1>4
  <2>2. /\ SampleRate * (x + y) = SampleRate * x + SampleRate * y
        /\ SampleRate * (z + 2) = SampleRate * z + 2 * SampleRate
        /\ SampleRate * x \in Nat /\ SampleRate * y \in Nat /\ SampleRate * z \in Nat
    BY <1>1, <1>2
  <2>. QED  BY <1>2, <1>3, <2>1, <2>2
<1>5. x + y <= z + 1
  BY <1>1, <1>4
<1>. QED  BY <1>5 DEF x, y, z, Millis

-----------------------------------------------------------------------------
(* The scan of the peaks.                                                  *)

\* Frames are rounded from milliseconds by half a hop at most.
LEMMA WaitInFrames ==
  /\ WaitFrames \in Nat
  /\ 2 * ((1000 * Hop) * WaitFrames) <= 2 * (WaitMs * SampleRate) + 1000 * Hop
  /\ 2 * (WaitMs * SampleRate) <= 2 * ((1000 * Hop) * WaitFrames) + 1000 * Hop
<1> DEFINE wait == WaitMs * SampleRate
           frame == 1000 * Hop
<1>1. wait \in Nat /\ frame \in Nat \ {0} /\ WaitFrames = Round(wait, frame)
  BY MelodyAssumption DEF WaitFrames
<1> HIDE DEF wait, frame
<1>2. /\ Round(wait, frame) \in Nat
      /\ 2 * (frame * Round(wait, frame)) <= 2 * wait + frame
      /\ 2 * wait <= 2 * (frame * Round(wait, frame)) + frame
  BY <1>1, RoundError
<1>. QED  BY <1>1, <1>2 DEF wait, frame

LEMMA FramesAreNat == FrameSet \subseteq Nat /\ Frames - 1 \in Nat
BY MelodyAssumption DEF FrameSet

LEMMA PickedAreAsked == ASSUME NEW at PROVE Picked(at) \subseteq at
BY DEF Picked

LEMMA PickedAreFrames ==
  ASSUME NEW at, at \subseteq FrameSet
  PROVE  \A o \in Picked(at) : o \in FrameSet /\ o \in Int
<1>1. \A o \in FrameSet : o \in Int
  BY DEF FrameSet
<1>2. Picked(at) \subseteq at
  BY PickedAreAsked, Zenon
<1>. QED  BY <1>1, <1>2

Scan(at, m, last) ==
  last = [n \in 0..m |-> IF n = 0 THEN - WaitFrames - 1
                         ELSE IF n - 1 \in at /\ n - 1 > last[n - 1] + WaitFrames
                              THEN n - 1
                              ELSE last[n - 1]]

\* The scan of the peaks is well defined.
LEMMA ScanExists ==
  ASSUME NEW at
  PROVE  Scan(at, Frames, LastKept(at))
<1> DEFINE S == {m \in Nat : \E last : Scan(at, m, last)}
<1>1. 0 \in S
  <2>1. Scan(at, 0, [n \in 0..0 |-> - WaitFrames - 1])
    BY DEF Scan
  <2>. QED  BY <2>1
<1>2. ASSUME NEW m \in Nat, m \in S PROVE m + 1 \in S
  <2>1. PICK last : Scan(at, m, last)
    BY <1>2
  <2> DEFINE kept == IF m \in at /\ m > last[m] + WaitFrames THEN m ELSE last[m]
             longer == [n \in 0..(m + 1) |-> IF n <= m THEN last[n] ELSE kept]
  <2>2. longer = [n \in 0..(m + 1) |->
                    IF n = 0 THEN - WaitFrames - 1
                    ELSE IF n - 1 \in at /\ n - 1 > longer[n - 1] + WaitFrames
                         THEN n - 1
                         ELSE longer[n - 1]]
    <3>1. ASSUME NEW n \in 0..(m + 1)
          PROVE  longer[n] = IF n = 0 THEN - WaitFrames - 1
                             ELSE IF n - 1 \in at /\ n - 1 > longer[n - 1] + WaitFrames
                                  THEN n - 1
                                  ELSE longer[n - 1]
      <4>1. CASE n <= m
        <5>1. n \in 0..m /\ (n # 0 => n - 1 \in 0..(m + 1) /\ n - 1 <= m)
          BY <4>1
        <5>2. longer[n] = last[n] /\ (n # 0 => longer[n - 1] = last[n - 1])
          BY <4>1, <5>1
        <5>3. last[n] = IF n = 0 THEN - WaitFrames - 1
                        ELSE IF n - 1 \in at /\ n - 1 > last[n - 1] + WaitFrames
                             THEN n - 1
                             ELSE last[n - 1]
          BY <2>1, <5>1 DEF Scan
        <5> HIDE DEF longer
        <5>. QED  BY <5>2, <5>3
      <4>2. CASE n = m + 1
        <5>1. longer[n] = kept /\ n - 1 = m /\ m \in 0..(m + 1) /\ n # 0
          BY <4>2
        <5>2. longer[m] = last[m]
          BY <5>1
        <5> HIDE DEF longer
        <5>. QED  BY <5>1, <5>2
      <4>. QED  BY <4>1, <4>2
    <3> HIDE DEF kept
    <3>. QED  BY <3>1
  <2>3. Scan(at, m + 1, longer)
    <3> HIDE DEF longer
    <3>. QED  BY <2>2 DEF Scan
  <2> HIDE DEF longer
  <2>. QED  BY <2>3
<1>3. Nat \subseteq S
  <2> HIDE DEF S
  <2>. QED  BY <1>1, <1>2, SetInduction
<1>4. \E last : Scan(at, Frames, last)
  BY <1>3, MelodyAssumption
<1>. QED  BY <1>4 DEF LastKept, Scan

\* What the scan has kept: an onset before the frame, or nothing yet.
LEMMA ScanKeeps ==
  ASSUME NEW at, at \subseteq FrameSet
  PROVE  /\ LastKept(at)[0] = - WaitFrames - 1
         /\ \A n \in FrameSet :
              LastKept(at)[n + 1] =
                IF n \in at /\ n > LastKept(at)[n] + WaitFrames
                THEN n ELSE LastKept(at)[n]
         /\ \A n \in 0..Frames :
              \/ LastKept(at)[n] = - WaitFrames - 1
              \/ LastKept(at)[n] \in Picked(at) /\ LastKept(at)[n] < n
<1> DEFINE last == LastKept(at)
           S == {n \in Nat : n <= Frames =>
                   \/ last[n] = - WaitFrames - 1
                   \/ last[n] \in Picked(at) /\ last[n] < n}
<1>1. last = [n \in 0..Frames |->
                IF n = 0 THEN - WaitFrames - 1
                ELSE IF n - 1 \in at /\ n - 1 > last[n - 1] + WaitFrames
                     THEN n - 1
                     ELSE last[n - 1]]
  BY ScanExists DEF Scan
<1> HIDE DEF last
<1>2. last[0] = - WaitFrames - 1
  BY <1>1, MelodyAssumption
<1>3. ASSUME NEW n \in FrameSet
      PROVE  last[n + 1] = IF n \in at /\ n > last[n] + WaitFrames THEN n ELSE last[n]
  <2>1. n + 1 \in 0..Frames /\ n + 1 # 0 /\ (n + 1) - 1 = n
    BY MelodyAssumption DEF FrameSet
  <2>. QED  BY <1>1, <2>1
<1>4. 0 \in S
  BY <1>2
<1>5. ASSUME NEW n \in Nat, n \in S PROVE n + 1 \in S
  <2>. SUFFICES ASSUME n + 1 <= Frames
                PROVE  \/ last[n + 1] = - WaitFrames - 1
                       \/ last[n + 1] \in Picked(at) /\ last[n + 1] < n + 1
    OBVIOUS
  <2>1. n \in FrameSet /\ n <= Frames
    BY MelodyAssumption DEF FrameSet
  <2>2. CASE last[n + 1] = last[n]
    <3>1. \/ last[n] = - WaitFrames - 1
          \/ last[n] \in Picked(at) /\ last[n] < n
      BY <1>5, <2>1
    <3>2. ASSUME last[n] \in Picked(at), last[n] < n PROVE last[n] < n + 1
      <4>1. last[n] \in Int
        BY <3>2, PickedAreFrames
      <4>. QED  BY <3>2, <4>1
    <3>. QED  BY <2>2, <3>1, <3>2
  <2>3. CASE last[n + 1] = n /\ n \in at
    <3>1. n \in Picked(at)
      BY <2>3 DEF Picked, last
    <3>. QED  BY <2>3, <3>1
  <2>. QED  BY <1>3, <2>1, <2>2, <2>3
<1>6. Nat \subseteq S
  <2> HIDE DEF S
  <2>. QED  BY <1>4, <1>5, SetInduction
<1>7. ASSUME NEW n \in 0..Frames
      PROVE  last[n] = - WaitFrames - 1 \/ (last[n] \in Picked(at) /\ last[n] < n)
  <2>1. n \in Nat /\ n <= Frames
    BY MelodyAssumption
  <2>2. n \in S
    BY <1>6, <2>1
  <2>. QED  BY <2>1, <2>2
<1>. QED  BY <1>2, <1>3, <1>7 DEF last

\* An onset, once kept, is only replaced by a later one.
LEMMA ScanGrows ==
  ASSUME NEW at, at \subseteq FrameSet, NEW m \in FrameSet, NEW n \in FrameSet, m <= n
  PROVE  LastKept(at)[m] \in Int /\ LastKept(at)[n] \in Int
         /\ LastKept(at)[m] <= LastKept(at)[n]
<1> DEFINE last == LastKept(at)
           S == {k \in Nat : m + k < Frames => last[m] <= last[m + k]}
<1>1. \A k \in FrameSet : last[k] \in Int
  <2>1. \A k \in FrameSet : k \in 0..Frames
    BY MelodyAssumption DEF FrameSet
  <2>2. (\A o \in Picked(at) : o \in Int) /\ - WaitFrames - 1 \in Int
    BY WaitInFrames, PickedAreFrames
  <2>. QED  BY <2>1, <2>2, ScanKeeps
<1>2. m \in Nat /\ n \in Nat /\ Frames \in Nat
  BY MelodyAssumption DEF FrameSet
<1>3. \A k \in FrameSet : last[k + 1] = IF k \in at /\ k > last[k] + WaitFrames
                                         THEN k ELSE last[k]
  BY ScanKeeps
<1> HIDE DEF last
<1>4. 0 \in S
  <2>1. m + 0 = m
    BY <1>2
  <2>. QED  BY <1>1, <2>1
<1>5. ASSUME NEW k \in Nat, k \in S PROVE k + 1 \in S
  <2>. SUFFICES ASSUME m + (k + 1) < Frames PROVE last[m] <= last[m + (k + 1)]
    OBVIOUS
  <2>1. m + k \in FrameSet /\ m + (k + 1) = (m + k) + 1 /\ m + k < Frames
        /\ m + (k + 1) \in FrameSet
    BY <1>2 DEF FrameSet
  <2>2. /\ last[m] <= last[m + k]
        /\ last[m] \in Int /\ last[m + k] \in Int /\ last[(m + k) + 1] \in Int
    BY <1>1, <1>5, <2>1
  <2>3. last[(m + k) + 1] = last[m + k]
        \/ (last[(m + k) + 1] = m + k /\ m + k > last[m + k] + WaitFrames)
    BY <1>3, <2>1
  <2>. QED  BY <1>2, <2>1, <2>2, <2>3, WaitInFrames
<1>6. Nat \subseteq S
  <2> HIDE DEF S
  <2>. QED  BY <1>4, <1>5, SetInduction
<1>7. n - m \in S /\ m + (n - m) = n /\ n < Frames
  <2>1. n - m \in Nat /\ m + (n - m) = n /\ n < Frames
    BY <1>2 DEF FrameSet
  <2>. QED  BY <1>6, <2>1
<1>8. last[m] <= last[n]
  BY <1>7
<1>. QED  BY <1>1, <1>8 DEF last

\* Two onsets are more than the wait apart.
LEMMA PickedApartEnough ==
  ASSUME NEW at, at \subseteq FrameSet, NEW o \in Picked(at), NEW p \in Picked(at), o < p
  PROVE  p >= o + WaitFrames + 1
<1> DEFINE last == LastKept(at)
<1>1. /\ o \in FrameSet /\ o + 1 \in FrameSet /\ p \in FrameSet
      /\ o \in Nat /\ p \in Nat /\ o + 1 <= p
  BY MelodyAssumption DEF Picked, FrameSet
<1>2. last[o + 1] = o /\ last[p + 1] = p
  BY DEF Picked
<1>3. last[o + 1] \in Int /\ last[p] \in Int /\ last[o + 1] <= last[p]
  BY <1>1, ScanGrows
<1>4. last[p] = - WaitFrames - 1 \/ last[p] < p
  <2>1. p \in 0..Frames
    BY <1>1, MelodyAssumption DEF FrameSet
  <2>. QED  BY <2>1, ScanKeeps
<1>5. last[p] # p
  BY <1>1, <1>4, WaitInFrames
<1>6. last[p + 1] = IF p \in at /\ p > last[p] + WaitFrames THEN p ELSE last[p]
  BY <1>1, ScanKeeps
<1>7. p > last[p] + WaitFrames
  BY <1>2, <1>5, <1>6
<1> HIDE DEF last
<1>. QED  BY <1>1, <1>2, <1>3, <1>7, WaitInFrames

\* A peak is an onset or lies at most the wait after one.
LEMMA DroppedBehindOnset ==
  ASSUME NEW at, at \subseteq FrameSet, NEW a \in at
  PROVE  \E o \in Picked(at) : o <= a /\ a <= o + WaitFrames
<1> DEFINE last == LastKept(at)
<1>1. a \in FrameSet /\ a \in Nat /\ a \in 0..Frames
  BY MelodyAssumption DEF FrameSet
<1>2. last[a + 1] = IF a \in at /\ a > last[a] + WaitFrames THEN a ELSE last[a]
  BY <1>1, ScanKeeps
<1>3. last[a] = - WaitFrames - 1 \/ (last[a] \in Picked(at) /\ last[a] < a)
  BY <1>1, ScanKeeps
<1>4. CASE a > last[a] + WaitFrames
  <2>1. a \in Picked(at)
    BY <1>2, <1>4 DEF Picked
  <2>. QED  BY <1>1, <2>1, WaitInFrames
<1>5. CASE ~ (a > last[a] + WaitFrames)
  <2>1. last[a] \in Int
    <3>1. \A o \in Picked(at) : o \in Int
      BY PickedAreFrames
    <3>. QED  BY <1>3, <3>1, WaitInFrames
  <2> HIDE DEF last
  <2>2. last[a] # - WaitFrames - 1
    BY <1>1, <1>5, WaitInFrames
  <2>3. last[a] \in Picked(at) /\ last[a] < a
    BY <1>3, <2>2
  <2>4. last[a] <= a /\ a <= last[a] + WaitFrames
    BY <1>1, <1>5, <2>1, <2>3, WaitInFrames
  <2>. QED  BY <2>3, <2>4
<1>. QED  BY <1>4, <1>5

-----------------------------------------------------------------------------
(* The ends of notes.                                                      *)

\* The next onset is one of the onsets, or the end of the track.
LEMMA NextOnsetIsNext ==
  ASSUME onsets \subseteq FrameSet, NEW o \in onsets
  PROVE  /\ NextOnset(o) \in Nat /\ Time(o) \in Nat /\ Time(o) <= NextOnset(o)
         /\ \A p \in onsets : p > o => NextOnset(o) <= Time(p)
         /\ \/ NextOnset(o) = LastTime
            \/ \E p \in onsets : p > o /\ NextOnset(o) = Time(p)
<1> DEFINE later == {p \in onsets : p > o}
<1>1. o \in Nat /\ Frames - 1 \in Nat /\ o <= Frames - 1
  BY MelodyAssumption DEF FrameSet
<1>2. CASE later = {}
  <2>1. NextOnset(o) = LastTime
    BY <1>2 DEF NextOnset
  <2>2. Time(o) \in Nat /\ LastTime \in Nat /\ Time(o) <= LastTime
    BY <1>1, TimeGrows DEF LastTime
  <2>. QED  BY <1>2, <2>1, <2>2
<1>3. CASE later # {}
  <2>1. later \subseteq Nat
    BY FramesAreNat
  <2>2. Min(later) \in later /\ \A p \in later : Min(later) <= p
    BY <1>3, <2>1, MinOfNaturals
  <2>3. NextOnset(o) = Time(Min(later))
    BY <1>3 DEF NextOnset
  <2>4. ASSUME NEW p \in onsets, p > o PROVE NextOnset(o) <= Time(p)
    BY <2>1, <2>2, <2>3, <2>4, TimeGrows
  <2>5. Min(later) \in onsets /\ Min(later) > o /\ Min(later) \in Nat
    BY <2>1, <2>2
  <2> HIDE DEF later
  <2>6. /\ Time(o) \in Nat /\ Time(Min(later)) \in Nat
        /\ Time(o) <= Time(Min(later))
    BY <1>1, <2>5, TimeGrows
  <2>. QED  BY <2>3, <2>4, <2>5, <2>6
<1>. QED  BY <1>2, <1>3

\* A note ends between its start and the next onset, and is short only when the
\* onset or the track cuts it.
EndsInTurn(o, end) ==
  /\ end \in Nat /\ Time(o) <= end /\ end <= NextOnset(o)
  /\ \/ end >= Time(o) + MinDur
     \/ end = LastTime
     \/ \E p \in onsets : p > o /\ end = Time(p)

LEMMA OffsetInTurn ==
  ASSUME onsets \subseteq FrameSet, NEW o \in onsets, NEW fade \in Fades
  PROVE  EndsInTurn(o, Offset(o, fade))
<1>1. /\ o \in Nat /\ Frames - 1 \in Nat /\ o <= Frames - 1 /\ fade \in Nat
      /\ MinDur \in Nat /\ MaxDur \in Nat /\ MinDur <= MaxDur
  BY MelodyAssumption DEF FrameSet
<1>2. /\ Time(o) \in Nat /\ LastTime \in Nat /\ Time(o) <= LastTime
      /\ Time(o + fade) \in Nat /\ Time(o) <= Time(o + fade)
  BY <1>1, TimeGrows DEF LastTime
<1>3. /\ NextOnset(o) \in Nat /\ Time(o) <= NextOnset(o)
      /\ \/ NextOnset(o) = LastTime
         \/ \E p \in onsets : p > o /\ NextOnset(o) = Time(p)
  BY NextOnsetIsNext
<1>4. /\ HardCap(o) \in {Time(o) + MaxDur, NextOnset(o), LastTime}
      /\ HardCap(o) <= NextOnset(o)
  <2>1. Time(o) + MaxDur \in Int /\ NextOnset(o) \in Int /\ LastTime \in Int
    BY <1>1, <1>2, <1>3
  <2>. QED  BY <2>1, MinOfThree, Zenon DEF HardCap
<1>5. EndsInTurn(o, HardCap(o))
  BY <1>1, <1>2, <1>3, <1>4 DEF EndsInTurn
<1> DEFINE held == Max({Time(o + fade), Time(o) + MinDur})
<1>6. held \in Nat /\ held >= Time(o) + MinDur
  BY <1>1, <1>2, MaxOfTwo
<1>7. Offset(o, fade) \in {Min({held, HardCap(o)}), HardCap(o)}
  BY DEF Offset
<1> HIDE DEF held
<1>8. HardCap(o) \in Nat
  BY <1>5 DEF EndsInTurn
<1>9. Min({held, HardCap(o)}) \in {held, HardCap(o)} /\ Min({held, HardCap(o)}) <= HardCap(o)
  <2>1. held \in Int /\ HardCap(o) \in Int
    BY <1>6, <1>8
  <2>. QED  BY <2>1, MinOfTwo, Zenon
<1>10. CASE Offset(o, fade) = held /\ held <= HardCap(o)
  BY <1>1, <1>2, <1>3, <1>4, <1>6, <1>8, <1>10 DEF EndsInTurn
<1>. QED  BY <1>5, <1>7, <1>9, <1>10

LEMMA ComboIsPositive ==
  ASSUME bpm \in Bpms, bpm # 0, NEW d \in Nat
  PROVE  calculate_melody_combo(d) \in Nat \ {0}
<1>1. bpm \in Nat \ {0} /\ d \div bpm \in Nat
  BY MelodyAssumption
<1>2. /\ Max({1, d \div bpm}) \in {1, d \div bpm} /\ Max({1, d \div bpm}) >= 1
  BY <1>1, MaxOfTwo
<1>. QED  BY <1>1, <1>2 DEF calculate_melody_combo

-----------------------------------------------------------------------------
(* Lanes.                                                                  *)

\* A lane of the client's: an onset reaches some of the inner edges.
LEMMA LaneIsLane ==
  ASSUME lane_count \in LaneCounts, NEW raised, NEW o
  PROVE  Lane(o, quantile_edges(raised)) \in 0..(lane_count - 1)
<1> DEFINE inner == 1..(lane_count - 1)
           edges == quantile_edges(raised)
           reached == {k \in DOMAIN edges : edges[k] <= lane_count * centroids[o]}
<1>1. lane_count \in Nat \ {0}
  BY MelodyAssumption
<1>2. IsFiniteSet(inner) /\ Cardinality(inner) = lane_count - 1
  BY <1>1, FS_Interval
<1>3. reached \subseteq inner
  BY DEF quantile_edges
<1> HIDE DEF reached
<1>4. IsFiniteSet(reached) /\ Cardinality(reached) <= Cardinality(inner)
  BY <1>2, <1>3, FS_Subset
<1>5. Cardinality(reached) \in Nat
  BY <1>4, FS_CardinalityType
<1>. QED  BY <1>1, <1>2, <1>4, <1>5 DEF reached, Lane

\* Notes of different brightness.
Distinct == \A o, p \in onsets : centroids[o] = centroids[p] => o = p

\* The notes whose lanes are asked for.
Bright ==
  /\ onsets \subseteq FrameSet /\ centroids \in [onsets -> Brightness]
  /\ lane_count \in LaneCounts /\ Distinct

LEMMA BrightRanks ==
  ASSUME Bright
  PROVE  /\ IsFiniteSet(onsets) /\ Cardinality(onsets) \in Nat
         /\ centroids \in [onsets -> Nat] /\ lane_count \in Nat \ {0}
         /\ \A o \in onsets : Rank(onsets, centroids, o) \in 0..(Cardinality(onsets) - 1)
         /\ \A o, p \in onsets :
              centroids[o] < centroids[p] <=>
                Rank(onsets, centroids, o) < Rank(onsets, centroids, p)
         /\ \A k \in 0..(Cardinality(onsets) - 1) :
              \E o \in onsets : Rank(onsets, centroids, o) = k
<1>1. IsFiniteSet(onsets)
  <2>1. IsFiniteSet(FrameSet)
    BY MelodyAssumption, FS_Interval DEF FrameSet
  <2>. QED  BY <2>1, FS_Subset DEF Bright
<1>2. centroids \in [onsets -> Nat] /\ lane_count \in Nat \ {0}
  BY MelodyAssumption DEF Bright
<1>3. Cardinality(onsets) \in Nat
  BY <1>1, FS_CardinalityType
<1>. QED  BY <1>1, <1>2, <1>3, Ranks DEF Bright, Distinct

\* The k-th brightness is that of the note with rank k.
LEMMA KthHasRank ==
  ASSUME Bright, NEW x \in onsets
  PROVE  Kth(Rank(onsets, centroids, x)) = centroids[x]
<1> DEFINE rank(o) == Rank(onsets, centroids, o)
           k == rank(x)
           Is(b) == /\ Cardinality({o \in onsets : centroids[o] < b}) <= k
                    /\ Cardinality({o \in onsets : centroids[o] <= b}) > k
<1>1. ASSUME NEW o \in onsets
      PROVE  /\ Cardinality({p \in onsets : centroids[p] < centroids[o]}) = rank(o)
             /\ Cardinality({p \in onsets : centroids[p] <= centroids[o]}) = rank(o) + 1
  <2> DEFINE below == {p \in onsets : centroids[p] < centroids[o]}
  <2>1. {p \in onsets : centroids[p] <= centroids[o]} = below \cup {o}
    <3>1. ASSUME NEW p \in onsets
          PROVE  centroids[p] <= centroids[o] <=> centroids[p] < centroids[o] \/ p = o
      <4>1. centroids[p] \in Nat /\ centroids[o] \in Nat
        BY BrightRanks
      <4>2. centroids[p] = centroids[o] => p = o
        BY DEF Bright, Distinct
      <4>. QED  BY <4>1, <4>2
    <3>. QED  BY <3>1
  <2>2. IsFiniteSet(below) /\ o \notin below
    <3>1. IsFiniteSet(below)
      BY BrightRanks, FS_Subset
    <3>2. centroids[o] \in Nat
      BY BrightRanks
    <3>. QED  BY <3>1, <3>2
  <2>3. Cardinality(below) = rank(o)
    BY DEF Rank
  <2> HIDE DEF below
  <2>4. Cardinality(below \cup {o}) = Cardinality(below) + 1
    BY <2>2, FS_AddElement
  <2>. QED  BY <2>1, <2>3, <2>4 DEF below
<1>2. \A o \in onsets : rank(o) \in Int
  BY BrightRanks
<1>3. \A o \in onsets : Is(centroids[o]) <=> rank(o) = k
  BY <1>1, <1>2
<1>4. \A o \in onsets : rank(o) = rank(x) => o = x
  <2>. SUFFICES ASSUME NEW o \in onsets, rank(o) = rank(x) PROVE o = x
    OBVIOUS
  <2>1. centroids[o] \in Nat /\ centroids[x] \in Nat
    BY BrightRanks
  <2> HIDE DEF rank
  <2>2. ~ (centroids[o] < centroids[x]) /\ ~ (centroids[x] < centroids[o])
    BY <1>2, BrightRanks DEF rank
  <2>3. centroids[o] = centroids[x]
    BY <2>1, <2>2
  <2>. QED  BY <2>3 DEF Bright, Distinct
<1>5. Kth(k) = CHOOSE b \in {centroids[o] : o \in onsets} : Is(b)
  BY DEF Kth
<1> HIDE DEF Is, rank, k
<1>6. /\ centroids[x] \in {centroids[o] : o \in onsets} /\ Is(centroids[x])
      /\ \A b \in {centroids[o] : o \in onsets} : Is(b) => b = centroids[x]
  BY <1>3, <1>4 DEF k
<1>7. Kth(k) = centroids[x]
  BY <1>5, <1>6
<1>. QED  BY <1>7 DEF k, rank

\* A note has reached the k-th edge when its rank has, as if ranks and not
\* brightness were interpolated, and has not when its rank falls short; where
\* edge and rank meet, rounding decides.
LEMMA EdgeByRank ==
  ASSUME Bright, NEW x \in onsets, NEW k \in 1..(lane_count - 1), NEW raised
  PROVE  LET p == k * (Cardinality(onsets) - 1)
             i == Rank(onsets, centroids, x)
         IN  /\ Edge(k, raised) <= lane_count * centroids[x] => p <= i * lane_count
             /\ p < i * lane_count => Edge(k, raised) <= lane_count * centroids[x]
<1> DEFINE n == Cardinality(onsets)
           L == lane_count
           rank(o) == Rank(onsets, centroids, o)
           i == rank(x)
           p == k * (n - 1)
           q == p \div L
           r == p % L
<1>1. /\ n \in Nat /\ L \in Nat \ {0} /\ \A o \in onsets : centroids[o] \in Nat
      /\ \A o \in onsets : rank(o) \in 0..(n - 1)
      /\ \A o, y \in onsets : centroids[o] < centroids[y] <=> rank(o) < rank(y)
      /\ \A j \in 0..(n - 1) : \E o \in onsets : rank(o) = j
  BY BrightRanks
<1>2. i \in 0..(n - 1) /\ n - 1 \in Nat /\ k \in Nat /\ k <= L - 1 /\ centroids[x] \in Nat
  BY <1>1
<1>3. /\ r # 0 => Edge(k, raised) = (L - r) * Kth(q) + r * Kth(q + 1)
      /\ r = 0 => \/ Edge(k, raised) = L * Kth(q)
                  \/ Edge(k, raised) = L * Kth(q) + 1
  BY DEF Edge
<1> HIDE DEF n, L, rank, i
<1>4. p \in Nat /\ p <= (L - 1) * (n - 1) /\ (L - 1) * (n - 1) = L * (n - 1) - (n - 1)
  <2>1. k * (n - 1) \in Nat /\ k * (n - 1) <= (L - 1) * (n - 1)
    BY <1>1, <1>2
  <2>2. (L - 1) * (n - 1) = L * (n - 1) - (n - 1)
    BY <1>1, <1>2
  <2>. QED  BY <2>1, <2>2
<1> HIDE DEF p
<1>5. q \in Nat /\ r \in 0..(L - 1) /\ p = L * q + r
  BY <1>1, <1>4
<1> HIDE DEF q, r
<1>6. q <= n - 1 /\ (r # 0 => q < n - 1)
  <2>1. L * q \in Nat /\ L * (n - 1) \in Nat /\ L * q <= L * (n - 1)
    BY <1>1, <1>2, <1>4, <1>5
  <2>2. ASSUME q > n - 1 PROVE FALSE
    <3>1. L * q >= L * (n - 1) + L
      <4>1. L * q >= L * ((n - 1) + 1)
        BY <1>1, <1>2, <1>5, <2>2
      <4>2. L * ((n - 1) + 1) = L * (n - 1) + L
        BY <1>1, <1>2
      <4>. QED  BY <4>1, <4>2
    <3>. QED  BY <1>1, <2>1, <3>1
  <2>3. ASSUME q = n - 1, r # 0 PROVE FALSE
    <3>1. L * q = L * (n - 1)
      BY <2>3
    <3>. QED  BY <1>2, <1>4, <1>5, <2>1, <2>3, <3>1
  <2>. QED  BY <1>2, <1>5, <2>2, <2>3
<1>7. PICK a \in onsets : rank(a) = q
  BY <1>1, <1>2, <1>5, <1>6
<1>8. Kth(q) = centroids[a] /\ centroids[a] \in Nat
  BY <1>1, <1>7, KthHasRank DEF rank
<1>9. CASE r = 0
  <2>1. \/ Edge(k, raised) = L * centroids[a]
        \/ Edge(k, raised) = L * centroids[a] + 1
    BY <1>3, <1>8, <1>9
  <2>2. /\ L * centroids[a] \in Nat /\ L * centroids[x] \in Nat
        /\ L * q \in Nat /\ i * L \in Nat
    BY <1>1, <1>2, <1>5, <1>8
  <2>3. p = L * q
    BY <1>1, <1>5, <1>9, <2>2
  <2>4. ASSUME Edge(k, raised) <= L * centroids[x] PROVE p <= i * L
    <3>1. L * centroids[a] <= L * centroids[x]
      BY <2>1, <2>2, <2>4
    <3>2. centroids[a] <= centroids[x]
      BY <1>1, <1>2, <1>8, <3>1
    <3>3. ~ (i < q)
      <4>1. ~ (centroids[x] < centroids[a])
        BY <1>2, <1>8, <3>2
      <4>. QED  BY <1>1, <1>7, <4>1 DEF i
    <3>4. q <= i
      BY <1>2, <1>5, <3>3
    <3>5. L * q <= i * L
      BY <1>1, <1>2, <1>5, <3>4
    <3>. QED  BY <2>3, <3>5
  <2>5. ASSUME p < i * L PROVE Edge(k, raised) <= L * centroids[x]
    <3>1. q < i
      <4>1. ASSUME i <= q PROVE FALSE
        <5>1. i * L <= L * q
          BY <1>1, <1>2, <1>5, <4>1
        <5>. QED  BY <2>2, <2>3, <2>5, <5>1
      <4>. QED  BY <1>2, <1>5, <4>1
    <3>2. centroids[a] < centroids[x]
      BY <1>1, <1>7, <3>1 DEF i
    <3>3. L * centroids[a] + L <= L * centroids[x]
      <4>1. L * (centroids[a] + 1) <= L * centroids[x]
        BY <1>1, <1>2, <1>8, <3>2
      <4>2. L * (centroids[a] + 1) = L * centroids[a] + L
        BY <1>1, <1>8
      <4>. QED  BY <4>1, <4>2
    <3>. QED  BY <1>1, <2>1, <2>2, <3>3
  <2>. QED  BY <2>4, <2>5 DEF p, n, L, i, rank
<1>10. CASE r # 0
  <2>1. PICK b \in onsets : rank(b) = q + 1
    <3>1. q + 1 \in 0..(n - 1)
      BY <1>2, <1>5, <1>6, <1>10
    <3>. QED  BY <1>1, <3>1
  <2>2. Kth(q + 1) = centroids[b] /\ centroids[b] \in Nat /\ centroids[a] < centroids[b]
    <3>1. Kth(q + 1) = centroids[b] /\ centroids[b] \in Nat
      BY <1>1, <2>1, KthHasRank DEF rank
    <3>2. centroids[a] < centroids[b]
      BY <1>1, <1>5, <1>7, <2>1
    <3>. QED  BY <3>1, <3>2
  <2>3. Edge(k, raised) = (L - r) * centroids[a] + r * centroids[b]
    BY <1>3, <1>8, <1>10, <2>2
  <2>4. L - r \in Nat \ {0} /\ r \in Nat \ {0}
    BY <1>1, <1>5, <1>10
  <2>5. CASE i >= q + 1
    <3>1. centroids[b] <= centroids[x]
      <4>1. ~ (centroids[x] < centroids[b])
        BY <1>1, <1>2, <1>5, <2>1, <2>5 DEF i
      <4>. QED  BY <1>2, <2>2, <4>1
    <3>2. /\ (L - r) * centroids[a] <= (L - r) * centroids[x]
          /\ r * centroids[b] <= r * centroids[x]
          /\ (L - r) * centroids[x] + r * centroids[x] = L * centroids[x]
          /\ (L - r) * centroids[a] \in Nat /\ (L - r) * centroids[x] \in Nat
          /\ r * centroids[b] \in Nat /\ r * centroids[x] \in Nat
      <4>1. centroids[a] <= centroids[x]
        BY <1>2, <1>8, <2>2, <3>1
      <4>2. (L - r) * centroids[a] <= (L - r) * centroids[x]
        BY <1>2, <1>8, <2>4, <4>1
      <4>3. r * centroids[b] <= r * centroids[x]
        BY <1>2, <2>2, <2>4, <3>1
      <4>4. (L - r) * centroids[x] + r * centroids[x] = L * centroids[x]
        BY <1>1, <1>2, <2>4
      <4>5. /\ (L - r) * centroids[a] \in Nat /\ (L - r) * centroids[x] \in Nat
            /\ r * centroids[b] \in Nat /\ r * centroids[x] \in Nat
        BY <1>2, <1>8, <2>2, <2>4
      <4>. QED  BY <4>2, <4>3, <4>4, <4>5
    <3>3. Edge(k, raised) <= L * centroids[x]
      BY <2>3, <3>2
    <3>4. p <= i * L
      <4>1. L * (q + 1) <= i * L /\ L * (q + 1) = L * q + L /\ L * q \in Nat
        BY <1>1, <1>2, <1>5, <2>5
      <4>2. i * L \in Nat
        BY <1>1, <1>2
      <4>. QED  BY <1>1, <1>5, <4>1, <4>2
    <3>. QED  BY <3>3, <3>4 DEF p, n, L, i, rank
  <2>6. CASE i <= q
    <3>1. centroids[x] <= centroids[a]
      <4>1. ~ (centroids[a] < centroids[x])
        BY <1>1, <1>2, <1>5, <1>7, <2>6 DEF i
      <4>. QED  BY <1>2, <1>8, <4>1
    <3>2. (L - r) * centroids[x] <= (L - r) * centroids[a]
      BY <1>2, <1>8, <2>4, <3>1
    <3>3. r * centroids[x] < r * centroids[b]
      <4>1. centroids[x] < centroids[b]
        BY <1>2, <1>8, <2>2, <3>1
      <4>. QED  BY <1>2, <2>2, <2>4, <4>1
    <3>4. (L - r) * centroids[x] + r * centroids[x] = L * centroids[x]
      BY <1>1, <1>2, <2>4
    <3>5. /\ (L - r) * centroids[a] \in Nat /\ (L - r) * centroids[x] \in Nat
          /\ r * centroids[b] \in Nat /\ r * centroids[x] \in Nat
      BY <1>2, <1>8, <2>2, <2>4
    <3>6. ~ (Edge(k, raised) <= L * centroids[x])
      BY <2>3, <3>2, <3>3, <3>4, <3>5
    <3>7. ~ (p <= i * L)
      <4>1. i * L <= L * q /\ L * q \in Nat /\ i * L \in Nat
        BY <1>1, <1>2, <1>5, <2>6
      <4>. QED  BY <1>5, <2>4, <4>1
    <3>8. ~ (p < i * L)
      BY <1>1, <1>2, <1>4, <3>7
    <3>. QED  BY <3>6, <3>8 DEF p, n, L, i, rank
  <2>. QED  BY <1>2, <1>5, <2>5, <2>6
<1>. QED  BY <1>9, <1>10

\* The lanes are those of some rounding of the edges.
DealtLanes ==
  \E raised \in SUBSET (1..(lane_count - 1)) :
    lanes = [o \in onsets |-> Lane(o, quantile_edges(raised))]

\* The first rank that has reached l shares of m + 1 notes, and the last one
\* that is not beyond them.
FirstRank(l, m) == (l * m + lane_count - 1) \div lane_count
LastRank(l, m)  == (l * m) \div lane_count

LEMMA FirstRankIsFirst ==
  ASSUME lane_count \in Nat \ {0}, NEW m \in Nat, NEW l \in Nat
  PROVE  /\ FirstRank(l, m) \in Nat /\ l * m \in Nat
         /\ l * m <= FirstRank(l, m) * lane_count
         /\ FirstRank(l, m) * lane_count <= l * m + lane_count - 1
         /\ \A i \in Nat : FirstRank(l, m) <= i <=> l * m <= i * lane_count
<1> DEFINE L == lane_count
           e == l * m + L - 1
           f == e \div L
           r == e % L
<1>1. l * m \in Nat /\ L \in Nat \ {0}
  OBVIOUS
<1>2. e \in Nat
  BY <1>1
<1> HIDE DEF e
<1>3. f \in Nat /\ r \in 0..(L - 1) /\ e = L * f + r
  BY <1>1, <1>2
<1> HIDE DEF f, r, L
<1>4. L * f \in Nat /\ f * L = L * f
  BY <1>1, <1>3
<1>5. l * m <= f * L /\ f * L <= l * m + L - 1
  BY <1>1, <1>3, <1>4 DEF e
<1>6. ASSUME NEW i \in Nat PROVE f <= i <=> l * m <= i * L
  <2>1. CASE f <= i
    <3>1. f * L <= i * L
      BY <1>1, <1>3, <2>1
    <3>2. i * L \in Nat
      BY <1>1
    <3>. QED  BY <1>1, <1>4, <1>5, <2>1, <3>1, <3>2
  <2>2. CASE f > i
    <3>1. (i + 1) * L <= f * L /\ (i + 1) * L = i * L + L /\ i * L \in Nat
      BY <1>1, <1>3, <2>2
    <3>. QED  BY <1>1, <1>3, <1>4, <1>5, <2>2, <3>1
  <2>. QED  BY <1>3, <2>1, <2>2
<1>. QED  BY <1>1, <1>3, <1>5, <1>6 DEF L, f, e, FirstRank

LEMMA LastRankIsLast ==
  ASSUME lane_count \in Nat \ {0}, NEW m \in Nat, NEW l \in Nat
  PROVE  /\ LastRank(l, m) \in Nat /\ l * m \in Nat
         /\ LastRank(l, m) * lane_count <= l * m
         /\ l * m <= LastRank(l, m) * lane_count + lane_count - 1
         /\ \A i \in Nat : i <= LastRank(l, m) <=> i * lane_count <= l * m
<1> DEFINE L == lane_count
           e == l * m
           f == e \div L
           r == e % L
<1>1. e \in Nat /\ L \in Nat \ {0}
  OBVIOUS
<1> HIDE DEF e
<1>2. f \in Nat /\ r \in 0..(L - 1) /\ e = L * f + r
  BY <1>1
<1> HIDE DEF f, r, L
<1>3. L * f \in Nat /\ f * L = L * f
  BY <1>1, <1>2
<1>4. f * L <= e /\ e <= f * L + L - 1
  BY <1>1, <1>2, <1>3
<1>5. ASSUME NEW i \in Nat PROVE i <= f <=> i * L <= e
  <2>1. CASE i <= f
    <3>1. i * L <= f * L
      BY <1>1, <1>2, <2>1
    <3>2. i * L \in Nat
      BY <1>1
    <3>. QED  BY <1>1, <1>3, <1>4, <2>1, <3>1, <3>2
  <2>2. CASE i > f
    <3>1. (f + 1) * L <= i * L /\ (f + 1) * L = f * L + L /\ i * L \in Nat
      BY <1>1, <1>2, <2>2
    <3>. QED  BY <1>1, <1>2, <1>3, <1>4, <2>2, <3>1
  <2>. QED  BY <1>2, <2>1, <2>2
<1>. QED  BY <1>1, <1>2, <1>4, <1>5 DEF L, f, e, LastRank

LEMMA SizeOfInterval ==
  ASSUME NEW c \in Nat
  PROVE  IsFiniteSet(1..c) /\ Cardinality(1..c) = c
<1>1. 1 \in Int /\ c \in Int
  OBVIOUS
<1>2. IsFiniteSet(1..c) /\ Cardinality(1..c) = IF 1 > c THEN 0 ELSE c - 1 + 1
  BY <1>1, FS_Interval, Zenon
<1>. QED  BY <1>2

\* A note strictly between the shares of lane l is in it, and a note of lane l
\* is not outside of them.
LEMMA LaneByRank ==
  ASSUME Bright, NEW x \in onsets, NEW l \in 0..(lane_count - 1), NEW raised
  PROVE  LET m == Cardinality(onsets) - 1
             i == Rank(onsets, centroids, x)
             lane == Lane(x, quantile_edges(raised))
         IN  /\ l * m < i * lane_count /\ i * lane_count < (l + 1) * m => lane = l
             /\ lane = l => l * m <= i * lane_count /\ i * lane_count <= (l + 1) * m
<1> DEFINE m == Cardinality(onsets) - 1
           i == Rank(onsets, centroids, x)
           L == lane_count
           lane == Lane(x, quantile_edges(raised))
           reached == {k \in 1..(L - 1) : Edge(k, raised) <= L * centroids[x]}
<1>1. m \in Nat /\ i \in Nat /\ i <= m /\ L \in Nat \ {0} /\ i * L \in Nat
  <2>1. Cardinality(onsets) \in Nat /\ i \in 0..(Cardinality(onsets) - 1) /\ L \in Nat \ {0}
    BY BrightRanks
  <2>. QED  BY <2>1
<1>2. lane = Cardinality(reached)
  BY DEF Lane, quantile_edges
<1>3. ASSUME NEW k \in 1..(L - 1)
      PROVE  /\ k \in reached => k * m <= i * L
             /\ k * m < i * L => k \in reached
  BY EdgeByRank
<1>4. reached \subseteq 1..(L - 1) /\ IsFiniteSet(reached) /\ Cardinality(reached) \in Nat
  <2>1. L - 1 \in Nat
    BY <1>1
  <2>2. IsFiniteSet(1..(L - 1))
    BY <2>1, SizeOfInterval
  <2>3. reached \subseteq 1..(L - 1)
    OBVIOUS
  <2> HIDE DEF reached
  <2>. QED  BY <2>2, <2>3, FS_Subset, FS_CardinalityType
<1>5. l \in Nat /\ l <= L - 1 /\ l * m \in Nat /\ (l + 1) * m \in Nat
  BY <1>1
<1> HIDE DEF m, i, L, reached, lane
<1>6. ASSUME l * m < i * L, i * L < (l + 1) * m PROVE lane = l
  <2>1. ASSUME NEW k \in 1..(L - 1) PROVE k \in reached <=> k <= l
    <3>1. CASE k <= l
      <4>1. k * m <= l * m /\ k * m \in Nat
        BY <1>1, <1>5, <3>1
      <4>2. k * m < i * L
        BY <1>1, <1>5, <1>6, <4>1
      <4>. QED  BY <1>3, <3>1, <4>2
    <3>2. CASE k > l
      <4>1. (l + 1) * m <= k * m /\ k * m \in Nat
        BY <1>1, <1>5, <3>2
      <4>2. ~ (k * m <= i * L)
        BY <1>1, <1>5, <1>6, <4>1
      <4>3. k \notin reached
        BY <1>3, <4>2
      <4>. QED  BY <1>1, <1>5, <3>2, <4>3
    <3>. QED  BY <1>1, <1>5, <3>1, <3>2
  <2>2. reached = 1..l
    <3>1. ASSUME NEW k PROVE k \in reached <=> k \in 1..l
      <4>1. k \in 1..l => k \in 1..(L - 1) /\ k <= l
        BY <1>1, <1>5
      <4>2. k \in reached => k \in 1..(L - 1)
        BY <1>4
      <4>3. k \in 1..(L - 1) /\ k <= l => k \in 1..l
        BY <1>1, <1>5
      <4>. QED  BY <2>1, <4>1, <4>2, <4>3
    <3>. QED  BY <3>1
  <2>. QED  BY <1>2, <1>5, <2>2, SizeOfInterval
<1>7. ASSUME i * L < l * m PROVE lane # l
  <2>1. l >= 1
    <3>1. l = 0 => l * m = 0
      BY <1>1
    <3>. QED  BY <1>1, <1>5, <1>7, <3>1
  <2>2. ASSUME NEW k \in reached PROVE k \in 1..(l - 1)
    <3>1. k \in 1..(L - 1) /\ k * m <= i * L
      BY <1>3, <1>4
    <3>2. ASSUME k >= l PROVE FALSE
      <4>1. l * m <= k * m /\ k * m \in Nat
        BY <1>1, <1>5, <3>1, <3>2
      <4>. QED  BY <1>1, <1>5, <1>7, <3>1, <4>1
    <3>. QED  BY <1>1, <1>5, <3>1, <3>2
  <2>3. l - 1 \in Nat
    BY <1>5, <2>1
  <2>4. IsFiniteSet(1..(l - 1)) /\ Cardinality(1..(l - 1)) = l - 1
    BY <2>3, SizeOfInterval
  <2>5. Cardinality(reached) <= Cardinality(1..(l - 1))
    <3>1. reached \subseteq 1..(l - 1)
      BY <2>2
    <3>. QED  BY <2>4, <3>1, FS_Subset
  <2>. QED  BY <1>2, <1>4, <1>5, <2>4, <2>5
<1>8. ASSUME (l + 1) * m < i * L PROVE lane # l
  <2>1. l + 1 <= L - 1
    <3>1. ASSUME l + 1 >= L PROVE FALSE
      <4>1. L * m <= (l + 1) * m /\ L * m = m * L /\ m * L \in Nat
        BY <1>1, <1>5, <3>1
      <4>2. i * L <= m * L
        BY <1>1
      <4>. QED  BY <1>1, <1>5, <1>8, <4>1, <4>2
    <3>. QED  BY <1>1, <1>5, <3>1
  <2>2. ASSUME NEW k \in 1..(l + 1) PROVE k \in reached
    <3>1. k \in 1..(L - 1) /\ k <= l + 1
      BY <1>1, <1>5, <2>1
    <3>2. k * m <= (l + 1) * m /\ k * m \in Nat
      BY <1>1, <1>5, <3>1
    <3>3. k * m < i * L
      BY <1>1, <1>5, <1>8, <3>2
    <3>. QED  BY <1>3, <3>1, <3>3
  <2>3. l + 1 \in Nat
    BY <1>5
  <2>4. Cardinality(1..(l + 1)) = l + 1
    BY <2>3, SizeOfInterval
  <2>5. Cardinality(1..(l + 1)) <= Cardinality(reached)
    <3>1. 1..(l + 1) \subseteq reached
      BY <2>2
    <3>. QED  BY <1>4, <3>1, FS_Subset
  <2>. QED  BY <1>2, <1>4, <1>5, <2>4, <2>5
<1>9. lane = l => l * m <= i * L /\ i * L <= (l + 1) * m
  BY <1>1, <1>5, <1>7, <1>8
<1>. QED  BY <1>6, <1>9 DEF m, i, L, lane

\* Every lane holds its share of the notes, up to one more or less.
LEMMA LaneSize ==
  ASSUME Bright, DealtLanes, NEW l \in 0..(lane_count - 1)
  PROVE  LET share == Cardinality(onsets) - 1
             size  == Cardinality({o \in onsets : lanes[o] = l})
         IN  /\ lane_count * size <= share + lane_count
             /\ lane_count * (size + 1) >= share
<1> DEFINE m == Cardinality(onsets) - 1
           L == lane_count
           lo == FirstRank(l, m)
           hi == LastRank(l + 1, m)
           lo1 == LastRank(l, m) + 1
           hi1 == FirstRank(l + 1, m) - 1
           rank(o) == Rank(onsets, centroids, o)
           Ranked(a, b) == {o \in onsets : a <= rank(o) /\ rank(o) <= b}
           A == {o \in onsets : lanes[o] = l}
           size == Cardinality(A)
<1>1. /\ m \in Int /\ L \in Nat \ {0} /\ l \in Nat /\ l <= L - 1
      /\ \A o \in onsets : rank(o) \in Nat /\ rank(o) <= m
      /\ IsFiniteSet(onsets)
  <2>1. /\ Cardinality(onsets) \in Nat /\ L \in Nat \ {0}
        /\ \A o \in onsets : rank(o) \in 0..(Cardinality(onsets) - 1)
        /\ IsFiniteSet(onsets)
    BY BrightRanks
  <2>2. l \in Nat /\ l <= L - 1
    BY <2>1
  <2>. QED  BY <2>1, <2>2
<1>2. A \subseteq onsets /\ IsFiniteSet(A) /\ size \in Nat /\ size <= m + 1
  <2>1. A \subseteq onsets
    OBVIOUS
  <2>2. Cardinality(onsets) = m + 1
    BY BrightRanks
  <2> HIDE DEF A, m
  <2>. QED  BY <1>1, <2>1, <2>2, FS_Subset, FS_CardinalityType
<1>3. CASE m < 1
  <2>1. size <= 1
    BY <1>1, <1>2, <1>3
  <2>2. m >= - 1
    BY BrightRanks
  <2> HIDE DEF size, m, L
  <2>3. size = 0 \/ size = 1
    BY <1>2, <2>1
  <2>4. L * size = 0 \/ L * size = L
    BY <1>1, <2>3
  <2>5. L * size <= m + L
    <3>1. m = 0 \/ m = - 1
      BY <1>1, <1>3, <2>2
    <3>2. m = - 1 => size = 0
      BY <1>2
    <3>3. size = 0 => L * size = 0
      BY <1>1
    <3>. QED  BY <1>1, <2>4, <3>1, <3>2, <3>3
  <2>6. L * (size + 1) >= m
    <3>1. L * (size + 1) \in Nat
      BY <1>1, <1>2
    <3>. QED  BY <1>1, <1>3, <3>1
  <2>. QED  BY <2>5, <2>6 DEF m, L, size
<1>4. CASE m >= 1
  <2>0. m \in Nat
    BY <1>1, <1>4
  <2>1. PICK raised \in SUBSET (1..(L - 1)) :
          lanes = [o \in onsets |-> Lane(o, quantile_edges(raised))]
    BY DEF DealtLanes
  <2>2. ASSUME NEW o \in onsets
        PROVE  /\ l * m < rank(o) * L /\ rank(o) * L < (l + 1) * m => o \in A
               /\ o \in A => l * m <= rank(o) * L /\ rank(o) * L <= (l + 1) * m
    <3>1. lanes[o] = Lane(o, quantile_edges(raised))
      BY <2>1
    <3>. QED  BY <3>1, LaneByRank
  <2>3. ASSUME NEW a \in Nat, NEW b \in Int, a <= b + 1, b <= m
        PROVE  Cardinality(Ranked(a, b)) = b - a + 1
    <3>1. /\ IsFiniteSet(onsets) /\ centroids \in [onsets -> Nat]
          /\ \A x, y \in onsets : centroids[x] = centroids[y] => x = y
          /\ b < Cardinality(onsets)
      BY <1>1, <2>3, BrightRanks DEF Bright, Distinct
    <3>. QED  BY <2>3, <3>1, RanksInInterval
  <2>4. ASSUME NEW a, NEW b PROVE Ranked(a, b) \subseteq onsets /\ IsFiniteSet(Ranked(a, b))
    <3>1. Ranked(a, b) \subseteq onsets
      OBVIOUS
    <3> HIDE DEF Ranked
    <3>. QED  BY <1>1, <3>1, FS_Subset
  <2> HIDE DEF m, rank
  <2>5. /\ lo \in Nat /\ l * m \in Nat
        /\ l * m <= lo * L /\ lo * L <= l * m + L - 1
        /\ \A i \in Nat : lo <= i <=> l * m <= i * L
    BY <1>1, <2>0, FirstRankIsFirst
  <2>6. l + 1 \in Nat
    BY <1>1
  <2>7. /\ hi1 + 1 \in Nat /\ (l + 1) * m \in Nat
        /\ (l + 1) * m <= (hi1 + 1) * L /\ (hi1 + 1) * L <= (l + 1) * m + L - 1
        /\ \A i \in Nat : hi1 + 1 <= i <=> (l + 1) * m <= i * L
    <3>1. hi1 + 1 = FirstRank(l + 1, m)
      BY <1>1, <2>0, <2>6, FirstRankIsFirst
    <3>. QED  BY <1>1, <2>0, <2>6, <3>1, FirstRankIsFirst
  <2>8. /\ lo1 - 1 \in Nat
        /\ (lo1 - 1) * L <= l * m /\ l * m <= (lo1 - 1) * L + L - 1
        /\ \A i \in Nat : i <= lo1 - 1 <=> i * L <= l * m
    <3>1. lo1 - 1 = LastRank(l, m)
      BY <1>1, <2>0, LastRankIsLast
    <3>. QED  BY <1>1, <2>0, <3>1, LastRankIsLast
  <2>9. /\ hi \in Nat
        /\ hi * L <= (l + 1) * m /\ (l + 1) * m <= hi * L + L - 1
        /\ \A i \in Nat : i <= hi <=> i * L <= (l + 1) * m
    BY <1>1, <2>0, <2>6, LastRankIsLast
  <2>10. lo1 \in Nat /\ hi1 \in Int
    <3>1. LastRank(l, m) \in Nat
      BY <1>1, <2>0, LastRankIsLast
    <3>2. FirstRank(l + 1, m) \in Nat
      BY <1>1, <2>0, <2>6, FirstRankIsFirst
    <3>. QED  BY <3>1, <3>2
  <2> HIDE DEF L, lo, hi, lo1, hi1
  <2>11. (l + 1) * m = l * m + m
    BY <1>1, <2>0
  <2>12. (l + 1) * m <= m * L
    <3>1. (l + 1) * m <= L * m
      BY <1>1, <2>0
    <3>2. L * m = m * L
      BY <1>1, <2>0
    <3>. QED  BY <3>1, <3>2
  <2>13. L * size <= m + L
    <3>1. hi <= m
      <4>1. ASSUME hi >= m + 1 PROVE FALSE
        <5>1. (m + 1) * L <= hi * L /\ (m + 1) * L = m * L + L /\ hi * L \in Nat
          BY <1>1, <2>0, <2>9, <4>1
        <5>2. m * L \in Nat
          BY <1>1, <2>0
        <5>3. hi * L <= m * L
          <6>1. hi * L <= (l + 1) * m /\ (l + 1) * m \in Nat
            BY <2>7, <2>9
          <6>. QED  BY <2>12, <5>1, <5>2, <6>1
        <5>. QED  BY <1>1, <5>1, <5>2, <5>3
      <4>. QED  BY <2>0, <2>9, <4>1
    <3>2. lo <= hi + 1
      <4>1. (hi + 1) * L = hi * L + L /\ hi * L \in Nat
        BY <1>1, <2>9
      <4>2. l * m <= (hi + 1) * L
        BY <1>1, <2>0, <2>5, <2>7, <2>9, <2>11, <4>1
      <4>3. hi + 1 \in Nat
        BY <2>9
      <4>. QED  BY <2>5, <4>2, <4>3
    <3>3. Cardinality(Ranked(lo, hi)) = hi - lo + 1
      <4>1. hi \in Int
        BY <2>9
      <4> HIDE DEF Ranked
      <4>. QED  BY <2>3, <2>5, <3>1, <3>2, <4>1
    <3>4. A \subseteq Ranked(lo, hi)
      <4>1. ASSUME NEW o \in A PROVE o \in Ranked(lo, hi)
        <5>1. o \in onsets /\ rank(o) \in Nat
          BY <1>1, <1>2
        <5>2. l * m <= rank(o) * L /\ rank(o) * L <= (l + 1) * m
          BY <2>2, <5>1
        <5>3. lo <= rank(o) /\ rank(o) <= hi
          BY <2>5, <2>9, <5>1, <5>2
        <5>. QED  BY <5>1, <5>3
      <4>. QED  BY <4>1
    <3>5. size <= hi - lo + 1
      <4>1. IsFiniteSet(Ranked(lo, hi))
        BY <2>4
      <4> HIDE DEF Ranked, A
      <4>2. Cardinality(A) <= Cardinality(Ranked(lo, hi))
        BY <3>4, <4>1, FS_Subset
      <4>. QED  BY <3>3, <4>2
    <3> HIDE DEF size
    <3>6. L * size <= L * (hi - lo + 1)
      <4>1. hi - lo + 1 \in Int
        BY <2>5, <2>9
      <4>. QED  BY <1>1, <1>2, <3>5, <4>1
    <3>7. L * (hi - lo + 1) = hi * L - lo * L + L
      BY <1>1, <2>5, <2>9
    <3>8. L * size \in Nat /\ hi * L \in Nat /\ lo * L \in Nat
      BY <1>1, <1>2, <2>5, <2>9
    <3>. QED  BY <1>1, <2>0, <2>5, <2>7, <2>9, <2>11, <3>6, <3>7, <3>8
  <2>14. L * (size + 1) >= m
    <3>1. hi1 <= m
      <4>1. ASSUME hi1 >= m + 1 PROVE FALSE
        <5>1. (m + 2) * L <= (hi1 + 1) * L
          BY <1>1, <2>0, <2>7, <2>10, <4>1
        <5>2. (m + 2) * L = m * L + 2 * L /\ m * L \in Nat /\ (hi1 + 1) * L \in Nat
          BY <1>1, <2>0, <2>7
        <5>. QED  BY <1>1, <2>7, <2>12, <5>1, <5>2
      <4>. QED  BY <2>0, <2>10, <4>1
    <3>2. lo1 <= hi1 + 1
      <4>1. ASSUME hi1 + 1 <= lo1 - 1 PROVE FALSE
        <5>1. (hi1 + 1) * L <= (lo1 - 1) * L
          BY <1>1, <2>7, <2>8, <4>1
        <5>2. (hi1 + 1) * L \in Nat /\ (lo1 - 1) * L \in Nat
          BY <1>1, <2>7, <2>8
        <5>. QED  BY <1>4, <2>0, <2>5, <2>7, <2>8, <2>11, <5>1, <5>2
      <4>. QED  BY <2>10, <4>1
    <3>3. Cardinality(Ranked(lo1, hi1)) = hi1 - lo1 + 1
      <4> HIDE DEF Ranked
      <4>. QED  BY <2>3, <2>10, <3>1, <3>2
    <3>4. Ranked(lo1, hi1) \subseteq A
      <4>1. ASSUME NEW o \in Ranked(lo1, hi1) PROVE o \in A
        <5>1. o \in onsets /\ rank(o) \in Nat /\ lo1 <= rank(o) /\ rank(o) <= hi1
          BY <1>1
        <5>2. ~ (rank(o) <= lo1 - 1) /\ ~ (hi1 + 1 <= rank(o))
          BY <2>10, <5>1
        <5>3. ~ (rank(o) * L <= l * m) /\ ~ ((l + 1) * m <= rank(o) * L)
          BY <2>7, <2>8, <5>1, <5>2
        <5>4. rank(o) * L \in Nat
          BY <1>1, <5>1
        <5>5. l * m < rank(o) * L /\ rank(o) * L < (l + 1) * m
          BY <2>5, <2>7, <5>3, <5>4
        <5>. QED  BY <2>2, <5>1, <5>5
      <4>. QED  BY <4>1
    <3>5. hi1 - lo1 + 1 <= size
      <4> HIDE DEF Ranked, A
      <4>1. Cardinality(Ranked(lo1, hi1)) <= Cardinality(A)
        BY <1>2, <3>4, FS_Subset
      <4>. QED  BY <3>3, <4>1
    <3> HIDE DEF size
    <3>6. L * (hi1 - lo1 + 2) <= L * (size + 1)
      <4>1. hi1 - lo1 + 2 \in Int /\ hi1 - lo1 + 2 <= size + 1
        BY <1>2, <2>10, <3>5
      <4>. QED  BY <1>1, <1>2, <4>1
    <3>7. L * (hi1 - lo1 + 2) = (hi1 + 1) * L - (lo1 - 1) * L
      BY <1>1, <2>10
    <3>8. L * (size + 1) \in Nat /\ (hi1 + 1) * L \in Nat /\ (lo1 - 1) * L \in Nat
      BY <1>1, <1>2, <2>7, <2>8
    <3>. QED  BY <1>1, <2>0, <2>5, <2>7, <2>8, <2>11, <3>6, <3>7, <3>8
  <2>. QED  BY <2>13, <2>14 DEF m, L
<1>. QED  BY <1>1, <1>3, <1>4

-----------------------------------------------------------------------------
(* The inductive invariant.                                                *)

EndsInv == \A o \in DOMAIN offsets : EndsInTurn(o, offsets[o])

\* The onsets are what the scan keeps of the peaks; ends are known from the
\* second step on, then the brightness, then the lanes; and the notes keep their
\* onsets and ends, rounded.
MelodyInv ==
  /\ TypeOK
  /\ onsets = Picked(peaks)
  /\ step \in {"lanes", "notes"} => centroids \in [onsets -> Brightness]
  /\ step = "notes" => DealtLanes
  /\ IF step \in {"pick", "offsets"} THEN DOMAIN offsets = {} ELSE DOMAIN offsets = onsets
  /\ EndsInv
  /\ step = "pick" => lanes = Empty /\ notes = Empty
  /\ step # "done" => DOMAIN notes = {}
  /\ \A o \in DOMAIN notes :
       /\ o \in onsets
       /\ notes[o].time = Millis(Time(o))
       /\ notes[o].duration = Millis(offsets[o] - Time(o))

LEMMA EmptyHasNone == DOMAIN Empty = {} /\ \A S : Empty \in [{} -> S]
BY DEF Empty

LEMMA MelodyInit == Init => MelodyInv
<1>1. Picked({}) = {}
  BY PickedAreAsked
<1>. QED  BY <1>1, EmptyHasNone DEF Init, MelodyInv, EndsInv, TypeOK

\* Edges and lanes depend on the onsets, their brightness and the lane count.
LEMMA LanesKept ==
  ASSUME UNCHANGED <<onsets, centroids, lane_count>>, NEW raised
  PROVE  /\ quantile_edges(raised)' = quantile_edges(raised)
         /\ \A o : Lane(o, quantile_edges(raised))' = Lane(o, quantile_edges(raised))
<1>1. \A k : Kth(k)' = Kth(k)
  BY DEF Kth
<1>2. \A k : Edge(k, raised)' = Edge(k, raised)
  BY <1>1 DEF Edge
<1>3. quantile_edges(raised)' = quantile_edges(raised)
  BY <1>2 DEF quantile_edges
<1>. QED  BY <1>3 DEF Lane

\* Ends depend on the onsets alone.
LEMMA EndsKept ==
  ASSUME UNCHANGED <<onsets, offsets>>, EndsInv
  PROVE  EndsInv'
BY DEF EndsInv, EndsInTurn, NextOnset, Time, LastTime

LEMMA PickKeeps ==
  ASSUME MelodyInv, PickOnsets
  PROVE  MelodyInv'
<1>1. step = "pick" /\ DOMAIN offsets = {} /\ lanes = Empty /\ notes = Empty
  BY DEF PickOnsets, MelodyInv
<1>2. peaks' \subseteq FrameSet /\ onsets' \subseteq peaks' /\ onsets' = Picked(peaks')
  BY PickedAreAsked DEF PickOnsets
<1>3. /\ \/ onsets' = {} /\ step' = "done"
         \/ onsets' # {} /\ step' = "offsets"
      /\ UNCHANGED <<lane_count, bpm, offsets, centroids, lanes, notes>>
  BY DEF PickOnsets
<1>4. TypeOK'
  BY <1>1, <1>2, <1>3, EmptyHasNone DEF MelodyInv, TypeOK
<1>. QED  BY <1>1, <1>2, <1>3, <1>4, EmptyHasNone DEF MelodyInv, EndsInv

LEMMA EstimateKeeps ==
  ASSUME MelodyInv, EstimateOffsets
  PROVE  MelodyInv'
<1>1. onsets \subseteq FrameSet
  BY DEF MelodyInv, TypeOK
<1>2. /\ step = "offsets" /\ step' = "centroids"
      /\ UNCHANGED <<lane_count, bpm, peaks, onsets, centroids, lanes, notes>>
  BY DEF EstimateOffsets
<1>3. PICK fade \in [onsets -> Fades] : offsets' = [o \in onsets |-> Offset(o, fade[o])]
  BY DEF EstimateOffsets
<1>4. ASSUME NEW o \in onsets
      PROVE  EndsInTurn(o, offsets[o])' /\ offsets'[o] \in Nat
  <2>1. fade[o] \in Fades /\ offsets'[o] = Offset(o, fade[o])
    BY <1>3
  <2>2. EndsInTurn(o, offsets'[o])
    BY <1>1, <2>1, OffsetInTurn
  <2>. QED  BY <1>2, <2>2 DEF EndsInTurn, NextOnset, Time, LastTime
<1>5. offsets' \in [onsets -> Nat]
  BY <1>3, <1>4
<1>. QED  BY <1>2, <1>4, <1>5 DEF MelodyInv, EndsInv, TypeOK

LEMMA NotesAreNotes ==
  ASSUME MelodyInv, BuildNotes, NEW o \in onsets
  PROVE  NoteOf(o) \in Note
<1>1. step = "notes" /\ bpm # 0
  BY DEF BuildNotes
<1>2. /\ offsets[o] \in Nat /\ Time(o) \in Nat /\ Time(o) <= offsets[o]
      /\ lanes[o] \in Nat /\ bpm \in Bpms
  <2>1. o \in Nat /\ EndsInTurn(o, offsets[o])
    BY <1>1, FramesAreNat DEF MelodyInv, EndsInv, TypeOK
  <2>2. lanes[o] \in 0..(lane_count - 1) /\ lane_count \in Nat /\ bpm \in Bpms
    BY <1>1, MelodyAssumption DEF MelodyInv, TypeOK
  <2>. QED  BY <2>1, <2>2, TimeGrows DEF EndsInTurn
<1>3. Millis(Time(o)) \in Nat /\ Millis(offsets[o] - Time(o)) \in Nat
  <2>1. /\ SampleRate \in Nat \ {0}
        /\ Time(o) * 1000 \in Nat /\ (offsets[o] - Time(o)) * 1000 \in Nat
    BY <1>2, MelodyAssumption
  <2>2. \A n \in Nat : Round(n, SampleRate) \in Nat
    BY <2>1, RoundError
  <2>. QED  BY <2>1, <2>2 DEF Millis
<1>4. calculate_melody_combo(Millis(offsets[o] - Time(o))) \in Nat \ {0}
  BY <1>1, <1>2, <1>3, ComboIsPositive
<1>. QED  BY <1>2, <1>3, <1>4 DEF NoteOf, Note

LEMMA BuildKeeps ==
  ASSUME MelodyInv, BuildNotes
  PROVE  MelodyInv'
<1>1. /\ step = "notes" /\ step' = "done"
      /\ notes' = [o \in onsets |-> NoteOf(o)]
      /\ UNCHANGED <<lane_count, bpm, peaks, onsets, offsets, centroids, lanes>>
  BY DEF BuildNotes
<1>2. notes' \in [onsets -> Note]
  BY <1>1, NotesAreNotes
<1>3. TypeOK'
  BY <1>1, <1>2 DEF MelodyInv, TypeOK
<1>4. EndsInv'
  BY <1>1, EndsKept DEF MelodyInv
<1>5. \A o \in onsets : /\ notes'[o].time = Millis(Time(o))
                        /\ notes'[o].duration = Millis(offsets[o] - Time(o))
  BY <1>1 DEF NoteOf
<1>6. DOMAIN offsets' = onsets' /\ DOMAIN notes' = onsets
  BY <1>1 DEF MelodyInv
<1>7. onsets' = Picked(peaks')
  BY <1>1 DEF MelodyInv
<1>. QED  BY <1>1, <1>3, <1>4, <1>5, <1>6, <1>7 DEF MelodyInv, Millis, Time

LEMMA MelodyNext == MelodyInv /\ [Next]_vars => MelodyInv'
<1>. SUFFICES ASSUME MelodyInv, [Next]_vars PROVE MelodyInv'
  OBVIOUS
<1>1. CASE PickOnsets
  BY <1>1, PickKeeps
<1>2. CASE EstimateOffsets
  BY <1>2, EstimateKeeps
<1>3. CASE SpectralCentroid
  <2>1. /\ step = "centroids" /\ step' = "lanes" /\ centroids' \in [onsets -> Brightness]
        /\ UNCHANGED <<lane_count, bpm, peaks, onsets, offsets, lanes, notes>>
    BY <1>3 DEF SpectralCentroid
  <2>2. EndsInv'
    BY <2>1, EndsKept DEF MelodyInv
  <2>3. onsets' = Picked(peaks')
    BY <2>1 DEF MelodyInv
  <2>. QED  BY <2>1, <2>2, <2>3 DEF MelodyInv, TypeOK
<1>4. CASE Lanes
  <2>1. /\ step = "lanes" /\ step' = "notes"
        /\ UNCHANGED <<lane_count, bpm, peaks, onsets, offsets, centroids, notes>>
    BY <1>4 DEF Lanes
  <2>2. PICK raised \in SUBSET (1..(lane_count - 1)) :
          lanes' = [o \in onsets |-> Lane(o, quantile_edges(raised))]
    BY <1>4 DEF Lanes
  <2>3. lanes' \in [onsets -> 0..(lane_count - 1)]
    <3>1. lane_count \in LaneCounts
      BY DEF MelodyInv, TypeOK
    <3>2. \A o : Lane(o, quantile_edges(raised)) \in 0..(lane_count - 1)
      BY <3>1, LaneIsLane
    <3>. QED  BY <2>2, <3>2
  <2>4. EndsInv'
    BY <2>1, EndsKept DEF MelodyInv
  <2>5. onsets' = Picked(peaks') /\ centroids' \in [onsets' -> Brightness]
    BY <2>1 DEF MelodyInv
  <2>6. DealtLanes'
    <3>1. lanes' = [o \in onsets' |-> Lane(o, quantile_edges(raised))']
      BY <2>1, <2>2, LanesKept
    <3>2. raised \in SUBSET (1..(lane_count' - 1))
      BY <2>1
    <3>. QED  BY <3>1, <3>2 DEF DealtLanes
  <2>. QED  BY <2>1, <2>3, <2>4, <2>5, <2>6 DEF MelodyInv, TypeOK
<1>5. CASE BuildNotes
  BY <1>5, BuildKeeps
<1>6. CASE ZeroDivision \/ UNCHANGED vars
  <2>1. /\ UNCHANGED <<lane_count, bpm, peaks, onsets, offsets, centroids, lanes, notes>>
        /\ \/ step = "notes" /\ step' = "raised"
           \/ step' = step
    BY <1>6 DEF ZeroDivision, vars
  <2>2. EndsInv'
    BY <2>1, EndsKept DEF MelodyInv
  <2>3. /\ onsets' = Picked(peaks')
        /\ step' \in {"lanes", "notes"} => centroids' \in [onsets' -> Brightness]
    BY <2>1 DEF MelodyInv
  <2>4. step' = "notes" => DealtLanes'
    <3>. SUFFICES ASSUME step' = "notes" PROVE DealtLanes'
      OBVIOUS
    <3>1. step = "notes"
      BY <2>1
    <3>2. DealtLanes
      BY <3>1 DEF MelodyInv
    <3>3. PICK raised \in SUBSET (1..(lane_count - 1)) :
            lanes = [o \in onsets |-> Lane(o, quantile_edges(raised))]
      BY <3>2 DEF DealtLanes
    <3>4. lanes' = [o \in onsets' |-> Lane(o, quantile_edges(raised))']
      BY <2>1, <3>3, LanesKept
    <3>5. raised \in SUBSET (1..(lane_count' - 1))
      BY <2>1
    <3>. QED  BY <3>4, <3>5 DEF DealtLanes
  <2>. QED  BY <2>1, <2>2, <2>3, <2>4 DEF MelodyInv, TypeOK, Millis, Time
<1>. QED  BY <1>1, <1>2, <1>3, <1>4, <1>5, <1>6 DEF Next

LEMMA MelodyInvariant == Spec => []MelodyInv
BY MelodyInit, MelodyNext, PTL DEF Spec

-----------------------------------------------------------------------------
(* What follows for every instance.                                        *)

\* The state of the note builder keeps its types; in particular np.digitize
\* gives no note a lane the client did not ask for.
THEOREM MelodyTypeCorrect == Spec => []TypeOK
<1>1. MelodyInv => TypeOK
  BY DEF MelodyInv
<1>. QED  BY <1>1, MelodyInvariant, PTL

\* Notes on one key do not overlap by more than the millisecond that rounding
\* start and duration separately may add, for any hop and sample rate, although
\* the shortest note is enforced before the cap.
THEOREM NotesKeepTurn == Spec => []NotesInTurn
<1>1. ASSUME MelodyInv, NEW o \in DOMAIN notes, NEW p \in DOMAIN notes, o < p
      PROVE  notes[o].time + notes[o].duration <= notes[p].time + 1
  <2>1. /\ o \in onsets /\ p \in onsets /\ onsets \subseteq FrameSet
        /\ step = "done"
        /\ notes[o].time = Millis(Time(o)) /\ notes[p].time = Millis(Time(p))
        /\ notes[o].duration = Millis(offsets[o] - Time(o))
    BY <1>1 DEF MelodyInv, TypeOK
  <2>2. EndsInTurn(o, offsets[o])
    BY <1>1, <2>1 DEF MelodyInv, EndsInv
  <2>3. NextOnset(o) \in Nat /\ Time(o) \in Nat /\ NextOnset(o) <= Time(p)
    <3>1. o \in Nat /\ p \in Nat
      BY <2>1, FramesAreNat
    <3>. QED  BY <1>1, <2>1, <3>1, NextOnsetIsNext
  <2>4. Time(p) \in Nat
    BY <2>1, NextOnsetIsNext
  <2>. QED  BY <2>1, <2>2, <2>3, <2>4, MillisAddUp DEF EndsInTurn
<1>2. MelodyInv => NotesInTurn
  BY <1>1 DEF NotesInTurn
<1>. QED  BY <1>2, MelodyInvariant, PTL

\* A note shorter than _OFFSET_MIN_DUR_S was cut by the next onset or by the
\* end of the track, for any fading of its bands.
THEOREM ShortNotesCut == Spec => []ShortOnlyWhenCut
<1>1. MelodyInv => ShortOnlyWhenCut
  BY DEF MelodyInv, EndsInv, EndsInTurn, ShortOnlyWhenCut
<1>. QED  BY <1>1, MelodyInvariant, PTL

\* Two attacks closer together than _ONSET_WAIT_S are one onset, for every hop
\* and sample rate the wait is rounded to frames of.
THEOREM AttacksMerge == Spec => []AttacksMerged
<1>1. ASSUME MelodyInv, NEW o \in onsets, NEW p \in onsets, o < p
      PROVE  (Time(p) - Time(o)) * 1000 >= WaitMs * SampleRate
  <2> DEFINE frame == 1000 * Hop
             wait == WaitMs * SampleRate
             d == p - o
  <2>1. /\ peaks \subseteq FrameSet /\ o \in Picked(peaks) /\ p \in Picked(peaks)
        /\ o \in Int /\ p \in Int
    <3>1. peaks \subseteq FrameSet /\ o \in Picked(peaks) /\ p \in Picked(peaks)
      BY <1>1 DEF MelodyInv, TypeOK
    <3>. QED  BY <3>1, PickedAreFrames
  <2>2. p >= o + WaitFrames + 1
    BY <1>1, <2>1, PickedApartEnough
  <2>3. WaitFrames \in Nat /\ 2 * wait <= 2 * (frame * WaitFrames) + frame
    BY WaitInFrames
  <2>4. frame \in Nat /\ wait \in Nat /\ d \in Int /\ d >= WaitFrames + 1
    BY <2>1, <2>2, <2>3, MelodyAssumption
  <2>5. (Time(p) - Time(o)) * 1000 = frame * d
    <3>1. p \in Int /\ o \in Int /\ Hop \in Int
      BY <2>1, MelodyAssumption
    <3>. QED  BY <3>1 DEF Time
  <2> HIDE DEF frame, wait, d
  <2>6. frame * d >= frame * (WaitFrames + 1)
    BY <2>3, <2>4
  <2>7. /\ frame * (WaitFrames + 1) = frame * WaitFrames + frame
        /\ frame * WaitFrames \in Nat /\ frame * d \in Int
    BY <2>3, <2>4
  <2>8. frame * d >= wait
    BY <2>3, <2>4, <2>6, <2>7
  <2>. QED  BY <2>5, <2>8 DEF wait
<1>2. MelodyInv => AttacksMerged
  BY <1>1 DEF AttacksMerged
<1>. QED  BY <1>2, MelodyInvariant, PTL

\* An attack is dropped only shortly after an onset: however many attacks follow
\* each other closely, none of those dropped holds back the next one.
THEOREM AttacksKept == Spec => []NoAttackLost
<1>1. ASSUME MelodyInv, NEW a \in peaks
      PROVE  \E o \in onsets :
               /\ o <= a
               /\ 2 * (Time(a) - Time(o)) * 1000 <= (2 * WaitMs * SampleRate) + 1000 * Hop
  <2> DEFINE frame == 1000 * Hop
             wait == WaitMs * SampleRate
  <2>1. peaks \subseteq FrameSet /\ onsets = Picked(peaks) /\ a \in Int
    <3>1. \A f \in FrameSet : f \in Int
      BY DEF FrameSet
    <3>2. peaks \subseteq FrameSet /\ onsets = Picked(peaks)
      BY <1>1 DEF MelodyInv, TypeOK
    <3>. QED  BY <3>1, <3>2
  <2>2. PICK o \in Picked(peaks) : o <= a /\ a <= o + WaitFrames
    BY <2>1, DroppedBehindOnset
  <2>3. o \in Int
    BY <2>1, PickedAreFrames
  <2> DEFINE d == a - o
  <2>4. WaitFrames \in Nat /\ 2 * (frame * WaitFrames) <= 2 * wait + frame
    BY WaitInFrames
  <2>5. frame \in Nat /\ wait \in Nat /\ d \in Int /\ d <= WaitFrames
    BY <2>1, <2>2, <2>3, <2>4, MelodyAssumption
  <2>6. /\ 2 * (Time(a) - Time(o)) * 1000 = 2 * (frame * d)
        /\ 2 * WaitMs * SampleRate = 2 * wait
    <3>1. a \in Int /\ o \in Int /\ Hop \in Int /\ WaitMs \in Int /\ SampleRate \in Int
      BY <2>1, <2>3, MelodyAssumption
    <3>. QED  BY <3>1 DEF Time
  <2> HIDE DEF frame, wait, d
  <2>7. frame * d <= frame * WaitFrames /\ frame * d \in Int /\ frame * WaitFrames \in Int
    BY <2>4, <2>5
  <2>8. 2 * (frame * d) <= 2 * wait + frame
    BY <2>4, <2>5, <2>7
  <2>. QED  BY <2>1, <2>2, <2>6, <2>8 DEF frame
<1>2. MelodyInv => NoAttackLost
  BY <1>1 DEF NoAttackLost
<1>. QED  BY <1>2, MelodyInvariant, PTL

\* Notes of different brightness are dealt evenly to any number of lanes, for
\* any number of notes and wherever rounding leaves the edges that fall on a
\* note: interpolating between neighbours moves no other note across an edge.
THEOREM LanesAreBalanced == Spec => []LanesBalanced
<1>1. ASSUME MelodyInv, step = "notes", Distinct, NEW l \in 0..(lane_count - 1)
      PROVE  LET share == Cardinality(onsets) - 1
                 size  == Cardinality({o \in onsets : lanes[o] = l})
             IN  /\ lane_count * size <= share + lane_count
                 /\ lane_count * (size + 1) >= share
  <2>1. Bright /\ DealtLanes
    BY <1>1 DEF MelodyInv, TypeOK, Bright
  <2>. QED  BY <2>1, LaneSize
<1>2. MelodyInv => LanesBalanced
  BY <1>1 DEF LanesBalanced, Distinct
<1>. QED  BY <1>2, MelodyInvariant, PTL
=============================================================================
