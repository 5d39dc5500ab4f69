---------------------------- MODULE MelodyNotes ----------------------------
(***************************************************************************)
(* build_melody_notes (app/domains/maps/services/notes_service.py): from   *)
(* the peaks of the novelty curve to the notes of the melody.              *)
(*                                                                         *)
(* What the signal decides is an input: which frames peak, when the bands  *)
(* of a note have faded, how bright a note is.  What the code does with it *)
(* is modelled exactly: spectrogram frames, times in audio samples, so     *)
(* that frames_to_time(n) is n * Hop without rounding, and milliseconds.   *)
(***************************************************************************)
EXTENDS Integers, FiniteSets, FiniteSetsExt, Rounding

CONSTANTS
  Frames,       \* frames of the spectrogram
  Hop,          \* _HOP_LENGTH
  SampleRate,   \* samples per second
  WaitMs,       \* _ONSET_WAIT_S, in ms
  MinDur,       \* _OFFSET_MIN_DUR_S, in samples
  MaxDur,       \* _OFFSET_MAX_DUR_S, in samples
  Fades,        \* frames a note may take to fade
  Brightness,   \* spectral centroids of a note
  LaneCounts,   \* lane counts a client may ask for
  Bpms          \* tempos detect_bpm may report

ASSUME MelodyAssumption ==
  /\ Frames \in Nat \ {0} /\ Hop \in Nat \ {0} /\ SampleRate \in Nat \ {0}
  /\ WaitMs \in Nat /\ MinDur \in Nat /\ MaxDur \in Nat /\ MinDur <= MaxDur
  /\ Fades \subseteq Nat \ {0} /\ Brightness \subseteq Nat /\ Bpms \subseteq Nat
  /\ LaneCounts \subseteq Nat \ {0}

VARIABLES
  step,         \* the call build_melody_notes makes next
  lane_count, bpm,
  peaks,        \* librosa's candidate peaks
  onsets,       \* frames picked as onsets
  offsets,      \* offsets[o]: sample at which the note of onset o ends
  centroids,    \* centroids[o]: its brightness
  lanes,        \* lanes[o]: its lane
  notes         \* notes[o]: the note

vars ==
  <<step, lane_count, bpm, peaks, onsets, offsets, centroids, lanes, notes>>

FrameSet == 0..(Frames - 1)
Note     == [time : Nat, duration : Nat, lane : Nat, combo : Nat \ {0}]

TypeOK ==
  /\ step \in {"pick", "offsets", "centroids", "lanes", "notes", "done",
              "raised"}
  /\ lane_count \in LaneCounts /\ bpm \in Bpms
  /\ peaks \subseteq FrameSet /\ onsets \subseteq peaks
  /\ offsets \in [DOMAIN offsets -> Nat] /\ DOMAIN offsets \in {{}, onsets}
  /\ centroids \in [DOMAIN centroids -> Brightness]
  /\ step \in {"notes", "done"} => lanes \in [onsets -> 0..(lane_count - 1)]
  /\ step = "done" => notes \in [onsets -> Note]

Empty == [o \in {} |-> 0]

Init ==
  /\ step = "pick"
  /\ lane_count \in LaneCounts /\ bpm \in Bpms
  /\ peaks = {} /\ onsets = {}
  /\ offsets = Empty /\ centroids = Empty /\ lanes = Empty /\ notes = Empty

-----------------------------------------------------------------------------
(* Arithmetic of the code.                                                 *)

Time(n) == n * Hop
LastTime == Time(Frames - 1)
Millis(samples) == Round(samples * 1000, SampleRate)

-----------------------------------------------------------------------------
(* _pick_onsets.                                                           *)

\* Slip: counted in windows (_N_FFT is four hops) instead of hops.
WaitWindows == Round(WaitMs * SampleRate, 1000 * 4 * Hop)

WaitFrames == Round(WaitMs * SampleRate, 1000 * Hop)

\* Slip: an attack that was dropped still holds back the next one.
PickedApart(at) == {n \in at : \A k \in at : k < n => n > k + WaitFrames}

\* onset_detect scans the peaks: LastKept(at)[n] is the onset it kept last
\* before frame n.
LastKept(at) ==
  LET last[n \in 0..Frames] ==
        IF n = 0 THEN - WaitFrames - 1
        ELSE IF n - 1 \in at /\ n - 1 > last[n - 1] + WaitFrames
             THEN n - 1
             ELSE last[n - 1]
  IN  last

\* It keeps a peak more than WaitFrames after the last one it kept.
Picked(at) == {n \in at : LastKept(at)[n + 1] = n}

\* A stem below the silence level has no novelty to look at.
PickOnsets ==
  /\ step = "pick"
  /\ peaks' \in SUBSET FrameSet
  /\ onsets' = Picked(peaks')
  /\ step' = IF onsets' = {} THEN "done" ELSE "offsets"
  /\ UNCHANGED <<lane_count, bpm, offsets, centroids, lanes, notes>>

-----------------------------------------------------------------------------
(* _estimate_offsets.                                                      *)

\* Slip: the next onset does not end the note.
EndOfTrack(o) == LastTime

NextOnset(o) ==
  LET later == {p \in onsets : p > o}
  IN  IF later = {} THEN LastTime ELSE Time(Min(later))

HardCap(o) == Min({Time(o) + MaxDur, NextOnset(o), LastTime})

\* searchsorted(times, hard_cap): the first frame not before the cap.
CapFrame(o) == (HardCap(o) + Hop - 1) \div Hop

\* Slip: the shortest note is enforced before the decay is looked at.
BareOffset(o, fade) ==
  IF o + fade < Max({CapFrame(o), o + 1}) THEN Min({Time(o + fade), HardCap(o)})
  ELSE HardCap(o)

\* The bands of the note are 15 dB down `fade` frames after its onset, if that
\* is still inside the profile.
Offset(o, fade) ==
  IF o + fade < Max({CapFrame(o), o + 1})
  THEN Min({Max({Time(o + fade), Time(o) + MinDur}), HardCap(o)})
  ELSE HardCap(o)

EstimateOffsets ==
  /\ step = "offsets"
  /\ \E fade \in [onsets -> Fades] :
       offsets' = [o \in onsets |-> Offset(o, fade[o])]
  /\ step' = "centroids"
  /\ UNCHANGED <<lane_count, bpm, peaks, onsets, centroids, lanes, notes>>

-----------------------------------------------------------------------------
(* _spectral_centroid_lanes.                                               *)

\* The k-th smallest brightness, counting from 0.
Kth(k) ==
  CHOOSE v \in {centroids[o] : o \in onsets} :
    /\ Cardinality({o \in onsets : centroids[o] < v}) <= k
    /\ Cardinality({o \in onsets : centroids[o] <= v}) > k

\* Slip: lanes of equal width in frequency.
EqualWidth(k, raised) ==
  (lane_count - k) * Kth(0) + k * Kth(Cardinality(onsets) - 1)

\* np.quantile at k / lane_count, interpolated between neighbours, times
\* lane_count to stay in the integers.  An edge that falls on a note is computed
\* in floats all the same: 0.6000000000000001 * 5 lies behind the fourth of six
\* notes, and the edge a little above its brightness (+ 1 here) if the next note
\* is brighter.  `raised` names such edges; one that comes out below its note
\* separates the same notes as the exact one.
Edge(k, raised) ==
  LET p == k * (Cardinality(onsets) - 1)
      q == p \div lane_count
      r == p % lane_count
  IN  IF r # 0 THEN (lane_count - r) * Kth(q) + r * Kth(q + 1)
      ELSE IF k \in raised /\ q + 1 < Cardinality(onsets) /\ Kth(q) < Kth(q + 1)
      THEN lane_count * Kth(q) + 1
      ELSE lane_count * Kth(q)

\* Slip: the last edge is not trimmed, and the brightest note falls behind it.
edges_untrimmed(raised) == [k \in 1..lane_count |-> Edge(k, raised)]

\* quantile_edges[1:-1].  (Lowering the outermost edge, as the code does first,
\* changes none of them.)
quantile_edges(raised) == [k \in 1..(lane_count - 1) |-> Edge(k, raised)]

\* np.digitize: how many edges the note has reached.
Lane(o, edges) ==
  Cardinality({k \in DOMAIN edges : edges[k] <= lane_count * centroids[o]})

SpectralCentroid ==
  /\ step = "centroids"
  /\ centroids' \in [onsets -> Brightness]
  /\ step' = "lanes"
  /\ UNCHANGED <<lane_count, bpm, peaks, onsets, offsets, lanes, notes>>

Lanes ==
  /\ step = "lanes"
  /\ \E raised \in SUBSET (1..(lane_count - 1)) :
       LET edges == quantile_edges(raised)
       IN  lanes' = [o \in onsets |-> Lane(o, edges)]
  /\ step' = "notes"
  /\ UNCHANGED <<lane_count, bpm, peaks, onsets, offsets, centroids, notes>>

-----------------------------------------------------------------------------
(* build_melody_note.                                                      *)

calculate_melody_combo(duration) == Max({1, duration \div bpm})

NoteOf(o) ==
  LET duration == Millis(offsets[o] - Time(o))
  IN  [time |-> Millis(Time(o)), duration |-> duration, lane |-> lanes[o],
       combo |-> calculate_melody_combo(duration)]

BuildNotes ==
  /\ step = "notes"
  /\ bpm # 0
  /\ notes' = [o \in onsets |-> NoteOf(o)]
  /\ step' = "done"
  /\ UNCHANGED <<lane_count, bpm, peaks, onsets, offsets, centroids, lanes>>

\* duration // bpm raises when no tempo was found; the melody task fails.
ZeroDivision ==
  /\ step = "notes"
  /\ bpm = 0
  /\ step' = "raised"
  /\ UNCHANGED <<lane_count, bpm, peaks, onsets, offsets, centroids, lanes, notes>>

Next ==
  \/ PickOnsets \/ EstimateOffsets \/ SpectralCentroid \/ Lanes \/ BuildNotes
  \/ ZeroDivision

Spec == Init /\ [][Next]_vars
-----------------------------------------------------------------------------
(* Properties.                                                             *)

\* "Two attacks closer together than this are one onset": rounding the wait to
\* whole frames never lets two onsets come closer than _ONSET_WAIT_S.
AttacksMerged ==
  \A o, p \in onsets :
    o < p => (Time(p) - Time(o)) * 1000 >= WaitMs * SampleRate

\* An attack is only dropped for an onset shortly before it: merging never
\* runs on, an onset dropped itself does not hold back the next one.
NoAttackLost ==
  \A a \in peaks :
    step # "pick" =>
      \E o \in onsets :
        o <= a /\ 2 * (Time(a) - Time(o)) * 1000 <= (2 * WaitMs * SampleRate) + 1000 * Hop

\* Played on one key, the notes of the melody do not overlap: each ends by the
\* start of the next, up to the millisecond that rounding start and duration
\* separately may add.
NotesInTurn ==
  \A o, p \in DOMAIN notes :
    o < p => notes[o].time + notes[o].duration <= notes[p].time + 1

\* A note is cut below _OFFSET_MIN_DUR_S only by the next onset or by the end
\* of the track, however fast its bands fade.
ShortOnlyWhenCut ==
  \A o \in DOMAIN offsets :
    \/ offsets[o] >= Time(o) + MinDur
    \/ offsets[o] = LastTime
    \/ \E p \in onsets : p > o /\ offsets[o] = Time(p)

\* Notes of different brightness are dealt evenly: a lane holds its share of them
\* up to one note more or less, wherever rounding leaves the edges.
LanesBalanced ==
  LET distinct == \A o, p \in onsets : centroids[o] = centroids[p] => o = p
      share    == Cardinality(onsets) - 1
      size(l)  == Cardinality({o \in onsets : lanes[o] = l})
  IN  step = "notes" /\ distinct =>
        \A l \in 0..(lane_count - 1) :
          /\ lane_count * size(l) <= share + lane_count
          /\ lane_count * (size(l) + 1) >= share

\* Notes of the same brightness cannot be told apart, and all go to one lane.
\* Nothing else crowds a lane: of the notes brighter than one of its own it holds
\* no more than its share.
CrowdedByEqualsOnly ==
  step = "notes" =>
    \A o \in onsets :
      lane_count * Cardinality({p \in onsets : lanes[p] = lanes[o]
                                               /\ centroids[p] > centroids[o]})
        <= Cardinality(onsets) - 1

\* What test_calculate_melody_combo_counts_beats_spanned_by_the_hold is named
\* for: the combo of a note is the number of beats it lasts, at least one.
ComboCountsBeats ==
  \A o \in DOMAIN notes :
    notes[o].combo = Max({1, (notes[o].duration * bpm) \div 60000})
=============================================================================
