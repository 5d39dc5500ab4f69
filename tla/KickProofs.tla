----------------------------- MODULE KickProofs -----------------------------
(***************************************************************************)
(* The invariants of KickNotes, for every recording, hop length, sample    *)
(* rate, loudness and lane count.                                          *)
(***************************************************************************)
EXTENDS KickNotes, NumberLemmas

-----------------------------------------------------------------------------
(* The operators.                                                          *)

LEMMA FramesAreFinite ==
  /\ IsFiniteSet(FrameSet)
  /\ FrameSet # {} /\ \A f \in FrameSet : f \in Nat /\ f <= Frames - 1
<1>1. Frames \in Nat \ {0}
  BY KickAssumption
<1>2. IsFiniteSet(0..(Frames - 1))
  <2>1. 0 \in Int /\ Frames - 1 \in Int
    BY <1>1
  <2>. QED  BY <2>1, FS_Interval, Zenon
<1>. QED  BY <1>1, <1>2 DEF FrameSet

\* The picked frames in order: each of them once.
LEMMA AscendingOrders ==
  ASSUME NEW picked, picked \subseteq FrameSet
  PROVE  /\ Ascending(picked) \in Seq(FrameSet)
         /\ \A i \in DOMAIN Ascending(picked) : Ascending(picked)[i] \in picked
         /\ \A i, j \in DOMAIN Ascending(picked) :
              i < j => Ascending(picked)[i] < Ascending(picked)[j]
         /\ \A f \in picked : \E i \in DOMAIN Ascending(picked) : Ascending(picked)[i] = f
<1> DEFINE n == Cardinality(picked)
           v == [f \in picked |-> f]
           At(i, f) == Cardinality({g \in picked : g < f}) = i - 1
<1>1. IsFiniteSet(picked) /\ n \in Nat
  BY FramesAreFinite, FS_Subset, FS_CardinalityType
<1>2. \A f \in picked : f \in Nat
  BY FramesAreFinite
<1>3. \A f \in picked : Rank(picked, v, f) = Cardinality({g \in picked : g < f})
  <2>1. ASSUME NEW f \in picked
        PROVE  {g \in picked : v[g] < v[f]} = {g \in picked : g < f}
    OBVIOUS
  <2>. QED  BY <2>1 DEF Rank
<1>4. /\ \A x \in picked : Rank(picked, v, x) \in 0..(n - 1)
      /\ \A x, y \in picked : v[x] < v[y] <=> Rank(picked, v, x) < Rank(picked, v, y)
      /\ \A k \in 0..(n - 1) : \E x \in picked : Rank(picked, v, x) = k
  <2>1. v \in [picked -> Nat] /\ \A x, y \in picked : v[x] = v[y] => x = y
    BY <1>2
  <2> HIDE DEF v
  <2>. QED  BY <1>1, <2>1, Ranks
<1>5. ASSUME NEW i \in 1..n
      PROVE  \E f \in picked : At(i, f)
  <2>1. i - 1 \in 0..(n - 1)
    BY <1>1
  <2>2. PICK f \in picked : Rank(picked, v, f) = i - 1
    BY <2>1, <1>4
  <2>. QED  BY <2>2, <1>3
<1>6. ASSUME NEW i \in 1..n
      PROVE  Ascending(picked)[i] \in picked /\ At(i, Ascending(picked)[i])
  <2>1. Ascending(picked)[i] = CHOOSE f \in picked : At(i, f)
    BY DEF Ascending
  <2>. QED  BY <1>5, <2>1
<1>7. DOMAIN Ascending(picked) = 1..n
  BY DEF Ascending
<1>8. Ascending(picked) \in Seq(FrameSet)
  <2> DEFINE Nth(i) == CHOOSE f \in picked : At(i, f)
  <2>0. Ascending(picked) = [i \in 1..n |-> Nth(i)]
    BY DEF Ascending
  <2> HIDE DEF Nth
  <2>1. Ascending(picked) = [i \in 1..n |-> Ascending(picked)[i]]
    BY <2>0
  <2>2. \A i \in 1..n : Ascending(picked)[i] \in FrameSet
    BY <1>6
  <2> HIDE DEF n
  <2>. QED  BY <1>1, <2>1, <2>2
<1>9. ASSUME NEW i \in 1..n, NEW j \in 1..n, i < j
      PROVE  Ascending(picked)[i] < Ascending(picked)[j]
  <2> DEFINE x == Ascending(picked)[i]
             y == Ascending(picked)[j]
  <2>1. x \in picked /\ y \in picked
    BY <1>6
  <2>2. Rank(picked, v, x) = i - 1 /\ Rank(picked, v, y) = j - 1
    BY <1>3, <1>6
  <2>3. v[x] < v[y]
    BY <1>4, <1>9, <2>1, <2>2
  <2>. QED  BY <2>1, <2>3
<1>10. ASSUME NEW f \in picked
       PROVE  \E i \in 1..n : Ascending(picked)[i] = f
  <2> DEFINE r == Rank(picked, v, f)
             x == Ascending(picked)[r + 1]
  <2>1. r \in 0..(n - 1) /\ r + 1 \in 1..n
    BY <1>1, <1>4
  <2>2. x \in picked /\ Rank(picked, v, x) = r
    <3>1. x \in picked /\ At(r + 1, x)
      BY <1>6, <2>1
    <3>2. Rank(picked, v, x) = (r + 1) - 1
      BY <1>3, <3>1
    <3> HIDE DEF r, x
    <3>. QED  BY <2>1, <3>1, <3>2
  <2>3. ~(v[x] < v[f]) /\ ~(v[f] < v[x])
    BY <1>4, <2>1, <2>2
  <2>4. x \in Nat /\ f \in Nat /\ v[x] = x /\ v[f] = f
    BY <1>2, <2>2
  <2>5. x = f
    BY <2>3, <2>4
  <2>. QED  BY <2>1, <2>5
<1>. QED  BY <1>6, <1>7, <1>8, <1>9, <1>10

\* A curve over the frames has a highest strength.
LEMMA CurveHasPeak ==
  ASSUME NEW c \in [FrameSet -> Strengths]
  PROVE  \A f \in FrameSet : c[f] \in Nat /\ c[f] <= Max({c[g] : g \in FrameSet})
<1> DEFINE S == {c[g] : g \in FrameSet}
           B == {n \in Nat : \E b \in Nat : \A f \in FrameSet : f < n => c[f] <= b}
<1>1. \A f \in FrameSet : c[f] \in Nat
  BY KickAssumption
<1>2. 0 \in B
  BY FramesAreFinite
<1>3. ASSUME NEW n \in Nat, n \in B
      PROVE  n + 1 \in B
  <2>1. PICK b \in Nat : \A f \in FrameSet : f < n => c[f] <= b
    BY <1>3
  <2>2. CASE n \in FrameSet
    <3> DEFINE m == IF c[n] > b THEN c[n] ELSE b
    <3>1. m \in Nat /\ m >= b /\ m >= c[n]
      BY <1>1, <2>2
    <3>2. ASSUME NEW f \in FrameSet, f < n + 1
          PROVE  c[f] <= m
      <4>1. f \in Nat /\ c[f] \in Nat
        BY <1>1, FramesAreFinite
      <4>2. CASE f = n
        BY <4>1, <4>2, <3>1
      <4>3. CASE f < n
        <5>1. c[f] <= b
          BY <4>3, <2>1
        <5> HIDE DEF m
        <5>. QED  BY <5>1, <4>1, <3>1
      <4>. QED  BY <4>1, <4>2, <4>3, <3>2
    <3> HIDE DEF m
    <3>. QED  BY <3>1, <3>2
  <2>3. CASE n \notin FrameSet
    <3>1. \A f \in FrameSet : f < n + 1 => f < n
      BY <2>3, FramesAreFinite
    <3>. QED  BY <2>1, <3>1
  <2>. QED  BY <2>2, <2>3
<1>4. Nat \subseteq B
  <2> HIDE DEF B
  <2>. QED  BY <1>2, <1>3, SetInduction
<1>5. PICK b \in Nat : \A f \in FrameSet : c[f] <= b
  <2>1. Frames \in B /\ \A f \in FrameSet : f < Frames
    BY <1>4, KickAssumption, FramesAreFinite
  <2>. QED  BY <2>1
<1>6. S \subseteq Nat /\ S # {} /\ \A x \in S : x <= b
  BY <1>1, <1>5, FramesAreFinite
<1>7. \A y \in S : y <= Max(S)
  <2> HIDE DEF S
  <2>. QED  BY <1>6, MaxOfNaturals
<1>. QED  BY <1>1, <1>7

\* strength_at stays within the curve: a fraction of its peak, never above it.
LEMMA StrengthIsFraction ==
  ASSUME odf \in [FrameSet -> Strengths], NEW time \in Nat
  PROVE  strength_at(time)[1] <= strength_at(time)[2]
<1> DEFINE frame == Min({Round(time, Hop), Frames - 1})
<1>1. Round(time, Hop) \in Nat /\ Frames - 1 \in Nat
  BY RoundError, KickAssumption
<1>2. frame \in FrameSet
  <2> DEFINE a == Round(time, Hop)
             b == Frames - 1
  <2>0. a \in Int /\ b \in Int
    BY <1>1
  <2> HIDE DEF a, b
  <2>1. frame \in {a, b} /\ frame <= b
    BY <2>0, MinOfTwo DEF a, b
  <2>2. frame \in {Round(time, Hop), Frames - 1} /\ frame <= Frames - 1
    BY <2>1 DEF a, b
  <2> HIDE DEF frame
  <2>. QED  BY <1>1, <2>2 DEF FrameSet
<1>3. strength_at(time) = <<odf[frame], Max({odf[f] : f \in FrameSet})>>
  BY DEF strength_at
<1> HIDE DEF frame
<1>. QED  BY <1>2, <1>3, CurveHasPeak

\* Rounding two instants to milliseconds changes their distance by at most one.
LEMMA MillisKeepDistance ==
  ASSUME NEW s \in Nat, NEW t \in Nat
  PROVE  /\ Millis(s) \in Nat /\ Millis(t) \in Nat
         /\ (Millis(t) - Millis(s) - 1) * SampleRate <= (t - s) * 1000
         /\ (t - s) * 1000 <= (Millis(t) - Millis(s) + 1) * SampleRate
<1> DEFINE a == Millis(s)
           b == Millis(t)
           R == SampleRate
<1>1. R \in Nat \ {0}
  BY KickAssumption
<1>2. /\ a \in Nat /\ 2 * (R * a) <= 2 * (s * 1000) + R
      /\ 2 * (s * 1000) <= 2 * (R * a) + R
  <2>1. s * 1000 \in Nat
    OBVIOUS
  <2>. QED  BY <1>1, <2>1, RoundError DEF Millis
<1>3. /\ b \in Nat /\ 2 * (R * b) <= 2 * (t * 1000) + R
      /\ 2 * (t * 1000) <= 2 * (R * b) + R
  <2>1. t * 1000 \in Nat
    OBVIOUS
  <2>. QED  BY <1>1, <2>1, RoundError DEF Millis
<1> HIDE DEF a, b, R
<1>4. /\ R * a \in Nat /\ R * b \in Nat
      /\ (b - a - 1) * R = R * b - R * a - R
      /\ (b - a + 1) * R = R * b - R * a + R
  BY <1>1, <1>2, <1>3
<1>5. (b - a - 1) * R <= (t - s) * 1000 /\ (t - s) * 1000 <= (b - a + 1) * R
  BY <1>1, <1>2, <1>3, <1>4
<1>. QED  BY <1>2, <1>3, <1>5 DEF a, b, R

-----------------------------------------------------------------------------
(* The inductive invariant.                                                *)

\* What the directory holds once both files are there: an upload with the name
\* of the stem has replaced it.
Files ==
  [f \in {"drums.wav", original_filename} |->
     IF f = original_filename THEN "mix" ELSE "drum stem"]

\* Onsets are in the order of time, and a note is where its onset is.
InOrder == \A i, j \in DOMAIN onsets : i < j => onsets[i] < onsets[j]

NotesFollow ==
  \A i \in DOMAIN notes :
    i \in DOMAIN onsets /\ notes[i].time = Millis(onsets[i] * Hop)

\* What each step of _process finds.
KickInv ==
  /\ TypeOK
  /\ step = "drum" => dir = << >>
  /\ step = "original" => dir = [f \in {"drums.wav"} |-> "drum stem"]
  /\ step \notin {"drum", "original"} => dir = Files
  /\ heard # "nothing" => heard = Files["drums.wav"]
  /\ step = "notes" => odf \in [FrameSet -> Strengths]
  /\ InOrder
  /\ step # "done" => notes = << >>
  /\ NotesFollow

LEMMA NothingYet == DOMAIN << >> = {} /\ \A S : << >> \in [{} -> S] /\ << >> \in Seq(S)
OBVIOUS

LEMMA KickInit == Init => KickInv
BY NothingYet DEF Init, KickInv, TypeOK, InOrder, NotesFollow

\* The files depend on the payload alone.
LEMMA FilesKept ==
  ASSUME UNCHANGED payload
  PROVE  Files' = Files
BY DEF payload, Files

\* The steps before the notes change neither onsets nor notes.
LEMMA RestKept ==
  ASSUME KickInv, UNCHANGED <<onsets, notes>>
  PROVE  InOrder' /\ NotesFollow'
<1>1. InOrder /\ NotesFollow
  BY DEF KickInv
<1>2. InOrder'
  BY <1>1 DEF InOrder
<1>3. NotesFollow'
  BY <1>1 DEF NotesFollow, Millis
<1>. QED  BY <1>2, <1>3

LEMMA DownloadDrumKeeps ==
  ASSUME KickInv, DownloadDrum
  PROVE  KickInv'
<1>1. step = "drum" /\ step' = "original" /\ dir = << >>
  BY DEF DownloadDrum, KickInv
<1>2. dir' = [f \in {"drums.wav"} |-> "drum stem"]
  <2>1. DOMAIN dir \cup {"drums.wav"} = {"drums.wav"}
    BY <1>1, NothingYet
  <2>. QED  BY <2>1 DEF DownloadDrum, Download
<1>3. UNCHANGED <<payload, heard, odf, onsets, notes>>
  BY DEF DownloadDrum
<1>4. TypeOK'
  BY <1>1, <1>2, <1>3 DEF KickInv, TypeOK, payload, Recordings
<1>. QED  BY <1>1, <1>2, <1>3, <1>4, FilesKept, RestKept DEF KickInv, payload

LEMMA DownloadOriginalKeeps ==
  ASSUME KickInv, DownloadOriginal
  PROVE  KickInv'
<1>1. /\ step = "original" /\ step' = "energy"
      /\ dir = [f \in {"drums.wav"} |-> "drum stem"]
  BY DEF DownloadOriginal, KickInv
<1>2. UNCHANGED <<payload, heard, odf, onsets, notes>>
  BY DEF DownloadOriginal
<1>3. dir' = Files'
  <2>1. DOMAIN dir \cup {original_filename} = {"drums.wav", original_filename}
    BY <1>1
  <2>2. dir' = [f \in {"drums.wav", original_filename} |->
                  IF f = original_filename THEN "mix" ELSE dir[f]]
    BY <2>1 DEF DownloadOriginal, Download
  <2>3. \A f \in {"drums.wav", original_filename} :
          f # original_filename => dir[f] = "drum stem"
    BY <1>1
  <2>. QED  BY <1>2, <2>2, <2>3 DEF Files, payload
<1>4. dir' \in [DOMAIN dir' -> Recordings]
  BY <1>3 DEF Files, Recordings
<1>5. TypeOK'
  BY <1>1, <1>2, <1>4 DEF KickInv, TypeOK, payload
<1>. QED  BY <1>1, <1>2, <1>3, <1>5, FilesKept, RestKept DEF KickInv, payload

LEMMA CheckEnergyKeeps ==
  ASSUME KickInv, CheckEnergy
  PROVE  KickInv'
<1>1. /\ step = "energy" /\ dir = Files
      /\ step' \in {"detect", "done"}
  BY DEF CheckEnergy, KickInv
<1>2. UNCHANGED <<payload, dir, heard, odf, onsets, notes>>
  BY DEF CheckEnergy
<1>3. TypeOK'
  BY <1>1, <1>2 DEF KickInv, TypeOK, payload
<1>. QED  BY <1>1, <1>2, <1>3, FilesKept, RestKept DEF KickInv, payload

LEMMA DetectOnsetsKeeps ==
  ASSUME KickInv, DetectOnsets
  PROVE  KickInv'
<1>1. /\ step = "detect" /\ step' = "notes" /\ dir = Files /\ notes = << >>
      /\ heard' = dir["drums.wav"] /\ odf' \in [FrameSet -> Strengths]
      /\ UNCHANGED <<payload, dir, notes>>
  BY DEF DetectOnsets, KickInv
<1>2. /\ onsets' \in Seq(FrameSet)
      /\ InOrder'
  <2>1. PICK picked \in SUBSET {f \in FrameSet : odf'[f] > 0} : onsets' = Ascending(picked)
    BY DEF DetectOnsets
  <2>. QED  BY <2>1, AscendingOrders DEF InOrder
<1>3. heard' = Files["drums.wav"] /\ heard' \in Recordings
  BY <1>1 DEF Files, Recordings
<1>4. TypeOK'
  <2>1. odf' \in [DOMAIN odf' -> Strengths]
    BY <1>1
  <2>. QED  BY <1>1, <1>2, <1>3, <2>1 DEF KickInv, TypeOK, payload
<1>5. NotesFollow'
  BY <1>1, NothingYet DEF NotesFollow
<1>. QED  BY <1>1, <1>2, <1>3, <1>4, <1>5, FilesKept DEF KickInv, payload

\* The note of each onset: its lane is one of those asked for.
LEMMA DrumNote ==
  ASSUME KickInv, step = "notes", NEW i \in DOMAIN onsets
  PROVE  /\ build_drum_note(i).time = Millis(onsets[i] * Hop)
         /\ build_drum_note(i).lane < lane_count
         /\ build_drum_note(i).energy[1] <= build_drum_note(i).energy[2]
<1>1. i \in Nat \ {0} /\ onsets[i] \in Nat
  BY FramesAreFinite DEF KickInv, TypeOK
<1>2. onsets[i] * Hop \in Nat
  BY <1>1, KickAssumption
<1>3. (i - 1) % lane_count < lane_count
  <2>1. i - 1 \in Nat /\ lane_count \in Nat \ {0}
    BY <1>1, KickAssumption DEF KickInv, TypeOK
  <2>. QED  BY <2>1
<1>4. strength_at(onsets[i] * Hop)[1] <= strength_at(onsets[i] * Hop)[2]
  BY <1>2, StrengthIsFraction DEF KickInv
<1>. QED  BY <1>3, <1>4 DEF build_drum_note

LEMMA BuildNotesKeeps ==
  ASSUME KickInv, BuildNotes
  PROVE  KickInv'
<1>1. /\ step = "notes" /\ step' = "done" /\ dir = Files
      /\ notes' = [i \in DOMAIN onsets |-> build_drum_note(i)]
      /\ UNCHANGED <<payload, dir, heard, odf, onsets>>
  BY DEF BuildNotes, KickInv
<1>2. DOMAIN notes' = DOMAIN onsets
  BY <1>1
<1>3. ASSUME NEW i \in DOMAIN notes'
      PROVE  /\ notes'[i].time = Millis(onsets[i] * Hop)
             /\ notes'[i].lane < lane_count
             /\ notes'[i].energy[1] <= notes'[i].energy[2]
  <2>1. notes'[i] = build_drum_note(i) /\ i \in DOMAIN onsets
    BY <1>1
  <2>. QED  BY <1>1, <2>1, DrumNote
<1>4. TypeOK'
  BY <1>1, <1>3 DEF KickInv, TypeOK, payload
<1>. QED  BY <1>1, <1>2, <1>3, <1>4, FilesKept DEF KickInv, payload, InOrder, NotesFollow, Millis

LEMMA KickNext == KickInv /\ [Next]_vars => KickInv'
<1>. SUFFICES ASSUME KickInv, [Next]_vars
              PROVE  KickInv'
  OBVIOUS
<1>1. CASE DownloadDrum
  BY <1>1, DownloadDrumKeeps
<1>2. CASE DownloadOriginal
  BY <1>2, DownloadOriginalKeeps
<1>3. CASE CheckEnergy
  BY <1>3, CheckEnergyKeeps
<1>4. CASE DetectOnsets
  BY <1>4, DetectOnsetsKeeps
<1>5. CASE BuildNotes
  BY <1>5, BuildNotesKeeps
<1>6. CASE UNCHANGED vars
  <2>1. UNCHANGED <<step, payload, dir, heard, odf, onsets, notes>>
    BY <1>6 DEF vars
  <2>2. TypeOK'
    BY <2>1 DEF KickInv, TypeOK, payload
  <2>. QED  BY <2>1, <2>2, FilesKept, RestKept DEF KickInv, payload
<1>. QED  BY <1>1, <1>2, <1>3, <1>4, <1>5, <1>6 DEF Next

LEMMA KickInvariant == Spec => []KickInv
BY KickInit, KickNext, PTL DEF Spec

-----------------------------------------------------------------------------
(* The theorems.                                                           *)

\* Every file is one of the two recordings, every onset a frame of the song, and
\* every drum note is in a lane asked for, with an energy of at most its peak.
THEOREM KickTypes == Spec => []TypeOK
<1>1. KickInv => TypeOK
  BY DEF KickInv
<1>. QED  BY <1>1, KickInvariant, PTL

\* The kick handler takes its onsets from the drum stem, whatever the client
\* calls the upload that is stored beside it, unless that name is drums.wav.
THEOREM KicksFromStem == Spec => []HearsDrumStem
<1>1. KickInv => HearsDrumStem
  BY DEF KickInv, HearsDrumStem, Files
<1>. QED  BY <1>1, KickInvariant, PTL

\* Drum notes keep the distances of their onsets to a millisecond, for every
\* sample rate and however long the song is: the errors do not add up.
THEOREM RhythmIsKept == Spec => []RhythmKept
<1>1. ASSUME KickInv, NEW i \in DOMAIN notes, NEW j \in DOMAIN notes, i < j
      PROVE  LET distance == (onsets[j] - onsets[i]) * Hop * 1000
                 ms       == notes[j].time - notes[i].time
             IN  /\ (ms - 1) * SampleRate <= distance
                 /\ distance <= (ms + 1) * SampleRate
                 /\ distance > SampleRate => ms > 0
  <2> DEFINE s == onsets[i] * Hop
             t == onsets[j] * Hop
             distance == (onsets[j] - onsets[i]) * Hop * 1000
             ms == notes[j].time - notes[i].time
  <2>1. /\ onsets[i] \in Nat /\ onsets[j] \in Nat /\ Hop \in Nat
        /\ SampleRate \in Nat \ {0}
    <3>1. i \in DOMAIN onsets /\ j \in DOMAIN onsets /\ onsets \in Seq(FrameSet)
      BY <1>1 DEF KickInv, TypeOK, NotesFollow
    <3>2. onsets[i] \in FrameSet /\ onsets[j] \in FrameSet
      BY <3>1
    <3>. QED  BY <3>2, FramesAreFinite, KickAssumption
  <2>2. s \in Nat /\ t \in Nat /\ distance = (t - s) * 1000
    BY <2>1
  <2>3. ms = Millis(t) - Millis(s)
    BY <1>1 DEF KickInv, NotesFollow
  <2> HIDE DEF s, t, distance, ms
  <2>4. /\ ms \in Int /\ distance \in Int
        /\ (ms - 1) * SampleRate <= distance
        /\ distance <= (ms + 1) * SampleRate
    BY <2>2, <2>3, MillisKeepDistance
  <2>5. distance > SampleRate => ms > 0
    <3>. SUFFICES ASSUME distance > SampleRate, ms <= 0
                  PROVE  FALSE
      BY <2>4
    <3>1. (ms + 1) * SampleRate = ms * SampleRate + SampleRate /\ ms * SampleRate \in Int
      BY <2>1, <2>4
    <3>2. ms * SampleRate <= 0
      BY <2>1, <2>4
    <3>. QED  BY <2>1, <2>4, <3>1, <3>2
  <2>. QED  BY <2>4, <2>5 DEF distance, ms
<1>2. KickInv => RhythmKept
  BY <1>1 DEF RhythmKept
<1>. QED  BY <1>2, KickInvariant, PTL
=============================================================================
