----------------------------- MODULE KickNotes -----------------------------
(***************************************************************************)
(* KickHandler._process (app/domains/maps/jobs/handlers/kick_handler.py)   *)
(* from its two downloads to the notes of the drums: the temporary         *)
(* directory of the run, the energy gate of dsp/kick_detector.py, the      *)
(* onsets of dsp/kick_onseter.py and build_drum_notes.  BeatmapPipeline    *)
(* has the whole run as its step DetectKicks.                              *)
(*                                                                         *)
(* What the signal decides is an input: how loud a recording is, its onset *)
(* strength in each frame, and which frames librosa picks.                 *)
(***************************************************************************)
EXTENDS Integers, Sequences, FiniteSets, FiniteSetsExt, Rounding

CONSTANTS
  Filenames,    \* names a client may give its upload
  Frames,       \* frames of a recording
  Hop,          \* hop_length
  SampleRate,   \* samples per second
  Loudness,     \* RMS levels
  Strengths,    \* onset strengths of a frame
  LaneCounts    \* lane counts a client may ask for

ASSUME KickAssumption ==
  /\ Frames \in Nat \ {0} /\ Hop \in Nat \ {0} /\ SampleRate \in Nat \ {0}
  /\ Loudness \subseteq Nat /\ Strengths \subseteq Nat
  /\ LaneCounts \subseteq Nat \ {0}

VARIABLES
  step,                             \* the call _process makes next
  original_filename, lane_count,    \* the payload
  rms,                              \* rms[r]: how loud recording r is
  dir,                              \* the temporary directory: what each file is
  heard,                            \* the recording the onsets are taken from
  odf,                              \* its onset strengths
  onsets,                           \* frames of the onsets, in order
  notes

payload == <<original_filename, lane_count, rms>>
vars == <<step, payload, dir, heard, odf, onsets, notes>>

Recordings == {"drum stem", "mix"}
FrameSet   == 0..(Frames - 1)

TypeOK ==
  /\ step \in {"drum", "original", "energy", "detect", "notes", "done"}
  /\ original_filename \in Filenames /\ lane_count \in LaneCounts
  /\ rms \in [Recordings -> Loudness]
  /\ dir \in [DOMAIN dir -> Recordings]
  /\ heard \in Recordings \cup {"nothing"}
  /\ odf \in [DOMAIN odf -> Strengths]
  /\ onsets \in Seq(FrameSet)
  /\ \A i \in DOMAIN notes :
       notes[i].lane < lane_count /\ notes[i].energy[1] <= notes[i].energy[2]

Init ==
  /\ step = "drum"
  /\ original_filename \in Filenames /\ lane_count \in LaneCounts
  /\ rms \in [Recordings -> Loudness]
  /\ dir = << >> /\ heard = "nothing" /\ odf = << >> /\ onsets = << >>
  /\ notes = << >>

-----------------------------------------------------------------------------
\* A download replaces the file of that name.
Download(name, recording) ==
  dir' = [f \in DOMAIN dir \cup {name} |->
            IF f = name THEN recording ELSE dir[f]]

DownloadDrum ==
  /\ step = "drum"
  /\ Download("drums.wav", "drum stem")
  /\ step' = "original"
  /\ UNCHANGED <<payload, heard, odf, onsets, notes>>

\* Slip: the two downloads are swapped.
DownloadSwapped ==
  /\ step = "original"
  /\ dir' = [f \in {"drums.wav", original_filename} |->
               IF f = "drums.wav" THEN "mix" ELSE "drum stem"]
  /\ step' = "energy"
  /\ UNCHANGED <<payload, heard, odf, onsets, notes>>

DownloadOriginal ==
  /\ step = "original"
  /\ Download(original_filename, "mix")
  /\ step' = "energy"
  /\ UNCHANGED <<payload, heard, odf, onsets, notes>>

\* The drums are at least a tenth of the mix; a silent mix has none.
has_significant_drum_energy ==
  LET mix == rms[dir[original_filename]]
  IN  mix > 0 /\ rms[dir["drums.wav"]] * 10 >= mix

CheckEnergy ==
  /\ step = "energy"
  /\ step' = IF has_significant_drum_energy THEN "detect" ELSE "done"
  /\ UNCHANGED <<payload, dir, heard, odf, onsets, notes>>

\* Picked frames in the order of time.
Ascending(picked) ==
  [i \in 1..Cardinality(picked) |->
     CHOOSE f \in picked : Cardinality({g \in picked : g < f}) = i - 1]

\* librosa picks nothing from a curve that is zero.
DetectOnsets ==
  /\ step = "detect"
  /\ heard' = dir["drums.wav"]
  /\ odf' \in [FrameSet -> Strengths]
  /\ \E picked \in SUBSET {f \in FrameSet : odf'[f] > 0} :
       onsets' = Ascending(picked)
  /\ step' = "notes"
  /\ UNCHANGED <<payload, dir, notes>>

\* Slip: the strength is not divided by the peak.
strength_raw(time) == <<odf[Min({Round(time, Hop), Frames - 1})], 1>>

\* strength_at: back from the time to the frame, as a fraction of the peak.
strength_at(time) ==
  LET frame == Min({Round(time, Hop), Frames - 1})
  IN  <<odf[frame], Max({odf[f] : f \in FrameSet})>>

\* Slip: frames are spaced in whole milliseconds.
WholeMillis(time) == (time \div Hop) * Round(Hop * 1000, SampleRate)

Millis(time) == Round(time * 1000, SampleRate)

build_drum_note(i) ==
  [time |-> Millis(onsets[i] * Hop), lane |-> (i - 1) % lane_count,
   energy |-> strength_at(onsets[i] * Hop), combo |-> 1]

BuildNotes ==
  /\ step = "notes"
  /\ notes' = [i \in DOMAIN onsets |-> build_drum_note(i)]
  /\ step' = "done"
  /\ UNCHANGED <<payload, dir, heard, odf, onsets>>

Next ==
  DownloadDrum \/ DownloadOriginal \/ CheckEnergy \/ DetectOnsets \/ BuildNotes

Spec == Init /\ [][Next]_vars
-----------------------------------------------------------------------------
(* Properties.                                                             *)

\* Notes are taken from the drum stem and never from the mix, although the two
\* files share a directory and the client names one of them.  It holds but for
\* an upload called drums.wav, which replaces the stem.
HearsDrumStem ==
  heard = "mix" => original_filename = "drums.wav"

\* Milliseconds keep the rhythm: the distance of two notes is that of their
\* onsets up to one millisecond, however long the song, and two onsets never
\* become one instant.
RhythmKept ==
  \A i, j \in DOMAIN notes : i < j =>
    LET distance == (onsets[j] - onsets[i]) * Hop * 1000
        ms       == notes[j].time - notes[i].time
    IN  /\ (ms - 1) * SampleRate <= distance /\ distance <= (ms + 1) * SampleRate
        /\ distance > SampleRate => ms > 0
=============================================================================
