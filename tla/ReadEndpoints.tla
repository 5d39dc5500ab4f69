--------------------------- MODULE ReadEndpoints ---------------------------
(***************************************************************************)
(* What a client reads while songs are under way: GET /api/v1/maps, /{id}  *)
(* and /jobs/{id} of app/domains/maps/routes/router.py, down to the        *)
(* documents they are made of.  Each endpoint awaits one query, so its     *)
(* answer is a function of the state; a client polls, then follows what it *)
(* was told some steps later.                                              *)
(***************************************************************************)
EXTENDS BeatmapPipeline, SequencesExt

NotFound == [code |-> 404]

\* MapService._to_beatmap: what a client can tell apart.  MAPS_STORAGE_PUBLIC_BASE_URL
\* is set, so audio_url leads to the original of the song.
to_beatmap(b) ==
  [code |-> 200, id |-> b, notes |-> <<beatmaps[b].drum, beatmaps[b].melody>>,
   created_at |-> beatmaps[b].created_at,
   audio_url |-> <<beatmaps[b].job, "original">>]

\* An id that is no ObjectId and one nobody was given are answered alike.
get_job_status(id) ==
  IF id \in Jobs /\ mapJobs[id].status # "none"
  THEN [code |-> 200, status |-> mapJobs[id].status,
        beatmap_id |-> mapJobs[id].beatmap_id, error |-> mapJobs[id].error]
  ELSE NotFound

get_beatmap(id) ==
  IF id \in DOMAIN beatmaps THEN to_beatmap(id) ELSE NotFound

\* find().sort("created_at", -1): the answers MongoDB may give.  Beatmaps of the
\* same time come in any order, and in another one the next time.
NewestFirst(ids) ==
  \A i, k \in DOMAIN ids :
    i < k => beatmaps[ids[i]].created_at >= beatmaps[ids[k]].created_at
Cursors ==
  {ids \in [1..Len(beatmaps) -> DOMAIN beatmaps] :
     Range(ids) = DOMAIN beatmaps /\ NewestFirst(ids)}
list_beatmaps == {[i \in DOMAIN ids |-> to_beatmap(ids[i])] : ids \in Cursors}
-----------------------------------------------------------------------------
(* Properties.                                                             *)

\* The fields of a polled job agree: beatmap_id comes with "completed" and an
\* error with "failed", never both, although retries share one document.
AnswersAgree ==
  \A j \in Jobs :
    LET answer == get_job_status(j)
    IN  answer.code = 200 =>
          /\ answer.status = "completed" <=> answer.beatmap_id # 0
          /\ answer.status = "failed" <=> answer.error

\* The audio of a beatmap is there and never changes: the CDN may keep
\* it for 30 days and a browser for a year (cache_control says immutable), and
\* neither caches a 404, although retries upload stems of the same job again.
AudioStands ==
  [][\A b \in DOMAIN beatmaps :
       LET url == get_beatmap(b).audio_url
       IN  /\ Stored(url[1], url[2])
           /\ objects'[url[1]][url[2]] = objects[url[1]][url[2]]]_vars

\* A link a client was given stays good: what get_beatmap has answered it goes
\* on answering, and a list that is read again shows every earlier entry, two of
\* different times in the order they had.  A new one may come anywhere: its time
\* was read before its insert, by the clock of its worker.
StillShown(before, after) ==
  \A i, k \in DOMAIN before : \E m, n \in DOMAIN after :
    /\ after[m] = before[i] /\ after[n] = before[k]
    /\ before[i].created_at > before[k].created_at => m < n
LinksStand ==
  [][/\ \A b \in DOMAIN beatmaps : get_beatmap(b)' = get_beatmap(b)
     /\ \A before \in list_beatmaps, after \in list_beatmaps' :
          StillShown(before, after)]_vars
=============================================================================
