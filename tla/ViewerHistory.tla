---------------------------- MODULE ViewerHistory ----------------------------
(***************************************************************************)
(* The navigation history of the viewer                                    *)
(* (apps/web/src/navigation/historyController.ts): the view in memory is   *)
(* the authority, and the address bar follows it.  A view is a place and a *)
(* camera.  Writes that only move the camera may be deferred to a timer;   *)
(* the browser may refuse a write (its rate limit); going back or forward  *)
(* restores the view of another entry, which takes a while, and meanwhile  *)
(* the old view may still commit.                                          *)
(***************************************************************************)
EXTENDS Naturals, Sequences

CONSTANTS Places, Cameras,
  NoView,
  MaxEntries,  \* bound: entries of the history
  MaxCommits,  \* bound: commits and traversals in all
  MaxRefusals  \* bound: writes the browser refuses

ASSUME UrlAssumption == NoView \notin [place : Places, camera : Cameras]

VARIABLES
  urlEntries,   \* the views in the URLs of the browser's entries
  urlPos,       \* the entry shown
  urlState,     \* the view in memory
  urlPending,   \* pendingState: the view whose URL is deferred to the timer, or NoView
  urlGeneration,
  urlRestores,  \* the restores that are waiting: their generation and the view they decoded
  urlDisposed,
  urlCommits, urlRefusals

urlVars == <<urlEntries, urlPos, urlState, urlPending, urlGeneration, urlRestores, urlDisposed,
             urlCommits, urlRefusals>>

Views == [place : Places, camera : Cameras]
href == urlEntries[urlPos]

UrlInit ==
  /\ \E v \in Views : urlEntries = <<v>> /\ urlState = v
  /\ urlPos = 1 /\ urlPending = NoView /\ urlGeneration = 0 /\ urlRestores = {} /\ urlDisposed = FALSE
  /\ urlCommits = 0 /\ urlRefusals = 0

Commit == ~urlDisposed /\ urlCommits < MaxCommits /\ urlCommits' = urlCommits + 1
Refused == urlRefusals < MaxRefusals /\ urlRefusals' = urlRefusals + 1

ReplaceOrDrop(url, next) ==
  /\ urlPending' = NoView
  /\ \/ urlEntries' = [urlEntries EXCEPT ![urlPos] = url] /\ UNCHANGED urlRefusals
     \/ Refused /\ UNCHANGED urlEntries

\* A URL replaced at once, with the view in memory from then on; a refused one is retried by
\* the timer.
ReplaceNow(url, next) ==
  \/ /\ urlEntries' = [urlEntries EXCEPT ![urlPos] = url] /\ urlPending' = NoView
     /\ UNCHANGED urlRefusals
  \/ Refused /\ urlPending' = next /\ UNCHANGED urlEntries

\* replace, commitSettledCamera and flush.  `defer`: a camera-only change within the minimum
\* spacing or over the write budget; flush never defers.
Replace(next, defer) ==
  /\ Commit
  /\ urlState' = next /\ urlGeneration' = urlGeneration + 1
  /\ defer => next.place = href.place /\ next # href
  /\ IF next = href THEN urlPending' = NoView /\ UNCHANGED <<urlEntries, urlRefusals>>
     ELSE IF defer THEN urlPending' = next /\ UNCHANGED <<urlEntries, urlRefusals>>
     ELSE ReplaceNow(next, next)
  /\ UNCHANGED <<urlPos, urlRestores, urlDisposed>>

\* push: a deferred URL lands on the entry that is left, then the new entry is added; what
\* was ahead is gone.  Either write may be refused: the timer then writes the new view.
PushOnto(left, next) ==
  /\ urlPos < MaxEntries
  /\ \/ /\ urlEntries' = Append(SubSeq(left, 1, urlPos), next) /\ urlPos' = urlPos + 1
        /\ urlPending' = NoView /\ UNCHANGED urlRefusals
     \/ Refused /\ urlEntries' \in {left, urlEntries} /\ urlPending' = next /\ UNCHANGED urlPos
     \/ /\ urlPending # NoView /\ urlPending # href /\ Refused
        /\ urlEntries' = Append(SubSeq(urlEntries, 1, urlPos), next) /\ urlPos' = urlPos + 1
        /\ urlPending' = next
Landed == IF urlPending = NoView THEN urlEntries ELSE [urlEntries EXCEPT ![urlPos] = urlPending]
Push(next) ==
  /\ Commit
  /\ urlState' = next /\ urlGeneration' = urlGeneration + 1
  /\ PushOnto(Landed, next)
  /\ UNCHANGED <<urlRestores, urlDisposed>>

\* The timer, pagehide and flushUrl: the deferred URL is written if it is not there yet.
Flush ==
  /\ urlPending # NoView
  /\ IF urlPending = href THEN urlPending' = NoView /\ UNCHANGED <<urlEntries, urlRefusals>>
     ELSE ReplaceNow(urlPending, urlState)
  /\ UNCHANGED <<urlPos, urlState, urlGeneration, urlRestores, urlDisposed, urlCommits>>

TravelWithPending(to) ==
  /\ Commit /\ to \in 1 .. Len(urlEntries) /\ to # urlPos
  /\ urlPos' = to /\ urlGeneration' = urlGeneration + 1
  /\ urlRestores' = urlRestores \cup {[generation |-> urlGeneration + 1, view |-> urlEntries[to]]}
  /\ UNCHANGED <<urlEntries, urlState, urlPending, urlDisposed, urlRefusals>>

\* The user goes to another entry; popstate drops the deferred URL, which was of the entry
\* left, decodes the URL and starts to restore it.
Travel(to) ==
  /\ Commit /\ to \in 1 .. Len(urlEntries) /\ to # urlPos
  /\ urlPos' = to /\ urlGeneration' = urlGeneration + 1
  /\ urlPending' = NoView
  /\ urlRestores' = urlRestores \cup {[generation |-> urlGeneration + 1, view |-> urlEntries[to]]}
  /\ UNCHANGED <<urlEntries, urlState, urlDisposed, urlRefusals>>

\* A restore ends: the last one, with no commit since, becomes the view, and its URL is
\* written in canonical form (the same view).
RestoreEnds(r) ==
  /\ r \in urlRestores /\ urlRestores' = urlRestores \ {r}
  /\ IF r.generation = urlGeneration
     THEN urlState' = r.view /\ urlEntries' = [urlEntries EXCEPT ![urlPos] = r.view]
     ELSE UNCHANGED <<urlState, urlEntries>>
  /\ UNCHANGED <<urlPos, urlPending, urlGeneration, urlDisposed, urlCommits, urlRefusals>>

Dispose ==
  /\ ~urlDisposed /\ urlDisposed' = TRUE /\ urlGeneration' = urlGeneration + 1
  /\ IF urlPending = NoView \/ urlPending = href
     THEN urlPending' = NoView /\ UNCHANGED <<urlEntries, urlRefusals>>
     ELSE ReplaceNow(urlPending, urlState)
  /\ UNCHANGED <<urlPos, urlState, urlRestores, urlCommits>>

UrlNext ==
  \/ \E v \in Views : Push(v) \/ \E defer \in BOOLEAN : Replace(v, defer)
  \/ Flush \/ Dispose
  \/ \E to \in 1 .. MaxEntries : Travel(to)
  \/ \E r \in urlRestores : RestoreEnds(r)

UrlSpec == UrlInit /\ [][UrlNext]_urlVars

\* The timer fires, and a restore comes to an end.
UrlFairSpec == UrlSpec /\ WF_urlVars(Flush) /\ WF_urlVars(\E r \in urlRestores : RestoreEnds(r))

-----------------------------------------------------------------------------
(* Properties.                                                             *)

\* A deferred URL is always that of the view in memory, so it never lands on an entry the
\* user has left or come back to; with nothing deferred and no restore under way the
\* address bar shows the view in memory, whatever was refused before.
UrlFollows ==
  /\ urlPending # NoView => urlPending = urlState
  /\ (urlPending = NoView /\ ~urlDisposed /\ \A r \in urlRestores : r.generation # urlGeneration)
       => href = urlState

\* The URL of an entry changes only while it is shown, and never because a restore ended: a
\* restore that was overtaken writes nothing over the entry shown by then.
EntriesKept ==
  /\ \A i \in 1 .. Len(urlEntries) :
       i # urlPos /\ i <= Len(urlEntries') /\ urlPos' # i => urlEntries'[i] = urlEntries[i]
  /\ urlRestores' # urlRestores /\ urlPos' = urlPos => urlEntries' = urlEntries

\* All of it, as what every step keeps.
UrlStep == UrlFollows' /\ EntriesKept

\* No step of the viewer leaves a deferred URL that is not of the view shown, or writes over
\* an entry of the history that is not.
UrlSafe == [][UrlStep]_urlVars

\* The address bar catches up with the view, unless the viewer is taken down.
UrlLands == href # urlState ~> (urlDisposed \/ href = urlState)

=============================================================================
