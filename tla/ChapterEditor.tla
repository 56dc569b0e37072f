---------------------------- MODULE ChapterEditor ----------------------------
(***************************************************************************)
(* One chapter in a tab of the writing workbench: the author types, the    *)
(* page saves after a pause and polls the book for changes made elsewhere. *)
(*                                                                         *)
(*   pages/writing-workbench/use-resource-autosave.ts  the save session    *)
(*   pages/writing-workbench/use-chapter-reconcile.ts  the poll            *)
(*   pages/writing-workbench/ide/IdeWorkbench.tsx      tabs and their texts *)
(*   studio/.../RuntimeWritingWorkbenchRoute.tsx       handleSave          *)
(*   product-runtime/src/services/book-provision.ts    the change feed     *)
(*                                                                         *)
(* Texts are numbered; a new one gets the next number.  The tab is one of  *)
(* the file tree, so what it shows comes from loadedFiles (cache).  The    *)
(* reply to a read is taken in the step in which the file is read.  The    *)
(* feed is far shorter than its limit of 200 entries and never truncated.  *)
(***************************************************************************)
EXTENDS Integers, FiniteSets

CONSTANTS MaxTexts,         \* bound: texts made in a behaviour
          MaxMishaps,       \* bound: requests that fail and restarts of the server
          ReopenWhileDirty  \* the author opens the chapter again over an unsaved draft

ASSUME BoundsAssumption == MaxTexts \in Nat /\ MaxMishaps \in Nat /\ ReopenWhileDirty \in BOOLEAN

None == 0
Texts == 1..MaxTexts

VARIABLES disk,       \* text of the chapter file
          indexed,    \* text whose fingerprint is in the chapter index
          epoch,      \* chapterChangeEpoch: life of the server process
          feed,       \* revision of the change feed
          cursor,     \* what the page knows of the feed
          poll,       \* the poll in flight
          reads,      \* reads of the file in flight
          cache,      \* loadedFiles: the tab's text, None while the tab is closed
          session,    \* SaveSession of the tab
          saves,      \* saves in flight
          texts,      \* texts made so far
          mishaps,    \* mishaps so far
          told,       \* history: texts the author was told of
          overlooked  \* history: texts that reached the disk in a way no poll reports

vars == <<disk, indexed, epoch, feed, cursor, poll, reads, cache, session, saves, texts,
          mishaps, told, overlooked>>

server == <<disk, indexed, epoch, feed>>
page == <<cursor, poll, reads, cache, session, saves>>
history == <<told, overlooked>>

NoPoll == [stage |-> "none", since |-> 0, epoch |-> 0, revision |-> 0, changed |-> FALSE,
           text |-> None]

\* useMemo: the session of a tab just opened on text t.
Session(t) == [content |-> t, saved |-> t, source |-> t, dirty |-> FALSE, error |-> FALSE,
               timer |-> FALSE, queued |-> FALSE]

Init ==
  /\ disk = 1 /\ indexed = 1
  /\ epoch = 1 /\ feed = 0
  /\ cursor = [epoch |-> 1, revision |-> 0]
  /\ poll = NoPoll
  /\ reads = {}
  /\ cache = None
  /\ session = Session(None)
  /\ saves = {}
  /\ texts = 1
  /\ mishaps = 0
  /\ told = {}
  /\ overlooked = {}

Open == cache # None
InFlight == \E r \in saves : r.own
Mishap == mishaps < MaxMishaps /\ mishaps' = mishaps + 1

-----------------------------------------------------------------------------
(* The save session. *)

\* Slip: the tab takes every text it is given.
Shown_Always(s, t) == [s EXCEPT !.source = t, !.content = t, !.saved = t]

\* The effect on the node: a text not seen before replaces the content of a quiet tab.
Shown(s, t) ==
  IF s.source = t THEN s
  ELSE IF s.dirty THEN [s EXCEPT !.source = t]
  ELSE [s EXCEPT !.source = t, !.content = t, !.saved = t]

\* setContent; what the author undoes to is what the tab showed before.
setContent(t) ==
  LET dirty == InFlight \/ t # session.saved
  IN  /\ Open /\ t # session.content
      /\ session' = [session EXCEPT !.content = t, !.dirty = dirty, !.error = FALSE,
                                    !.timer = dirty]

type ==
  /\ texts < MaxTexts
  /\ texts' = texts + 1
  /\ setContent(texts + 1)
  /\ UNCHANGED <<server, cursor, poll, reads, cache, saves, mishaps, history>>

undo ==
  /\ \E t \in {session.saved, cache} \ {None} : setContent(t)
  /\ UNCHANGED <<server, cursor, poll, reads, cache, saves, texts, mishaps, history>>

Send(s) == [s EXCEPT !.queued = FALSE, !.error = FALSE]
Request(s) == [text |-> s.content, own |-> TRUE, applied |-> FALSE]

\* Slip: a save asked for while another is in flight is forgotten.
flush_Once ==
  /\ session.timer \/ session.dirty
  /\ Open
  /\ IF session.dirty /\ ~InFlight
     THEN /\ session' = Send([session EXCEPT !.timer = FALSE])
          /\ saves' = saves \cup {Request(session)}
     ELSE /\ session' = [session EXCEPT !.timer = FALSE]
          /\ UNCHANGED saves

\* flush: the pause is over, or the author asks for a save.
flush ==
  /\ session.timer \/ session.dirty
  /\ Open
  /\ IF session.dirty /\ ~InFlight
     THEN /\ session' = Send([session EXCEPT !.timer = FALSE])
          /\ saves' = saves \cup {Request(session)}
     ELSE /\ session' = [session EXCEPT !.timer = FALSE, !.queued = session.dirty]
          /\ UNCHANGED saves

autosave ==
  /\ session.timer
  /\ flush
  /\ UNCHANGED <<server, cursor, poll, reads, cache, texts, mishaps, history>>

save ==
  /\ session.dirty
  /\ flush
  /\ UNCHANGED <<server, cursor, poll, reads, cache, texts, mishaps, history>>

\* The reply confirms the text that was sent; what was typed since is saved next.
Confirmed(r) ==
  LET s == [session EXCEPT !.saved = r.text, !.dirty = session.content # r.text]
      more == s.queued /\ s.dirty
      t == IF more THEN Send(s) ELSE s
  IN  /\ saves' = (saves \ {r}) \cup (IF more THEN {Request(s)} ELSE {})
      /\ session' = IF more THEN [t EXCEPT !.source = r.text] ELSE Shown(t, r.text)

\* handleSaveWithProgress: also the save of a tab closed since renews the cached text.
saveDone(own) ==
  /\ \E r \in saves :
        /\ r.applied /\ r.own = own
        /\ cache' = IF Open THEN r.text ELSE None
        /\ IF own
           THEN Confirmed(r) /\ UNCHANGED overlooked
           ELSE /\ saves' = saves \ {r}
                /\ session' = IF Open THEN Shown(session, r.text) ELSE session
                /\ overlooked' = overlooked \cup {disk}
  /\ UNCHANGED <<server, cursor, poll, reads, texts, mishaps, told>>

\* Slip: the text saved last is taken for what is on the disk.
AfterFailure_KeepsSaved(s) == [s EXCEPT !.error = TRUE, !.dirty = s.content # s.saved,
                                        !.queued = FALSE, !.timer = FALSE]

\* The disk may have the text or not: nothing counts as saved.
AfterFailure(s) == [s EXCEPT !.saved = None, !.error = TRUE, !.dirty = TRUE, !.queued = FALSE,
                             !.timer = FALSE]

saveFails ==
  /\ Mishap
  /\ \E r \in saves :
        /\ saves' = saves \ {r}
        /\ session' = IF r.own THEN AfterFailure(session) ELSE session
  /\ UNCHANGED <<server, cursor, poll, reads, cache, texts, history>>

-----------------------------------------------------------------------------
(* The tab. *)

handleOpen ==
  /\ ReopenWhileDirty \/ ~session.dirty
  /\ [for |-> "open", expect |-> None] \notin reads
  /\ reads' = reads \cup {[for |-> "open", expect |-> None]}
  /\ UNCHANGED <<server, cursor, poll, cache, session, saves, texts, mishaps, history>>

openTab ==
  /\ \E r \in reads :
        /\ r.for = "open"
        /\ ReopenWhileDirty \/ ~session.dirty
        /\ reads' = reads \ {r}
        /\ cache' = disk
        /\ session' = IF Open THEN Shown(session, disk) ELSE Session(disk)
  /\ UNCHANGED <<server, cursor, poll, saves, texts, mishaps, history>>

\* A changed chapter is read before it is replaced; a draft begun meanwhile stays.
replaceText ==
  /\ \E r \in reads :
        /\ r.for = "changed"
        /\ reads' = reads \ {r}
        /\ overlooked' = IF session.dirty THEN overlooked \cup {r.expect} ELSE overlooked
        /\ IF Open /\ ~session.dirty
           THEN cache' = disk /\ session' = Shown(session, disk)
           ELSE UNCHANGED <<cache, session>>
  /\ UNCHANGED <<server, cursor, poll, saves, texts, mishaps, told>>

readFails ==
  /\ Mishap
  /\ \E r \in reads :
        /\ reads' = reads \ {r}
        /\ overlooked' = overlooked \cup ({r.expect} \ {None})
  /\ UNCHANGED <<server, cursor, poll, cache, session, saves, texts, told>>

\* handleCloseTabs: a draft is given up; a save that was sent goes on without the tab.
closeTab ==
  /\ Open
  /\ cache' = None
  /\ session' = Session(None)
  /\ saves' = {[r EXCEPT !.own = FALSE] : r \in saves}
  /\ UNCHANGED <<server, cursor, poll, reads, texts, mishaps, history>>

-----------------------------------------------------------------------------
(* The poll. *)

tick ==
  /\ poll = NoPoll
  /\ poll' = [NoPoll EXCEPT !.stage = "sent", !.since = cursor.revision]
  /\ UNCHANGED <<server, cursor, reads, cache, session, saves, texts, mishaps, history>>

\* onChanges: the author is told, or the tab reads the new text.
Noticed(t) ==
  /\ told' = IF session.dirty THEN told \cup {t} ELSE told
  /\ reads' = IF Open /\ ~session.dirty THEN reads \cup {[for |-> "changed", expect |-> t]}
              ELSE reads

\* After a restart what happened before it is not known; the tab is left as it is.
pollDone ==
  /\ poll.stage = "answered"
  /\ cursor' = [epoch |-> poll.epoch, revision |-> poll.revision]
  /\ poll' = NoPoll
  /\ IF poll.epoch # cursor.epoch
     THEN overlooked' = overlooked \cup {poll.text} /\ UNCHANGED <<told, reads>>
     ELSE /\ UNCHANGED overlooked
          /\ IF poll.changed THEN Noticed(poll.text) ELSE UNCHANGED <<told, reads>>
  /\ UNCHANGED <<server, cache, session, saves, texts, mishaps>>

pollFails ==
  /\ Mishap
  /\ poll # NoPoll
  /\ poll' = NoPoll
  /\ UNCHANGED <<server, cursor, reads, cache, session, saves, texts, history>>

-----------------------------------------------------------------------------
(* The server. *)

NewRevision == IF disk # indexed THEN feed + 1 ELSE feed

\* reconcileBookChapters on behalf of somebody else (getWorkspace, a file written).
reconcile ==
  /\ disk # indexed
  /\ indexed' = disk
  /\ feed' = NewRevision
  /\ UNCHANGED <<disk, epoch, page, texts, mishaps, history>>

\* reconcileWorkspaceChapters: without the book lock the comparison is left out.
answerPoll ==
  /\ poll.stage = "sent"
  /\ \E free \in BOOLEAN :
        /\ indexed' = IF free THEN disk ELSE indexed
        /\ feed' = IF free THEN NewRevision ELSE feed
  /\ poll' = [poll EXCEPT !.stage = "answered", !.epoch = epoch, !.revision = feed',
                          !.changed = feed' > poll.since, !.text = indexed']
  /\ UNCHANGED <<disk, epoch, cursor, reads, cache, session, saves, texts, mishaps, history>>

\* saveWorkspaceResource writes the file and its fingerprint.
serveSave(own) ==
  /\ \E r \in saves :
        /\ ~r.applied /\ r.own = own
        /\ disk' = r.text /\ indexed' = r.text
        /\ saves' = (saves \ {r}) \cup {[r EXCEPT !.applied = TRUE]}
        /\ overlooked' = IF own THEN overlooked ELSE overlooked \cup {r.text}
  /\ UNCHANGED <<epoch, feed, cursor, poll, reads, cache, session, texts, mishaps, told>>

\* A write through the index: a domain tool of the narrator, or another window.
writeThroughIndex ==
  /\ texts < MaxTexts
  /\ texts' = texts + 1
  /\ disk' = texts' /\ indexed' = texts'
  /\ overlooked' = overlooked \cup {texts'}
  /\ UNCHANGED <<epoch, feed, page, mishaps, told>>

\* A write past the index: a general file tool, the Runtime's editor, another editor.
writePastIndex ==
  /\ texts < MaxTexts
  /\ texts' = texts + 1
  /\ disk' = texts'
  /\ UNCHANGED <<indexed, epoch, feed, page, mishaps, history>>

restart ==
  /\ Mishap
  /\ epoch' = epoch + 1
  /\ feed' = 0
  /\ UNCHANGED <<disk, indexed, page, texts, history>>

-----------------------------------------------------------------------------
Next ==
  \/ type \/ undo \/ autosave \/ save \/ saveFails
  \/ \E own \in BOOLEAN : serveSave(own) \/ saveDone(own)
  \/ handleOpen \/ openTab \/ replaceText \/ readFails \/ closeTab
  \/ tick \/ answerPoll \/ pollDone \/ pollFails
  \/ reconcile \/ writeThroughIndex \/ writePastIndex \/ restart

Spec == Init /\ [][Next]_vars

\* The pause after typing ends, and requests are answered or fail.
FairSpec ==
  /\ Spec
  /\ WF_vars(autosave)
  /\ WF_vars(serveSave(TRUE))
  /\ WF_vars(saveDone(TRUE))

-----------------------------------------------------------------------------
(* Properties. *)

Quiet == Open /\ ~session.dirty /\ saves = {} /\ reads = {} /\ poll = NoPoll

\* When nothing is under way and the last poll has seen everything, a tab that says
\* "saved" shows the text on the disk, unless the author was told of that text or it
\* came in a way no poll reports (a save that failed half-way, a draft the author took
\* back, an edit by another program: none may leave an older text in the tab).
QuietTabShowsDisk ==
  /\ Quiet
  /\ disk = indexed
  /\ cursor = [epoch |-> epoch, revision |-> feed]
  /\ disk \notin told \cup overlooked
  => session.content = disk

\* No reply of the server, to a save, a read or a poll, in whatever order they come,
\* replaces what the author has typed and not saved.
DraftIsKept ==
  [][Open /\ session.dirty /\ cache' # None /\ session'.content # session.content
       => UNCHANGED <<saves, reads, poll>>]_vars

\* A draft is saved once the author rests, also what was typed while a save was in flight,
\* unless a save fails and says so or the author closes the tab.
DraftGetsSaved ==
  \A t \in Texts :
    (Open /\ session.dirty /\ session.content = t)
      ~> (~Open \/ ~session.dirty \/ session.error \/ session.content # t)
=============================================================================
