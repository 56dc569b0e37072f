---------------------------- MODULE ChapterFiles ----------------------------
(***************************************************************************)
(* The chapter files of one book and their index: the workbench, the       *)
(* narrator and the reconciliation work on them at once, other editors     *)
(* write the files behind their backs, and any of them may break off.      *)
(*                                                                         *)
(*   engine/writing-resource/chapter-index-lock.ts  the index lock         *)
(*   engine/writing-resource/chapter-layout.ts      synchronizeChapterLayout *)
(*   engine/writing-resource/file-store.ts          create, update, softDelete *)
(*   engine/writing-resource/chapter-reconcile.ts   reconcileChapterFiles  *)
(*   engine/writing-resource/service.ts             the words written      *)
(*   handlers/chapter-write.ts, pipeline-write-service.ts  the narrator    *)
(*   handlers/chapter-discard-range.ts              discardChapterFiles    *)
(*                                                                         *)
(* Texts are numbered in the order in which they reach the disk, so a      *)
(* larger number is a later text; equal texts have equal fingerprints.  A  *)
(* title stands for the whole file name, volume directory included.  A     *)
(* call is a session: one action per file operation and per await in which *)
(* another call can do something.                                          *)
(***************************************************************************)
EXTENDS Integers, FiniteSets

CONSTANTS Chapters,  \* chapter numbers
          Titles,    \* file names of a chapter, in the order of a listing
          Sessions,  \* calls in progress at most
          Words,     \* length of each text
          MaxTexts,  \* bound: texts written in a behaviour
          MaxCalls   \* bound: calls started in a behaviour

Texts == 1..MaxTexts
Paths == Chapters \X Titles

ASSUME TitlesAssumption == Titles \subseteq Nat
ASSUME WordsAssumption == MaxTexts \in Nat /\ Words \in [Texts -> Nat]
ASSUME SessionsAssumption == IsFiniteSet(Sessions)

VARIABLES files,      \* text of each file, 0 when there is no such file
          index,      \* chapters/index.json, NoEntry when the chapter is not in it
          log,        \* writing_log: words recorded for a chapter
          archive,    \* texts of a chapter in chapters/_discarded
          work,       \* what each call in progress holds
          texts,      \* texts written so far
          calls,      \* calls started so far
          acked,      \* history: latest text of a chapter that a call has saved
          newest,     \* history: latest text of a chapter, whoever wrote it
          grown,      \* history: words by which the texts of a chapter have grown
          external,   \* history: texts written by another editor
          gone,       \* history: chapters discarded and not written since
          miscounted  \* history: chapters whose count the known limits may spoil

vars == <<files, index, log, archive, work, texts, calls, acked, newest, grown, external,
          gone, miscounted>>

NoEntry == [title |-> -1, text |-> 0, fresh |-> FALSE]
Idle == [kind |-> "none", step |-> "idle", chapter |-> 0, title |-> -1, content |-> FALSE,
         base |-> 0, previous |-> 0, text |-> 0, fresh |-> FALSE]

Init ==
  /\ files = [p \in Paths |-> 0]
  /\ index = [c \in Chapters |-> NoEntry]
  /\ log = [c \in Chapters |-> 0]
  /\ archive = [c \in Chapters |-> {}]
  /\ work = [s \in Sessions |-> Idle]
  /\ texts = 0
  /\ calls = 0
  /\ acked = [c \in Chapters |-> 0]
  /\ newest = [c \in Chapters |-> 0]
  /\ grown = [c \in Chapters |-> 0]
  /\ external = {}
  /\ gone = {}
  /\ miscounted = {}

-----------------------------------------------------------------------------
(* Files and index. *)

WordCount(t) == IF t = 0 THEN 0 ELSE Words[t]

Growth(from, to) == IF to > from THEN to - from ELSE 0

TitlesOf(c) == {t \in Titles : files[<<c, t>>] # 0}

TextsOf(c) == {files[<<c, t>>] : t \in TitlesOf(c)}

First(T) == CHOOSE t \in T : \A u \in T : t <= u

\* synchronizeChapterLayout: files of a chapter that the index does not know are taken up.
Synchronized(c) ==
  IF index[c] = NoEntry /\ TitlesOf(c) # {}
  THEN LET t == First(TitlesOf(c)) IN [title |-> t, text |-> files[<<c, t>>], fresh |-> TRUE]
  ELSE index[c]

SynchronizedIndex == [c \in Chapters |-> Synchronized(c)]

\* findAcceptedChapter: the text comes from the file, the words from the index.
HasText(c) == Synchronized(c) # NoEntry /\ files[<<c, Synchronized(c).title>>] # 0

TextOf(c) == IF HasText(c) THEN files[<<c, Synchronized(c).title>>] ELSE 0

WordsOf(c) == IF HasText(c) THEN WordCount(Synchronized(c).text) ELSE 0

-----------------------------------------------------------------------------
(* Locks. *)

InIndexLock == {"body", "index", "unlink", "recordLocked", "dropEntry", "soft", "softDrop",
                "move", "prune"}

\* Slip: the lock is given back before the index is written.
LockFree_UntilIndex == \A s \in Sessions : work[s].step \notin InIndexLock \ {"index"}

\* withChapterIndexLock
LockFree == \A s \in Sessions : work[s].step \notin InIndexLock

\* acquireBookLock: chapter.write after its first read, pipeline.write throughout.
HoldsBookLock(s) ==
  \/ work[s].kind = "pipeline"
  \/ work[s].kind = "lineEdit" /\ work[s].step # "check"

BookLockFree == \A s \in Sessions : ~HoldsBookLock(s)

\* BookProvision.withChapterIndexLock, of the workspace routes and the reconciliation.
WorkspaceLockFree == \A s \in Sessions : work[s].kind \notin {"save", "create"}

Starts(s) ==
  /\ work[s] = Idle
  /\ calls < MaxCalls
  /\ calls' = calls + 1

History == <<acked, newest, grown, external, gone, miscounted>>
Disk == <<files, log, archive, texts>>

-----------------------------------------------------------------------------
(* Calls up to the index lock. *)

\* saveWorkspaceResource
save(s, c) ==
  /\ Starts(s) /\ LockFree /\ WorkspaceLockFree
  /\ HasText(c)
  /\ index' = SynchronizedIndex
  /\ work' = [work EXCEPT ![s] =
       [Idle EXCEPT !.kind = "save", !.step = "update", !.chapter = c,
                    !.title = Synchronized(c).title, !.content = TRUE,
                    !.previous = WordsOf(c)]]
  /\ UNCHANGED <<Disk, History>>

\* PUT of a resource: another title, with or without a new text.
retitle(s, c, title, content) ==
  /\ Starts(s) /\ LockFree
  /\ HasText(c)
  /\ index' = SynchronizedIndex
  /\ work' = [work EXCEPT ![s] =
       [Idle EXCEPT !.kind = "retitle", !.step = "update", !.chapter = c, !.title = title,
                    !.content = content, !.previous = WordsOf(c)]]
  /\ UNCHANGED <<Disk, History>>

\* createWorkspaceChapter: the number after the last one in the list.
create(s, c, title) ==
  /\ Starts(s) /\ LockFree /\ WorkspaceLockFree
  /\ \A d \in Chapters : d >= c => ~HasText(d)
  /\ \A d \in Chapters : d < c => HasText(d)
  /\ index' = SynchronizedIndex
  /\ work' = [work EXCEPT ![s] =
       [Idle EXCEPT !.kind = "create", !.step = "update", !.chapter = c, !.title = title,
                    !.content = TRUE]]
  /\ UNCHANGED <<Disk, History>>

\* chapter.line_edit reads the chapter whose lines it replaces.
lineEdit(s, c) ==
  /\ Starts(s) /\ LockFree
  /\ HasText(c)
  /\ index' = SynchronizedIndex
  /\ work' = [work EXCEPT ![s] =
       [Idle EXCEPT !.kind = "lineEdit", !.step = "check", !.chapter = c,
                    !.title = Synchronized(c).title, !.content = TRUE, !.base = TextOf(c)]]
  /\ UNCHANGED <<Disk, History>>

\* handleChapterWrite compares the fingerprint it was given with that of the text.
checkHash(s) ==
  /\ work[s].step = "check"
  /\ LockFree /\ BookLockFree
  /\ index' = SynchronizedIndex
  /\ work' = [work EXCEPT ![s] = IF TextOf(work[s].chapter) = work[s].base
                                 THEN [@ EXCEPT !.step = "previous"] ELSE Idle]
  /\ UNCHANGED <<Disk, calls, History>>

\* After the validation it reads the chapter again for its words.
readPrevious(s) ==
  /\ work[s].step = "previous"
  /\ LockFree
  /\ index' = SynchronizedIndex
  /\ work' = [work EXCEPT ![s] = [@ EXCEPT !.step = "update",
                                           !.previous = WordsOf(work[s].chapter)]]
  /\ UNCHANGED <<Disk, calls, History>>

\* pipeline.write reads the chapter, which need not exist, before anything else.
pipelineWrite(s, c, title) ==
  /\ Starts(s) /\ LockFree /\ BookLockFree
  /\ index' = SynchronizedIndex
  /\ work' = [work EXCEPT ![s] =
       [Idle EXCEPT !.kind = "pipeline", !.step = "compare", !.chapter = c, !.title = title,
                    !.content = TRUE, !.base = TextOf(c)]]
  /\ UNCHANGED <<Disk, History>>

-----------------------------------------------------------------------------
(* Writing a text, in the index lock. *)

\* Slip: the fingerprint is compared where there is a chapter on both sides only.
SameFingerprint_IfBoth(w) == w.base = 0 \/ ~HasText(w.chapter) \/ TextOf(w.chapter) = w.base

SameFingerprint(w) == TextOf(w.chapter) = w.base

\* Read, compare and write in one go.
comparePipeline(s) ==
  /\ work[s].step = "compare"
  /\ LockFree
  /\ index' = SynchronizedIndex
  /\ work' = [work EXCEPT ![s] =
                IF SameFingerprint(work[s])
                THEN [@ EXCEPT !.step = "body", !.previous = WordsOf(work[s].chapter)] ELSE Idle]
  /\ UNCHANGED <<Disk, calls, History>>

\* file-store update and create: a chapter that is not in the index is only created.
lockUpdate(s) ==
  /\ work[s].step = "update"
  /\ LockFree
  /\ LET c == work[s].chapter
         there == Synchronized(c) # NoEntry
     IN  /\ index' = SynchronizedIndex
         /\ work' = [work EXCEPT ![s] = IF there \/ @.kind = "create"
                                        THEN [@ EXCEPT !.step = "body"] ELSE Idle]
         /\ miscounted' = IF WordsOf(c) # work[s].previous THEN miscounted \cup {c}
                                                           ELSE miscounted
  /\ UNCHANGED <<Disk, calls, acked, newest, grown, external, gone>>

\* Slip: the file is renamed, as it used to be.
WithBody_Renamed(c, old, new, t) ==
  [files EXCEPT ![<<c, old>>] = 0, ![<<c, new>>] = t]

\* A file whose name does not change is replaced atomically.
WithBody(c, old, new, t) == IF t = 0 THEN files ELSE [files EXCEPT ![<<c, new>>] = t]

OldTitle(s) == IF index[work[s].chapter] = NoEntry THEN work[s].title
                                                   ELSE index[work[s].chapter].title

\* The new text, or the old file's when only the title changes; if that is missing, the
\* text that the new name already has.
writeBody(s) ==
  /\ work[s].step = "body"
  /\ work[s].content => texts < MaxTexts
  /\ LET c == work[s].chapter
         own == IF work[s].content THEN texts + 1 ELSE files[<<c, OldTitle(s)>>]
         t == IF own = 0 THEN files[<<c, work[s].title>>] ELSE own
     IN  /\ files' = WithBody(c, OldTitle(s), work[s].title, t)
         /\ index' = [index EXCEPT ![c].fresh = @ /\ work[s].title # OldTitle(s)]
         /\ work' = [work EXCEPT ![s].step = "index", ![s].text = t, ![s].fresh = TRUE]
         /\ newest' = [newest EXCEPT ![c] = IF work[s].content THEN t ELSE @]
         /\ grown' = [grown EXCEPT ![c] =
                        IF work[s].content THEN @ + Growth(WordCount(newest[c]), WordCount(t))
                                           ELSE @]
         /\ gone' = gone \ {c}
  /\ texts' = IF work[s].content THEN texts + 1 ELSE texts
  /\ UNCHANGED <<log, archive, calls, acked, external, miscounted>>

\* The entry carries the fingerprint of the text written and the time of the file.
writeIndex(s) ==
  /\ work[s].step = "index"
  /\ LET w == work[s]
         after == IF w.title # OldTitle(s) THEN "unlink"
                  ELSE IF w.kind = "pipeline" THEN "recordLocked" ELSE "record"
     IN  /\ index' = [index EXCEPT ![w.chapter] =
                        [title |-> w.title, text |-> w.text, fresh |-> w.fresh]]
         /\ work' = [work EXCEPT ![s].step = after, ![s].title = OldTitle(s)]
         /\ acked' = [acked EXCEPT ![w.chapter] = IF w.content THEN w.text ELSE @]
  /\ UNCHANGED <<Disk, calls, newest, grown, external, gone, miscounted>>

\* removeSupersededFile: a file that cannot be deleted stays, with a warning.
removeSuperseded(s) ==
  /\ work[s].step = "unlink"
  /\ \/ files' = [files EXCEPT ![<<work[s].chapter, work[s].title>>] = 0]
     \/ UNCHANGED files
  /\ work' = [work EXCEPT ![s].step = IF work[s].kind = "pipeline" THEN "recordLocked" ELSE "record"]
  /\ UNCHANGED <<index, log, archive, texts, calls, History>>

\* recordAcceptedChapterDelta: what the text is longer than the one read before.
record(s) ==
  /\ work[s].step \in {"record", "recordLocked"}
  /\ log' = [log EXCEPT ![work[s].chapter] =
               @ + Growth(work[s].previous, WordCount(work[s].text))]
  /\ work' = [work EXCEPT ![s] = Idle]
  /\ UNCHANGED <<files, index, archive, texts, calls, History>>

-----------------------------------------------------------------------------
(* Deleting a chapter, and discarding it. *)

\* The chapter, when it has a file that the index does not name.
Leaving(c) == IF TitlesOf(c) \subseteq {Synchronized(c).title} THEN {} ELSE {c}

\* softDelete: the file first; if it cannot be deleted nothing changes.
softDelete(s, c) ==
  /\ Starts(s) /\ LockFree
  /\ HasText(c)
  /\ index' = SynchronizedIndex
  /\ files' = [files EXCEPT ![<<c, Synchronized(c).title>>] = 0]
  /\ work' = [work EXCEPT ![s] = [Idle EXCEPT !.kind = "delete", !.step = "dropEntry",
                                              !.chapter = c]]
  /\ acked' = [acked EXCEPT ![c] = 0]
  /\ newest' = [newest EXCEPT ![c] = 0]
  /\ miscounted' = miscounted \cup Leaving(c)
  /\ UNCHANGED <<log, archive, texts, grown, external, gone>>

dropEntry(s) ==
  /\ work[s].step \in {"dropEntry", "softDrop"}
  /\ index' = [index EXCEPT ![work[s].chapter] = NoEntry]
  /\ work' = [work EXCEPT ![s] = IF @.step = "softDrop" THEN [@ EXCEPT !.step = "move"]
                                                        ELSE Idle]
  /\ UNCHANGED <<Disk, calls, History>>

\* discardChapterFiles: copy the files of the chapter ...
discard(s, c) ==
  /\ Starts(s) /\ LockFree
  /\ archive' = [archive EXCEPT ![c] = @ \cup TextsOf(c)]
  /\ work' = [work EXCEPT ![s] = [Idle EXCEPT !.kind = "discard", !.step = "soft",
                                              !.chapter = c, !.fresh = TRUE]]
  /\ UNCHANGED <<files, index, log, texts, History>>

\* ... delete the chapter the index has, if that works ...
discardSoftDelete(s) ==
  /\ work[s].step = "soft"
  /\ index' = SynchronizedIndex
  /\ LET c == work[s].chapter
     IN  \/ /\ HasText(c)
            /\ files' = [files EXCEPT ![<<c, Synchronized(c).title>>] = 0]
            /\ work' = [work EXCEPT ![s].step = "softDrop"]
            /\ newest' = [newest EXCEPT ![c] = 0]
            /\ miscounted' = miscounted \cup Leaving(c)
         \/ /\ work' = [work EXCEPT ![s].step = "move"]
            /\ UNCHANGED <<files, newest, miscounted>>
  /\ UNCHANGED <<log, archive, texts, calls, acked, grown, external, gone>>

\* Slip: the chapter's files are taken to be done with.
Leftovers_None(c) == {}

Leftovers(c) == TitlesOf(c)

\* ... move what is left of it ...
discardMove(s) ==
  /\ work[s].step = "move"
  /\ LET c == work[s].chapter
         left == Leftovers(c)
     IN  /\ archive' = [archive EXCEPT ![c] = @ \cup {files[<<c, t>>] : t \in left}]
         /\ files' = [p \in Paths |-> IF p[1] = c /\ p[2] \in left THEN 0 ELSE files[p]]
         /\ newest' = [newest EXCEPT ![c] = 0]
  /\ work' = [work EXCEPT ![s].step = "prune"]
  /\ UNCHANGED <<index, log, texts, calls, acked, grown, external, gone, miscounted>>

\* ... and drop it from the index.
discardPrune(s) ==
  /\ work[s].step = "prune"
  /\ LET c == work[s].chapter
     IN  /\ index' = [index EXCEPT ![c] = NoEntry]
         /\ gone' = IF work[s].fresh THEN gone \cup {c} ELSE gone
  /\ work' = [work EXCEPT ![s] = Idle]
  /\ UNCHANGED <<Disk, calls, acked, newest, grown, external, miscounted>>

-----------------------------------------------------------------------------
(* What happens without a call. *)

\* A file operation or the database throws, or the process ends.
stops(s) ==
  /\ work[s] # Idle
  /\ work' = [work EXCEPT ![s] = Idle]
  /\ UNCHANGED <<index, Disk, calls, History>>

\* Listing or reading chapters takes up files that are not in the index.
list ==
  /\ LockFree
  /\ index' = SynchronizedIndex
  /\ UNCHANGED <<Disk, work, calls, History>>

\* Another editor or a general tool writes a chapter's file, or a new one.
writeExternally(c, t) ==
  /\ texts < MaxTexts
  /\ files[<<c, t>>] # 0 \/ TitlesOf(c) = {}
  /\ files' = [files EXCEPT ![<<c, t>>] = texts + 1]
  /\ index' = [index EXCEPT ![c].fresh = @ /\ index[c].title # t]
  /\ work' = [s \in Sessions |->
                IF work[s].chapter = c /\ (work[s].title = t \/ work[s].kind = "discard")
                THEN [work[s] EXCEPT !.fresh = FALSE] ELSE work[s]]
  /\ texts' = texts + 1
  /\ newest' = [newest EXCEPT ![c] = texts + 1]
  /\ grown' = [grown EXCEPT ![c] = @ + Growth(WordCount(newest[c]), WordCount(texts + 1))]
  /\ external' = external \cup {texts + 1}
  /\ gone' = gone \ {c}
  /\ UNCHANGED <<log, archive, calls, acked, miscounted>>

\* Slip: only chapters that the index does not know count as changed.
Changed_New(c) == HasText(c) /\ index[c] = NoEntry

\* Chapters whose file is not the one the index has seen.
Changed(c) ==
  /\ HasText(c)
  /\ index[c] = NoEntry \/ (~index[c].fresh /\ index[c].text # TextOf(c))

\* Slip: a chapter is compared with nothing, as if it were new.
WordsBefore_FromZero(c) == 0

WordsBefore(c) == IF index[c] = NoEntry THEN 0 ELSE WordCount(index[c].text)

\* reconcileBookChapters.  The index is written first; counted is FALSE when the process
\* ends, or the database throws, before the changes are recorded.
reconcile(counted) ==
  /\ LockFree /\ WorkspaceLockFree /\ BookLockFree
  /\ index' = [c \in Chapters |->
                 IF HasText(c)
                 THEN [Synchronized(c) EXCEPT !.text = IF Changed(c) THEN TextOf(c) ELSE @,
                                              !.fresh = TRUE]
                 ELSE index[c]]
  /\ log' = IF counted
            THEN [c \in Chapters |->
                    IF Changed(c) THEN log[c] + Growth(WordsBefore(c), WordCount(TextOf(c)))
                                  ELSE log[c]]
            ELSE log
  /\ UNCHANGED <<files, archive, work, texts, calls, History>>

-----------------------------------------------------------------------------

Call(s) ==
  \/ \E c \in Chapters : save(s, c) \/ lineEdit(s, c) \/ softDelete(s, c) \/ discard(s, c)
  \/ \E c \in Chapters, t \in Titles : create(s, c, t) \/ pipelineWrite(s, c, t)
  \/ \E c \in Chapters, t \in Titles, content \in BOOLEAN : retitle(s, c, t, content)

Step(s) ==
  \/ checkHash(s) \/ readPrevious(s) \/ comparePipeline(s) \/ lockUpdate(s)
  \/ writeBody(s) \/ writeIndex(s) \/ removeSuperseded(s) \/ record(s)
  \/ dropEntry(s) \/ discardSoftDelete(s) \/ discardMove(s) \/ discardPrune(s)

Next ==
  \/ \E s \in Sessions : Call(s) \/ Step(s) \/ stops(s)
  \/ list
  \/ \E c \in Chapters, t \in Titles : writeExternally(c, t)
  \/ \E counted \in BOOLEAN : reconcile(counted)

Spec == Init /\ [][Next]_vars

(***************************************************************************)
(* A call goes on until it returns or fails, and the open workbench asks   *)
(* for a reconciliation every few seconds.                                 *)
(***************************************************************************)
Fairness ==
  /\ \A s \in Sessions : WF_vars(Step(s) \/ stops(s))
  /\ WF_vars(\E counted \in BOOLEAN : reconcile(counted))

FairSpec == Spec /\ Fairness

-----------------------------------------------------------------------------
(* Properties. *)

WorkType ==
  [kind : {"none", "save", "retitle", "create", "lineEdit", "pipeline", "delete", "discard"},
   step : InIndexLock \cup {"idle", "update", "check", "previous", "compare", "record"},
   chapter : Chapters \cup {0}, title : Titles \cup {-1}, content : BOOLEAN,
   base : Texts \cup {0}, previous : Nat, text : Texts \cup {0}, fresh : BOOLEAN]

\* Types; and withChapterIndexLock: at most one call is between the reading of the index
\* and its writing.
TypeOK ==
  /\ files \in [Paths -> Texts \cup {0}]
  /\ index \in [Chapters -> [title : Titles \cup {-1}, text : Texts \cup {0}, fresh : BOOLEAN]]
  /\ work \in [Sessions -> WorkType]
  /\ Cardinality({s \in Sessions : work[s].step \in InIndexLock}) <= 1
  /\ log \in [Chapters -> Nat]
  /\ \A c \in Chapters : archive[c] \subseteq Texts /\ acked[c] \in Texts \cup {0}

\* Whichever step of whichever call fails, the text saved last, or a later one, is in the
\* chapter's file or, after a discard, in the archive: files are renamed by writing the new
\* one, then the index, then deleting the old one.
NoSavedTextLost ==
  \A c \in Chapters : acked[c] # 0 => \E t \in archive[c] \cup {TextOf(c)} : t >= acked[c]

\* No word is counted twice, however external changes, saves, broken-off saves and
\* reconciliations follow each other, where the count does not start from a chapter that
\* changed meanwhile or was deleted with a file left over.
NoWordCountedTwice == \A c \in Chapters \ miscounted : log[c] <= grown[c]

\* A discarded chapter does not come back: neither a file left over from a change of title
\* nor a call that had read the chapter before brings it back.
DiscardedStayDiscarded == \A c \in gone : index[c] = NoEntry /\ TitlesOf(c) = {}

\* The text this step replaces is the one the call has read, or another editor's.
ReplacesWhatItRead(s) ==
  \/ TextOf(work[s].chapter) = work[s].base
  \/ TextOf(work[s].chapter) \in external

\* pipeline.write never replaces a text that was saved while it was generating, and does not
\* bring back a chapter deleted meanwhile.
PipelineKeepsSaves ==
  [][\A s \in Sessions :
       writeBody(s) /\ work[s].kind = "pipeline" => ReplacesWhatItRead(s)]_vars

\* chapter.line_edit never replaces a text that was saved after it read the chapter.
LineEditKeepsSaves ==
  [][\A s \in Sessions :
       writeBody(s) /\ work[s].kind = "lineEdit" /\ HasText(work[s].chapter)
       => ReplacesWhatItRead(s)]_vars

\* Whatever breaks off and whoever writes, the index comes to describe the texts on disk.
IndexFollowsFiles ==
  <>[](\A c \in Chapters :
         TitlesOf(c) # {} => index[c] # NoEntry /\ (HasText(c) => index[c].text = TextOf(c)))
=============================================================================
