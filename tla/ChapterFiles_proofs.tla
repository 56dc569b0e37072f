------------------------- MODULE ChapterFiles_proofs -------------------------
(***************************************************************************)
(* Safety of the chapter files, for any number of chapters, file names,    *)
(* calls in progress, texts and calls.                                     *)
(***************************************************************************)
EXTENDS ChapterFiles, TLAPS, FiniteSetTheorems, WellFoundedInduction

\* An entry of chapters/index.json.
EntryType == [title : Titles \cup {-1}, text : Texts \cup {0}, fresh : BOOLEAN]

\* The call is between reading the index and writing it.
InLock(s) == work[s].step \in InIndexLock

\* What a call in progress is about, and which steps belong to which kind of call.
WorkOK(w) ==
  /\ w.step # "idle" => w.chapter \in Chapters
  /\ w.step \in {"check", "previous", "update", "compare", "body", "index", "unlink"} =>
        w.title \in Titles
  /\ w.step \in {"check", "previous", "update"} => w.kind # "pipeline"
  /\ w.step \in {"soft", "softDrop", "move", "prune"} <=> w.kind = "discard"

\* At most one call is in the index lock.
WorkInv ==
  /\ work \in [Sessions -> WorkType]
  /\ \A s \in Sessions : WorkOK(work[s])
  /\ \A s, u \in Sessions : InLock(s) /\ InLock(u) => s = u

\* An entry names one of the file names.
IndexInv ==
  /\ index \in [Chapters -> EntryType]
  /\ \A c \in Chapters : index[c] = NoEntry \/ index[c].title \in Titles

\* Types of all the variables.
TypeInv ==
  /\ files \in [Paths -> Texts \cup {0}]
  /\ IndexInv
  /\ WorkInv
  /\ log \in [Chapters -> Nat]
  /\ archive \in [Chapters -> SUBSET Texts]
  /\ texts \in Nat /\ texts <= MaxTexts
  /\ acked \in [Chapters -> Texts \cup {0}]
  /\ newest \in [Chapters -> Texts \cup {0}]
  /\ grown \in [Chapters -> Nat]
  /\ gone \subseteq Chapters /\ miscounted \subseteq Chapters

-----------------------------------------------------------------------------
(* Operators. *)

\* What the absence of an entry looks like as a record.
LEMMA NoEntryFields == NoEntry.fresh = FALSE /\ [NoEntry EXCEPT !.fresh = FALSE] = NoEntry
  <1>1. NoEntry.fresh = FALSE
    BY DEF NoEntry
  <1>2. [NoEntry EXCEPT !.fresh = NoEntry.fresh] = NoEntry
    BY DEF NoEntry
  <1> QED
    BY <1>1, <1>2

\* The first of some file names is one of them.
LEMMA FirstIsOne ==
  ASSUME NEW T \in SUBSET Titles, T # {}
  PROVE  First(T) \in T
  <1>1. \E x \in T : \A y \in T : ~(<<y, x>> \in OpToRel(<, Nat))
    BY TitlesAssumption, NatLessThanWellFounded, WFMin
  <1>2. PICK x \in T : \A y \in T : ~(<<y, x>> \in OpToRel(<, Nat))
    BY <1>1
  <1>3. ASSUME NEW y \in T PROVE x <= y
    <2>1. x \in Nat /\ y \in Nat
      BY TitlesAssumption
    <2>2. y < x => <<y, x>> \in OpToRel(<, Nat)
      <3>1. <<y, x>> \in Nat \X Nat /\ <<y, x>>[1] = y /\ <<y, x>>[2] = x
        BY <2>1
      <3> QED
        BY <3>1 DEF OpToRel
    <2>3. ~(y < x)
      BY <1>2, <2>2, Zenon
    <2> QED
      BY <2>1, <2>3
  <1> QED
    BY <1>3 DEF First

\* Texts have lengths.
LEMMA WordCountType == \A t \in Texts \cup {0} : WordCount(t) \in Nat
  BY WordsAssumption DEF WordCount, Texts

\* A text grows by a number of words.
LEMMA GrowthType ==
  ASSUME NEW a \in Nat, NEW b \in Nat
  PROVE  Growth(a, b) \in Nat
  BY DEF Growth

\* What is in the index for a chapter, or taken up from its files.
LEMMA SynchronizedType ==
  ASSUME TypeInv, NEW c \in Chapters
  PROVE  /\ Synchronized(c) \in EntryType
         /\ Synchronized(c) = NoEntry \/ Synchronized(c).title \in Titles
         /\ Synchronized(c) = NoEntry <=> index[c] = NoEntry /\ TitlesOf(c) = {}
  <1>1. CASE index[c] = NoEntry /\ TitlesOf(c) # {}
    <2>1. First(TitlesOf(c)) \in TitlesOf(c) /\ TitlesOf(c) \subseteq Titles
      BY <1>1, FirstIsOne DEF TitlesOf
    <2>2. files[<<c, First(TitlesOf(c))>>] \in Texts \cup {0}
      BY <2>1 DEF TypeInv, Paths
    <2>3. Synchronized(c) = [title |-> First(TitlesOf(c)),
                             text |-> files[<<c, First(TitlesOf(c))>>], fresh |-> TRUE]
      BY <1>1 DEF Synchronized
    <2>4. -1 \notin Titles
      BY TitlesAssumption
    <2> QED
      BY <1>1, <2>1, <2>2, <2>3, <2>4 DEF EntryType, NoEntry
  <1>2. CASE ~(index[c] = NoEntry /\ TitlesOf(c) # {})
    <2>1. Synchronized(c) = index[c]
      BY <1>2 DEF Synchronized
    <2> QED
      BY <1>2, <2>1 DEF TypeInv, IndexInv
  <1> QED
    BY <1>1, <1>2

\* The text of a chapter is that of one of its files, and there is one iff it has a file
\* where the index says.
LEMMA TextType ==
  ASSUME TypeInv, NEW c \in Chapters
  PROVE  /\ HasText(c) => Synchronized(c).title \in Titles /\ TextOf(c) \in Texts
         /\ TextOf(c) \in Texts \cup {0} /\ WordsOf(c) \in Nat
         /\ TextOf(c) = 0 <=> ~HasText(c)
  <1>1. HasText(c) => Synchronized(c).title \in Titles
    BY SynchronizedType DEF HasText
  <1>2. HasText(c) => files[<<c, Synchronized(c).title>>] \in Texts
    BY <1>1 DEF HasText, TypeInv, Paths
  <1>3. 0 \notin Texts
    BY DEF Texts
  <1>4. Synchronized(c).text \in Texts \cup {0}
    BY SynchronizedType DEF EntryType
  <1>5. WordsOf(c) \in Nat
    BY <1>4, WordCountType DEF WordsOf
  <1> QED
    BY <1>1, <1>2, <1>3, <1>5 DEF TextOf

\* A call takes a step: the others stay as they are, and the lock is taken when it is free.
LEMMA OneCall ==
  ASSUME WorkInv, NEW s \in Sessions, NEW w \in WorkType, WorkOK(w),
         work' = [work EXCEPT ![s] = w],
         w.step \in InIndexLock => LockFree \/ InLock(s)
  PROVE  WorkInv'
  <1>1. work' \in [Sessions -> WorkType]
    BY DEF WorkInv
  <1>2. \A u \in Sessions : WorkOK(work'[u])
    BY DEF WorkInv
  <1>3. ASSUME NEW u \in Sessions, NEW v \in Sessions, InLock(u)', InLock(v)'
        PROVE  u = v
    BY <1>3 DEF WorkInv, InLock, LockFree
  <1> QED
    BY <1>1, <1>2, <1>3 DEF WorkInv

\* A call that has returned holds nothing.
LEMMA IdleType == Idle \in WorkType /\ WorkOK(Idle)
  BY DEF Idle, WorkType, WorkOK, InIndexLock, Texts

\* Taking up files keeps the types of the index.
LEMMA SynchronizedIndexInv ==
  ASSUME TypeInv, index' = SynchronizedIndex
  PROVE  IndexInv'
  BY SynchronizedType DEF SynchronizedIndex, IndexInv

\* The types hold initially.
LEMMA TypeInit == Init => TypeInv
  <1> SUFFICES ASSUME Init PROVE TypeInv
    OBVIOUS
  <1>1. MaxTexts \in Nat
    BY WordsAssumption
  <1>2. WorkInv
    BY IdleType DEF Init, WorkInv, InLock, Idle, InIndexLock
  <1>3. NoEntry \in EntryType
    BY DEF NoEntry, EntryType
  <1> QED
    BY <1>1, <1>2, <1>3 DEF Init, TypeInv, IndexInv

\* A file is written: the index entry of its chapter may no longer carry the file's time.
LEMMA FreshOnly ==
  ASSUME IndexInv, NEW c \in Chapters, NEW a, NEW b,
         index' = [index EXCEPT ![c].fresh = @ /\ a # b]
  PROVE  /\ IndexInv'
         /\ \A d \in Chapters : /\ index'[d].title = index[d].title
                                /\ index'[d].text = index[d].text
                                /\ index'[d] = NoEntry <=> index[d] = NoEntry
  <1>1. ASSUME NEW d \in Chapters
        PROVE  /\ index'[d] \in EntryType /\ (index'[d] = NoEntry \/ index'[d].title \in Titles)
               /\ index'[d].title = index[d].title
               /\ index'[d].text = index[d].text
               /\ index'[d] = NoEntry <=> index[d] = NoEntry
    <2>1. CASE d # c
      BY <2>1 DEF IndexInv
    <2>2. CASE d = c /\ index[d] = NoEntry
      <3>1. index'[d] = [index[d] EXCEPT !.fresh = @ /\ a # b]
        BY <2>2 DEF IndexInv
      <3>2. (index[d].fresh /\ a # b) = FALSE
        BY <2>2 DEF NoEntry
      <3>3. index'[d] = [index[d] EXCEPT !.fresh = FALSE]
        BY <3>1, <3>2
      <3>4. index'[d] = NoEntry
        BY <2>2, <3>3, NoEntryFields
      <3> QED
        BY <2>2, <3>4 DEF IndexInv
    <2>3. CASE d = c /\ index[d] # NoEntry
      <3>1. index'[d] = [index[d] EXCEPT !.fresh = @ /\ a # b]
        BY <2>3 DEF IndexInv
      <3>2. index[d] \in EntryType /\ index[d].title \in Titles /\ -1 \notin Titles
        BY <2>3, TitlesAssumption DEF IndexInv
      <3>3. index'[d] \in EntryType /\ index'[d].title = index[d].title
            /\ index'[d].text = index[d].text
        <4>1. CASE a = b
          <5>1. (index[d].fresh /\ a # b) = FALSE
            BY <4>1
          <5>2. index'[d] = [index[d] EXCEPT !.fresh = FALSE]
            BY <3>1, <5>1
          <5>3. /\ index'[d].title = index[d].title /\ index'[d].text = index[d].text
                /\ index'[d].fresh = FALSE
            BY <3>2, <5>2 DEF EntryType
          <5> QED
            BY <3>2, <5>2, <5>3 DEF EntryType
        <4>2. CASE a # b
          <5>1. index[d].fresh \in BOOLEAN
            BY <3>2 DEF EntryType
          <5>2. (index[d].fresh /\ a # b) = index[d].fresh
            BY <4>2, <5>1
          <5>3. index'[d] = [index[d] EXCEPT !.fresh = index[d].fresh]
            BY <3>1, <5>2
          <5>4. index'[d] = index[d]
            BY <3>2, <5>3 DEF EntryType
          <5> QED
            BY <3>2, <5>4
        <4> QED
          BY <4>1, <4>2
      <3>4. index'[d] # NoEntry
        BY <3>2, <3>3 DEF NoEntry
      <3> QED
        BY <2>3, <3>2, <3>3, <3>4
    <2> QED
      BY <2>1, <2>2, <2>3
  <1>2. index' \in [Chapters -> EntryType]
    BY <1>1 DEF IndexInv
  <1> QED
    BY <1>1, <1>2 DEF IndexInv

\* Every step of the system keeps the types.
LEMMA TypeNext == TypeInv /\ [Next]_vars => TypeInv'
  <1> SUFFICES ASSUME TypeInv, [Next]_vars PROVE TypeInv'
    OBVIOUS
  <1>0. WorkInv /\ IndexInv /\ MaxTexts \in Nat
    BY WordsAssumption DEF TypeInv
  <1> USE DEF Disk, History
  <1>1. ASSUME NEW s \in Sessions, NEW c \in Chapters, save(s, c) PROVE TypeInv'
    <2>1. PICK w : w = [Idle EXCEPT !.kind = "save", !.step = "update", !.chapter = c, !.title
                       = Synchronized(c).title, !.content = TRUE, !.previous = WordsOf(c)]
      OBVIOUS
    <2>2. w \in WorkType /\ WorkOK(w)
      BY <1>1, <2>1, TextType, IdleType DEF save, WorkType, WorkOK, Idle, InIndexLock
    <2>3. WorkInv'
      BY <1>0, <1>1, <2>1, <2>2, OneCall DEF save
    <2> QED
      BY <1>0, <1>1, <2>3, SynchronizedIndexInv DEF save, TypeInv, Starts
  <1>2. ASSUME NEW s \in Sessions, NEW c \in Chapters, lineEdit(s, c) PROVE TypeInv'
    <2>1. PICK w : w = [Idle EXCEPT !.kind = "lineEdit", !.step = "check", !.chapter = c,
                       !.title = Synchronized(c).title, !.content = TRUE, !.base = TextOf(c)]
      OBVIOUS
    <2>2. w \in WorkType /\ WorkOK(w)
      BY <1>2, <2>1, TextType, IdleType DEF lineEdit, WorkType, WorkOK, Idle, InIndexLock
    <2>3. WorkInv'
      BY <1>0, <1>2, <2>1, <2>2, OneCall DEF lineEdit
    <2> QED
      BY <1>0, <1>2, <2>3, SynchronizedIndexInv DEF lineEdit, TypeInv, Starts
  <1>3. ASSUME NEW s \in Sessions, NEW c \in Chapters, NEW t \in Titles, create(s, c, t)
        PROVE TypeInv'
    <2>1. PICK w : w = [Idle EXCEPT !.kind = "create", !.step = "update", !.chapter = c,
                       !.title = t, !.content = TRUE]
      OBVIOUS
    <2>2. w \in WorkType /\ WorkOK(w)
      BY <1>3, <2>1, TextType, IdleType DEF create, WorkType, WorkOK, Idle, InIndexLock
    <2>3. WorkInv'
      BY <1>0, <1>3, <2>1, <2>2, OneCall DEF create
    <2> QED
      BY <1>0, <1>3, <2>3, SynchronizedIndexInv DEF create, TypeInv, Starts
  <1>4. ASSUME NEW s \in Sessions, NEW c \in Chapters, NEW t \in Titles, pipelineWrite(s, c, t)
        PROVE TypeInv'
    <2>1. PICK w : w = [Idle EXCEPT !.kind = "pipeline", !.step = "compare", !.chapter = c,
                       !.title = t, !.content = TRUE, !.base = TextOf(c)]
      OBVIOUS
    <2>2. w \in WorkType /\ WorkOK(w)
      BY <1>4, <2>1, TextType, IdleType DEF pipelineWrite, WorkType, WorkOK, Idle, InIndexLock
    <2>3. WorkInv'
      BY <1>0, <1>4, <2>1, <2>2, OneCall DEF pipelineWrite
    <2> QED
      BY <1>0, <1>4, <2>3, SynchronizedIndexInv DEF pipelineWrite, TypeInv, Starts
  <1>5. ASSUME NEW s \in Sessions, NEW c \in Chapters, NEW t \in Titles,
               NEW b \in BOOLEAN, retitle(s, c, t, b)
        PROVE  TypeInv'
    <2>1. PICK w : w = [Idle EXCEPT !.kind = "retitle", !.step = "update", !.chapter = c,
                       !.title = t, !.content = b, !.previous = WordsOf(c)]
      OBVIOUS
    <2>2. w \in WorkType /\ WorkOK(w)
      BY <1>5, <2>1, TextType, IdleType DEF retitle, WorkType, WorkOK, Idle, InIndexLock
    <2>3. WorkInv'
      BY <1>0, <1>5, <2>1, <2>2, OneCall DEF retitle
    <2> QED
      BY <1>0, <1>5, <2>3, SynchronizedIndexInv DEF retitle, TypeInv, Starts
  <1>6. ASSUME NEW s \in Sessions, NEW c \in Chapters, softDelete(s, c) PROVE TypeInv'
    <2>1. PICK w : w = [Idle EXCEPT !.kind = "delete", !.step = "dropEntry", !.chapter = c]
      OBVIOUS
    <2>2. w \in WorkType /\ WorkOK(w)
      BY <1>6, <2>1, TextType, IdleType DEF softDelete, WorkType, WorkOK, Idle, InIndexLock
    <2>3. WorkInv'
      BY <1>0, <1>6, <2>1, <2>2, OneCall DEF softDelete
    <2> QED
      BY <1>0, <1>6, <2>3, SynchronizedIndexInv, SynchronizedType
         DEF softDelete, TypeInv, Starts, HasText, Leaving, Paths
  <1>7. ASSUME NEW s \in Sessions, NEW c \in Chapters, discard(s, c) PROVE TypeInv'
    <2>1. PICK w : w = [Idle EXCEPT !.kind = "discard", !.step = "soft", !.chapter = c,
                       !.fresh = TRUE]
      OBVIOUS
    <2>2. w \in WorkType /\ WorkOK(w)
      BY <1>7, <2>1, TextType, IdleType DEF discard, WorkType, WorkOK, Idle, InIndexLock
    <2>3. WorkInv'
      BY <1>0, <1>7, <2>1, <2>2, OneCall DEF discard
    <2>4. TextsOf(c) \subseteq Texts
      BY DEF TextsOf, TitlesOf, TypeInv, Paths
    <2>5. archive' \in [Chapters -> SUBSET Texts]
      BY <1>7, <2>4 DEF discard, TypeInv
    <2> QED
      BY <1>0, <1>7, <2>3, <2>5 DEF discard, TypeInv, IndexInv, Starts
  <1>8. ASSUME NEW s \in Sessions, checkHash(s) PROVE TypeInv'
    <2>1. PICK w : w = IF TextOf(work[s].chapter) = work[s].base
                       THEN [work[s] EXCEPT !.step = "previous"] ELSE Idle
      OBVIOUS
    <2>2. w \in WorkType /\ WorkOK(w)
      BY <1>0, <1>8, <2>1, IdleType DEF checkHash, WorkInv, WorkType, WorkOK
    <2>3. WorkInv'
      BY <1>0, <1>8, <2>1, <2>2, OneCall DEF checkHash
    <2> QED
      BY <1>0, <1>8, <2>3, SynchronizedIndexInv DEF checkHash, TypeInv
  <1>9. ASSUME NEW s \in Sessions, readPrevious(s) PROVE TypeInv'
    <2>1. PICK w : w = [work[s] EXCEPT !.step = "update", !.previous = WordsOf(work[s].chapter)]
      OBVIOUS
    <2>2. w \in WorkType /\ WorkOK(w)
      <3>1. /\ work[s] \in WorkType /\ WorkOK(work[s])
            /\ work[s].step = "previous" /\ work[s].chapter \in Chapters
        BY <1>0, <1>9 DEF readPrevious, WorkInv, WorkOK
      <3>2. PICK n \in Nat : n = WordsOf(work[s].chapter)
        BY <3>1, TextType
      <3>3. w = [work[s] EXCEPT !.step = "update", !.previous = n]
        BY <2>1, <3>2
      <3> QED
        BY <3>1, <3>3 DEF WorkType, WorkOK
    <2>3. WorkInv'
      BY <1>0, <1>9, <2>1, <2>2, OneCall DEF readPrevious
    <2> QED
      BY <1>0, <1>9, <2>3, SynchronizedIndexInv DEF readPrevious, TypeInv
  <1>10. ASSUME NEW s \in Sessions, comparePipeline(s) PROVE TypeInv'
    <2>1. PICK w : w = IF SameFingerprint(work[s])
                       THEN [work[s] EXCEPT !.step = "body",
                                            !.previous = WordsOf(work[s].chapter)]
                       ELSE Idle
      OBVIOUS
    <2>2. w \in WorkType /\ WorkOK(w)
      <3>1. /\ work[s] \in WorkType /\ WorkOK(work[s])
            /\ work[s].step = "compare" /\ work[s].chapter \in Chapters
        BY <1>0, <1>10 DEF comparePipeline, WorkInv, WorkOK
      <3>2. PICK n \in Nat : n = WordsOf(work[s].chapter)
        BY <3>1, TextType
      <3>3. w = Idle \/ w = [work[s] EXCEPT !.step = "body", !.previous = n]
        BY <2>1, <3>2
      <3>4. CASE w = [work[s] EXCEPT !.step = "body", !.previous = n]
        BY <3>1, <3>4 DEF WorkType, WorkOK, InIndexLock
      <3> QED
        BY <3>3, <3>4, IdleType
    <2>3. WorkInv'
      BY <1>0, <1>10, <2>1, <2>2, OneCall DEF comparePipeline
    <2> QED
      BY <1>0, <1>10, <2>3, SynchronizedIndexInv DEF comparePipeline, TypeInv
  <1>11. ASSUME NEW s \in Sessions, lockUpdate(s) PROVE TypeInv'
    <2>1. PICK w : w = IF Synchronized(work[s].chapter) # NoEntry \/ work[s].kind = "create"
                       THEN [work[s] EXCEPT !.step = "body"] ELSE Idle
      OBVIOUS
    <2>2. w \in WorkType /\ WorkOK(w) /\ work[s].chapter \in Chapters
      BY <1>0, <1>11, <2>1, IdleType DEF lockUpdate, WorkInv, WorkType, WorkOK, InIndexLock
    <2>3. WorkInv'
      BY <1>0, <1>11, <2>1, <2>2, OneCall DEF lockUpdate
    <2> QED
      BY <1>0, <1>11, <2>2, <2>3, SynchronizedIndexInv DEF lockUpdate, TypeInv
  <1>12. ASSUME NEW s \in Sessions, writeBody(s) PROVE TypeInv'
    <2> DEFINE c == work[s].chapter
               own == IF work[s].content THEN texts + 1 ELSE files[<<c, OldTitle(s)>>]
               t == IF own = 0 THEN files[<<c, work[s].title>>] ELSE own
    <2>1. c \in Chapters /\ work[s].title \in Titles /\ work[s] \in WorkType /\ WorkOK(work[s])
      BY <1>0, <1>12 DEF writeBody, WorkInv, WorkOK
    <2>2. OldTitle(s) \in Titles
      BY <1>0, <2>1 DEF OldTitle, IndexInv
    <2>3. t \in Texts \cup {0} /\ (work[s].content => t = texts + 1 /\ texts + 1 \in Texts)
      BY <1>0, <1>12, <2>1, <2>2 DEF writeBody, TypeInv, Paths, Texts
    <2>4. files' \in [Paths -> Texts \cup {0}]
      BY <1>12, <2>1, <2>3 DEF writeBody, WithBody, TypeInv, Paths
    <2>5. PICK w : w = [work[s] EXCEPT !.step = "index", !.text = t, !.fresh = TRUE]
      OBVIOUS
    <2>6. w \in WorkType /\ WorkOK(w)
      BY <1>12, <2>1, <2>3, <2>5 DEF writeBody, WorkType, WorkOK, InIndexLock
    <2>7. work' = [work EXCEPT ![s] = w]
      BY <1>0, <1>12, <2>5 DEF writeBody, WorkInv
    <2>8. WorkInv'
      BY <1>0, <1>12, <2>6, <2>7, OneCall DEF writeBody, InLock, InIndexLock
    <2>9. IndexInv'
      BY <1>0, <1>12, <2>1, FreshOnly DEF writeBody
    <2>10. newest' \in [Chapters -> Texts \cup {0}] /\ grown' \in [Chapters -> Nat]
      BY <1>12, <2>1, <2>3, WordCountType, GrowthType DEF writeBody, TypeInv
    <2>11. texts' \in Nat /\ texts' <= MaxTexts
      BY <1>0, <1>12 DEF writeBody, TypeInv
    <2> QED
      BY <1>12, <2>4, <2>8, <2>9, <2>10, <2>11 DEF writeBody, TypeInv
  <1>13. ASSUME NEW s \in Sessions, writeIndex(s) PROVE TypeInv'
    <2>1. /\ work[s].chapter \in Chapters /\ work[s].title \in Titles
          /\ work[s] \in WorkType /\ WorkOK(work[s])
      BY <1>0, <1>13 DEF writeIndex, WorkInv, WorkOK
    <2>2. OldTitle(s) \in Titles
      BY <1>0, <2>1 DEF OldTitle, IndexInv
    <2>3. PICK w : w = [work[s] EXCEPT !.step = IF work[s].title # OldTitle(s) THEN "unlink"
                                                ELSE IF work[s].kind = "pipeline"
                                                     THEN "recordLocked" ELSE "record",
                                        !.title = OldTitle(s)]
      OBVIOUS
    <2>4. w \in WorkType /\ WorkOK(w)
      BY <1>13, <2>1, <2>2, <2>3 DEF writeIndex, WorkType, WorkOK, InIndexLock
    <2>5. work' = [work EXCEPT ![s] = w]
      BY <1>0, <1>13, <2>3 DEF writeIndex, WorkInv
    <2>6. WorkInv'
      BY <1>0, <1>13, <2>4, <2>5, OneCall DEF writeIndex, InLock, InIndexLock
    <2>7. IndexInv'
      BY <1>0, <1>13, <2>1 DEF writeIndex, IndexInv, EntryType, WorkType
    <2> QED
      BY <1>13, <2>1, <2>6, <2>7 DEF writeIndex, TypeInv, WorkType
  <1>14. ASSUME NEW s \in Sessions, removeSuperseded(s) PROVE TypeInv'
    <2>1. /\ work[s].chapter \in Chapters /\ work[s].title \in Titles
          /\ work[s] \in WorkType /\ WorkOK(work[s])
      BY <1>0, <1>14 DEF removeSuperseded, WorkInv, WorkOK
    <2>2. PICK w : w = [work[s] EXCEPT !.step = IF work[s].kind = "pipeline" THEN "recordLocked"
                                                ELSE "record"]
      OBVIOUS
    <2>3. w \in WorkType /\ WorkOK(w)
      BY <1>14, <2>1, <2>2 DEF removeSuperseded, WorkType, WorkOK, InIndexLock
    <2>4. work' = [work EXCEPT ![s] = w]
      BY <1>0, <1>14, <2>2 DEF removeSuperseded, WorkInv
    <2>5. WorkInv'
      BY <1>0, <1>14, <2>3, <2>4, OneCall DEF removeSuperseded, InLock, InIndexLock
    <2> QED
      BY <1>0, <1>14, <2>1, <2>5 DEF removeSuperseded, TypeInv, IndexInv, Paths
  <1>15. ASSUME NEW s \in Sessions, record(s) PROVE TypeInv'
    <2>1. /\ work[s].chapter \in Chapters /\ work[s].previous \in Nat
          /\ work[s].text \in Texts \cup {0}
      BY <1>0, <1>15 DEF record, WorkInv, WorkOK, WorkType
    <2>2. WorkInv'
      BY <1>0, <1>15, IdleType, OneCall DEF record, Idle, InIndexLock
    <2>3. log' \in [Chapters -> Nat]
      <3>1. PICK m \in Nat : m = Growth(work[s].previous, WordCount(work[s].text))
        BY <2>1, WordCountType, GrowthType
      <3> QED
        BY <1>15, <2>1, <3>1 DEF record, TypeInv
    <2> QED
      BY <1>0, <1>15, <2>2, <2>3 DEF record, TypeInv, IndexInv
  <1>16. ASSUME NEW s \in Sessions, dropEntry(s) PROVE TypeInv'
    <2>1. PICK w : w = IF work[s].step = "softDrop" THEN [work[s] EXCEPT !.step = "move"]
                                                    ELSE Idle
      OBVIOUS
    <2>2. w \in WorkType /\ WorkOK(w)
      BY <1>0, <1>16, <2>1, IdleType DEF dropEntry, WorkInv, WorkType, WorkOK, InIndexLock
    <2>3. WorkInv'
      BY <1>0, <1>16, <2>1, <2>2, OneCall DEF dropEntry, InLock, InIndexLock
    <2> QED
      BY <1>0, <1>16, <2>3 DEF dropEntry, TypeInv, IndexInv, NoEntry, EntryType
  <1>17. ASSUME NEW s \in Sessions, discardSoftDelete(s) PROVE TypeInv'
    <2>1. work[s].chapter \in Chapters /\ work[s] \in WorkType /\ WorkOK(work[s])
      BY <1>0, <1>17 DEF discardSoftDelete, WorkInv, WorkOK
    <2>2. ASSUME NEW l \in {"softDrop", "move"}, work' = [work EXCEPT ![s].step = l]
          PROVE WorkInv'
      <3>1. PICK w : w = [work[s] EXCEPT !.step = l]
        OBVIOUS
      <3>2. w \in WorkType /\ WorkOK(w)
        BY <1>17, <2>1, <3>1 DEF discardSoftDelete, WorkType, WorkOK, InIndexLock
      <3>3. work' = [work EXCEPT ![s] = w]
        BY <1>0, <2>2, <3>1 DEF WorkInv
      <3> QED
        BY <1>0, <1>17, <3>2, <3>3, OneCall DEF discardSoftDelete, InLock, InIndexLock
    <2>3. WorkInv'
      BY <1>17, <2>2 DEF discardSoftDelete
    <2>4. HasText(work[s].chapter) => Synchronized(work[s].chapter).title \in Titles
      BY <2>1, TextType
    <2> QED
      BY <1>0, <1>17, <2>1, <2>3, <2>4, SynchronizedIndexInv
         DEF discardSoftDelete, TypeInv, Leaving, Paths
  <1>18. ASSUME NEW s \in Sessions, discardMove(s) PROVE TypeInv'
    <2>1. work[s].chapter \in Chapters /\ work[s] \in WorkType /\ WorkOK(work[s])
      BY <1>0, <1>18 DEF discardMove, WorkInv, WorkOK
    <2>2. PICK w : w = [work[s] EXCEPT !.step = "prune"]
      OBVIOUS
    <2>3. w \in WorkType /\ WorkOK(w)
      BY <1>18, <2>1, <2>2 DEF discardMove, WorkType, WorkOK, InIndexLock
    <2>4. work' = [work EXCEPT ![s] = w]
      BY <1>0, <1>18, <2>2 DEF discardMove, WorkInv
    <2>5. WorkInv'
      BY <1>0, <1>18, <2>3, <2>4, OneCall DEF discardMove, InLock, InIndexLock
    <2>6. {files[<<work[s].chapter, t>>] : t \in Leftovers(work[s].chapter)} \subseteq Texts
      BY <2>1 DEF Leftovers, TitlesOf, TypeInv, Paths
    <2>7. archive' \in [Chapters -> SUBSET Texts]
      BY <1>18, <2>6 DEF discardMove, TypeInv
    <2>8. files' \in [Paths -> Texts \cup {0}]
      BY <1>18 DEF discardMove, TypeInv
    <2> QED
      BY <1>0, <1>18, <2>1, <2>5, <2>7, <2>8 DEF discardMove, TypeInv, IndexInv
  <1>19. ASSUME NEW s \in Sessions, discardPrune(s) PROVE TypeInv'
    <2>1. work[s].chapter \in Chapters
      BY <1>0, <1>19 DEF discardPrune, WorkInv, WorkOK
    <2>2. WorkInv'
      BY <1>0, <1>19, IdleType, OneCall DEF discardPrune, Idle, InIndexLock
    <2> QED
      BY <1>0, <1>19, <2>1, <2>2 DEF discardPrune, TypeInv, IndexInv, NoEntry, EntryType
  <1>20. ASSUME NEW s \in Sessions, stops(s) PROVE TypeInv'
    <2>1. WorkInv'
      BY <1>0, <1>20, IdleType, OneCall DEF stops, Idle, InIndexLock
    <2> QED
      BY <1>0, <1>20, <2>1 DEF stops, TypeInv, IndexInv
  <1>21. ASSUME list PROVE TypeInv'
    BY <1>0, <1>21, SynchronizedIndexInv DEF list, TypeInv, WorkInv, InLock
  <1>22. ASSUME NEW c \in Chapters, NEW t \in Titles, writeExternally(c, t) PROVE TypeInv'
    <2>1. texts + 1 \in Texts
      BY <1>0, <1>22 DEF writeExternally, TypeInv, Texts
    <2>2. ASSUME NEW u \in Sessions
          PROVE  /\ work'[u] \in WorkType /\ work'[u].step = work[u].step
                 /\ WorkOK(work'[u])
      <3>1. work[u] \in WorkType /\ WorkOK(work[u])
        BY <1>0 DEF WorkInv
      <3>2. work'[u] = work[u] \/ work'[u] = [work[u] EXCEPT !.fresh = FALSE]
        BY <1>22 DEF writeExternally
      <3>3. CASE work'[u] = [work[u] EXCEPT !.fresh = FALSE]
        <4>1. work'[u] \in WorkType
          BY <3>1, <3>3 DEF WorkType
        <4>2. /\ work'[u].step = work[u].step /\ work'[u].kind = work[u].kind
              /\ work'[u].chapter = work[u].chapter /\ work'[u].title = work[u].title
          BY <3>1, <3>3 DEF WorkType
        <4> QED
          BY <3>1, <4>1, <4>2 DEF WorkOK
      <3> QED
        BY <3>1, <3>2, <3>3
    <2>3. WorkInv'
      <3>1. work' \in [Sessions -> WorkType]
        BY <1>22, <2>2 DEF writeExternally
      <3> QED
        BY <1>0, <2>2, <3>1 DEF WorkInv, InLock
    <2>4. IndexInv'
      BY <1>0, <1>22, FreshOnly DEF writeExternally
    <2>5. files' \in [Paths -> Texts \cup {0}]
      BY <1>22, <2>1 DEF writeExternally, TypeInv
    <2>6. newest' \in [Chapters -> Texts \cup {0}] /\ grown' \in [Chapters -> Nat]
      BY <1>22, <2>1, WordCountType, GrowthType DEF writeExternally, TypeInv
    <2> QED
      BY <1>0, <1>22, <2>3, <2>4, <2>5, <2>6 DEF writeExternally, TypeInv
  <1>23. ASSUME NEW counted \in BOOLEAN, reconcile(counted) PROVE TypeInv'
    <2>1. \A c \in Chapters : /\ index'[c] \in EntryType
                              /\ index'[c] = NoEntry \/ index'[c].title \in Titles
      BY <1>0, <1>23, SynchronizedType, TextType DEF reconcile, IndexInv, EntryType
    <2>2. IndexInv'
      BY <1>23, <2>1 DEF reconcile, IndexInv
    <2>3. \A c \in Chapters : WordsBefore(c) \in Nat /\ WordCount(TextOf(c)) \in Nat
      BY <1>0, TextType, WordCountType DEF WordsBefore, IndexInv, EntryType
    <2>4. log' \in [Chapters -> Nat]
      <3>1. \A c \in Chapters : Growth(WordsBefore(c), WordCount(TextOf(c))) \in Nat
        BY <2>3, GrowthType
      <3>2. \A c \in Chapters : log[c] \in Nat
        BY DEF TypeInv
      <3>3. \A c \in Chapters : log[c] + Growth(WordsBefore(c), WordCount(TextOf(c))) \in Nat
        BY <3>1, <3>2
      <3> QED
        BY <1>23, <3>2, <3>3 DEF reconcile, TypeInv
    <2> QED
      BY <1>0, <1>23, <2>2, <2>4 DEF reconcile, TypeInv, WorkInv, InLock
  <1>24. CASE UNCHANGED vars
    BY <1>0, <1>24 DEF vars, TypeInv, WorkInv, InLock, IndexInv
  <1> QED
    BY <1>1, <1>2, <1>3, <1>4, <1>5, <1>6, <1>7, <1>8, <1>9, <1>10, <1>11, <1>12, <1>13, <1>14,
       <1>15, <1>16, <1>17, <1>18, <1>19, <1>20, <1>21, <1>22, <1>23, <1>24 DEF Next, Call, Step

\* Types, and one call at a time between reading the index and writing it: in every
\* order of calls, external writes and reconciliations.
THEOREM FilesTypeCorrect == Spec => []TypeOK
  <1>1. ASSUME TypeInv PROVE TypeOK
    <2>1. Cardinality({s \in Sessions : work[s].step \in InIndexLock}) <= 1
      <3>1. CASE \A s \in Sessions : ~InLock(s)
        <4>1. {s \in Sessions : work[s].step \in InIndexLock} = {}
          BY <3>1 DEF InLock
        <4>2. Cardinality({}) = 0
          BY FS_EmptySet
        <4> QED
          BY <4>1, <4>2
      <3>2. CASE \E s \in Sessions : InLock(s)
        <4>1. PICK s \in Sessions : InLock(s)
          BY <3>2
        <4>2. {u \in Sessions : work[u].step \in InIndexLock} = {s}
          BY <1>1, <4>1 DEF TypeInv, WorkInv, InLock
        <4>3. Cardinality({s}) = 1
          BY FS_Singleton
        <4> QED
          BY <4>2, <4>3
      <3> QED
        BY <3>1, <3>2
    <2> QED
      BY <1>1, <2>1 DEF TypeInv, WorkInv, IndexInv, EntryType, TypeOK
  <1> QED
    BY <1>1, TypeInit, TypeNext, PTL DEF Spec

-----------------------------------------------------------------------------
(* What is saved stays, and what is discarded stays away. *)

\* The author's latest saved text is among the discarded ones, if there is one.
Safe(c) == acked[c] = 0 \/ \E t \in archive[c] : t >= acked[c]

\* What holds of a chapter at rest and in every step.
ChapterOK(c) ==
  /\ acked[c] <= texts
  /\ \A t \in Titles : files[<<c, t>>] <= texts
  /\ Safe(c) \/ TextOf(c) >= acked[c]
  /\ c \in gone => index[c] = NoEntry /\ TitlesOf(c) = {}

\* What the call in the index lock relies on.
HolderOK(s) ==
  LET w == work[s]
      c == w.chapter
  IN  /\ w.step \in {"body", "index"} /\ index[c] = NoEntry => Safe(c)
      /\ w.step = "body" /\ w.kind = "pipeline" => ReplacesWhatItRead(s)
      /\ w.step = "index" =>
           /\ files[<<c, w.title>>] >= w.text
           /\ w.content \/ Safe(c) \/ files[<<c, w.title>>] >= acked[c]
           /\ c \notin gone
      /\ w.step = "unlink" => index[c] # NoEntry /\ index[c].title # w.title
      /\ w.step \in {"soft", "softDrop", "move", "prune", "dropEntry"} => Safe(c)
      /\ w.step = "prune" /\ w.fresh => TitlesOf(c) = {}

\* What is saved is safe, at rest and in every step of a call.
SavedInv ==
  /\ TypeInv
  /\ \A c \in Chapters : ChapterOK(c)
  /\ \A s \in Sessions : HolderOK(s)

\* The index names the same file of a chapter as it does after synchronizing.
SameEntry(c, e) == index'[c].title = e.title /\ (index'[c] = NoEntry <=> e = NoEntry)

\* A chapter whose entry and files stay, or are just taken up, keeps its text.
LEMMA SameText ==
  ASSUME TypeInv, NEW c \in Chapters,
         SameEntry(c, index[c]) \/ SameEntry(c, Synchronized(c)),
         \A t \in Titles : files'[<<c, t>>] = files[<<c, t>>]
  PROVE  /\ TextOf(c)' = TextOf(c) /\ TitlesOf(c)' = TitlesOf(c) /\ TextsOf(c)' = TextsOf(c)
         /\ HasText(c)' <=> HasText(c)
         /\ Synchronized(c)' = NoEntry <=> Synchronized(c) = NoEntry
         /\ Synchronized(c)'.title = Synchronized(c).title
  <1>1. TitlesOf(c)' = TitlesOf(c) /\ TextsOf(c)' = TextsOf(c)
    BY DEF TitlesOf, TextsOf
  <1>2. /\ Synchronized(c)' = NoEntry <=> Synchronized(c) = NoEntry
        /\ Synchronized(c)'.title = Synchronized(c).title
    <2>1. -1 \notin Titles
      BY TitlesAssumption
    <2>2. CASE index[c] = NoEntry /\ TitlesOf(c) # {}
      <3>1. First(TitlesOf(c)) \in Titles
        BY <2>2, FirstIsOne DEF TitlesOf
      <3>2. Synchronized(c).title = First(TitlesOf(c)) /\ Synchronized(c) # NoEntry
        BY <2>1, <2>2, <3>1 DEF Synchronized, NoEntry
      <3>3. CASE SameEntry(c, index[c])
        <4>1. index'[c] = NoEntry
          BY <2>2, <3>3 DEF SameEntry
        <4>2. Synchronized(c)' = [title |-> First(TitlesOf(c)),
                                  text |-> files'[<<c, First(TitlesOf(c))>>], fresh |-> TRUE]
          BY <1>1, <2>2, <4>1 DEF Synchronized, NoEntry
        <4> QED
          BY <2>1, <3>1, <3>2, <4>2 DEF NoEntry
      <3>4. CASE SameEntry(c, Synchronized(c))
        <4>1. index'[c] # NoEntry /\ index'[c].title = First(TitlesOf(c))
          BY <3>2, <3>4 DEF SameEntry
        <4>2. Synchronized(c)' = index'[c]
          BY <4>1 DEF Synchronized, NoEntry
        <4> QED
          BY <3>2, <4>1, <4>2
      <3> QED
        BY <3>3, <3>4
    <2>3. CASE ~(index[c] = NoEntry /\ TitlesOf(c) # {})
      <3>1. Synchronized(c) = index[c]
        BY <2>3 DEF Synchronized
      <3>2. SameEntry(c, index[c])
        BY <3>1
      <3>3. Synchronized(c)' = index'[c]
        BY <1>1, <2>3, <3>2 DEF Synchronized, SameEntry, NoEntry
      <3> QED
        BY <3>1, <3>2, <3>3 DEF SameEntry
    <2> QED
      BY <2>2, <2>3
  <1>3. HasText(c)' <=> HasText(c)
    BY <1>2, SynchronizedType DEF HasText
  <1>4. TextOf(c)' = TextOf(c)
    BY <1>2, <1>3, SynchronizedType DEF HasText, TextOf
  <1> QED
    BY <1>1, <1>2, <1>3, <1>4

\* After synchronizing, an entry is what was found in the index or taken up.
LEMMA Taken ==
  ASSUME index' = SynchronizedIndex, NEW c \in Chapters
  PROVE  index'[c] = Synchronized(c) /\ SameEntry(c, Synchronized(c))
  BY DEF SynchronizedIndex, SameEntry

\* Nothing happens to a chapter but that its entry is taken up.
LEMMA ChapterStays ==
  ASSUME SavedInv, NEW c \in Chapters,
         SameEntry(c, index[c]) \/ SameEntry(c, Synchronized(c)),
         \A t \in Titles : files'[<<c, t>>] = files[<<c, t>>],
         acked'[c] = acked[c], archive[c] \subseteq archive'[c],
         texts' \in Nat, texts <= texts', c \in gone' => c \in gone
  PROVE  ChapterOK(c)'
  <1>1. ChapterOK(c) /\ acked[c] \in Nat /\ texts \in Nat
    BY DEF SavedInv, TypeInv, Texts
  <1>2. \A t \in Titles : files[<<c, t>>] \in Nat
    BY DEF SavedInv, TypeInv, Paths, Texts
  <1>3. acked'[c] <= texts' /\ \A t \in Titles : files'[<<c, t>>] <= texts'
    BY <1>1, <1>2 DEF ChapterOK
  <1>4. Safe(c) => Safe(c)'
    BY DEF Safe
  <1>5. TextOf(c)' = TextOf(c) /\ TitlesOf(c)' = TitlesOf(c)
    BY SameText DEF SavedInv
  <1>6. c \in gone' => index'[c] = NoEntry
    <2>1. c \in gone => index[c] = NoEntry /\ Synchronized(c) = NoEntry
      BY <1>1, SynchronizedType DEF ChapterOK, SavedInv
    <2> QED
      BY <2>1 DEF SameEntry
  <1> QED
    BY <1>1, <1>3, <1>4, <1>5, <1>6 DEF ChapterOK

\* When the lock is free, or the one who takes a step holds it, nobody else relies on
\* anything.
LEMMA OnlyHolder ==
  ASSUME WorkInv, NEW s \in Sessions, LockFree \/ InLock(s),
         \A u \in Sessions \ {s} : work'[u] = work[u],
         HolderOK(s)'
  PROVE  \A u \in Sessions : HolderOK(u)'
  <1>1. ASSUME NEW u \in Sessions \ {s} PROVE ~InLock(u)'
    BY DEF WorkInv, LockFree, InLock
  <1> QED
    BY <1>1 DEF InLock, InIndexLock, HolderOK


\* A call that holds the lock, or finds it free, does no more to the chapters than take up
\* their files.
LEMMA TakenUp ==
  ASSUME SavedInv, NEW s \in Sessions, LockFree \/ InLock(s),
         index' = SynchronizedIndex, UNCHANGED <<files, archive, texts, acked, gone>>,
         \A u \in Sessions \ {s} : work'[u] = work[u],
         HolderOK(s)'
  PROVE  /\ \A c \in Chapters : ChapterOK(c)'
         /\ \A u \in Sessions : HolderOK(u)'
  <1>1. \A c \in Chapters : ChapterOK(c)'
    BY ChapterStays, Taken DEF SavedInv, TypeInv
  <1>2. \A u \in Sessions : HolderOK(u)'
    BY OnlyHolder DEF SavedInv, TypeInv
  <1> QED
    BY <1>1, <1>2

\* A call outside the lock relies on nothing.
LEMMA OutsideOK ==
  ASSUME NEW s \in Sessions,
         work'[s].step \in {"idle", "check", "previous", "update", "compare", "record",
                            "recordLocked"}
  PROVE  HolderOK(s)'
  BY DEF HolderOK

\* With no entry and no file, nothing saved is at stake.
LEMMA NothingAtStake ==
  ASSUME SavedInv, NEW c \in Chapters, ~HasText(c)
  PROVE  Safe(c)
  <1>1. ChapterOK(c) /\ acked[c] \in Nat
    BY DEF SavedInv, TypeInv, Texts
  <1>2. TextOf(c) = 0
    BY DEF TextOf
  <1> QED
    BY <1>1, <1>2 DEF ChapterOK, Safe

\* Nothing is saved initially, and no call relies on anything.
LEMMA SavedInit == Init => SavedInv
  <1> SUFFICES ASSUME Init PROVE SavedInv
    OBVIOUS
  <1>1. TypeInv
    BY TypeInit
  <1>2. ASSUME NEW c \in Chapters PROVE ChapterOK(c)
    BY DEF Init, ChapterOK, Safe, Paths
  <1>3. ASSUME NEW s \in Sessions PROVE HolderOK(s)
    BY DEF Init, Idle, HolderOK
  <1> QED
    BY <1>1, <1>2, <1>3 DEF SavedInv

\* A call that holds the lock, or finds it free, works on one chapter.
LEMMA OneChapter ==
  ASSUME SavedInv, TypeInv', NEW s \in Sessions, NEW c \in Chapters, LockFree \/ InLock(s),
         \A d \in Chapters \ {c} :
           /\ SameEntry(d, index[d]) \/ SameEntry(d, Synchronized(d))
           /\ \A t \in Titles : files'[<<d, t>>] = files[<<d, t>>]
           /\ acked'[d] = acked[d] /\ archive[d] \subseteq archive'[d]
           /\ d \in gone' => d \in gone,
         texts <= texts', \A u \in Sessions \ {s} : work'[u] = work[u],
         HolderOK(s)', ChapterOK(c)'
  PROVE  SavedInv'
  <1>1. ASSUME NEW d \in Chapters \ {c} PROVE ChapterOK(d)'
    BY ChapterStays DEF TypeInv
  <1>2. \A u \in Sessions : HolderOK(u)'
    BY OnlyHolder DEF SavedInv, TypeInv
  <1> QED
    BY <1>1, <1>2 DEF SavedInv

\* A chapter loses files, but nothing that was saved.
LEMMA FilesGo ==
  ASSUME SavedInv, TypeInv', NEW c \in Chapters, texts <= texts',
         \A t \in Titles : files'[<<c, t>>] \in {0, files[<<c, t>>]},
         index'[c] # NoEntry => index[c] # NoEntry \/ TitlesOf(c) # {},
         acked'[c] \in {0, acked[c]}, archive[c] \subseteq archive'[c],
         c \in gone' => c \in gone \/ (index'[c] = NoEntry /\ TitlesOf(c)' = {}),
         Safe(c)'
  PROVE  ChapterOK(c)'
  <1>1. ChapterOK(c) /\ acked[c] \in Nat /\ texts \in Nat /\ texts' \in Nat
    BY DEF SavedInv, TypeInv, Texts
  <1>2. \A t \in Titles : files[<<c, t>>] \in Nat
    BY DEF SavedInv, TypeInv, Paths, Texts
  <1>3. acked'[c] <= texts' /\ \A t \in Titles : files'[<<c, t>>] <= texts'
    BY <1>1, <1>2 DEF ChapterOK
  <1>4. TitlesOf(c)' \subseteq TitlesOf(c)
    BY DEF TitlesOf
  <1> QED
    BY <1>1, <1>3, <1>4 DEF ChapterOK

\* What a call relies on stays while files, index and archive do.
LEMMA HolderStays ==
  ASSUME NEW u \in Sessions, HolderOK(u), work'[u] = work[u],
         UNCHANGED <<files, index, archive, acked, external, gone>>
  PROVE  HolderOK(u)'
  <1>1. PICK w : w = work[u]
    OBVIOUS
  <1>2. TitlesOf(w.chapter)' = TitlesOf(w.chapter)
    BY DEF TitlesOf
  <1>3. Synchronized(w.chapter)' = Synchronized(w.chapter)
    BY <1>2 DEF Synchronized
  <1>4. TextOf(w.chapter)' = TextOf(w.chapter)
    BY <1>3 DEF TextOf, HasText
  <1> QED
    BY <1>1, <1>2, <1>4 DEF HolderOK, Safe, ReplacesWhatItRead

\* Every step of the system keeps what was saved.
LEMMA SavedNext == SavedInv /\ [Next]_vars => SavedInv'
  <1> SUFFICES ASSUME SavedInv, [Next]_vars PROVE SavedInv'
    OBVIOUS
  <1> USE DEF Disk, History
  <1>t. TypeInv /\ TypeInv' /\ WorkInv /\ IndexInv
    BY TypeNext DEF SavedInv, TypeInv
  <1>c. \A c \in Chapters : ChapterOK(c)
    BY DEF SavedInv
  <1>h. \A s \in Sessions : /\ HolderOK(s) /\ work[s] \in WorkType /\ WorkOK(work[s])
                            /\ work[s].step # "idle" => work[s].chapter \in Chapters
    BY <1>t DEF SavedInv, WorkInv, WorkOK
  <1>d. SavedInv' <=> (\A c \in Chapters : ChapterOK(c)') /\ (\A s \in Sessions : HolderOK(s)')
    BY <1>t DEF SavedInv
  <1>1. ASSUME NEW s \in Sessions, NEW c \in Chapters, save(s, c) PROVE SavedInv'
    <2>1. HolderOK(s)'
      BY <1>1, <1>t, OutsideOK DEF save, Idle, WorkInv
    <2> QED
      BY <1>1, <1>t, <1>d, <2>1, TakenUp DEF save, Starts, WorkInv
  <1>2. ASSUME NEW s \in Sessions, NEW c \in Chapters, lineEdit(s, c) PROVE SavedInv'
    <2>1. HolderOK(s)'
      BY <1>2, <1>t, OutsideOK DEF lineEdit, Idle, WorkInv
    <2> QED
      BY <1>2, <1>t, <1>d, <2>1, TakenUp DEF lineEdit, Starts, WorkInv
  <1>3. ASSUME NEW s \in Sessions, NEW c \in Chapters, NEW t \in Titles, create(s, c, t)
        PROVE SavedInv'
    <2>1. HolderOK(s)'
      BY <1>3, <1>t, OutsideOK DEF create, Idle, WorkInv
    <2> QED
      BY <1>3, <1>t, <1>d, <2>1, TakenUp DEF create, Starts, WorkInv
  <1>4. ASSUME NEW s \in Sessions, NEW c \in Chapters, NEW t \in Titles, pipelineWrite(s, c, t)
        PROVE SavedInv'
    <2>1. HolderOK(s)'
      BY <1>4, <1>t, OutsideOK DEF pipelineWrite, Idle, WorkInv
    <2> QED
      BY <1>4, <1>t, <1>d, <2>1, TakenUp DEF pipelineWrite, Starts, WorkInv
  <1>5. ASSUME NEW s \in Sessions, NEW c \in Chapters, NEW t \in Titles,
               NEW b \in BOOLEAN, retitle(s, c, t, b) PROVE SavedInv'
    <2>1. HolderOK(s)'
      BY <1>5, <1>t, OutsideOK DEF retitle, Idle, WorkInv
    <2> QED
      BY <1>5, <1>t, <1>d, <2>1, TakenUp DEF retitle, Starts, WorkInv
  <1>6. ASSUME NEW s \in Sessions, NEW c \in Chapters, softDelete(s, c) PROVE SavedInv'
    <2>1. Safe(c)'
      BY <1>6, <1>t DEF softDelete, Safe, TypeInv
    <2>2. HolderOK(s)'
      <3>1. work'[s].step = "dropEntry" /\ work'[s].chapter = c
        BY <1>6, <1>t DEF softDelete, Idle, WorkInv
      <3> QED
        BY <2>1, <3>1 DEF HolderOK, Safe
    <2>3. ChapterOK(c)'
      <3>1. Synchronized(c).title \in Titles
        BY <1>6, <1>t, TextType DEF softDelete
      <3>2. \A t \in Titles : files'[<<c, t>>] \in {0, files[<<c, t>>]}
        BY <1>6, <1>t DEF softDelete, TypeInv, Paths
      <3>3. index'[c] # NoEntry => index[c] # NoEntry \/ TitlesOf(c) # {}
        BY <1>6, <1>t, Taken, SynchronizedType DEF softDelete
      <3>4. /\ acked'[c] \in {0, acked[c]} /\ texts <= texts'
            /\ archive[c] \subseteq archive'[c] /\ (c \in gone' => c \in gone)
        BY <1>6, <1>t DEF softDelete, TypeInv
      <3> QED
        BY <1>t, <2>1, <3>2, <3>3, <3>4, FilesGo
    <2>4. \A d \in Chapters \ {c} : /\ SameEntry(d, Synchronized(d))
                                    /\ \A t \in Titles : files'[<<d, t>>] = files[<<d, t>>]
                                    /\ acked'[d] = acked[d]
      BY <1>6, <1>t, Taken DEF softDelete, TypeInv, Paths
    <2>5. \A u \in Sessions \ {s} : work'[u] = work[u]
      BY <1>6, <1>t DEF softDelete, WorkInv
    <2>6. texts <= texts' /\ archive' = archive /\ gone' = gone /\ LockFree
      BY <1>6, <1>t DEF softDelete, TypeInv
    <2> QED
      BY <1>t, <2>2, <2>3, <2>4, <2>5, <2>6, OneChapter
  <1>7. ASSUME NEW s \in Sessions, NEW c \in Chapters, discard(s, c) PROVE SavedInv'
    <2>1. archive[c] \subseteq archive'[c] /\ TextsOf(c) \subseteq archive'[c]
      BY <1>7, <1>t DEF discard, TypeInv
    <2>2. Safe(c)'
      <3>1. ~Safe(c) => TextOf(c) >= acked[c] /\ acked[c] # 0
        BY <1>c DEF ChapterOK, Safe
      <3>2. ~Safe(c) => TextOf(c) # 0
        BY <1>t, <3>1, TextType DEF TypeInv, Texts
      <3>3. TextOf(c) # 0 => TextOf(c) \in TextsOf(c)
        BY <1>t, TextType DEF TextOf, HasText, TextsOf, TitlesOf
      <3> QED
        BY <1>7, <2>1, <3>1, <3>2, <3>3 DEF discard, Safe
    <2>3. HolderOK(s)'
      <3>1. work'[s].step = "soft" /\ work'[s].chapter = c
        BY <1>7, <1>t DEF discard, Idle, WorkInv
      <3> QED
        BY <2>2, <3>1 DEF HolderOK, Safe
    <2>4. \A d \in Chapters : archive[d] \subseteq archive'[d]
      BY <1>7, <2>1, <1>t DEF discard, TypeInv
    <2>5. \A d \in Chapters : SameEntry(d, index[d])
      BY <1>7 DEF discard, SameEntry
    <2>6. texts <= texts' /\ texts' \in Nat /\ gone' = gone /\ files' = files /\ acked' = acked
      BY <1>7, <1>t DEF discard, TypeInv
    <2>7. ChapterOK(c)'
      BY <2>4, <2>5, <2>6, ChapterStays
    <2>8. \A u \in Sessions \ {s} : work'[u] = work[u]
      BY <1>7, <1>t DEF discard, WorkInv
    <2> QED
      BY <1>7, <1>t, <2>3, <2>4, <2>5, <2>6, <2>7, <2>8, OneChapter DEF discard
  <1>8. ASSUME NEW s \in Sessions, checkHash(s) PROVE SavedInv'
    <2>1. HolderOK(s)'
      BY <1>8, <1>t, OutsideOK DEF checkHash, Idle, WorkInv
    <2> QED
      BY <1>8, <1>t, <1>d, <2>1, TakenUp DEF checkHash, WorkInv
  <1>9. ASSUME NEW s \in Sessions, readPrevious(s) PROVE SavedInv'
    <2>1. HolderOK(s)'
      BY <1>9, <1>t, OutsideOK DEF readPrevious, Idle, WorkInv
    <2> QED
      BY <1>9, <1>t, <1>d, <2>1, TakenUp DEF readPrevious, WorkInv
  <1>10. ASSUME NEW s \in Sessions, comparePipeline(s) PROVE SavedInv'
    <2>1. HolderOK(s)'
      <3> DEFINE c == work[s].chapter
      <3>1. CASE ~SameFingerprint(work[s])
        BY <1>10, <1>t, <3>1, OutsideOK DEF comparePipeline, Idle, WorkInv
      <3>2. CASE SameFingerprint(work[s])
        <4>1. /\ work'[s].step = "body" /\ work'[s].chapter = work[s].chapter
              /\ work'[s].base = work[s].base
          BY <1>10, <1>h, <1>t, <3>2 DEF comparePipeline, WorkInv, WorkType
        <4>2. PICK d \in Chapters : d = work[s].chapter
          BY <1>10, <1>h DEF comparePipeline
        <4>3. TextOf(d)' = TextOf(d)
          BY <1>10, <1>t, SameText, Taken DEF comparePipeline
        <4>4. TextOf(d) = work[s].base
          BY <3>2, <4>2 DEF SameFingerprint
        <4>5. index'[d] = NoEntry => Safe(d)'
          BY <1>10, <1>t, Taken, NothingAtStake DEF comparePipeline, HasText, Safe
        <4> QED
          BY <4>1, <4>2, <4>3, <4>4, <4>5 DEF HolderOK, ReplacesWhatItRead, Safe
      <3> QED
        BY <3>1, <3>2
    <2> QED
      BY <1>10, <1>t, <1>d, <2>1, TakenUp DEF comparePipeline, WorkInv
  <1>11. ASSUME NEW s \in Sessions, lockUpdate(s) PROVE SavedInv'
    <2>1. HolderOK(s)'
      <3>1. PICK d \in Chapters : d = work[s].chapter
        BY <1>11, <1>h DEF lockUpdate
      <3>2. CASE work'[s] = Idle
        BY <3>2, OutsideOK DEF Idle
      <3>3. CASE work'[s] = [work[s] EXCEPT !.step = "body"]
        <4>1. /\ work'[s].step = "body" /\ work'[s].chapter = d /\ work'[s].kind # "pipeline"
          BY <1>11, <1>h, <3>1, <3>3 DEF lockUpdate, WorkType, WorkOK
        <4>2. index'[d] = NoEntry => Safe(d)'
          BY <1>11, <1>t, Taken, NothingAtStake DEF lockUpdate, HasText, Safe
        <4> QED
          BY <4>1, <4>2 DEF HolderOK, Safe
      <3> QED
        BY <1>11, <1>t, <3>2, <3>3 DEF lockUpdate, WorkInv
    <2> QED
      BY <1>11, <1>t, <1>d, <2>1, TakenUp DEF lockUpdate, WorkInv
  <1>12. ASSUME NEW s \in Sessions, writeBody(s) PROVE SavedInv'
    <2>1. PICK c \in Chapters : c = work[s].chapter
      BY <1>12, <1>h DEF writeBody
    <2>2. PICK n \in Titles : n = work[s].title
      BY <1>12, <1>h DEF writeBody, WorkOK
    <2>3. PICK o \in Titles : o = OldTitle(s)
      BY <1>12, <1>t, <2>1, <2>2 DEF OldTitle, IndexInv
    <2>4. PICK t : t = IF work[s].content THEN texts + 1
                       ELSE IF files[<<c, o>>] = 0 THEN files[<<c, n>>] ELSE files[<<c, o>>]
      OBVIOUS
    <2>5. /\ files' = IF t = 0 THEN files ELSE [files EXCEPT ![<<c, n>>] = t]
          /\ index' = [index EXCEPT ![c].fresh = @ /\ work[s].title # OldTitle(s)]
          /\ gone' = gone \ {c} /\ archive' = archive /\ acked' = acked
          /\ texts' = IF work[s].content THEN texts + 1 ELSE texts
          /\ work' = [work EXCEPT ![s].step = "index", ![s].text = t, ![s].fresh = TRUE]
          /\ work[s].step = "body"
      <3>1. texts + 1 # 0
        BY <1>t DEF TypeInv
      <3> QED
        BY <1>12, <2>1, <2>2, <2>3, <2>4, <3>1 DEF writeBody, WithBody
    <2>6. /\ files[<<c, o>>] \in Nat /\ files[<<c, n>>] \in Nat
          /\ texts \in Nat /\ acked[c] \in Nat
          /\ files[<<c, o>>] <= texts /\ files[<<c, n>>] <= texts /\ acked[c] <= texts
          /\ files \in [Paths -> Texts \cup {0}]
      BY <1>c, <1>t DEF ChapterOK, TypeInv, Paths, Texts
    <2>7. \A d \in Chapters : /\ index'[d].title = index[d].title
                              /\ index'[d] = NoEntry <=> index[d] = NoEntry
                              /\ SameEntry(d, index[d])
      BY <1>t, <2>1, <2>5, FreshOnly DEF SameEntry
    <2>8. /\ \A u \in Titles : u # n => files'[<<c, u>>] = files[<<c, u>>]
          /\ t # 0 => files'[<<c, n>>] = t
          /\ t = 0 => files' = files
          /\ \A d \in Chapters \ {c}, u \in Titles : files'[<<d, u>>] = files[<<d, u>>]
      BY <2>5, <2>6 DEF Paths
    <2>9. index[c] = NoEntry => Safe(c)
      BY <1>h, <2>1, <2>5 DEF HolderOK
    <2>10. index[c] # NoEntry => /\ index[c].title = o
                                 /\ TextOf(c) = files[<<c, o>>] /\ TextOf(c)' = files'[<<c, o>>]
      <3>1. index[c] # NoEntry => index[c].title = o /\ index'[c] # NoEntry /\ index'[c].title = o
        BY <2>1, <2>3, <2>7 DEF OldTitle
      <3> QED
        BY <3>1 DEF TextOf, HasText, Synchronized
    <2>11. Safe(c) \/ (index[c] # NoEntry /\ files[<<c, o>>] >= acked[c])
      BY <1>c, <2>9, <2>10 DEF ChapterOK
    <2>12. ChapterOK(c)'
      <3>1. \A u \in Titles : files'[<<c, u>>] <= texts'
        <4>1. \A u \in Titles : files[<<c, u>>] \in Nat /\ files[<<c, u>>] <= texts
          BY <1>c, <1>t DEF ChapterOK, TypeInv, Paths, Texts
        <4>2. texts <= texts' /\ (t # 0 => t <= texts') /\ texts' \in Nat
          BY <2>4, <2>5, <2>6
        <4>3. ASSUME NEW u \in Titles PROVE files'[<<c, u>>] <= texts'
          <5>1. CASE u = n /\ t # 0
            BY <2>8, <4>2, <5>1
          <5>2. CASE ~(u = n /\ t # 0)
            <6>1. files'[<<c, u>>] = files[<<c, u>>]
              BY <2>8, <5>2
            <6> QED
              BY <2>6, <4>1, <4>2, <6>1
          <5> QED
            BY <5>1, <5>2
        <4> QED
          BY <4>3
      <3>2. files[<<c, o>>] >= acked[c] => files'[<<c, o>>] >= acked[c]
        <4>1. CASE o # n
          BY <2>8, <4>1
        <4>2. CASE o = n /\ t = 0
          BY <2>8, <4>2
        <4>3. CASE o = n /\ t # 0
          BY <2>4, <2>6, <2>8, <4>3
        <4> QED
          BY <4>1, <4>2, <4>3
      <3>3. Safe(c)' \/ TextOf(c)' >= acked'[c]
        BY <2>5, <2>10, <2>11, <3>2 DEF Safe
      <3>4. c \notin gone' /\ acked'[c] <= texts'
        BY <2>5, <2>6
      <3> QED
        BY <3>1, <3>3, <3>4 DEF ChapterOK
    <2>13. HolderOK(s)'
      <3>1. /\ work'[s].step = "index" /\ work'[s].chapter = c /\ work'[s].title = n
            /\ work'[s].text = t /\ work'[s].content = work[s].content
        BY <1>h, <1>t, <2>1, <2>2, <2>5 DEF WorkInv, WorkType
      <3>2. index'[c] = NoEntry => Safe(c)'
        BY <2>5, <2>7, <2>9 DEF Safe
      <3>3. files'[<<c, n>>] >= t
        BY <2>4, <2>6, <2>8
      <3>4. work[s].content \/ Safe(c)' \/ files'[<<c, n>>] >= acked'[c]
        <4>1. CASE ~work[s].content /\ files[<<c, o>>] # 0
          BY <2>4, <2>5, <2>8, <2>11, <4>1 DEF Safe
        <4>2. CASE ~work[s].content /\ files[<<c, o>>] = 0
          <5>1. index[c] # NoEntry => Safe(c)
            BY <2>6, <2>11, <4>2 DEF Safe
          <5> QED
            BY <2>5, <2>9, <5>1 DEF Safe
        <4> QED
          BY <4>1, <4>2
      <3>5. c \notin gone'
        BY <2>5
      <3> QED
        BY <3>1, <3>2, <3>3, <3>4, <3>5 DEF HolderOK, Safe
    <2>14. InLock(s) /\ \A u \in Sessions \ {s} : work'[u] = work[u]
      BY <1>t, <2>5 DEF WorkInv, InLock, InIndexLock
    <2>15. texts <= texts'
      BY <2>5, <2>6
    <2> QED
      BY <1>t, <2>5, <2>7, <2>8, <2>12, <2>13, <2>14, <2>15, OneChapter
  <1>13. ASSUME NEW s \in Sessions, writeIndex(s) PROVE SavedInv'
    <2>1. PICK c \in Chapters : c = work[s].chapter
      BY <1>13, <1>h DEF writeIndex
    <2>2. PICK n \in Titles : n = work[s].title
      BY <1>13, <1>h DEF writeIndex, WorkOK
    <2>3. PICK w : w = work[s]
      OBVIOUS
    <2>4. /\ index' = [index EXCEPT ![c] = [title |-> n, text |-> w.text, fresh |-> w.fresh]]
          /\ acked' = [acked EXCEPT ![c] = IF w.content THEN w.text ELSE @]
          /\ files' = files /\ archive' = archive /\ gone' = gone /\ texts' = texts
          /\ texts \in Nat /\ w.step = "index"
      BY <1>13, <1>t, <2>1, <2>2, <2>3 DEF writeIndex, TypeInv
    <2>5. /\ index'[c] # NoEntry /\ index'[c].title = n
          /\ \A d \in Chapters \ {c} : index'[d] = index[d] /\ acked'[d] = acked[d]
          /\ acked'[c] = IF w.content THEN w.text ELSE acked[c]
      BY <1>t, <2>4, TitlesAssumption DEF IndexInv, TypeInv, NoEntry
    <2>6. /\ files[<<c, n>>] >= w.text /\ c \notin gone
          /\ w.content \/ Safe(c) \/ files[<<c, n>>] >= acked[c]
      BY <1>h, <2>1, <2>2, <2>3, <2>4 DEF HolderOK
    <2>7. /\ files[<<c, n>>] \in Nat /\ files[<<c, n>>] <= texts /\ w.text \in Nat
          /\ acked[c] <= texts /\ acked[c] \in Nat
      BY <1>c, <1>h, <1>t, <2>3 DEF ChapterOK, TypeInv, Paths, Texts, WorkType
    <2>8. TextOf(c)' = files[<<c, n>>]
      BY <2>4, <2>5 DEF TextOf, HasText, Synchronized
    <2>9. ChapterOK(c)'
      <3>1. acked'[c] <= texts'
        BY <2>4, <2>5, <2>6, <2>7
      <3>2. Safe(c)' \/ TextOf(c)' >= acked'[c]
        BY <2>4, <2>5, <2>6, <2>8 DEF Safe
      <3>3. \A t \in Titles : files'[<<c, t>>] <= texts'
        BY <1>c, <2>4 DEF ChapterOK
      <3> QED
        BY <2>4, <2>6, <3>1, <3>2, <3>3 DEF ChapterOK
    <2>10. HolderOK(s)'
      <3>1. /\ work'[s].step \in {"unlink", "record", "recordLocked"} /\ work'[s].chapter = c
            /\ work'[s].step = "unlink" => work'[s].title # n
        BY <1>13, <1>h, <1>t, <2>1, <2>2 DEF writeIndex, WorkInv, WorkType
      <3>2. CASE work'[s].step \in {"record", "recordLocked"}
        BY <3>2, OutsideOK
      <3>3. CASE work'[s].step = "unlink"
        BY <2>5, <3>1, <3>3 DEF HolderOK
      <3> QED
        BY <3>1, <3>2, <3>3
    <2>11. InLock(s) /\ \A u \in Sessions \ {s} : work'[u] = work[u]
      BY <1>13, <1>t, <2>3, <2>4 DEF writeIndex, WorkInv, InLock, InIndexLock
    <2>12. \A d \in Chapters \ {c} : SameEntry(d, index[d])
      BY <2>5 DEF SameEntry
    <2>13. texts <= texts'
      BY <2>4
    <2> QED
      BY <1>t, <2>4, <2>5, <2>9, <2>10, <2>11, <2>12, <2>13, OneChapter
  <1>14. ASSUME NEW s \in Sessions, removeSuperseded(s) PROVE SavedInv'
    <2>1. PICK c \in Chapters : c = work[s].chapter
      BY <1>14, <1>h DEF removeSuperseded
    <2>2. PICK o \in Titles : o = work[s].title
      BY <1>14, <1>h DEF removeSuperseded, WorkOK
    <2>3. HolderOK(s)' /\ InLock(s)
      BY <1>14, <1>t, OutsideOK DEF removeSuperseded, WorkInv, InLock, InIndexLock
    <2>4. index[c] # NoEntry /\ index[c].title # o /\ index[c].title \in Titles
      BY <1>14, <1>h, <1>t, <2>1, <2>2 DEF removeSuperseded, HolderOK, IndexInv
    <2>5. \A t \in Titles : /\ t # o => files'[<<c, t>>] = files[<<c, t>>]
                            /\ files'[<<c, t>>] \in {0, files[<<c, t>>]}
      BY <1>14, <1>t, <2>1, <2>2 DEF removeSuperseded, TypeInv, Paths
    <2>6. ChapterOK(c)'
      <3>1. TextOf(c)' = TextOf(c)
        BY <1>14, <2>4, <2>5 DEF removeSuperseded, TextOf, HasText, Synchronized
      <3>2. c \notin gone
        BY <1>c, <2>4 DEF ChapterOK
      <3>3. \A t \in Titles : files'[<<c, t>>] <= texts
        <4>1. \A t \in Titles : files[<<c, t>>] <= texts
          BY <1>c DEF ChapterOK
        <4> QED
          BY <1>t, <2>5, <4>1 DEF TypeInv
      <3> QED
        BY <1>14, <1>c, <3>1, <3>2, <3>3 DEF removeSuperseded, ChapterOK, Safe
    <2>7. \A d \in Chapters \ {c} : \A t \in Titles : files'[<<d, t>>] = files[<<d, t>>]
      BY <1>14, <1>t, <2>1, <2>2 DEF removeSuperseded, TypeInv, Paths
    <2>8. \A d \in Chapters : SameEntry(d, index[d])
      BY <1>14 DEF removeSuperseded, SameEntry
    <2>9. \A u \in Sessions \ {s} : work'[u] = work[u]
      BY <1>14, <1>t DEF removeSuperseded, WorkInv
    <2>10. texts <= texts' /\ archive' = archive /\ gone' = gone /\ acked' = acked
      BY <1>14, <1>t DEF removeSuperseded, TypeInv
    <2> QED
      BY <1>14, <1>t, <2>3, <2>6, <2>7, <2>8, <2>9, <2>10, OneChapter
  <1>15. ASSUME NEW s \in Sessions, record(s) PROVE SavedInv'
    <2>1. HolderOK(s)'
      BY <1>15, <1>t, OutsideOK DEF record, Idle, WorkInv
    <2>2. \A u \in Sessions : HolderOK(u)'
      <3>1. ASSUME NEW u \in Sessions \ {s} PROVE HolderOK(u)'
        BY <1>15, <1>h, <1>t, HolderStays DEF record, WorkInv
      <3> QED
        BY <2>1, <3>1
    <2>3. ASSUME NEW c \in Chapters PROVE ChapterOK(c)'
      BY <1>15, <1>t, ChapterStays DEF record, SameEntry, TypeInv
    <2> QED
      BY <1>d, <2>2, <2>3
  <1>16. ASSUME NEW s \in Sessions, dropEntry(s) PROVE SavedInv'
    <2>1. PICK c \in Chapters : c = work[s].chapter
      BY <1>16, <1>h DEF dropEntry
    <2>2. Safe(c)'
      BY <1>16, <1>h, <2>1 DEF dropEntry, HolderOK, Safe
    <2>3. HolderOK(s)'
      <3>1. \/ work'[s] = Idle
            \/ work'[s].step = "move" /\ work'[s].chapter = c
        BY <1>16, <1>h, <1>t, <2>1 DEF dropEntry, WorkInv, WorkType
      <3>2. CASE work'[s] = Idle
        BY <3>2, OutsideOK DEF Idle
      <3>3. CASE work'[s].step = "move" /\ work'[s].chapter = c
        BY <2>2, <3>3 DEF HolderOK, Safe
      <3> QED
        BY <3>1, <3>2, <3>3
    <2>4. /\ files' = files /\ archive' = archive /\ acked' = acked /\ gone' = gone
          /\ texts <= texts'
      BY <1>16, <1>t DEF dropEntry, TypeInv
    <2>5. index'[c] = NoEntry /\ \A d \in Chapters \ {c} : SameEntry(d, index[d])
      BY <1>16, <1>t, <2>1 DEF dropEntry, IndexInv, SameEntry
    <2>6. ChapterOK(c)'
      BY <1>t, <2>2, <2>4, <2>5, FilesGo
    <2>7. InLock(s) /\ \A u \in Sessions \ {s} : work'[u] = work[u]
      BY <1>16, <1>t DEF dropEntry, WorkInv, InLock, InIndexLock
    <2> QED
      BY <1>t, <2>3, <2>4, <2>5, <2>6, <2>7, OneChapter
  <1>17. ASSUME NEW s \in Sessions, discardSoftDelete(s) PROVE SavedInv'
    <2>1. PICK c \in Chapters : c = work[s].chapter
      BY <1>17, <1>h DEF discardSoftDelete
    <2>2. Safe(c)'
      BY <1>17, <1>h, <2>1 DEF discardSoftDelete, HolderOK, Safe
    <2>3. HolderOK(s)'
      <3>1. work'[s].step \in {"softDrop", "move"} /\ work'[s].chapter = c
        BY <1>17, <1>h, <1>t, <2>1 DEF discardSoftDelete, WorkInv, WorkType
      <3> QED
        BY <2>2, <3>1 DEF HolderOK, Safe
    <2>4. /\ archive' = archive /\ acked' = acked /\ gone' = gone /\ texts <= texts'
      BY <1>17, <1>t DEF discardSoftDelete, TypeInv
    <2>5. /\ \A t \in Titles : files'[<<c, t>>] \in {0, files[<<c, t>>]}
          /\ \A d \in Chapters \ {c}, t \in Titles : files'[<<d, t>>] = files[<<d, t>>]
      <3>1. HasText(c) => Synchronized(c).title \in Titles
        BY <1>t, TextType
      <3> QED
        BY <1>17, <1>t, <2>1, <3>1 DEF discardSoftDelete, TypeInv, Paths
    <2>6. /\ index'[c] # NoEntry => index[c] # NoEntry \/ TitlesOf(c) # {}
          /\ \A d \in Chapters : SameEntry(d, Synchronized(d))
      BY <1>17, <1>t, Taken, SynchronizedType DEF discardSoftDelete
    <2>7. ChapterOK(c)'
      BY <1>t, <2>2, <2>4, <2>5, <2>6, FilesGo
    <2>8. InLock(s) /\ \A u \in Sessions \ {s} : work'[u] = work[u]
      BY <1>17, <1>t DEF discardSoftDelete, WorkInv, InLock, InIndexLock
    <2> QED
      BY <1>t, <2>3, <2>4, <2>5, <2>6, <2>7, <2>8, OneChapter
  <1>18. ASSUME NEW s \in Sessions, discardMove(s) PROVE SavedInv'
    <2>1. PICK c \in Chapters : c = work[s].chapter
      BY <1>18, <1>h DEF discardMove
    <2>2. \A d \in Chapters : archive[d] \subseteq archive'[d]
      BY <1>18, <1>t, <2>1 DEF discardMove, TypeInv
    <2>3. Safe(c)'
      BY <1>18, <1>h, <2>1, <2>2 DEF discardMove, HolderOK, Safe
    <2>4. TitlesOf(c)' = {}
      BY <1>18, <2>1 DEF discardMove, Leftovers, TitlesOf, Paths
    <2>5. HolderOK(s)'
      <3>1. work'[s].step = "prune" /\ work'[s].chapter = c
        BY <1>18, <1>h, <1>t, <2>1 DEF discardMove, WorkInv, WorkType
      <3> QED
        BY <2>3, <2>4, <3>1 DEF HolderOK, Safe, TitlesOf
    <2>6. /\ index' = index /\ acked' = acked /\ gone' = gone /\ texts <= texts'
      BY <1>18, <1>t DEF discardMove, TypeInv
    <2>7. /\ \A t \in Titles : files'[<<c, t>>] \in {0, files[<<c, t>>]}
          /\ \A d \in Chapters \ {c}, t \in Titles : files'[<<d, t>>] = files[<<d, t>>]
      BY <1>18, <2>1 DEF discardMove, Paths
    <2>8. ChapterOK(c)'
      BY <1>t, <2>2, <2>3, <2>6, <2>7, FilesGo
    <2>9. \A d \in Chapters : SameEntry(d, index[d])
      BY <2>6 DEF SameEntry
    <2>10. InLock(s) /\ \A u \in Sessions \ {s} : work'[u] = work[u]
      BY <1>18, <1>t DEF discardMove, WorkInv, InLock, InIndexLock
    <2> QED
      BY <1>t, <2>2, <2>5, <2>6, <2>7, <2>8, <2>9, <2>10, OneChapter
  <1>19. ASSUME NEW s \in Sessions, discardPrune(s) PROVE SavedInv'
    <2>1. PICK c \in Chapters : c = work[s].chapter
      BY <1>19, <1>h DEF discardPrune
    <2>2. Safe(c)'
      BY <1>19, <1>h, <2>1 DEF discardPrune, HolderOK, Safe
    <2>3. HolderOK(s)'
      BY <1>19, <1>t, OutsideOK DEF discardPrune, Idle, WorkInv
    <2>4. /\ files' = files /\ archive' = archive /\ acked' = acked /\ texts <= texts'
          /\ gone' \subseteq gone \cup {c}
      BY <1>19, <1>t, <2>1 DEF discardPrune, TypeInv
    <2>5. index'[c] = NoEntry /\ \A d \in Chapters \ {c} : SameEntry(d, index[d])
      BY <1>19, <1>t, <2>1 DEF discardPrune, IndexInv, SameEntry
    <2>6. c \in gone' => c \in gone \/ (index'[c] = NoEntry /\ TitlesOf(c)' = {})
      <3>1. TitlesOf(c)' = TitlesOf(c)
        BY <2>4 DEF TitlesOf
      <3>2. work[s].fresh => TitlesOf(c) = {}
        BY <1>19, <1>h, <2>1 DEF discardPrune, HolderOK
      <3> QED
        BY <1>19, <2>5, <3>1, <3>2 DEF discardPrune
    <2>7. ChapterOK(c)'
      BY <1>t, <2>2, <2>4, <2>5, <2>6, FilesGo
    <2>8. InLock(s) /\ \A u \in Sessions \ {s} : work'[u] = work[u]
      BY <1>19, <1>t DEF discardPrune, WorkInv, InLock, InIndexLock
    <2> QED
      BY <1>t, <2>3, <2>4, <2>5, <2>7, <2>8, OneChapter
  <1>20. ASSUME NEW s \in Sessions, stops(s) PROVE SavedInv'
    <2>1. HolderOK(s)'
      BY <1>20, <1>t, OutsideOK DEF stops, Idle, WorkInv
    <2>2. \A u \in Sessions \ {s} : HolderOK(u)'
      BY <1>20, <1>h, <1>t, HolderStays DEF stops, WorkInv
    <2>3. \A c \in Chapters : ChapterOK(c)'
      BY <1>20, <1>t, ChapterStays DEF stops, SameEntry, TypeInv
    <2> QED
      BY <1>d, <2>1, <2>2, <2>3
  <1>21. ASSUME list PROVE SavedInv'
    <2>1. \A c \in Chapters : ChapterOK(c)'
      BY <1>21, <1>t, ChapterStays, Taken DEF list, TypeInv
    <2>2. \A u \in Sessions : HolderOK(u)'
      BY <1>21 DEF list, LockFree, InIndexLock, HolderOK
    <2> QED
      BY <1>d, <2>1, <2>2
  <1>22. ASSUME NEW c \in Chapters, NEW t \in Titles, writeExternally(c, t) PROVE SavedInv'
    <2>1. /\ index' = [index EXCEPT ![c].fresh = @ /\ index[c].title # t]
          /\ UNCHANGED <<archive, acked>> /\ texts' = texts + 1 /\ texts \in Nat
          /\ external' = external \cup {texts + 1} /\ gone' = gone \ {c}
          /\ files[<<c, t>>] # 0 \/ TitlesOf(c) = {}
      BY <1>22, <1>t DEF writeExternally, TypeInv
    <2>2. \A d \in Chapters : /\ index'[d].title = index[d].title
                              /\ index'[d] = NoEntry <=> index[d] = NoEntry
                              /\ SameEntry(d, index[d])
      BY <1>t, <2>1, FreshOnly DEF SameEntry
    <2>3. /\ files'[<<c, t>>] = texts + 1
          /\ \A u \in Titles : u # t => files'[<<c, u>>] = files[<<c, u>>]
          /\ \A d \in Chapters \ {c}, u \in Titles : files'[<<d, u>>] = files[<<d, u>>]
      BY <1>22, <1>t DEF writeExternally, TypeInv, Paths
    <2>4. \A d \in Chapters, u \in Titles :
             /\ files[<<d, u>>] \in Nat /\ files[<<d, u>>] <= texts
             /\ files'[<<d, u>>] \in {files[<<d, u>>], texts + 1}
             /\ files'[<<d, u>>] <= texts + 1 /\ files'[<<d, u>>] >= files[<<d, u>>]
      <3> TAKE d \in Chapters, u \in Titles
      <3>1. files[<<d, u>>] \in Nat
        BY <1>t DEF TypeInv, Paths, Texts
      <3>2. files[<<d, u>>] <= texts
        BY <1>c DEF ChapterOK
      <3>3. files'[<<d, u>>] \in {files[<<d, u>>], texts + 1}
        BY <2>3
      <3> QED
        BY <2>1, <3>1, <3>2, <3>3
    <2>5. TextOf(c)' \in {TextOf(c), texts + 1}
      <3>1. texts + 1 # 0 /\ -1 \notin Titles
        BY <2>1, TitlesAssumption
      <3>2. CASE index[c] # NoEntry
        <4>1. index[c].title \in Titles
          BY <1>t, <3>2 DEF IndexInv
        <4>2. TextOf(c) = files[<<c, index[c].title>>]
          BY <3>2 DEF TextOf, HasText, Synchronized
        <4>3. TextOf(c)' = files'[<<c, index[c].title>>]
          BY <2>2, <3>2 DEF TextOf, HasText, Synchronized
        <4> QED
          BY <2>4, <4>1, <4>2, <4>3
      <3>3. CASE index[c] = NoEntry
        <4>1. index'[c] = NoEntry /\ t \in TitlesOf(c)' /\ TitlesOf(c)' \subseteq Titles
          BY <2>2, <2>3, <3>1, <3>3 DEF TitlesOf
        <4>2. PICK f \in Titles : f = First(TitlesOf(c)')
          BY <4>1, FirstIsOne
        <4>3. TextOf(c)' = files'[<<c, f>>]
          <5>1. Synchronized(c)'.title = f /\ Synchronized(c)' # NoEntry
            BY <3>1, <4>1, <4>2 DEF Synchronized, NoEntry
          <5> QED
            BY <5>1 DEF TextOf, HasText
        <4>4. CASE TitlesOf(c) = {}
          <5>1. TitlesOf(c)' = {t}
            BY <2>3, <4>1, <4>4 DEF TitlesOf
          <5>2. f = t
            BY <4>1, <4>2, <5>1, FirstIsOne
          <5> QED
            BY <2>3, <4>3, <5>2
        <4>5. CASE TitlesOf(c) # {}
          <5>1. TitlesOf(c)' = TitlesOf(c)
            BY <2>1, <2>3, <3>1, <4>5 DEF TitlesOf
          <5>2. TextOf(c) = files[<<c, f>>]
            <6>1. Synchronized(c).title = f /\ Synchronized(c) # NoEntry
              BY <3>1, <3>3, <4>2, <4>5, <5>1 DEF Synchronized, NoEntry
            <6> QED
              BY <6>1 DEF TextOf, HasText
          <5> QED
            BY <2>4, <4>3, <5>2
        <4> QED
          BY <4>4, <4>5
      <3> QED
        BY <3>2, <3>3
    <2>6. ASSUME NEW d \in Chapters \ {c} PROVE ChapterOK(d)' /\ TextOf(d)' = TextOf(d)
      <3>1. \A u \in Titles : files'[<<d, u>>] = files[<<d, u>>]
        BY <2>3
      <3>2. TextOf(d)' = TextOf(d)
        BY <1>t, <2>2, <3>1, SameText
      <3>3. texts' \in Nat /\ texts <= texts' /\ archive[d] \subseteq archive'[d]
        BY <2>1
      <3> QED
        BY <2>1, <2>2, <3>1, <3>2, <3>3, ChapterStays
    <2>7. ChapterOK(c)'
      <3>1. acked[c] \in Nat /\ acked[c] <= texts
        BY <1>c, <1>t DEF ChapterOK, TypeInv, Texts
      <3>2. Safe(c)' \/ TextOf(c)' >= acked'[c]
        BY <1>c, <2>1, <2>5, <3>1 DEF ChapterOK, Safe
      <3> QED
        BY <2>1, <2>4, <3>1, <3>2 DEF ChapterOK
    <2>8. ASSUME NEW s \in Sessions PROVE HolderOK(s)'
      <3>1. PICK w : w = work[s]
        OBVIOUS
      <3>2. /\ work'[s].step = w.step /\ work'[s].kind = w.kind /\ work'[s].chapter = w.chapter
            /\ work'[s].title = w.title /\ work'[s].content = w.content
            /\ work'[s].base = w.base /\ work'[s].text = w.text
            /\ work'[s].fresh =>
                 w.fresh /\ ~(w.chapter = c /\ (w.title = t \/ w.kind = "discard"))
        BY <1>22, <1>h, <3>1 DEF writeExternally, WorkType
      <3>3. CASE w.step = "idle"
        BY <3>2, <3>3, OutsideOK
      <3>4. CASE w.step # "idle"
        <4>1. PICK d \in Chapters : d = w.chapter
          BY <1>h, <3>1, <3>4
        <4>2. Safe(d)' <=> Safe(d)
          BY <2>1 DEF Safe
        <4>3. w.step \in {"body", "index"} /\ index'[d] = NoEntry => Safe(d)'
          BY <1>h, <2>2, <3>1, <4>1, <4>2 DEF HolderOK
        <4>4. w.step = "body" /\ w.kind = "pipeline" =>
                 TextOf(d)' = w.base \/ TextOf(d)' \in external'
          <5>1. w.step = "body" /\ w.kind = "pipeline" =>
                   TextOf(d) = w.base \/ TextOf(d) \in external
            BY <1>h, <3>1, <4>1 DEF HolderOK, ReplacesWhatItRead
          <5> QED
            BY <2>1, <2>5, <2>6, <5>1
        <4>5. w.step = "index" =>
                 /\ files'[<<d, w.title>>] >= w.text
                 /\ w.content \/ Safe(d)' \/ files'[<<d, w.title>>] >= acked'[d]
                 /\ d \notin gone'
          <5>1. SUFFICES ASSUME w.step = "index"
                         PROVE  /\ files'[<<d, w.title>>] >= w.text
                                /\ w.content \/ Safe(d)' \/ files'[<<d, w.title>>] >= acked'[d]
                                /\ d \notin gone'
            OBVIOUS
          <5>2. w.title \in Titles /\ w.text \in Nat /\ acked[d] \in Nat
            BY <1>h, <1>t, <3>1, <5>1 DEF WorkOK, WorkType, Texts, TypeInv
          <5>3. /\ files[<<d, w.title>>] >= w.text /\ d \notin gone
                /\ w.content \/ Safe(d) \/ files[<<d, w.title>>] >= acked[d]
            BY <1>h, <3>1, <4>1, <5>1 DEF HolderOK
          <5>4. /\ files[<<d, w.title>>] \in Nat /\ files'[<<d, w.title>>] \in Nat
                /\ files'[<<d, w.title>>] >= files[<<d, w.title>>]
            BY <2>1, <2>4, <5>2
          <5> QED
            BY <2>1, <4>2, <5>2, <5>3, <5>4
        <4>6. w.step = "unlink" => index'[d] # NoEntry /\ index'[d].title # w.title
          BY <1>h, <2>2, <3>1, <4>1 DEF HolderOK
        <4>7. w.step \in {"soft", "softDrop", "move", "prune", "dropEntry"} => Safe(d)'
          BY <1>h, <3>1, <4>1, <4>2 DEF HolderOK
        <4>8. w.step = "prune" /\ work'[s].fresh => TitlesOf(d)' = {}
          <5>1. SUFFICES ASSUME w.step = "prune", work'[s].fresh PROVE TitlesOf(d)' = {}
            OBVIOUS
          <5>2. w.kind = "discard"
            BY <1>h, <3>1, <5>1 DEF WorkOK
          <5>3. d # c /\ TitlesOf(d) = {}
            BY <1>h, <3>1, <3>2, <4>1, <5>1, <5>2 DEF HolderOK
          <5> QED
            BY <2>3, <5>3 DEF TitlesOf
        <4> QED
          BY <3>2, <4>1, <4>3, <4>4, <4>5, <4>6, <4>7, <4>8
             DEF HolderOK, ReplacesWhatItRead, Safe
      <3> QED
        BY <3>3, <3>4
    <2> QED
      BY <1>d, <2>6, <2>7, <2>8
  <1>23. ASSUME NEW counted \in BOOLEAN, reconcile(counted) PROVE SavedInv'
    <2>1. ASSUME NEW c \in Chapters
          PROVE SameEntry(c, Synchronized(c)) \/ SameEntry(c, index[c])
      <3>1. CASE HasText(c)
        <4>1. Synchronized(c) \in EntryType /\ Synchronized(c).title \in Titles
          BY <1>t, <3>1, SynchronizedType, TextType
        <4>2. /\ index'[c].title = Synchronized(c).title /\ index'[c] # NoEntry
              /\ Synchronized(c) # NoEntry
          BY <1>23, <3>1, <4>1, TitlesAssumption DEF reconcile, EntryType, NoEntry, HasText
        <4> QED
          BY <4>2 DEF SameEntry
      <3>2. CASE ~HasText(c)
        BY <1>23, <3>2 DEF reconcile, SameEntry
      <3> QED
        BY <3>1, <3>2
    <2>2. ASSUME NEW c \in Chapters PROVE ChapterOK(c)'
      <3>1. UNCHANGED <<files, acked, archive, gone, texts>>
        BY <1>23 DEF reconcile
      <3>2. texts' \in Nat /\ texts <= texts'
        BY <1>t, <3>1 DEF TypeInv
      <3> QED
        BY <2>1, <3>1, <3>2, ChapterStays
    <2>3. \A u \in Sessions : HolderOK(u)'
      BY <1>23 DEF reconcile, LockFree, InIndexLock, HolderOK
    <2> QED
      BY <1>d, <2>2, <2>3
  <1>24. CASE UNCHANGED vars
    <2>1. \A u \in Sessions : HolderOK(u)'
      BY <1>24, <1>h, HolderStays DEF vars
    <2>2. \A c \in Chapters : ChapterOK(c)'
      BY <1>24, <1>t, ChapterStays DEF vars, SameEntry, TypeInv
    <2> QED
      BY <1>d, <2>1, <2>2
  <1> QED
    BY <1>1, <1>2, <1>3, <1>4, <1>5, <1>6, <1>7, <1>8, <1>9, <1>10, <1>11, <1>12, <1>13, <1>14,
       <1>15, <1>16, <1>17, <1>18, <1>19, <1>20, <1>21, <1>22, <1>23, <1>24 DEF Next, Call, Step

\* Whichever step of whichever call fails, and whoever else writes, the text saved last or
\* a later one is in the chapter's file or among the discarded ones.
THEOREM SavedTextsStay == Spec => []NoSavedTextLost
  <1>1. ASSUME SavedInv PROVE NoSavedTextLost
    <2> SUFFICES ASSUME NEW c \in Chapters, acked[c] # 0
                 PROVE  \E t \in archive[c] \cup {TextOf(c)} : t >= acked[c]
      BY DEF NoSavedTextLost
    <2>1. ChapterOK(c)
      BY <1>1 DEF SavedInv
    <2> QED
      BY <2>1 DEF ChapterOK, Safe
  <1> QED
    BY <1>1, SavedInit, SavedNext, PTL DEF Spec

\* A discarded chapter stays away until somebody writes it.
THEOREM DiscardIsFinal == Spec => []DiscardedStayDiscarded
  <1>1. SavedInv => DiscardedStayDiscarded
    BY DEF SavedInv, TypeInv, ChapterOK, DiscardedStayDiscarded
  <1> QED
    BY <1>1, SavedInit, SavedNext, PTL DEF Spec

\* pipeline.write replaces the text it has read, or one of another editor's.
THEOREM PipelineReplacesWhatItRead == Spec => PipelineKeepsSaves
  <1>1. ASSUME SavedInv, NEW s \in Sessions, writeBody(s), work[s].kind = "pipeline"
        PROVE  ReplacesWhatItRead(s)
    BY <1>1 DEF SavedInv, HolderOK, writeBody
  <1>2. SavedInv => \A s \in Sessions :
                      writeBody(s) /\ work[s].kind = "pipeline" => ReplacesWhatItRead(s)
    BY <1>1
  <1> QED
    BY <1>2, SavedInit, SavedNext, PTL DEF Spec, PipelineKeepsSaves

-----------------------------------------------------------------------------
(* No word is counted twice.  What a call will record is a set of pairs, one for each     *)
(* word, so that the words of all calls in progress can be counted together.              *)

Pairs(f, S) == UNION {{s} \X (1..f[s]) : s \in S}

\* What a call is about to record for a chapter.
Share(s, c) ==
  IF work[s].step \in {"unlink", "record", "recordLocked"} /\ work[s].chapter = c
  THEN Growth(work[s].previous, WordCount(work[s].text)) ELSE 0

Shares(c) == [s \in Sessions |-> Share(s, c)]

\* Words recorded, and about to be recorded.
Owed(c) == log[c] + Cardinality(Pairs(Shares(c), Sessions))

\* The words of one member of a finite set can be counted apart.
LEMMA PairsApart ==
  ASSUME NEW f \in [Sessions -> Nat], NEW s \in Sessions
  PROVE  /\ Cardinality(Pairs(f, Sessions)) \in Nat
         /\ Cardinality(Pairs(f, Sessions \ {s})) \in Nat
         /\ Cardinality(Pairs(f, Sessions)) = Cardinality(Pairs(f, Sessions \ {s})) + f[s]
  <1>1. ASSUME NEW S \in SUBSET Sessions PROVE IsFiniteSet(Pairs(f, S))
    <2>1. IsFiniteSet(S)
      BY SessionsAssumption, FS_Subset
    <2>2. ASSUME NEW u \in S PROVE IsFiniteSet({u} \X (1..f[u]))
      <3>1. f[u] \in Int /\ 1 \in Int
        OBVIOUS
      <3>2. IsFiniteSet({u}) /\ IsFiniteSet(1..f[u])
        BY <3>1, FS_Singleton, FS_Interval
      <3> QED
        BY <3>2, FS_Product
    <2>3. IsFiniteSet({{u} \X (1..f[u]) : u \in S})
      <3>1. PICK h : h = [u \in S |-> {u} \X (1..f[u])]
        OBVIOUS
      <3>2. h \in Surjection(S, {{u} \X (1..f[u]) : u \in S})
        BY <3>1 DEF Surjection
      <3> QED
        BY <2>1, <3>2, FS_Surjection
    <2> QED
      BY <2>2, <2>3, FS_UNION DEF Pairs
  <1>2. IsFiniteSet(Pairs(f, Sessions \ {s})) /\ IsFiniteSet(Pairs(f, Sessions))
    BY <1>1
  <1>3. IsFiniteSet({s} \X (1..f[s])) /\ Cardinality({s} \X (1..f[s])) = f[s]
    <2>1. IsFiniteSet({s}) /\ Cardinality({s}) = 1
      BY FS_Singleton
    <2>2. IsFiniteSet(1..f[s]) /\ Cardinality(1..f[s]) = f[s]
      BY FS_Interval
    <2> QED
      BY <2>1, <2>2, FS_Product
  <1>4. Pairs(f, Sessions) = Pairs(f, Sessions \ {s}) \cup ({s} \X (1..f[s]))
    BY DEF Pairs
  <1>5. Pairs(f, Sessions \ {s}) \cap ({s} \X (1..f[s])) = {}
    BY DEF Pairs
  <1>6. ASSUME NEW A, NEW B, IsFiniteSet(A), IsFiniteSet(B), A \cap B = {}
        PROVE  Cardinality(A \cup B) = Cardinality(A) + Cardinality(B)
    <2>1. Cardinality({}) = 0 /\ Cardinality(A) \in Nat /\ Cardinality(B) \in Nat
      BY <1>6, FS_EmptySet, FS_CardinalityType
    <2>2. Cardinality(A \cup B) = Cardinality(A) + Cardinality(B) - Cardinality(A \cap B)
      BY <1>6, FS_Union
    <2>3. Cardinality(A \cap B) = 0
      BY <1>6, <2>1
    <2> QED
      BY <2>1, <2>2, <2>3
  <1>7. Cardinality(Pairs(f, Sessions \ {s})) \in Nat
    BY <1>2, FS_CardinalityType
  <1>8. Cardinality(Pairs(f, Sessions)) =
           Cardinality(Pairs(f, Sessions \ {s})) + Cardinality({s} \X (1..f[s]))
    BY <1>2, <1>3, <1>4, <1>5, <1>6, FS_Union
  <1> QED
    BY <1>3, <1>7, <1>8

SharesOK == \A c \in Chapters : Shares(c) \in [Sessions -> Nat]

\* What each call is about to record is a number of words.
LEMMA ShareType == TypeInv => SharesOK
  <1> SUFFICES ASSUME TypeInv, NEW c \in Chapters PROVE Shares(c) \in [Sessions -> Nat]
    BY DEF SharesOK
  <1>1. ASSUME NEW s \in Sessions PROVE Share(s, c) \in Nat
    <2>1. work[s].previous \in Nat /\ WordCount(work[s].text) \in Nat
      BY WordCountType DEF TypeInv, WorkInv, WorkType
    <2> QED
      BY <2>1, GrowthType DEF Share
  <1> QED
    BY <1>1 DEF Shares

\* What all calls are about to record for a chapter is a number of words.
LEMMA SumOfShares ==
  ASSUME TypeInv, NEW c \in Chapters
  PROVE  Cardinality(Pairs(Shares(c), Sessions)) \in Nat
  <1>1. CASE Sessions = {}
    <2>1. Pairs(Shares(c), Sessions) = {}
      BY <1>1 DEF Pairs
    <2>2. Cardinality({}) = 0
      BY FS_EmptySet
    <2> QED
      BY <2>1, <2>2
  <1>2. CASE Sessions # {}
    BY <1>2, ShareType, PairsApart DEF SharesOK
  <1> QED
    BY <1>1, <1>2

OwedOK == \A c \in Chapters : Owed(c) \in Nat /\ log[c] <= Owed(c)

\* What is recorded and about to be recorded is a number of words, no less than recorded.
LEMMA OwedIsNat == TypeInv => OwedOK
  <1> SUFFICES ASSUME TypeInv, NEW c \in Chapters PROVE Owed(c) \in Nat /\ log[c] <= Owed(c)
    BY DEF OwedOK
  <1>1. log[c] \in Nat
    BY DEF TypeInv
  <1>2. PICK n \in Nat : n = Cardinality(Pairs(Shares(c), Sessions))
    BY SumOfShares
  <1> QED
    BY <1>1, <1>2 DEF Owed

\* One call takes a step: what is owed changes by its share.
LEMMA OwedByOne ==
  ASSUME TypeInv, TypeInv', NEW c \in Chapters, NEW s \in Sessions,
         \A u \in Sessions \ {s} : work'[u] = work[u]
  PROVE  Owed(c)' - log'[c] + Share(s, c) = Owed(c) - log[c] + Share(s, c)'
  <1>1. PICK f \in [Sessions -> Nat] : f = Shares(c)
    BY ShareType DEF SharesOK
  <1>2. PICK h \in [Sessions -> Nat] : h = Shares(c)'
    <2>1. (TypeInv => SharesOK)'
      BY ShareType, PTL
    <2> QED
      BY <2>1 DEF SharesOK
  <1>3. ASSUME NEW u \in Sessions \ {s} PROVE f[u] = h[u]
    BY <1>1, <1>2 DEF Shares, Share
  <1>4. Pairs(f, Sessions \ {s}) = Pairs(h, Sessions \ {s})
    BY <1>3 DEF Pairs
  <1>5. f[s] = Share(s, c) /\ h[s] = Share(s, c)'
    BY <1>1, <1>2 DEF Shares
  <1>6. /\ Owed(c) = log[c] + Cardinality(Pairs(f, Sessions))
        /\ Owed(c)' = log'[c] + Cardinality(Pairs(h, Sessions))
    BY <1>1, <1>2 DEF Owed
  <1>7. log[c] \in Nat /\ log'[c] \in Nat
    BY DEF TypeInv
  <1>8. /\ Cardinality(Pairs(f, Sessions)) = Cardinality(Pairs(f, Sessions \ {s})) + f[s]
        /\ Cardinality(Pairs(h, Sessions)) = Cardinality(Pairs(f, Sessions \ {s})) + h[s]
        /\ Cardinality(Pairs(f, Sessions \ {s})) \in Nat
    BY <1>4, PairsApart
  <1> QED
    BY <1>5, <1>6, <1>7, <1>8

\* The words of a text that are not counted yet when p words are are within bounds: some
\* moment at which the text was written had all of them grown.
Within(T, g, q, p, t) == t \in T /\ q + Growth(p, WordCount(t)) <= g[t]

\* T holds texts of the chapter and g what had grown when each of them was written.
Chron(c, T, g) ==
  /\ \A t \in T : t <= texts
  /\ \A t \in T : g[t] + Growth(WordCount(t), WordCount(newest[c])) <= grown[c]
  /\ \A t, u \in T : t < u => g[t] + Growth(WordCount(t), WordCount(u)) <= g[u]

\* All the words of whichever text comes to be counted are within bounds.
FromZero(c, T, g, q) ==
  /\ q + WordCount(newest[c]) <= grown[c]
  /\ \A t \in TextsOf(c) : Within(T, g, q, 0, t)

\* The text of the file that the index names.
Named(c) == IF index[c] = NoEntry THEN 0 ELSE files[<<c, index[c].title>>]

\* No more is owed than had grown when the text the index knows was written; if it knows
\* none, or the file is missing, counting may start from zero.
EntryCounts(c, T, g, q) ==
  /\ TextsOf(c) \subseteq T
  /\ index[c].text # 0 => index[c].text \in T /\ q <= g[index[c].text]
  /\ index[c].text = 0 \/ Named(c) = 0 => FromZero(c, T, g, q)
  /\ Named(c) # 0 => index[c].text <= Named(c)

\* The same for what a call in the index lock is going to write and to count.
CallCounts(s, c, T, g, q) ==
  LET w == work[s]
      n == files[<<c, w.title>>]
  IN  /\ w.step = "body" =>
           /\ q + Growth(w.previous, WordCount(newest[c])) <= grown[c]
           /\ Named(c) # 0 => Within(T, g, q, w.previous, Named(c))
           /\ Named(c) = 0 /\ n # 0 => Within(T, g, q, w.previous, n)
      /\ w.step = "index" =>
           /\ w.text = 0 => FromZero(c, T, g, q)
           /\ w.text # 0 => Within(T, g, q, w.previous, w.text) /\ w.text <= n
      /\ w.step \in {"dropEntry", "softDrop", "prune"} => FromZero(c, T, g, q)

\* The texts of a chapter, its entry and the calls on it account for q words.
Accounted(c, T, g, q) ==
  /\ Chron(c, T, g)
  /\ EntryCounts(c, T, g, q)
  /\ \A s \in Sessions : work[s].chapter = c => CallCounts(s, c, T, g, q)

\* They account for the words that are recorded and about to be.
Counted(c) == \E T \in SUBSET Texts, g \in [Texts -> Nat] : Accounted(c, T, g, Owed(c))

\* The inductive invariant of the words recorded.
CountInv == SavedInv /\ \A c \in Chapters \ miscounted : Counted(c)

\* How the growth of a text adds up when it is measured in steps.
LEMMA Growths ==
  ASSUME NEW a \in Nat, NEW b \in Nat, NEW d \in Nat
  PROVE  /\ Growth(a, b) \in Nat /\ Growth(a, a) = 0 /\ Growth(a, 0) = 0 /\ Growth(0, b) = b
         /\ Growth(a, d) <= Growth(a, b) + Growth(b, d)
         /\ d <= b + Growth(b, d)
  BY DEF Growth

\* What the lemmas below need to know of the values in a chapter.
LEMMA CountTypes ==
  ASSUME TypeInv, NEW c \in Chapters
  PROVE  /\ newest[c] \in Texts \cup {0} /\ grown[c] \in Nat /\ texts \in Nat
         /\ index[c].text \in Texts \cup {0} /\ Named(c) \in Texts \cup {0}
         /\ Named(c) # 0 => Named(c) \in TextsOf(c)
         /\ TextsOf(c) \subseteq Texts
         /\ \A t \in Texts \cup {0} : WordCount(t) \in Nat /\ t \in Nat
         /\ WordCount(0) = 0
  <1>1. \A t \in Titles : files[<<c, t>>] \in Texts \cup {0}
    BY DEF TypeInv, Paths
  <1>2. index[c].text \in Texts \cup {0} /\ (index[c] = NoEntry \/ index[c].title \in Titles)
    BY DEF TypeInv, IndexInv, EntryType
  <1>3. /\ Named(c) \in Texts \cup {0}
        /\ Named(c) # 0 => Named(c) \in TextsOf(c)
    BY <1>1, <1>2 DEF Named, TextsOf, TitlesOf
  <1>4. TextsOf(c) \subseteq Texts
    BY <1>1 DEF TextsOf, TitlesOf
  <1>5. \A t \in Texts \cup {0} : WordCount(t) \in Nat /\ t \in Nat
    BY WordCountType DEF Texts
  <1>6. WordCount(0) = 0
    BY DEF WordCount
  <1> QED
    BY <1>2, <1>3, <1>4, <1>5, <1>6 DEF TypeInv

\* A later text is within bounds when an earlier one is.
LEMMA Following ==
  ASSUME TypeInv, NEW c \in Chapters, NEW T \in SUBSET Texts, NEW g \in [Texts -> Nat],
         NEW q \in Nat, Chron(c, T, g), NEW t \in T, NEW u \in T, t <= u, q <= g[t]
  PROVE  Within(T, g, q, WordCount(t), u)
  <1>1. WordCount(t) \in Nat /\ WordCount(u) \in Nat /\ g[t] \in Nat /\ g[u] \in Nat
        /\ t \in Nat /\ u \in Nat
    BY CountTypes
  <1>2. Growth(WordCount(t), WordCount(u)) \in Nat /\ Growth(WordCount(t), WordCount(t)) = 0
    BY <1>1, Growths
  <1>3. CASE t = u
    BY <1>1, <1>2, <1>3 DEF Within
  <1>4. CASE t < u
    BY <1>1, <1>2, <1>4 DEF Within, Chron
  <1> QED
    BY <1>1, <1>3, <1>4

\* No more is owed than the texts have grown.
LEMMA NotMore ==
  ASSUME TypeInv, NEW c \in Chapters, NEW T \in SUBSET Texts, NEW g \in [Texts -> Nat],
         NEW q \in Nat, Chron(c, T, g), EntryCounts(c, T, g, q)
  PROVE  q <= grown[c]
  <1>1. CASE index[c].text = 0
    BY <1>1, CountTypes DEF EntryCounts, FromZero
  <1>2. CASE index[c].text # 0
    <2>1. PICK t \in T : t = index[c].text /\ q <= g[t]
      BY <1>2 DEF EntryCounts
    <2>2. g[t] \in Nat /\ WordCount(t) \in Nat /\ WordCount(newest[c]) \in Nat /\ grown[c] \in Nat
      BY CountTypes
    <2>3. Growth(WordCount(t), WordCount(newest[c])) \in Nat
      BY <2>2, GrowthType
    <2>4. g[t] + Growth(WordCount(t), WordCount(newest[c])) <= grown[c]
      BY DEF Chron
    <2> QED
      BY <2>1, <2>2, <2>3, <2>4
  <1> QED
    BY <1>1, <1>2

\* Where counting may start from zero, it may while texts go and less is owed.
LEMMA FromZeroStays ==
  ASSUME TypeInv, TypeInv', NEW c \in Chapters, NEW T \in SUBSET Texts,
         NEW g \in [Texts -> Nat], NEW q \in Nat, NEW r \in Nat, r <= q,
         FromZero(c, T, g, q), TextsOf(c)' \subseteq TextsOf(c),
         newest'[c] \in {0, newest[c]}, grown'[c] = grown[c]
  PROVE  FromZero(c, T, g, r)'
  <1>1. /\ WordCount(newest[c]) \in Nat /\ WordCount(newest'[c]) <= WordCount(newest[c])
        /\ WordCount(newest'[c]) \in Nat /\ grown[c] \in Nat
    BY CountTypes
  <1>2. r + WordCount(newest'[c]) <= grown'[c]
    BY <1>1 DEF FromZero
  <1>3. ASSUME NEW t \in TextsOf(c) PROVE Within(T, g, r, 0, t)
    <2>1. t \in T /\ q + Growth(0, WordCount(t)) <= g[t]
      BY DEF FromZero, Within
    <2>2. Growth(0, WordCount(t)) \in Nat /\ g[t] \in Nat
      BY <2>1, CountTypes, GrowthType
    <2> QED
      BY <2>1, <2>2 DEF Within
  <1> QED
    BY <1>2, <1>3 DEF FromZero, Within, WordCount

\* Where nothing is left of a chapter, counting may start from zero.
LEMMA FromNothing ==
  ASSUME TypeInv, NEW c \in Chapters, NEW T \in SUBSET Texts, NEW g \in [Texts -> Nat],
         NEW q \in Nat, Chron(c, T, g), EntryCounts(c, T, g, q),
         TitlesOf(c)' = {}, newest'[c] = 0, grown'[c] = grown[c]
  PROVE  FromZero(c, T, g, q)'
  <1>1. q <= grown[c] /\ grown[c] \in Nat
    BY NotMore, CountTypes
  <1>2. WordCount(newest'[c]) = 0
    BY DEF WordCount
  <1>3. TextsOf(c)' = {}
    BY DEF TextsOf
  <1> QED
    BY <1>1, <1>2, <1>3 DEF FromZero, WordCount

\* The entry of a chapter is as before, or taken up, and its files are as before.
SameCount(c) ==
  /\ \/ SameEntry(c, index[c]) /\ index'[c].text = index[c].text
     \/ index'[c] = Synchronized(c)
  /\ \A t \in Titles : files'[<<c, t>>] = files[<<c, t>>]
  /\ newest'[c] = newest[c] /\ grown'[c] = grown[c] /\ texts <= texts'

\* An entry that stays, or is taken up from the same files, accounts for what it did.
LEMMA EntryStays ==
  ASSUME TypeInv, TypeInv', NEW c \in Chapters, NEW T \in SUBSET Texts,
         NEW g \in [Texts -> Nat], NEW q \in Nat, NEW r \in Nat, r <= q,
         SameCount(c), Chron(c, T, g), EntryCounts(c, T, g, q)
  PROVE  Chron(c, T, g)' /\ EntryCounts(c, T, g, r)'
  <1>1. Chron(c, T, g)'
    <2>1. \A t \in T : t <= texts'
      <3>1. \A t \in T : t <= texts /\ t \in Nat /\ texts \in Nat /\ texts' \in Nat
        BY CountTypes DEF Chron, TypeInv
      <3> QED
        BY <3>1 DEF SameCount
    <2> QED
      BY <2>1 DEF Chron, SameCount, WordCount, Growth
  <1>2. TextsOf(c)' = TextsOf(c) /\ TitlesOf(c)' = TitlesOf(c)
    BY DEF SameCount, TextsOf, TitlesOf
  <1>3. FromZero(c, T, g, q) => FromZero(c, T, g, r)'
    BY <1>2, FromZeroStays DEF SameCount
  <1>4. \A t \in T : t \in Texts /\ g[t] \in Nat
    OBVIOUS
  <1>5. CASE SameEntry(c, index[c]) /\ index'[c].text = index[c].text
    <2>1. Named(c)' = Named(c)
      <3>1. index[c] # NoEntry => index[c].title \in Titles
        BY DEF TypeInv, IndexInv
      <3> QED
        BY <1>5, <3>1 DEF SameCount, Named, SameEntry
    <2> QED
      BY <1>1, <1>2, <1>3, <1>4, <1>5, <2>1 DEF EntryCounts
  <1>6. CASE index'[c] = Synchronized(c) /\ ~(index[c] = NoEntry /\ TitlesOf(c) # {})
    <2>1. index'[c] = index[c]
      BY <1>6 DEF Synchronized
    <2>2. Named(c)' = Named(c)
      <3>1. index[c] # NoEntry => index[c].title \in Titles
        BY DEF TypeInv, IndexInv
      <3> QED
        BY <2>1, <3>1 DEF SameCount, Named
    <2> QED
      BY <1>1, <1>2, <1>3, <1>4, <2>1, <2>2 DEF EntryCounts
  <1>7. CASE index'[c] = Synchronized(c) /\ index[c] = NoEntry /\ TitlesOf(c) # {}
    <2>1. PICK f \in TitlesOf(c) : f = First(TitlesOf(c))
      BY <1>7, FirstIsOne DEF TitlesOf
    <2>2. PICK t : t = files[<<c, f>>] /\ t # 0 /\ t \in TextsOf(c) /\ f \in Titles
      BY <2>1 DEF TitlesOf, TextsOf
    <2>3. index'[c] = [title |-> f, text |-> t, fresh |-> TRUE]
      BY <1>7, <2>1, <2>2 DEF Synchronized
    <2>4. index'[c] # NoEntry /\ Named(c)' = t
      BY <2>2, <2>3, TitlesAssumption DEF Named, NoEntry, SameCount
    <2>5. t \in T /\ q <= g[t]
      <3>1. Within(T, g, q, 0, t)
        BY <1>7, <2>2 DEF EntryCounts, FromZero, NoEntry
      <3>2. Growth(0, WordCount(t)) \in Nat /\ t \in Texts
        BY <2>2, CountTypes, GrowthType
      <3> QED
        BY <3>1, <3>2 DEF Within
    <2>6. t \in Nat /\ index'[c].text = t
      BY <2>2, <2>3, CountTypes
    <2> QED
      BY <1>1, <1>2, <1>4, <2>2, <2>4, <2>5, <2>6 DEF EntryCounts
  <1> QED
    BY <1>5, <1>6, <1>7 DEF SameCount

\* Who is not in one of the steps that write or delete relies on nothing.
LEMMA NothingToCount ==
  ASSUME NEW s \in Sessions, NEW c, NEW T, NEW g, NEW q,
         work'[s].step \notin {"body", "index", "dropEntry", "softDrop", "prune"}
  PROVE  CallCounts(s, c, T, g, q)'
  BY DEF CallCounts

\* When the lock is free, or the one who takes a step holds it, the others rely on nothing.
LEMMA OthersCount ==
  ASSUME WorkInv, NEW s \in Sessions, LockFree \/ InLock(s),
         NEW u \in Sessions \ {s}, work'[u] = work[u],
         NEW c, NEW T, NEW g, NEW q
  PROVE  CallCounts(u, c, T, g, q)'
  <1>1. ~InLock(u)
    BY DEF WorkInv, LockFree, InLock
  <1> QED
    BY <1>1, NothingToCount DEF InLock, InIndexLock

\* What is owed when one call takes a step.
LEMMA OwedAfter ==
  ASSUME TypeInv, TypeInv', NEW c \in Chapters, NEW s \in Sessions,
         \A u \in Sessions \ {s} : work'[u] = work[u]
  PROVE  /\ Owed(c) \in Nat /\ Owed(c)' \in Nat
         /\ Share(s, c)' - Share(s, c) = log[c] - log'[c] => Owed(c)' = Owed(c)
         /\ log'[c] = log[c] => Owed(c)' = Owed(c) + Share(s, c)' - Share(s, c)
         /\ Share(s, c) \in Nat /\ Share(s, c)' \in Nat
  <1>1. Owed(c) \in Nat /\ log[c] \in Nat /\ log'[c] \in Nat
    BY OwedIsNat DEF OwedOK, TypeInv
  <1>2. Share(s, c) \in Nat
    BY ShareType DEF SharesOK, Shares
  <1>3. Share(s, c)' \in Nat
    <2>1. (TypeInv => SharesOK)'
      BY ShareType, PTL
    <2> QED
      BY <2>1 DEF SharesOK, Shares
  <1>4. Owed(c)' - log'[c] + Share(s, c) = Owed(c) - log[c] + Share(s, c)'
    BY OwedByOne
  <1>5. Owed(c)' \in Nat
    <2>1. (TypeInv => OwedOK)'
      BY OwedIsNat, PTL
    <2> QED
      BY <2>1 DEF OwedOK
  <1>6. PICK a \in Nat, b \in Nat, l \in Nat, m \in Nat, x \in Nat, y \in Nat :
           /\ a = Owed(c) /\ b = Owed(c)' /\ l = log[c] /\ m = log'[c]
           /\ x = Share(s, c) /\ y = Share(s, c)'
    BY <1>1, <1>2, <1>3, <1>5
  <1>7. b - m + x = a - l + y
    BY <1>4, <1>6
  <1>8. (y - x = l - m => b = a) /\ (m = l => b = a + y - x)
    BY <1>7
  <1> QED
    BY <1>6, <1>8

\* One call takes a step and holds the lock or finds it free; what is owed may grow, if the
\* texts, the index and the call account for it.
LEMMA CallAccounts ==
  ASSUME TypeInv, TypeInv', NEW c \in Chapters, NEW s \in Sessions, LockFree \/ InLock(s),
         \A u \in Sessions \ {s} : work'[u] = work[u],
         NEW T \in SUBSET Texts, NEW g \in [Texts -> Nat], NEW q, q = Owed(c)',
         Chron(c, T, g)', EntryCounts(c, T, g, q)',
         work'[s].chapter = c => CallCounts(s, c, T, g, q)'
  PROVE  Counted(c)'
  <1>1. ASSUME NEW u \in Sessions, work'[u].chapter = c PROVE CallCounts(u, c, T, g, q)'
    BY <1>1, OthersCount DEF TypeInv
  <1>2. Accounted(c, T, g, q)'
    BY <1>1 DEF Accounted
  <1> QED
    BY <1>2 DEF Counted

\* A text is written, by a call or by another editor: it is the latest one, and the words
\* that have grown by then are those of the texts before it and its own.
LEMMA Written ==
  ASSUME TypeInv, NEW c \in Chapters, NEW T \in SUBSET Texts, NEW g \in [Texts -> Nat],
         NEW q \in Nat, Chron(c, T, g), NEW x \in Texts, x = texts + 1, texts' = x,
         newest'[c] = x, NEW m \in Nat, m = grown'[c],
         m = grown[c] + Growth(WordCount(newest[c]), WordCount(x)),
         NEW h \in [Texts -> Nat], h = [g EXCEPT ![x] = m]
  PROVE  /\ Chron(c, T \cup {x}, h)'
         /\ \A p \in Nat, t \in T : Within(T, g, q, p, t) => Within(T \cup {x}, h, q, p, t)
         /\ \A p \in Nat : q + Growth(p, WordCount(newest[c])) <= grown[c] =>
                             /\ Within(T \cup {x}, h, q, p, x)
                             /\ q + Growth(p, WordCount(newest'[c])) <= grown'[c]
         /\ FromZero(c, T, g, q) /\ TextsOf(c)' \subseteq TextsOf(c) \cup {x} =>
              FromZero(c, T \cup {x}, h, q)'
  <1>1. /\ x \notin T /\ \A t \in T : t < x /\ h[t] = g[t] /\ g[t] \in Nat /\ WordCount(t) \in Nat
        /\ h[x] = m /\ x \in Nat
        /\ grown[c] \in Nat /\ WordCount(newest[c]) \in Nat /\ WordCount(x) \in Nat
    <2>1. x \in Nat /\ texts \in Nat /\ \A t \in T : t \in Nat /\ t <= texts
      BY CountTypes DEF Chron
    <2>2. x \notin T /\ \A t \in T : t < x
      BY <2>1
    <2> QED
      BY <2>1, <2>2, CountTypes
  <1>2. \A p \in Nat : Growth(p, WordCount(x)) <=
                         Growth(p, WordCount(newest[c])) + Growth(WordCount(newest[c]), WordCount(x))
    BY <1>1, Growths
  <1>3. \A p \in Nat : /\ Growth(p, WordCount(x)) \in Nat /\ Growth(p, WordCount(newest[c])) \in Nat
    BY <1>1, GrowthType
  <1>4. Growth(WordCount(newest[c]), WordCount(x)) \in Nat
    BY <1>1, GrowthType
  <1>5. ASSUME NEW p \in Nat, NEW y \in Nat, y + Growth(p, WordCount(newest[c])) <= grown[c]
        PROVE  y + Growth(p, WordCount(x)) <= m
    BY <1>1, <1>2, <1>3, <1>4, <1>5
  <1>6. WordCount(newest'[c]) = WordCount(x)
    OBVIOUS
  <1>7. Chron(c, T \cup {x}, h)'
    <2>1. \A t \in T \cup {x} : t <= texts'
      BY <1>1
    <2>2. ASSUME NEW t \in T \cup {x}
          PROVE  h[t] + Growth(WordCount(t), WordCount(x)) <= m
      <3>1. CASE t = x
        BY <1>1, <3>1, Growths
      <3>2. CASE t # x
        <4>1. t \in T /\ WordCount(t) \in Nat /\ h[t] = g[t] /\ g[t] \in Nat
          BY <1>1, <3>2
        <4>2. g[t] + Growth(WordCount(t), WordCount(newest[c])) <= grown[c]
          BY <4>1 DEF Chron
        <4> QED
          BY <1>5, <4>1, <4>2
      <3> QED
        BY <3>1, <3>2
    <2>3. ASSUME NEW t \in T \cup {x}, NEW u \in T \cup {x}, t < u
          PROVE  h[t] + Growth(WordCount(t), WordCount(u)) <= h[u]
      <3>1. CASE u = x
        BY <1>1, <2>2, <3>1
      <3>2. CASE u # x
        <4>1. u \in T /\ u < x /\ t \in T
          BY <1>1, <2>3, <3>2, CountTypes
        <4> QED
          BY <1>1, <2>3, <4>1 DEF Chron
      <3> QED
        BY <3>1, <3>2
    <2> QED
      BY <1>6, <2>1, <2>2, <2>3 DEF Chron, WordCount, Growth
  <1>8. ASSUME NEW p \in Nat, NEW t \in T, Within(T, g, q, p, t)
        PROVE  Within(T \cup {x}, h, q, p, t)
    BY <1>1, <1>8 DEF Within
  <1>9. ASSUME NEW p \in Nat, q + Growth(p, WordCount(newest[c])) <= grown[c]
        PROVE  /\ Within(T \cup {x}, h, q, p, x)
               /\ q + Growth(p, WordCount(newest'[c])) <= grown'[c]
    BY <1>1, <1>5, <1>6, <1>9 DEF Within
  <1>10. ASSUME FromZero(c, T, g, q), TextsOf(c)' \subseteq TextsOf(c) \cup {x}
         PROVE  FromZero(c, T \cup {x}, h, q)'
    <2>1. \A b \in Nat : Growth(0, b) = b
      BY Growths
    <2>2. q + Growth(0, WordCount(newest[c])) <= grown[c]
      BY <1>1, <1>10, <2>1 DEF FromZero
    <2>3. Within(T \cup {x}, h, q, 0, x) /\ q + Growth(0, WordCount(x)) <= m
      BY <1>6, <1>9, <2>2
    <2>4. q + WordCount(x) <= m
      BY <1>1, <2>1, <2>3
    <2>5. \A t \in TextsOf(c) : Within(T \cup {x}, h, q, 0, t)
      BY <1>8, <1>10 DEF FromZero, Within
    <2> QED
      BY <1>6, <1>10, <2>3, <2>4, <2>5 DEF FromZero, WordCount, Within
  <1> QED
    BY <1>7, <1>8, <1>9, <1>10

\* The index entry still accounts for what is owed when a text has been written.
LEMMA EntryWritten ==
  ASSUME TypeInv, TypeInv', NEW c \in Chapters, NEW T \in SUBSET Texts,
         NEW g \in [Texts -> Nat], NEW q \in Nat, Chron(c, T, g), EntryCounts(c, T, g, q),
         NEW x \in Texts, x = texts + 1, NEW m \in Nat,
         NEW h \in [Texts -> Nat], h = [g EXCEPT ![x] = m],
         FromZero(c, T, g, q) => FromZero(c, T \cup {x}, h, q)',
         TextsOf(c)' \subseteq TextsOf(c) \cup {x},
         index'[c].text = index[c].text, Named(c)' \in {Named(c), x}
  PROVE  EntryCounts(c, T \cup {x}, h, q)'
  <1>1. /\ x # 0 /\ \A t \in T : t # x /\ t <= x /\ h[t] = g[t]
        /\ x \in Nat
    <2>1. x \in Nat /\ texts \in Nat /\ \A t \in T : t \in Nat /\ t <= texts
      BY CountTypes DEF Chron
    <2>2. x # 0 /\ \A t \in T : t # x /\ t <= x
      BY <2>1
    <2> QED
      BY <2>1, <2>2
  <1>2. TextsOf(c)' \subseteq T \cup {x}
    BY DEF EntryCounts
  <1>3. index'[c].text # 0 => index'[c].text \in T \cup {x} /\ q <= h[index'[c].text]
    BY <1>1 DEF EntryCounts
  <1>4. index'[c].text = 0 \/ Named(c)' = 0 => FromZero(c, T \cup {x}, h, q)'
    BY <1>1 DEF EntryCounts
  <1>5. Named(c)' # 0 => index'[c].text <= Named(c)'
    <2>1. CASE Named(c)' = x
      <3>1. index[c].text = 0 \/ index[c].text \in T
        BY DEF EntryCounts
      <3>2. \A t \in T \cup {0} : t <= x
        BY <1>1
      <3>3. index[c].text <= x
        BY <3>1, <3>2
      <3> QED
        BY <2>1, <3>3
    <2>2. CASE Named(c)' = Named(c)
      BY <2>2 DEF EntryCounts
    <2> QED
      BY <2>1, <2>2
  <1> QED
    BY <1>2, <1>3, <1>4, <1>5 DEF EntryCounts

\* A call that is about to write the chapter's text, and has its words, accounts for it.
LEMMA ReadyToWrite ==
  ASSUME TypeInv, TypeInv', NEW c \in Chapters, NEW T \in SUBSET Texts,
         NEW g \in [Texts -> Nat], NEW q \in Nat, Chron(c, T, g),
         index'[c] = Synchronized(c), files' = files, newest' = newest, grown' = grown,
         EntryCounts(c, T, g, q)',
         NEW s \in Sessions, work'[s].step = "body", work'[s].previous = WordsOf(c),
         work'[s].title \in Titles
  PROVE  CallCounts(s, c, T, g, q)'
  <1>1. PICK x : x = Synchronized(c).text
    OBVIOUS
  <1>2. x \in Texts \cup {0} /\ WordCount(x) \in Nat /\ WordCount(newest[c]) \in Nat
        /\ grown[c] \in Nat /\ WordCount(0) = 0 /\ x \in Nat
    BY <1>1, SynchronizedType, CountTypes DEF EntryType
  <1>3. TextsOf(c)' = TextsOf(c)
    BY DEF TextsOf, TitlesOf
  <1>4. Named(c)' = TextOf(c)
    BY DEF Named, TextOf, HasText
  <1>5. TextOf(c) # 0 => TextOf(c) \in TextsOf(c)
    BY TextType DEF TextOf, HasText, TextsOf, TitlesOf
  <1>6. files[<<c, work'[s].title>>] # 0 => files[<<c, work'[s].title>>] \in TextsOf(c)
    BY DEF TextsOf, TitlesOf
  <1>7. CASE HasText(c) /\ x # 0
    <2>1. WordsOf(c) = WordCount(x)
      BY <1>1, <1>7 DEF WordsOf
    <2>2. x \in T /\ q <= g[x]
      BY <1>1, <1>7 DEF EntryCounts
    <2>3. TextOf(c) # 0
      BY <1>7, TextType
    <2>4. x <= TextOf(c) /\ TextOf(c) \in T
      BY <1>1, <1>3, <1>4, <1>5, <2>3 DEF EntryCounts
    <2>5. Within(T, g, q, WordCount(x), TextOf(c))
      BY <2>2, <2>4, Following
    <2>6. q + Growth(WordCount(x), WordCount(newest[c])) <= grown[c]
      <3>1. g[x] + Growth(WordCount(x), WordCount(newest[c])) <= grown[c]
        BY <2>2 DEF Chron
      <3>2. Growth(WordCount(x), WordCount(newest[c])) \in Nat /\ g[x] \in Nat
        BY <1>2, <2>2, GrowthType
      <3> QED
        BY <1>2, <2>2, <3>1, <3>2
    <2> QED
      BY <1>4, <2>1, <2>3, <2>5, <2>6 DEF CallCounts, Within, WordCount, Growth
  <1>8. CASE ~HasText(c) \/ x = 0
    <2>1. WordsOf(c) = 0
      BY <1>1, <1>2, <1>8 DEF WordsOf
    <2>2. FromZero(c, T, g, q)'
      BY <1>1, <1>4, <1>8, TextType DEF EntryCounts
    <2>3. \A t \in TextsOf(c) : Within(T, g, q, 0, t)
      BY <1>3, <2>2 DEF FromZero, Within, WordCount, Growth
    <2>4. q + Growth(0, WordCount(newest[c])) <= grown[c]
      <3>1. q + WordCount(newest[c]) <= grown[c]
        BY <2>2 DEF FromZero, WordCount
      <3> QED
        BY <1>2, <3>1, Growths
    <2> QED
      BY <1>4, <1>5, <1>6, <2>1, <2>3, <2>4 DEF CallCounts, Within, WordCount, Growth
  <1> QED
    BY <1>7, <1>8

\* What a call relies on stays when the chapter does and less is owed.
LEMMA CallStays ==
  ASSUME TypeInv, NEW c \in Chapters, NEW T \in SUBSET Texts, NEW g \in [Texts -> Nat],
         NEW q \in Nat, NEW r \in Nat, r <= q, NEW s \in Sessions, CallCounts(s, c, T, g, q),
         work'[s].step = work[s].step, work'[s].previous = work[s].previous,
         work'[s].text = work[s].text, work'[s].title = work[s].title,
         SameEntry(c, index[c]), \A t \in Titles : files'[<<c, t>>] = files[<<c, t>>],
         newest'[c] = newest[c], grown'[c] = grown[c]
  PROVE  CallCounts(s, c, T, g, r)'
  <1>1. ASSUME NEW p \in Nat, NEW t, Within(T, g, q, p, t) PROVE Within(T, g, r, p, t)
    <2>1. t \in Texts /\ q + Growth(p, WordCount(t)) <= g[t]
      BY <1>1 DEF Within
    <2>2. Growth(p, WordCount(t)) \in Nat /\ g[t] \in Nat
      BY <2>1, CountTypes, GrowthType
    <2> QED
      BY <1>1, <2>1, <2>2 DEF Within
  <1>2. PICK w : w = work[s]
    OBVIOUS
  <1>3. /\ w.previous \in Nat
        /\ w.step \in {"body", "index"} => w.title \in Titles
    BY <1>2 DEF TypeInv, WorkInv, WorkOK, WorkType
  <1>4. Named(c)' = Named(c)
    <2>1. index[c] # NoEntry => index[c].title \in Titles
      BY DEF TypeInv, IndexInv
    <2> QED
      BY <2>1 DEF Named, SameEntry
  <1>5. TextsOf(c)' = TextsOf(c)
    BY DEF TextsOf, TitlesOf
  <1>6. /\ WordCount(newest[c]) \in Nat /\ grown[c] \in Nat
        /\ Growth(w.previous, WordCount(newest[c])) \in Nat
    BY <1>3, CountTypes, GrowthType
  <1>7. FromZero(c, T, g, q) => FromZero(c, T, g, r)'
    <2>1. FromZero(c, T, g, q) => /\ r + WordCount(newest[c]) <= grown[c]
                                  /\ \A t \in TextsOf(c) : Within(T, g, r, 0, t)
      BY <1>1, <1>6 DEF FromZero
    <2> QED
      BY <1>5, <2>1 DEF FromZero, Within, WordCount, Growth
  <1>8. w.step = "body" =>
           /\ r + Growth(w.previous, WordCount(newest[c])) <= grown[c]
           /\ Named(c) # 0 => Within(T, g, r, w.previous, Named(c))
           /\ Named(c) = 0 /\ files[<<c, w.title>>] # 0 =>
                Within(T, g, r, w.previous, files[<<c, w.title>>])
    BY <1>1, <1>2, <1>3, <1>6 DEF CallCounts
  <1>9. w.step = "index" =>
           /\ w.text = 0 => FromZero(c, T, g, r)'
           /\ w.text # 0 => /\ Within(T, g, r, w.previous, w.text)
                            /\ w.text <= files[<<c, w.title>>]
    BY <1>1, <1>2, <1>3, <1>7 DEF CallCounts
  <1>10. w.step \in {"dropEntry", "softDrop", "prune"} => FromZero(c, T, g, r)'
    BY <1>2, <1>7 DEF CallCounts
  <1>11. w.step \in {"body", "index"} => files'[<<c, w.title>>] = files[<<c, w.title>>]
    BY <1>3
  <1> QED
    BY <1>2, <1>4, <1>8, <1>9, <1>10, <1>11 DEF CallCounts, Within, WordCount, Growth

\* A call holds the lock, or finds it free, and files are taken up: nothing more is owed.
LEMMA CountTakenUp ==
  ASSUME TypeInv, TypeInv', NEW c \in Chapters, Counted(c),
         NEW s \in Sessions, LockFree \/ InLock(s), \A u \in Sessions \ {s} : work'[u] = work[u],
         index' = SynchronizedIndex, UNCHANGED <<files, log, texts, newest, grown>>,
         work[s].step \notin {"unlink", "record", "recordLocked"},
         \/ work'[s].step \in {"idle", "check", "previous", "update", "compare"}
         \/ /\ work'[s].step = "body" /\ work'[s].title \in Titles
            /\ work'[s].chapter = c => work'[s].previous = WordsOf(c)
  PROVE  Counted(c)'
  <1>1. PICK T \in SUBSET Texts, g \in [Texts -> Nat] : Accounted(c, T, g, Owed(c))
    BY DEF Counted
  <1>2. PICK q \in Nat : q = Owed(c)
    BY OwedAfter
  <1>3. Share(s, c) = 0 /\ Share(s, c)' = 0
    BY DEF Share
  <1>4. Owed(c)' = q
    BY <1>2, <1>3, OwedAfter
  <1>5. SameCount(c) /\ index'[c] = Synchronized(c)
    BY Taken DEF SameCount, TypeInv
  <1>6. Chron(c, T, g) /\ EntryCounts(c, T, g, q)
    BY <1>1, <1>2 DEF Accounted
  <1>7. Chron(c, T, g)' /\ EntryCounts(c, T, g, q)'
    BY <1>5, <1>6, EntryStays
  <1>8. work'[s].chapter = c => CallCounts(s, c, T, g, q)'
    <2>1. CASE work'[s].step \in {"idle", "check", "previous", "update", "compare"}
      BY <2>1, NothingToCount
    <2>2. CASE /\ work'[s].step = "body" /\ work'[s].title \in Titles
               /\ work'[s].chapter = c => work'[s].previous = WordsOf(c)
      BY <1>5, <1>6, <1>7, <2>2, ReadyToWrite
    <2> QED
      BY <2>1, <2>2
  <1> QED
    BY <1>4, <1>7, <1>8, CallAccounts

\* A chapter loses all of its files, by a call that holds the lock or finds it free.
LEMMA CountCleared ==
  ASSUME TypeInv, TypeInv', NEW c \in Chapters, Counted(c),
         NEW s \in Sessions, LockFree \/ InLock(s), \A u \in Sessions \ {s} : work'[u] = work[u],
         index'[c] \in {index[c], Synchronized(c)}, TitlesOf(c)' = {},
         newest'[c] = 0, UNCHANGED <<log, texts, grown>>,
         work[s].step \notin {"unlink", "record", "recordLocked"},
         work'[s].step \in {"softDrop", "dropEntry", "prune"}
  PROVE  Counted(c)'
  <1>1. PICK T \in SUBSET Texts, g \in [Texts -> Nat] : Accounted(c, T, g, Owed(c))
    BY DEF Counted
  <1>2. PICK q \in Nat : q = Owed(c)
    BY OwedAfter
  <1>3. Share(s, c) = 0 /\ Share(s, c)' = 0
    BY DEF Share
  <1>4. Owed(c)' = q
    BY <1>2, <1>3, OwedAfter
  <1>5. Chron(c, T, g) /\ EntryCounts(c, T, g, q)
    BY <1>1, <1>2 DEF Accounted
  <1>6. FromZero(c, T, g, q)'
    BY <1>5, FromNothing
  <1>7. Chron(c, T, g)'
    <2>1. ASSUME NEW t \in T PROVE g[t] + Growth(WordCount(t), WordCount(0)) <= grown[c]
      <3>1. g[t] + Growth(WordCount(t), WordCount(newest[c])) <= grown[c]
        BY <1>5 DEF Chron
      <3>2. /\ WordCount(t) \in Nat /\ WordCount(newest[c]) \in Nat /\ WordCount(0) = 0
            /\ grown[c] \in Nat /\ g[t] \in Nat
        BY CountTypes
      <3>3. /\ Growth(WordCount(t), WordCount(newest[c])) \in Nat
            /\ Growth(WordCount(t), 0) = 0
        BY <3>2, Growths
      <3> QED
        BY <3>1, <3>2, <3>3
    <2> QED
      BY <1>5, <2>1 DEF Chron, WordCount, Growth
  <1>8. Named(c)' = 0 /\ TextsOf(c)' = {}
    <2>1. index'[c] # NoEntry => index'[c].title \in Titles
      BY DEF TypeInv, IndexInv
    <2> QED
      BY <2>1 DEF Named, TitlesOf, TextsOf
  <1>9. index'[c].text # 0 => index'[c].text \in T /\ q <= g[index'[c].text]
    <2>1. CASE index'[c] = index[c]
      BY <1>5, <2>1 DEF EntryCounts
    <2>2. CASE index'[c] = Synchronized(c) /\ Synchronized(c) # index[c]
      <3>1. index[c] = NoEntry /\ TitlesOf(c) # {}
        BY <2>2 DEF Synchronized
      <3>2. PICK f \in TitlesOf(c) : f = First(TitlesOf(c))
        BY <3>1, FirstIsOne DEF TitlesOf
      <3>3. PICK t : t = files[<<c, f>>] /\ t \in TextsOf(c)
        BY <3>2 DEF TextsOf
      <3>4. index'[c].text = t
        BY <2>2, <3>1, <3>2, <3>3 DEF Synchronized
      <3>5. Within(T, g, q, 0, t)
        BY <1>5, <3>1, <3>3 DEF EntryCounts, FromZero, NoEntry
      <3>6. Growth(0, WordCount(t)) \in Nat /\ t \in Texts
        BY <3>3, CountTypes, GrowthType
      <3> QED
        BY <3>4, <3>5, <3>6 DEF Within
    <2> QED
      BY <2>1, <2>2
  <1>10. EntryCounts(c, T, g, q)'
    BY <1>6, <1>8, <1>9 DEF EntryCounts
  <1>11. CallCounts(s, c, T, g, q)'
    BY <1>6 DEF CallCounts
  <1> QED
    BY <1>4, <1>7, <1>10, <1>11, CallAccounts

\* A call holds the lock, or finds it free, and does nothing to a chapter.
LEMMA CountElsewhere ==
  ASSUME TypeInv, TypeInv', NEW c \in Chapters, Counted(c),
         NEW s \in Sessions, LockFree \/ InLock(s), \A u \in Sessions \ {s} : work'[u] = work[u],
         SameCount(c), log'[c] = log[c], Share(s, c)' = Share(s, c),
         work'[s].chapter = c =>
           work'[s].step \notin {"body", "index", "dropEntry", "softDrop", "prune"}
  PROVE  Counted(c)'
  <1>1. PICK T \in SUBSET Texts, g \in [Texts -> Nat] : Accounted(c, T, g, Owed(c))
    BY DEF Counted
  <1>2. PICK q \in Nat : q = Owed(c)
    BY OwedAfter
  <1>3. Owed(c)' = q
    BY <1>2, OwedAfter DEF TypeInv
  <1>4. Chron(c, T, g)' /\ EntryCounts(c, T, g, q)'
    BY <1>1, <1>2, EntryStays DEF Accounted
  <1> QED
    BY <1>3, <1>4, NothingToCount, CallAccounts

\* The entry of a chapter is dropped.
LEMMA CountDropped ==
  ASSUME TypeInv, TypeInv', NEW c \in Chapters, Counted(c),
         NEW s \in Sessions, InLock(s), \A u \in Sessions \ {s} : work'[u] = work[u],
         work[s].step \in {"dropEntry", "softDrop", "prune"}, work[s].chapter = c,
         work'[s].step \in {"idle", "move"},
         index'[c] = NoEntry, UNCHANGED <<files, log, texts, newest, grown>>
  PROVE  Counted(c)'
  <1>1. PICK T \in SUBSET Texts, g \in [Texts -> Nat] : Accounted(c, T, g, Owed(c))
    BY DEF Counted
  <1>2. PICK q \in Nat : q = Owed(c)
    BY OwedAfter
  <1>3. Share(s, c) = 0 /\ Share(s, c)' = 0
    BY DEF Share
  <1>4. Owed(c)' = q
    BY <1>2, <1>3, OwedAfter
  <1>5. Chron(c, T, g) /\ EntryCounts(c, T, g, q) /\ FromZero(c, T, g, q)
    BY <1>1, <1>2 DEF Accounted, CallCounts
  <1>6. TextsOf(c)' = TextsOf(c)
    BY DEF TextsOf, TitlesOf
  <1>7. FromZero(c, T, g, q)'
    BY <1>5, <1>6, FromZeroStays
  <1>8. Chron(c, T, g)'
    BY <1>5 DEF Chron, WordCount, Growth
  <1>9. EntryCounts(c, T, g, q)'
    BY <1>5, <1>6, <1>7 DEF EntryCounts, Named, NoEntry
  <1> QED
    BY <1>4, <1>8, <1>9, NothingToCount, CallAccounts

\* A superseded file is deleted, or stays.
LEMMA CountSuperseded ==
  ASSUME TypeInv, TypeInv', NEW c \in Chapters, Counted(c), NEW s \in Sessions,
         removeSuperseded(s), work[s].chapter = c,
         index[c] # NoEntry, index[c].title # work[s].title
  PROVE  Counted(c)'
  <1>1. PICK T \in SUBSET Texts, g \in [Texts -> Nat] : Accounted(c, T, g, Owed(c))
    BY DEF Counted
  <1>2. PICK q \in Nat : q = Owed(c)
    BY OwedIsNat DEF OwedOK
  <1>3. /\ work'[s].step \in {"record", "recordLocked"} /\ work'[s].chapter = c
        /\ work'[s].previous = work[s].previous /\ work'[s].text = work[s].text
        /\ \A u \in Sessions \ {s} : work'[u] = work[u]
        /\ work[s].step = "unlink"
    BY DEF removeSuperseded, TypeInv, WorkInv, WorkType
  <1>4. Share(s, c)' = Share(s, c)
    BY <1>3 DEF Share, Growth, WordCount
  <1>5. Owed(c)' = q
    <2>1. log'[c] = log[c]
      BY DEF removeSuperseded, Disk, History
    <2> QED
      BY <1>2, <1>3, <1>4, <2>1, OwedAfter DEF TypeInv
  <1>6. /\ UNCHANGED <<texts, newest, grown, index>>
        /\ \A t \in Titles : files'[<<c, t>>] \in {0, files[<<c, t>>]}
        /\ \A t \in Titles : t # work[s].title => files'[<<c, t>>] = files[<<c, t>>]
    BY DEF removeSuperseded, History, TypeInv, Paths
  <1>7. TextsOf(c)' \subseteq TextsOf(c)
    BY <1>6 DEF TextsOf, TitlesOf
  <1>8. Named(c)' = Named(c)
    <2>1. index[c].title \in Titles
      BY DEF TypeInv, IndexInv
    <2> QED
      BY <1>6, <2>1 DEF Named
  <1>9. FromZero(c, T, g, q) => FromZero(c, T, g, q)'
    BY <1>6, <1>7, FromZeroStays
  <1>10. EntryCounts(c, T, g, q)'
    BY <1>1, <1>2, <1>6, <1>7, <1>8, <1>9 DEF Accounted, EntryCounts
  <1>11. Chron(c, T, g)'
    BY <1>1, <1>6 DEF Accounted, Chron, WordCount, Growth
  <1>12. InLock(s)
    BY <1>3 DEF InLock, InIndexLock
  <1> QED
    BY <1>3, <1>5, <1>10, <1>11, <1>12, NothingToCount, CallAccounts

\* The index is written: the call now owes what the text is longer than the one it read.
LEMMA CountIndexed ==
  ASSUME TypeInv, TypeInv', NEW c \in Chapters, Counted(c), NEW s \in Sessions,
         writeIndex(s), work[s].chapter = c
  PROVE  Counted(c)'
  <1>1. PICK T \in SUBSET Texts, g \in [Texts -> Nat] : Accounted(c, T, g, Owed(c))
    BY DEF Counted
  <1>2. PICK q \in Nat : q = Owed(c)
    BY OwedIsNat DEF OwedOK
  <1>3. PICK w : w = work[s]
    OBVIOUS
  <1>4. /\ w.text \in Texts \cup {0} /\ w.previous \in Nat /\ w.title \in Titles
        /\ w.step = "index" /\ w.chapter = c
    BY <1>3 DEF writeIndex, TypeInv, WorkInv, WorkOK, WorkType
  <1>5. /\ work'[s].step \in {"unlink", "record", "recordLocked"} /\ work'[s].chapter = c
        /\ work'[s].previous = w.previous /\ work'[s].text = w.text
        /\ \A u \in Sessions \ {s} : work'[u] = work[u]
    BY <1>3, <1>4 DEF writeIndex, TypeInv, WorkInv, WorkType
  <1>6. /\ UNCHANGED <<files, texts, newest, grown, log>>
        /\ index'[c] = [title |-> w.title, text |-> w.text, fresh |-> w.fresh]
    BY <1>3, <1>4 DEF writeIndex, Disk, TypeInv, IndexInv
  <1>7. PICK a \in Nat : a = Growth(w.previous, WordCount(w.text))
    BY <1>4, WordCountType, GrowthType
  <1>8. Owed(c)' = q + a
    <2>1. Share(s, c) = 0 /\ Share(s, c)' = a
      BY <1>3, <1>4, <1>5, <1>7 DEF Share, Growth, WordCount
    <2> QED
      BY <1>2, <1>5, <1>6, <2>1, OwedAfter
  <1>9. Chron(c, T, g) /\ EntryCounts(c, T, g, q) /\ CallCounts(s, c, T, g, q)
    BY <1>1, <1>2 DEF Accounted
  <1>10. Named(c)' = files[<<c, w.title>>] /\ TextsOf(c)' = TextsOf(c) /\ index'[c].text = w.text
    BY <1>4, <1>6, TitlesAssumption DEF Named, NoEntry, TextsOf, TitlesOf
  <1>11. EntryCounts(c, T, g, q + a)'
    <2>1. CASE w.text = 0
      <3>1. a = 0
        BY <1>4, <1>7, <2>1, Growths DEF WordCount
      <3>2. FromZero(c, T, g, q)'
        BY <1>3, <1>4, <1>6, <1>9, <1>10, <2>1, FromZeroStays DEF CallCounts
      <3>3. files[<<c, w.title>>] \in Nat
        BY <1>4 DEF TypeInv, Paths, Texts
      <3> QED
        BY <1>9, <1>10, <2>1, <3>1, <3>2, <3>3 DEF EntryCounts
    <2>2. CASE w.text # 0
      <3>1. /\ w.text \in T /\ q + a <= g[w.text] /\ w.text <= files[<<c, w.title>>]
        BY <1>3, <1>4, <1>7, <1>9, <2>2 DEF CallCounts, Within
      <3>2. files[<<c, w.title>>] # 0
        BY <1>4, <2>2, <3>1 DEF TypeInv, Paths, Texts
      <3> QED
        BY <1>9, <1>10, <2>2, <3>1, <3>2 DEF EntryCounts
    <2> QED
      BY <2>1, <2>2
  <1>12. Chron(c, T, g)'
    BY <1>6, <1>9 DEF Chron, WordCount, Growth
  <1>13. InLock(s)
    BY <1>3, <1>4 DEF InLock, InIndexLock
  <1> QED
    BY <1>5, <1>8, <1>11, <1>12, <1>13, NothingToCount, CallAccounts

\* A call writes a text: a new one, or the old one under a new name.
LEMMA CountBody ==
  ASSUME TypeInv, TypeInv', NEW c \in Chapters, Counted(c), NEW s \in Sessions,
         writeBody(s), work[s].chapter = c
  PROVE  Counted(c)'
  <1>1. PICK T \in SUBSET Texts, g \in [Texts -> Nat] : Accounted(c, T, g, Owed(c))
    BY DEF Counted
  <1>2. PICK q \in Nat : q = Owed(c)
    BY OwedIsNat DEF OwedOK
  <1>3. PICK w : w = work[s]
    OBVIOUS
  <1>4. /\ w.previous \in Nat /\ w.title \in Titles /\ w.step = "body" /\ w.chapter = c
    BY <1>3 DEF writeBody, TypeInv, WorkInv, WorkOK, WorkType
  <1>5. PICK o \in Titles : o = OldTitle(s)
    BY <1>3, <1>4 DEF OldTitle, TypeInv, IndexInv
  <1>6. PICK t : t = IF w.content THEN texts + 1
                     ELSE IF files[<<c, o>>] = 0 THEN files[<<c, w.title>>] ELSE files[<<c, o>>]
    OBVIOUS
  <1>7. /\ texts \in Nat /\ texts + 1 # 0
        /\ w.content => texts + 1 \in Texts
    BY <1>3, WordsAssumption DEF writeBody, TypeInv, Texts
  <1>8. /\ files' = IF t = 0 THEN files ELSE [files EXCEPT ![<<c, w.title>>] = t]
        /\ index' = [index EXCEPT ![c].fresh = @ /\ work[s].title # OldTitle(s)]
        /\ newest' = [newest EXCEPT ![c] = IF w.content THEN t ELSE @]
        /\ grown' = [grown EXCEPT ![c] =
                       IF w.content THEN @ + Growth(WordCount(newest[c]), WordCount(t)) ELSE @]
        /\ texts' = (IF w.content THEN texts + 1 ELSE texts)
        /\ work' = [work EXCEPT ![s].step = "index", ![s].text = t, ![s].fresh = TRUE]
        /\ log' = log
    BY <1>3, <1>4, <1>5, <1>6, <1>7 DEF writeBody, WithBody
  <1>9. /\ work'[s].step = "index" /\ work'[s].chapter = c /\ work'[s].previous = w.previous
        /\ work'[s].text = t /\ work'[s].title = w.title
        /\ \A u \in Sessions \ {s} : work'[u] = work[u]
    BY <1>3, <1>4, <1>8 DEF TypeInv, WorkInv, WorkType
  <1>10. Owed(c)' = q
    <2>1. Share(s, c) = 0 /\ Share(s, c)' = 0
      BY <1>3, <1>4, <1>9 DEF Share
    <2>2. log'[c] = log[c]
      BY <1>8
    <2> QED
      BY <1>2, <1>9, <2>1, <2>2, OwedAfter
  <1>11. InLock(s)
    BY <1>3, <1>4 DEF InLock, InIndexLock
  <1>12. Chron(c, T, g) /\ EntryCounts(c, T, g, q) /\ CallCounts(s, c, T, g, q)
    BY <1>1, <1>2, <1>3, <1>4 DEF Accounted
  <1>13. /\ index'[c].text = index[c].text /\ index'[c].title = index[c].title
         /\ index'[c] = NoEntry <=> index[c] = NoEntry
    BY <1>8, FreshOnly DEF TypeInv
  <1>14. index[c] # NoEntry => index[c].title = o /\ Named(c) = files[<<c, o>>]
    BY <1>3, <1>4, <1>5 DEF OldTitle, Named
  <1>15. index[c] = NoEntry => o = w.title /\ Named(c) = 0 /\ Named(c)' = 0
    BY <1>3, <1>4, <1>5, <1>13 DEF OldTitle, Named
  <1>16. /\ \A u \in Titles : files[<<c, u>>] \in Texts \cup {0}
         /\ t # 0 => files'[<<c, w.title>>] = t
         /\ \A u \in Titles : u # w.title \/ t = 0 => files'[<<c, u>>] = files[<<c, u>>]
    BY <1>4, <1>8 DEF TypeInv, Paths
  <1>17. index[c] # NoEntry => Named(c)' = files'[<<c, o>>]
    BY <1>13, <1>14 DEF Named
  <1>18. TextsOf(c)' \subseteq TextsOf(c) \cup ({t} \ {0})
    BY <1>16 DEF TextsOf, TitlesOf
  <1>19. CASE w.content
    <2>1. PICK x \in Texts : x = t /\ x = texts + 1 /\ x \in Nat /\ x # 0
      BY <1>6, <1>7, <1>19
    <2>2. PICK m \in Nat : m = grown'[c]
      BY DEF TypeInv
    <2>3. m = grown[c] + Growth(WordCount(newest[c]), WordCount(x)) /\ newest'[c] = x
          /\ texts' = x
      BY <1>8, <1>19, <2>1, <2>2 DEF TypeInv
    <2>4. PICK h \in [Texts -> Nat] : h = [g EXCEPT ![x] = m]
      OBVIOUS
    <2>5. PICK U \in SUBSET Texts : U = T \cup {x}
      OBVIOUS
    <2>6. /\ Chron(c, U, h)'
          /\ \A p \in Nat : q + Growth(p, WordCount(newest[c])) <= grown[c] =>
                             Within(U, h, q, p, x)
          /\ FromZero(c, T, g, q) /\ TextsOf(c)' \subseteq TextsOf(c) \cup {x} =>
               FromZero(c, U, h, q)'
      BY <1>12, <2>1, <2>2, <2>3, <2>4, <2>5, Written
    <2>7. TextsOf(c)' \subseteq TextsOf(c) \cup {x}
      BY <1>18, <2>1
    <2>8. Named(c)' \in {Named(c), x}
      <3>1. CASE index[c] = NoEntry
        BY <1>15, <3>1
      <3>2. CASE index[c] # NoEntry
        BY <1>14, <1>16, <1>17, <2>1, <3>2
      <3> QED
        BY <3>1, <3>2
    <2>9. EntryCounts(c, U, h, q)'
      BY <1>12, <1>13, <2>1, <2>4, <2>5, <2>6, <2>7, <2>8, EntryWritten
    <2>10. CallCounts(s, c, U, h, q)'
      <3>1. Within(U, h, q, w.previous, x)
        BY <1>3, <1>4, <1>12, <2>6 DEF CallCounts
      <3>2. x <= files'[<<c, w.title>>]
        BY <1>16, <2>1
      <3> QED
        BY <1>9, <2>1, <3>1, <3>2 DEF CallCounts, Within, WordCount, Growth
    <2> QED
      BY <1>9, <1>10, <1>11, <2>6, <2>9, <2>10, CallAccounts
  <1>20. CASE ~w.content
    <2>1. newest'[c] = newest[c] /\ grown'[c] = grown[c] /\ texts' = texts
      BY <1>8, <1>20 DEF TypeInv
    <2>2. t # 0 => t \in TextsOf(c)
      BY <1>4, <1>6, <1>20 DEF TextsOf, TitlesOf
    <2>3. TextsOf(c)' \subseteq TextsOf(c)
      BY <1>18, <2>2
    <2>4. Named(c)' = Named(c)
      <3>1. CASE index[c] = NoEntry
        BY <1>15, <3>1
      <3>2. CASE index[c] # NoEntry /\ (o # w.title \/ t = 0)
        BY <1>14, <1>16, <1>17, <3>2
      <3>3. CASE index[c] # NoEntry /\ o = w.title /\ t # 0
        BY <1>6, <1>14, <1>16, <1>17, <1>20, <3>3
      <3> QED
        BY <3>1, <3>2, <3>3
    <2>5. FromZero(c, T, g, q) => FromZero(c, T, g, q)'
      BY <2>1, <2>3, FromZeroStays
    <2>6. EntryCounts(c, T, g, q)'
      BY <1>12, <1>13, <2>3, <2>4, <2>5 DEF EntryCounts
    <2>7. Chron(c, T, g)'
      BY <1>12, <2>1 DEF Chron, WordCount, Growth
    <2>8. CallCounts(s, c, T, g, q)'
      <3>1. CASE t = 0
        <4>1. Named(c) = 0
          BY <1>6, <1>14, <1>15, <1>20, <3>1
        <4>2. FromZero(c, T, g, q)'
          BY <1>12, <2>5, <4>1 DEF EntryCounts
        <4> QED
          BY <1>9, <3>1, <4>2 DEF CallCounts
      <3>2. CASE t # 0
        <4>1. Within(T, g, q, w.previous, t)
          <5>1. CASE index[c] # NoEntry /\ files[<<c, o>>] # 0
            BY <1>3, <1>4, <1>6, <1>12, <1>14, <1>20, <5>1 DEF CallCounts
          <5>2. CASE index[c] = NoEntry \/ files[<<c, o>>] = 0
            <6>1. Named(c) = 0 /\ t = files[<<c, w.title>>]
              BY <1>6, <1>14, <1>15, <1>20, <5>2
            <6> QED
              BY <1>3, <1>4, <1>12, <3>2, <6>1 DEF CallCounts
          <5> QED
            BY <5>1, <5>2
        <4>2. t <= files'[<<c, w.title>>]
          <5>1. t \in Nat
            BY <2>2, <3>2, CountTypes
          <5> QED
            BY <1>16, <3>2, <5>1
        <4> QED
          BY <1>9, <3>2, <4>1, <4>2 DEF CallCounts, Within, WordCount, Growth
      <3> QED
        BY <3>1, <3>2
    <2> QED
      BY <1>9, <1>10, <1>11, <2>6, <2>7, <2>8, CallAccounts
  <1> QED
    BY <1>19, <1>20

\* Another editor writes a file: every call is where it was.
LEMMA CountExternal ==
  ASSUME TypeInv, TypeInv', NEW c \in Chapters, Counted(c), NEW d \in Chapters,
         NEW f \in Titles, writeExternally(d, f)
  PROVE  Counted(c)'
  <1>1. PICK T \in SUBSET Texts, g \in [Texts -> Nat] : Accounted(c, T, g, Owed(c))
    BY DEF Counted
  <1>2. PICK q \in Nat : q = Owed(c)
    BY OwedIsNat DEF OwedOK
  <1>3. Chron(c, T, g) /\ EntryCounts(c, T, g, q)
    BY <1>1, <1>2 DEF Accounted
  <1>4. \A s \in Sessions :
          /\ work'[s].step = work[s].step /\ work'[s].chapter = work[s].chapter
          /\ work'[s].previous = work[s].previous /\ work'[s].text = work[s].text
          /\ work'[s].title = work[s].title
    BY DEF writeExternally, TypeInv, WorkInv, WorkType
  <1>5. Owed(c)' = q
    <2>1. \A s \in Sessions : Share(s, c)' = Share(s, c)
      BY <1>4 DEF Share, Growth, WordCount
    <2>2. Shares(c)' = Shares(c)
      BY <2>1 DEF Shares
    <2>3. log' = log
      BY DEF writeExternally
    <2> QED
      BY <1>2, <2>2, <2>3 DEF Owed, Pairs
  <1>6. /\ index' = [index EXCEPT ![d].fresh = @ /\ index[d].title # f]
        /\ texts' = texts + 1 /\ texts \in Nat /\ texts + 1 \in Texts /\ texts + 1 # 0
        /\ newest' = [newest EXCEPT ![d] = texts + 1]
        /\ grown' = [grown EXCEPT ![d] =
                       @ + Growth(WordCount(newest[d]), WordCount(texts + 1))]
    BY WordsAssumption DEF writeExternally, TypeInv, Texts
  <1>7. /\ index'[c].title = index[c].title /\ index'[c].text = index[c].text
        /\ index'[c] = NoEntry <=> index[c] = NoEntry
        /\ SameEntry(c, index[c])
    BY <1>6, FreshOnly DEF TypeInv, SameEntry
  <1>8. CASE c # d
    <2>1. SameCount(c)
      BY <1>6, <1>7, <1>8 DEF SameCount, writeExternally, TypeInv, Paths
    <2>2. Chron(c, T, g)' /\ EntryCounts(c, T, g, q)'
      BY <1>3, <2>1, EntryStays
    <2>3. ASSUME NEW s \in Sessions, work'[s].chapter = c PROVE CallCounts(s, c, T, g, q)'
      BY <1>1, <1>2, <1>4, <1>7, <2>1, <2>3, CallStays DEF Accounted, SameCount
    <2>4. Accounted(c, T, g, q)'
      BY <2>2, <2>3 DEF Accounted
    <2> QED
      BY <1>5, <2>4 DEF Counted
  <1>9. CASE c = d
    <2>1. PICK x \in Texts : x = texts + 1 /\ x \in Nat /\ x # 0
      BY <1>6
    <2>2. PICK m \in Nat : m = grown'[c]
      BY DEF TypeInv
    <2>3. m = grown[c] + Growth(WordCount(newest[c]), WordCount(x)) /\ newest'[c] = x
          /\ texts' = x
      BY <1>6, <1>9, <2>1, <2>2 DEF TypeInv
    <2>4. PICK h \in [Texts -> Nat] : h = [g EXCEPT ![x] = m]
      OBVIOUS
    <2>5. PICK U \in SUBSET Texts : U = T \cup {x}
      OBVIOUS
    <2>6. /\ Chron(c, U, h)'
          /\ \A p \in Nat, t \in T : Within(T, g, q, p, t) => Within(U, h, q, p, t)
          /\ \A p \in Nat : q + Growth(p, WordCount(newest[c])) <= grown[c] =>
                             /\ Within(U, h, q, p, x)
                             /\ q + Growth(p, WordCount(newest'[c])) <= grown'[c]
          /\ FromZero(c, T, g, q) /\ TextsOf(c)' \subseteq TextsOf(c) \cup {x} =>
               FromZero(c, U, h, q)'
      BY <1>3, <2>1, <2>2, <2>3, <2>4, <2>5, Written
    <2>7. /\ files'[<<c, f>>] = x
          /\ \A u \in Titles : u # f => files'[<<c, u>>] = files[<<c, u>>]
          /\ \A u \in Titles : files[<<c, u>>] \in Texts \cup {0}
      BY <1>9, <2>1 DEF writeExternally, TypeInv, Paths
    <2>8. TextsOf(c)' \subseteq TextsOf(c) \cup {x}
      BY <2>7 DEF TextsOf, TitlesOf
    <2>9. Named(c)' \in {Named(c), x}
      <3>1. index[c] # NoEntry => index[c].title \in Titles
        BY DEF TypeInv, IndexInv
      <3> QED
        BY <1>7, <2>7, <3>1 DEF Named
    <2>10. EntryCounts(c, U, h, q)'
      BY <1>3, <1>7, <2>1, <2>4, <2>5, <2>6, <2>8, <2>9, EntryWritten
    <2>11. FromZero(c, T, g, q) => FromZero(c, U, h, q)'
      BY <2>6, <2>8
    <2>12. ASSUME NEW s \in Sessions, work'[s].chapter = c PROVE CallCounts(s, c, U, h, q)'
      <3>1. PICK w : w = work[s]
        OBVIOUS
      <3>2. /\ work'[s].step = w.step /\ work'[s].previous = w.previous
            /\ work'[s].text = w.text /\ work'[s].title = w.title
        BY <1>4, <3>1
      <3>3. CallCounts(s, c, T, g, q)
        BY <1>1, <1>2, <1>4, <2>12 DEF Accounted
      <3>4. /\ w.previous \in Nat /\ w.text \in Texts \cup {0}
            /\ w.step \in {"body", "index"} => w.title \in Titles
        BY <3>1 DEF TypeInv, WorkInv, WorkOK, WorkType
      <3>5. \A p \in Nat : \A t : Within(T, g, q, p, t) => Within(U, h, q, p, t)
        BY <2>6 DEF Within
      <3>6. w.step \in {"body", "index"} =>
               files'[<<c, w.title>>] \in {files[<<c, w.title>>], x}
        BY <2>7, <3>4
      <3>7. w.step = "body" =>
               /\ q + Growth(w.previous, WordCount(newest'[c])) <= grown'[c]
               /\ Named(c)' # 0 => Within(U, h, q, w.previous, Named(c)')
               /\ Named(c)' = 0 /\ files'[<<c, w.title>>] # 0 =>
                    Within(U, h, q, w.previous, files'[<<c, w.title>>])
        <4>1. SUFFICES ASSUME w.step = "body"
                       PROVE  /\ q + Growth(w.previous, WordCount(newest'[c])) <= grown'[c]
                              /\ Named(c)' # 0 => Within(U, h, q, w.previous, Named(c)')
                              /\ Named(c)' = 0 /\ files'[<<c, w.title>>] # 0 =>
                                   Within(U, h, q, w.previous, files'[<<c, w.title>>])
          OBVIOUS
        <4>2. /\ q + Growth(w.previous, WordCount(newest[c])) <= grown[c]
              /\ Named(c) # 0 => Within(T, g, q, w.previous, Named(c))
              /\ Named(c) = 0 /\ files[<<c, w.title>>] # 0 =>
                   Within(T, g, q, w.previous, files[<<c, w.title>>])
          BY <3>1, <3>3, <4>1 DEF CallCounts
        <4>3. /\ Within(U, h, q, w.previous, x)
              /\ q + Growth(w.previous, WordCount(newest'[c])) <= grown'[c]
          BY <2>6, <3>4, <4>2
        <4> QED
          BY <2>1, <2>9, <3>4, <3>5, <3>6, <4>1, <4>2, <4>3
      <3>8. w.step = "index" =>
               /\ w.text = 0 => FromZero(c, U, h, q)'
               /\ w.text # 0 => /\ Within(U, h, q, w.previous, w.text)
                                /\ w.text <= files'[<<c, w.title>>]
        <4>1. SUFFICES ASSUME w.step = "index"
                       PROVE  /\ w.text = 0 => FromZero(c, U, h, q)'
                              /\ w.text # 0 => /\ Within(U, h, q, w.previous, w.text)
                                               /\ w.text <= files'[<<c, w.title>>]
          OBVIOUS
        <4>2. /\ w.text = 0 => FromZero(c, T, g, q)
              /\ w.text # 0 => /\ Within(T, g, q, w.previous, w.text)
                               /\ w.text <= files[<<c, w.title>>]
          BY <3>1, <3>3, <4>1 DEF CallCounts
        <4>3. w.text # 0 => w.text <= x
          <5>1. w.text # 0 => w.text \in T
            BY <4>2 DEF Within
          <5>2. \A t \in T : t <= texts /\ t \in Nat
            BY <1>3, CountTypes DEF Chron
          <5>3. \A t \in T : t <= x
            BY <1>6, <2>1, <5>2
          <5> QED
            BY <5>1, <5>3
        <4> QED
          BY <2>11, <3>4, <3>5, <3>6, <4>1, <4>2, <4>3
      <3>9. w.step \in {"dropEntry", "softDrop", "prune"} => FromZero(c, U, h, q)'
        BY <2>11, <3>1, <3>3 DEF CallCounts
      <3> QED
        BY <3>2, <3>7, <3>8, <3>9 DEF CallCounts, Within, WordCount, Growth
    <2>13. Accounted(c, U, h, q)'
      BY <2>6, <2>10, <2>12 DEF Accounted
    <2> QED
      BY <1>5, <2>13 DEF Counted
  <1> QED
    BY <1>8, <1>9

\* A call holds the lock, or finds it free, and is about another chapter.
LEMMA CountOthers ==
  ASSUME TypeInv, TypeInv', NEW c \in Chapters, Counted(c),
         NEW s \in Sessions, LockFree \/ InLock(s), \A u \in Sessions \ {s} : work'[u] = work[u],
         SameCount(c), log'[c] = log[c],
         work[s].chapter # c \/ work[s].step = "idle",
         work'[s].chapter # c \/ work'[s].step = "idle"
  PROVE  Counted(c)'
  <1>1. Share(s, c) = 0 /\ Share(s, c)' = 0
    BY DEF Share
  <1> QED
    BY <1>1, CountElsewhere

\* Calls return, and owe no more than before.
LEMMA CountSettled ==
  ASSUME TypeInv, TypeInv', NEW c \in Chapters, Counted(c),
         UNCHANGED <<files, index, texts, newest, grown>>,
         \A u \in Sessions : work'[u] \in {work[u], Idle}, Owed(c)' <= Owed(c)
  PROVE  Counted(c)'
  <1>1. PICK T \in SUBSET Texts, g \in [Texts -> Nat] : Accounted(c, T, g, Owed(c))
    BY DEF Counted
  <1>2. PICK q \in Nat : q = Owed(c)
    BY OwedIsNat DEF OwedOK
  <1>3. PICK r \in Nat : r = Owed(c)'
    <2>1. (TypeInv => OwedOK)'
      BY OwedIsNat, PTL
    <2> QED
      BY <2>1 DEF OwedOK
  <1>4. SameCount(c) /\ SameEntry(c, index[c])
    BY DEF SameCount, SameEntry, TypeInv
  <1>5. Chron(c, T, g) /\ EntryCounts(c, T, g, q) /\ r <= q
    BY <1>1, <1>2, <1>3 DEF Accounted
  <1>6. Chron(c, T, g)' /\ EntryCounts(c, T, g, r)'
    BY <1>4, <1>5, EntryStays
  <1>7. ASSUME NEW u \in Sessions, work'[u].chapter = c PROVE CallCounts(u, c, T, g, r)'
    <2>1. CASE work'[u] = Idle
      BY <2>1, NothingToCount DEF Idle
    <2>2. CASE work'[u] = work[u]
      <3>1. CallCounts(u, c, T, g, q)
        BY <1>1, <1>2, <1>7, <2>2 DEF Accounted
      <3> QED
        BY <1>4, <1>5, <2>2, <3>1, CallStays
    <2> QED
      BY <2>1, <2>2
  <1>8. Accounted(c, T, g, r)'
    BY <1>6, <1>7 DEF Accounted
  <1> QED
    BY <1>3, <1>8 DEF Counted

\* Nobody is in the lock, and the calls stay where they are.
LEMMA CountAtRest ==
  ASSUME TypeInv, TypeInv', NEW c \in Chapters, LockFree, work' = work,
         NEW T \in SUBSET Texts, NEW g \in [Texts -> Nat], NEW q, q = Owed(c)',
         Chron(c, T, g)', EntryCounts(c, T, g, q)'
  PROVE  Counted(c)'
  <1>1. \A u \in Sessions : CallCounts(u, c, T, g, q)'
    BY NothingToCount DEF LockFree, InIndexLock
  <1>2. Accounted(c, T, g, q)'
    BY <1>1 DEF Accounted
  <1> QED
    BY <1>2 DEF Counted

\* What is owed when no call takes a step.
LEMMA OwedAtRest ==
  ASSUME TypeInv, TypeInv', NEW c \in Chapters, work' = work
  PROVE  Owed(c)' - log'[c] = Owed(c) - log[c] /\ Owed(c) \in Nat /\ Owed(c)' \in Nat
  <1>1. Shares(c)' = Shares(c)
    BY DEF Shares, Share, Growth, WordCount
  <1>2. Owed(c) \in Nat
    BY OwedIsNat DEF OwedOK
  <1>3. Owed(c)' \in Nat
    <2>1. (TypeInv => OwedOK)'
      BY OwedIsNat, PTL
    <2> QED
      BY <2>1 DEF OwedOK
  <1>4. PICK n : n = Cardinality(Pairs(Shares(c), Sessions))
    OBVIOUS
  <1>5. Owed(c) = log[c] + n /\ Owed(c)' = log'[c] + n
    BY <1>1, <1>4 DEF Owed, Pairs
  <1>6. n \in Nat
    BY <1>4, SumOfShares
  <1> QED
    BY <1>2, <1>3, <1>5, <1>6 DEF TypeInv

\* The reconciliation counts what a file has grown since the index saw it.
LEMMA CountReconciled ==
  ASSUME TypeInv, TypeInv', NEW c \in Chapters, Counted(c),
         NEW counted \in BOOLEAN, reconcile(counted)
  PROVE  Counted(c)'
  <1>1. PICK T \in SUBSET Texts, g \in [Texts -> Nat] : Accounted(c, T, g, Owed(c))
    BY DEF Counted
  <1>2. UNCHANGED <<files, texts, newest, grown>> /\ work' = work /\ LockFree
    BY DEF reconcile, History
  <1>3. PICK q \in Nat, r \in Nat : q = Owed(c) /\ r = Owed(c)' /\ r - log'[c] = q - log[c]
    BY <1>2, OwedAtRest
  <1>4. Chron(c, T, g) /\ EntryCounts(c, T, g, q)
    BY <1>1, <1>3 DEF Accounted
  <1>5. PICK l \in Nat, m \in Nat : l = log[c] /\ m = log'[c]
    BY DEF TypeInv
  <1>6. index'[c] = IF HasText(c)
                    THEN [Synchronized(c) EXCEPT !.text = IF Changed(c) THEN TextOf(c) ELSE @,
                                                 !.fresh = TRUE]
                    ELSE index[c]
    BY DEF reconcile
  <1>7. m = IF counted /\ Changed(c) THEN l + Growth(WordsBefore(c), WordCount(TextOf(c))) ELSE l
    BY <1>5 DEF reconcile
  <1>8. CASE ~Changed(c)
    <2>1. r = q
      BY <1>3, <1>5, <1>7, <1>8
    <2>2. SameCount(c)
      <3>1. CASE ~HasText(c)
        BY <1>2, <1>6, <3>1 DEF SameCount, SameEntry, TypeInv
      <3>2. CASE HasText(c)
        <4>1. index[c] # NoEntry /\ Synchronized(c) = index[c]
          BY <1>8, <3>2 DEF Changed, Synchronized
        <4>2. index[c] \in EntryType /\ index[c].title \in Titles /\ -1 \notin Titles
          BY <4>1, TitlesAssumption DEF TypeInv, IndexInv
        <4>3. index'[c].title = index[c].title /\ index'[c].text = index[c].text
          BY <1>6, <1>8, <3>2, <4>1, <4>2 DEF EntryType
        <4>4. index'[c] # NoEntry
          BY <4>2, <4>3 DEF NoEntry
        <4> QED
          BY <1>2, <4>1, <4>3, <4>4 DEF SameCount, SameEntry, TypeInv
      <3> QED
        BY <3>1, <3>2
    <2>3. Chron(c, T, g)' /\ EntryCounts(c, T, g, r)'
      BY <1>4, <2>1, <2>2, EntryStays
    <2> QED
      BY <1>2, <1>3, <2>3, CountAtRest
  <1>9. CASE Changed(c)
    <2>1. HasText(c)
      BY <1>9 DEF Changed
    <2>2. PICK f \in Titles : f = Synchronized(c).title
      BY <2>1, TextType
    <2>3. PICK o \in Texts : o = TextOf(c)
      BY <2>1, TextType
    <2>4. o = files[<<c, f>>] /\ o # 0 /\ o \in Nat /\ o \in TextsOf(c)
      BY <2>1, <2>2, <2>3 DEF TextOf, TextsOf, TitlesOf, Texts
    <2>5. Synchronized(c) \in EntryType
      BY SynchronizedType
    <2>6. index'[c].title = f /\ index'[c].text = o
      BY <1>6, <1>9, <2>1, <2>2, <2>3, <2>5 DEF EntryType
    <2>7. index'[c] # NoEntry /\ Named(c)' = o
      BY <1>2, <2>2, <2>4, <2>6, TitlesAssumption DEF NoEntry, Named
    <2>8. PICK a \in Nat : a = Growth(WordsBefore(c), WordCount(o))
      BY <2>3, CountTypes, GrowthType DEF WordsBefore
    <2>9. r <= q + a
      BY <1>3, <1>5, <1>7, <2>3, <2>8
    <2>10. Within(T, g, q, WordsBefore(c), o)
      <3>1. CASE index[c].text = 0 \/ index[c] = NoEntry
        <4>1. WordsBefore(c) = 0 /\ index[c].text = 0
          BY <3>1, CountTypes DEF WordsBefore, NoEntry
        <4> QED
          BY <1>4, <2>4, <4>1 DEF EntryCounts, FromZero
      <3>2. CASE index[c].text # 0 /\ index[c] # NoEntry
        <4>1. PICK t \in T : t = index[c].text /\ q <= g[t]
          BY <1>4, <3>2 DEF EntryCounts
        <4>2. Named(c) = o
          BY <2>2, <2>4, <3>2 DEF Named, Synchronized
        <4>3. t <= o /\ o \in T
          BY <1>4, <2>4, <4>1, <4>2 DEF EntryCounts
        <4>4. WordsBefore(c) = WordCount(t)
          BY <3>2, <4>1 DEF WordsBefore
        <4> QED
          BY <1>4, <4>1, <4>3, <4>4, Following
      <3> QED
        BY <3>1, <3>2
    <2>11. o \in T /\ q + a <= g[o] /\ g[o] \in Nat
      BY <2>8, <2>10 DEF Within
    <2>12. r <= g[o]
      BY <2>9, <2>11
    <2>13. TextsOf(c)' = TextsOf(c)
      BY <1>2 DEF TextsOf, TitlesOf
    <2>14. EntryCounts(c, T, g, r)'
      BY <1>4, <2>4, <2>6, <2>7, <2>11, <2>12, <2>13 DEF EntryCounts
    <2>15. Chron(c, T, g)'
      BY <1>2, <1>4 DEF Chron, WordCount, Growth
    <2> QED
      BY <1>2, <1>3, <2>14, <2>15, CountAtRest
  <1> QED
    BY <1>8, <1>9

\* Nothing is written, counted or owed initially.
LEMMA CountInit == Init => CountInv
  <1> SUFFICES ASSUME Init PROVE CountInv
    OBVIOUS
  <1>1. SavedInv /\ TypeInv
    BY SavedInit DEF SavedInv
  <1>2. ASSUME NEW c \in Chapters PROVE Counted(c)
    <2>1. PICK g : g = [t \in Texts |-> 0]
      OBVIOUS
    <2>2. g \in [Texts -> Nat]
      BY <2>1
    <2>3. TextsOf(c) = {} /\ index[c] = NoEntry /\ newest[c] = 0 /\ grown[c] = 0 /\ log[c] = 0
      BY DEF Init, TextsOf, TitlesOf, Paths
    <2>4. Owed(c) = 0
      <3>1. \A s \in Sessions : Share(s, c) = 0
        BY DEF Init, Idle, Share
      <3>2. Shares(c) = [s \in Sessions |-> 0]
        BY <3>1 DEF Shares
      <3>3. 1..0 = {}
        OBVIOUS
      <3>4. Pairs(Shares(c), Sessions) = {}
        BY <3>2, <3>3 DEF Pairs
      <3>5. Cardinality({}) = 0
        BY FS_EmptySet
      <3> QED
        BY <2>3, <3>4, <3>5 DEF Owed
    <2>5. Chron(c, {}, g)
      BY DEF Chron
    <2>6. EntryCounts(c, {}, g, 0)
      BY <2>3, CountTypes DEF EntryCounts, FromZero, Named, NoEntry, WordCount
    <2>7. \A s \in Sessions : CallCounts(s, c, {}, g, 0)
      BY DEF Init, Idle, CallCounts
    <2>8. Accounted(c, {}, g, 0)
      BY <2>5, <2>6, <2>7 DEF Accounted
    <2> QED
      BY <2>2, <2>4, <2>8 DEF Counted
  <1> QED
    BY <1>1, <1>2 DEF CountInv

\* A chapter that loses the file its index entry names has no other file, if its count is
\* not among those that the known limits may spoil.
LEMMA NothingLeft ==
  ASSUME TypeInv, NEW c \in Chapters, HasText(c), Leaving(c) = {},
         files' = [files EXCEPT ![<<c, Synchronized(c).title>>] = 0]
  PROVE  TitlesOf(c)' = {}
  <1>1. PICK f \in Titles : f = Synchronized(c).title
    BY TextType
  <1>2. TitlesOf(c) \subseteq {f}
    BY <1>1 DEF Leaving
  <1>3. ASSUME NEW t \in Titles PROVE files'[<<c, t>>] = 0
    BY <1>1, <1>2 DEF TitlesOf, TypeInv, Paths
  <1> QED
    BY <1>3 DEF TitlesOf

\* The count of a chapter stays within bounds, whatever one call does.
LEMMA CountCall ==
  ASSUME SavedInv, TypeInv', NEW s \in Sessions, Call(s), NEW c \in Chapters,
         c \notin miscounted', Counted(c)
  PROVE  Counted(c)'
  <1> USE DEF Disk, History
  <1>t. TypeInv
    BY DEF SavedInv
  <1>1. CASE \E d \in Chapters : save(s, d) \/ lineEdit(s, d)
    <2>1. PICK d \in Chapters : save(s, d) \/ lineEdit(s, d)
      BY <1>1
    <2>2. /\ work[s].step = "idle" /\ LockFree /\ index' = SynchronizedIndex
          /\ UNCHANGED <<files, log, texts, newest, grown>>
      BY <2>1 DEF save, lineEdit, Starts, Idle
    <2>3. \A u \in Sessions \ {s} : work'[u] = work[u]
      BY <1>t, <2>1 DEF save, lineEdit, TypeInv, WorkInv
    <2>4. work'[s].step \in {"check", "update"}
      <3>1. CASE save(s, d)
        BY <1>t, <3>1 DEF save, Idle, TypeInv, WorkInv
      <3>2. CASE lineEdit(s, d)
        BY <1>t, <3>2 DEF lineEdit, Idle, TypeInv, WorkInv
      <3> QED
        BY <2>1, <3>1, <3>2
    <2> QED
      BY <1>t, <2>2, <2>3, <2>4, CountTakenUp
  <1>2. CASE \E d \in Chapters, t \in Titles : create(s, d, t) \/ pipelineWrite(s, d, t)
    <2>1. PICK d \in Chapters, t \in Titles : create(s, d, t) \/ pipelineWrite(s, d, t)
      BY <1>2
    <2>2. /\ work[s].step = "idle" /\ LockFree /\ index' = SynchronizedIndex
          /\ UNCHANGED <<files, log, texts, newest, grown>>
      BY <2>1 DEF create, pipelineWrite, Starts, Idle
    <2>3. \A u \in Sessions \ {s} : work'[u] = work[u]
      BY <1>t, <2>1 DEF create, pipelineWrite, TypeInv, WorkInv
    <2>4. work'[s].step \in {"update", "compare"}
      <3>1. CASE create(s, d, t)
        BY <1>t, <3>1 DEF create, Idle, TypeInv, WorkInv
      <3>2. CASE pipelineWrite(s, d, t)
        BY <1>t, <3>2 DEF pipelineWrite, Idle, TypeInv, WorkInv
      <3> QED
        BY <2>1, <3>1, <3>2
    <2> QED
      BY <1>t, <2>2, <2>3, <2>4, CountTakenUp
  <1>3. CASE \E d \in Chapters, t \in Titles, content \in BOOLEAN : retitle(s, d, t, content)
    <2>1. PICK d \in Chapters, t \in Titles, content \in BOOLEAN : retitle(s, d, t, content)
      BY <1>3
    <2>2. /\ work[s].step = "idle" /\ LockFree /\ index' = SynchronizedIndex
          /\ UNCHANGED <<files, log, texts, newest, grown>>
      BY <2>1 DEF retitle, Starts, Idle
    <2>3. \A u \in Sessions \ {s} : work'[u] = work[u]
      BY <1>t, <2>1 DEF retitle, Idle, TypeInv, WorkInv
    <2>4. work'[s].step = "update"
      BY <1>t, <2>1 DEF retitle, Idle, TypeInv, WorkInv
    <2> QED
      BY <1>t, <2>2, <2>3, <2>4, CountTakenUp
  <1>4. CASE \E d \in Chapters : softDelete(s, d)
    <2>1. PICK d \in Chapters : softDelete(s, d)
      BY <1>4
    <2>2. /\ work[s].step = "idle" /\ LockFree /\ index' = SynchronizedIndex
          /\ UNCHANGED <<log, texts, grown>> /\ HasText(d)
          /\ files' = [files EXCEPT ![<<d, Synchronized(d).title>>] = 0]
          /\ newest' = [newest EXCEPT ![d] = 0]
          /\ miscounted' = miscounted \cup Leaving(d)
      BY <2>1 DEF softDelete, Starts, Idle
    <2>3. /\ \A u \in Sessions \ {s} : work'[u] = work[u]
          /\ work'[s].step = "dropEntry" /\ work'[s].chapter = d
      BY <1>t, <2>1 DEF softDelete, Idle, TypeInv, WorkInv
    <2>4. index'[c] = Synchronized(c)
      BY <2>2, Taken
    <2>5. CASE c = d
      <3>1. Leaving(c) = {}
        BY <2>2, <2>5 DEF Leaving
      <3>2. TitlesOf(c)' = {}
        BY <1>t, <2>2, <2>5, <3>1, NothingLeft
      <3>3. newest'[c] = 0
        BY <1>t, <2>2, <2>5 DEF TypeInv
      <3> QED
        BY <1>t, <2>2, <2>3, <2>4, <3>2, <3>3, CountCleared
    <2>6. CASE c # d
      <3>1. SameCount(c)
        BY <1>t, <2>2, <2>4, <2>6 DEF SameCount, TypeInv, Paths
      <3> QED
        BY <1>t, <2>2, <2>3, <2>6, <3>1, CountOthers
    <2> QED
      BY <2>5, <2>6
  <1>5. CASE \E d \in Chapters : discard(s, d)
    <2>1. PICK d \in Chapters : discard(s, d)
      BY <1>5
    <2>2. /\ work[s].step = "idle" /\ LockFree
          /\ UNCHANGED <<files, index, log, texts, newest, grown>>
      BY <2>1 DEF discard, Starts, Idle
    <2>3. \A u \in Sessions \ {s} : work'[u] = work[u]
      BY <1>t, <2>1 DEF discard, TypeInv, WorkInv
    <2>4. work'[s].step = "soft"
      BY <1>t, <2>1 DEF discard, Idle, TypeInv, WorkInv
    <2>5. SameCount(c)
      BY <1>t, <2>2 DEF SameCount, SameEntry, TypeInv
    <2>6. Share(s, c) = 0 /\ Share(s, c)' = 0
      BY <2>2, <2>4 DEF Share
    <2> QED
      BY <1>t, <2>2, <2>3, <2>4, <2>5, <2>6, CountElsewhere
  <1> QED
    BY <1>1, <1>2, <1>3, <1>4, <1>5 DEF Call

\* The count of a chapter stays within bounds, whatever step a call takes.
LEMMA CountStep ==
  ASSUME SavedInv, TypeInv', NEW s \in Sessions, Step(s), NEW c \in Chapters,
         c \notin miscounted', Counted(c)
  PROVE  Counted(c)'
  <1> USE DEF Disk, History
  <1>t. /\ TypeInv /\ HolderOK(s) /\ work \in [Sessions -> WorkType] /\ WorkOK(work[s])
        /\ work[s] \in WorkType
        /\ work[s].step # "idle" => work[s].chapter \in Chapters
    BY DEF SavedInv, TypeInv, WorkInv, WorkOK
  <1>1. CASE checkHash(s) \/ readPrevious(s)
    <2>1. /\ LockFree /\ index' = SynchronizedIndex
          /\ UNCHANGED <<files, log, texts, newest, grown>>
          /\ work[s].step \in {"check", "previous"}
      BY <1>1 DEF checkHash, readPrevious
    <2>2. \A u \in Sessions \ {s} : work'[u] = work[u]
      BY <1>1, <1>t DEF checkHash, readPrevious
    <2>3. work'[s].step \in {"idle", "previous", "update"}
      <3>1. CASE checkHash(s)
        BY <3>1, <1>t DEF checkHash, Idle, WorkType
      <3>2. CASE readPrevious(s)
        BY <3>2, <1>t DEF readPrevious, WorkType
      <3> QED
        BY <1>1, <3>1, <3>2
    <2> QED
      BY <1>t, <2>1, <2>2, <2>3, CountTakenUp
  <1>2. CASE comparePipeline(s)
    <2>1. /\ LockFree /\ index' = SynchronizedIndex
          /\ UNCHANGED <<files, log, texts, newest, grown>>
          /\ work[s].step = "compare" /\ work[s].title \in Titles
      BY <1>2, <1>t DEF comparePipeline, WorkOK
    <2>2. \A u \in Sessions \ {s} : work'[u] = work[u]
      BY <1>2, <1>t DEF comparePipeline
    <2>3. CASE SameFingerprint(work[s])
      <3>1. work'[s] = [work[s] EXCEPT !.step = "body", !.previous = WordsOf(work[s].chapter)]
        BY <1>2, <1>t, <2>3 DEF comparePipeline
      <3>2. /\ work'[s].step = "body" /\ work'[s].title \in Titles
            /\ work'[s].chapter = c => work'[s].previous = WordsOf(c)
        BY <1>t, <2>1, <3>1 DEF WorkType
      <3> QED
        BY <1>t, <2>1, <2>2, <3>2, CountTakenUp
    <2>4. CASE ~SameFingerprint(work[s])
      <3>1. work'[s].step = "idle"
        BY <1>2, <1>t, <2>4 DEF comparePipeline, Idle
      <3> QED
        BY <1>t, <2>1, <2>2, <3>1, CountTakenUp
    <2> QED
      BY <2>3, <2>4
  <1>3. CASE lockUpdate(s)
    <2>1. /\ LockFree /\ index' = SynchronizedIndex
          /\ UNCHANGED <<files, log, texts, newest, grown>>
          /\ work[s].step = "update" /\ work[s].title \in Titles
          /\ work[s].chapter = c => WordsOf(c) = work[s].previous
      BY <1>3, <1>t DEF lockUpdate, WorkOK
    <2>2. \A u \in Sessions \ {s} : work'[u] = work[u]
      BY <1>3, <1>t DEF lockUpdate
    <2>3. work'[s] = Idle \/ work'[s] = [work[s] EXCEPT !.step = "body"]
      BY <1>3, <1>t DEF lockUpdate
    <2>4. CASE work'[s] = Idle
      <3>1. work'[s].step = "idle"
        BY <2>4 DEF Idle
      <3> QED
        BY <1>t, <2>1, <2>2, <3>1, CountTakenUp
    <2>5. CASE work'[s] = [work[s] EXCEPT !.step = "body"]
      <3>1. /\ work'[s].step = "body" /\ work'[s].title \in Titles
            /\ work'[s].chapter = c => work'[s].previous = WordsOf(c)
        BY <1>t, <2>1, <2>5 DEF WorkType
      <3> QED
        BY <1>t, <2>1, <2>2, <3>1, CountTakenUp
    <2> QED
      BY <2>3, <2>4, <2>5
  <1>4. CASE writeBody(s)
    <2>1. CASE work[s].chapter = c
      BY <1>4, <1>t, <2>1, CountBody
    <2>2. CASE work[s].chapter # c
      <3>1. PICK d \in Chapters : d = work[s].chapter
        BY <1>4, <1>t DEF writeBody
      <3>2. /\ InLock(s) /\ \A u \in Sessions \ {s} : work'[u] = work[u]
            /\ log'[c] = log[c]
        BY <1>4, <1>t DEF writeBody, InLock, InIndexLock
      <3>3. work'[s].chapter # c
        BY <1>4, <1>t, <2>2 DEF writeBody, WorkType
      <3>4. \A t \in Titles : files'[<<c, t>>] = files[<<c, t>>]
        BY <1>4, <1>t, <2>2, <3>1 DEF writeBody, WithBody, TypeInv, Paths
      <3>5. index'[c] = index[c] /\ newest'[c] = newest[c] /\ grown'[c] = grown[c]
        BY <1>4, <1>t, <2>2, <3>1 DEF writeBody, TypeInv, IndexInv
      <3>6. texts <= texts'
        BY <1>4, <1>t DEF writeBody, TypeInv
      <3>7. SameCount(c)
        BY <3>4, <3>5, <3>6 DEF SameCount, SameEntry
      <3> QED
        BY <1>t, <2>2, <3>2, <3>3, <3>7, CountOthers
    <2> QED
      BY <2>1, <2>2
  <1>5. CASE writeIndex(s)
    <2>1. CASE work[s].chapter = c
      BY <1>5, <1>t, <2>1, CountIndexed
    <2>2. CASE work[s].chapter # c
      <3>1. /\ InLock(s) /\ \A u \in Sessions \ {s} : work'[u] = work[u]
            /\ UNCHANGED <<files, log, texts, newest, grown>>
        BY <1>5, <1>t DEF writeIndex, InLock, InIndexLock
      <3>2. work'[s].chapter # c
        BY <1>5, <1>t, <2>2 DEF writeIndex, WorkType
      <3>3. index'[c] = index[c]
        BY <1>5, <1>t, <2>2 DEF writeIndex, TypeInv, IndexInv
      <3>4. SameCount(c)
        BY <1>t, <3>1, <3>3 DEF SameCount, SameEntry, TypeInv
      <3> QED
        BY <1>t, <2>2, <3>1, <3>2, <3>4, CountOthers
    <2> QED
      BY <2>1, <2>2
  <1>6. CASE removeSuperseded(s)
    <2>1. CASE work[s].chapter = c
      <3>1. index[c] # NoEntry /\ index[c].title # work[s].title
        BY <1>6, <1>t, <2>1 DEF removeSuperseded, HolderOK
      <3> QED
        BY <1>6, <1>t, <2>1, <3>1, CountSuperseded
    <2>2. CASE work[s].chapter # c
      <3>1. /\ InLock(s) /\ \A u \in Sessions \ {s} : work'[u] = work[u]
            /\ UNCHANGED <<index, log, texts, newest, grown>>
        BY <1>6, <1>t DEF removeSuperseded, InLock, InIndexLock
      <3>2. work'[s].chapter # c
        BY <1>6, <1>t, <2>2 DEF removeSuperseded, WorkType
      <3>3. \A t \in Titles : files'[<<c, t>>] = files[<<c, t>>]
        BY <1>6, <1>t, <2>2 DEF removeSuperseded, TypeInv, Paths
      <3>4. SameCount(c)
        BY <1>t, <3>1, <3>3 DEF SameCount, SameEntry, TypeInv
      <3> QED
        BY <1>t, <2>2, <3>1, <3>2, <3>4, CountOthers
    <2> QED
      BY <2>1, <2>2
  <1>7. CASE record(s)
    <2>1. /\ UNCHANGED <<files, index, texts, newest, grown>>
          /\ work'[s] = Idle /\ \A u \in Sessions \ {s} : work'[u] = work[u]
          /\ work[s].step \in {"record", "recordLocked"}
      BY <1>7, <1>t DEF record
    <2>2. Share(s, c)' = 0
      BY <2>1 DEF Share, Idle
    <2>3. Share(s, c) \in Nat /\ Owed(c) \in Nat /\ Owed(c)' \in Nat
          /\ (Share(s, c)' - Share(s, c) = log[c] - log'[c] => Owed(c)' = Owed(c))
      BY <1>t, <2>1, OwedAfter
    <2>4. log'[c] = log[c] + Share(s, c)
      <3>1. CASE work[s].chapter = c
        BY <1>7, <1>t, <2>1, <3>1 DEF record, Share, TypeInv
      <3>2. CASE work[s].chapter # c
        <4>1. Share(s, c) = 0 /\ log[c] \in Nat
          BY <1>t, <3>2 DEF Share, TypeInv
        <4>2. log'[c] = log[c]
          BY <1>7, <1>t, <3>2 DEF record, TypeInv
        <4> QED
          BY <4>1, <4>2
      <3> QED
        BY <3>1, <3>2
    <2>5. Owed(c)' <= Owed(c)
      <3>1. log[c] \in Nat
        BY <1>t DEF TypeInv
      <3>2. PICK x \in Nat, l \in Nat : x = Share(s, c) /\ l = log[c]
        BY <2>3, <3>1
      <3>3. 0 - x = l - (l + x)
        OBVIOUS
      <3>4. Share(s, c)' - Share(s, c) = log[c] - log'[c]
        BY <2>2, <2>4, <3>2, <3>3
      <3> QED
        BY <2>3, <3>4
    <2> QED
      BY <1>t, <2>1, <2>5, CountSettled
  <1>8. CASE dropEntry(s) \/ discardPrune(s)
    <2>1. /\ InLock(s) /\ \A u \in Sessions \ {s} : work'[u] = work[u]
          /\ UNCHANGED <<files, log, texts, newest, grown>>
          /\ work[s].step \in {"dropEntry", "softDrop", "prune"}
          /\ index' = [index EXCEPT ![work[s].chapter] = NoEntry]
      BY <1>8, <1>t DEF dropEntry, discardPrune, InLock, InIndexLock
    <2>2. /\ work'[s].step \in {"idle", "move"}
          /\ work'[s].step = "move" => work'[s].chapter = work[s].chapter
      BY <1>8, <1>t DEF dropEntry, discardPrune, Idle, WorkType
    <2>3. CASE work[s].chapter = c
      <3>1. index'[c] = NoEntry
        BY <1>t, <2>1, <2>3 DEF TypeInv, IndexInv
      <3> QED
        BY <1>t, <2>1, <2>2, <2>3, <3>1, CountDropped
    <2>4. CASE work[s].chapter # c
      <3>1. index'[c] = index[c]
        BY <1>t, <2>1, <2>4 DEF TypeInv, IndexInv
      <3>2. SameCount(c)
        BY <1>t, <2>1, <3>1 DEF SameCount, SameEntry, TypeInv
      <3> QED
        BY <1>t, <2>1, <2>2, <2>4, <3>2, CountOthers
    <2> QED
      BY <2>3, <2>4
  <1>9. CASE discardSoftDelete(s)
    <2>1. PICK d \in Chapters : d = work[s].chapter
      BY <1>9, <1>t DEF discardSoftDelete
    <2>2. /\ InLock(s) /\ work[s].step = "soft" /\ index' = SynchronizedIndex
          /\ UNCHANGED <<log, texts, grown>>
      BY <1>9 DEF discardSoftDelete, InLock, InIndexLock
    <2>3. index'[c] = Synchronized(c)
      BY <2>2, Taken
    <2>4. /\ \A u \in Sessions \ {s} : work'[u] = work[u]
          /\ work'[s].chapter = d
      BY <1>9, <1>t, <2>1 DEF discardSoftDelete, WorkType
    <2>5. \/ /\ HasText(d) /\ files' = [files EXCEPT ![<<d, Synchronized(d).title>>] = 0]
             /\ work'[s].step = "softDrop" /\ newest' = [newest EXCEPT ![d] = 0]
             /\ miscounted' = miscounted \cup Leaving(d)
          \/ work'[s].step = "move" /\ UNCHANGED <<files, newest>>
      BY <1>9, <1>t, <2>1 DEF discardSoftDelete, WorkType
    <2>6. CASE c = d /\ work'[s].step = "softDrop"
      <3>1. Leaving(c) = {} /\ HasText(c)
        BY <2>5, <2>6 DEF Leaving
      <3>2. TitlesOf(c)' = {}
        BY <1>t, <2>5, <2>6, <3>1, NothingLeft
      <3>3. newest'[c] = 0
        BY <1>t, <2>5, <2>6 DEF TypeInv
      <3> QED
        BY <1>t, <2>2, <2>3, <2>4, <2>6, <3>2, <3>3, CountCleared
    <2>7. CASE c # d \/ work'[s].step = "move"
      <3>1. SameCount(c)
        BY <1>t, <2>2, <2>3, <2>5, <2>7 DEF SameCount, TypeInv, Paths
      <3>2. Share(s, c) = 0 /\ Share(s, c)' = 0
        BY <2>2, <2>5 DEF Share
      <3> QED
        BY <1>t, <2>2, <2>4, <2>7, <3>1, <3>2, CountElsewhere
    <2> QED
      BY <2>5, <2>6, <2>7
  <1>10. CASE discardMove(s)
    <2>1. PICK d \in Chapters : d = work[s].chapter
      BY <1>10, <1>t DEF discardMove
    <2>2. /\ InLock(s) /\ work[s].step = "move" /\ UNCHANGED <<index, log, texts, grown>>
          /\ \A u \in Sessions \ {s} : work'[u] = work[u]
          /\ newest' = [newest EXCEPT ![d] = 0]
      BY <1>10, <1>t, <2>1 DEF discardMove, InLock, InIndexLock
    <2>3. work'[s].step = "prune" /\ work'[s].chapter = d
      BY <1>10, <1>t, <2>1 DEF discardMove, WorkType
    <2>4. CASE c = d
      <3>1. ASSUME NEW t \in Titles PROVE files'[<<c, t>>] = 0
        <4>1. <<c, t>> \in Paths /\ <<c, t>>[1] = c /\ <<c, t>>[2] = t
          BY DEF Paths
        <4>2. files'[<<c, t>>] = IF t \in TitlesOf(c) THEN 0 ELSE files[<<c, t>>]
          BY <1>10, <2>1, <2>4, <4>1 DEF discardMove, Leftovers
        <4> QED
          BY <4>2 DEF TitlesOf
      <3>2. TitlesOf(c)' = {}
        BY <3>1 DEF TitlesOf
      <3>3. newest'[c] = 0
        BY <1>t, <2>2, <2>4 DEF TypeInv
      <3> QED
        BY <1>t, <2>2, <2>3, <3>2, <3>3, CountCleared
    <2>5. CASE c # d
      <3>1. ASSUME NEW t \in Titles PROVE files'[<<c, t>>] = files[<<c, t>>]
        <4>1. <<c, t>> \in Paths /\ <<c, t>>[1] = c
          BY DEF Paths
        <4> QED
          BY <1>10, <2>1, <2>5, <4>1 DEF discardMove
      <3>2. newest'[c] = newest[c]
        BY <1>t, <2>2, <2>5 DEF TypeInv
      <3>3. SameCount(c)
        BY <1>t, <2>2, <3>1, <3>2 DEF SameCount, SameEntry, TypeInv
      <3> QED
        BY <1>t, <2>1, <2>2, <2>3, <2>5, <3>3, CountOthers
    <2> QED
      BY <2>4, <2>5
  <1> QED
    BY <1>1, <1>2, <1>3, <1>4, <1>5, <1>6, <1>7, <1>8, <1>9, <1>10 DEF Step

\* Every step of the system keeps what is counted within bounds.
LEMMA CountNext == CountInv /\ [Next]_vars => CountInv'
  <1> SUFFICES ASSUME CountInv, [Next]_vars PROVE CountInv'
    OBVIOUS
  <1> USE DEF Disk, History
  <1>1. SavedInv /\ SavedInv' /\ TypeInv /\ TypeInv'
    BY SavedNext DEF CountInv, SavedInv
  <1>2. SUFFICES ASSUME NEW c \in Chapters, c \notin miscounted' PROVE Counted(c)'
    BY <1>1 DEF CountInv
  <1>3. c \notin miscounted => Counted(c)
    BY DEF CountInv
  <1>4. ASSUME NEW s \in Sessions, Call(s) PROVE Counted(c)'
    <2>1. c \notin miscounted
      BY <1>2, <1>4 DEF Call, save, lineEdit, softDelete, discard, create, pipelineWrite, retitle
    <2> QED
      BY <1>1, <1>2, <1>3, <1>4, <2>1, CountCall
  <1>5. ASSUME NEW s \in Sessions, Step(s) PROVE Counted(c)'
    <2>1. miscounted \subseteq miscounted'
      BY <1>5 DEF Step, checkHash, readPrevious, comparePipeline, lockUpdate, writeBody,
                  writeIndex, removeSuperseded, record, dropEntry, discardSoftDelete,
                  discardMove, discardPrune
    <2> QED
      BY <1>1, <1>2, <1>3, <1>5, <2>1, CountStep
  <1>6. ASSUME NEW s \in Sessions, stops(s) PROVE Counted(c)'
    <2>1. /\ UNCHANGED <<files, index, texts, newest, grown, log, miscounted>>
          /\ work'[s] = Idle /\ \A u \in Sessions \ {s} : work'[u] = work[u]
      BY <1>1, <1>6 DEF stops, TypeInv, WorkInv
    <2>2. Share(s, c)' = 0
      BY <2>1 DEF Share, Idle
    <2>3. /\ Share(s, c) \in Nat /\ Owed(c) \in Nat /\ Owed(c)' \in Nat
          /\ Owed(c)' = Owed(c) + Share(s, c)' - Share(s, c)
      BY <1>1, <2>1, OwedAfter
    <2>4. Owed(c)' <= Owed(c)
      BY <2>2, <2>3
    <2> QED
      BY <1>1, <1>2, <1>3, <2>1, <2>4, CountSettled
  <1>7. ASSUME list PROVE Counted(c)'
    <2>1. /\ LockFree /\ work' = work /\ index' = SynchronizedIndex
          /\ UNCHANGED <<files, texts, newest, grown, log, miscounted>>
      BY <1>7 DEF list
    <2>2. PICK T \in SUBSET Texts, g \in [Texts -> Nat] : Accounted(c, T, g, Owed(c))
      BY <1>2, <1>3, <2>1 DEF Counted
    <2>3. PICK q \in Nat : q = Owed(c) /\ q = Owed(c)'
      <3>1. Owed(c)' - log'[c] = Owed(c) - log[c] /\ Owed(c) \in Nat /\ Owed(c)' \in Nat
        BY <1>1, <2>1, OwedAtRest
      <3>2. log'[c] = log[c] /\ log[c] \in Nat
        BY <1>1, <2>1 DEF TypeInv
      <3> QED
        BY <3>1, <3>2
    <2>4. SameCount(c)
      BY <1>1, <2>1, Taken DEF SameCount, TypeInv
    <2>5. Chron(c, T, g)' /\ EntryCounts(c, T, g, q)'
      BY <1>1, <2>2, <2>3, <2>4, EntryStays DEF Accounted
    <2> QED
      BY <1>1, <2>1, <2>3, <2>5, CountAtRest
  <1>8. ASSUME NEW d \in Chapters, NEW t \in Titles, writeExternally(d, t) PROVE Counted(c)'
    BY <1>1, <1>2, <1>3, <1>8, CountExternal DEF writeExternally
  <1>9. ASSUME NEW counted \in BOOLEAN, reconcile(counted) PROVE Counted(c)'
    BY <1>1, <1>2, <1>3, <1>9, CountReconciled DEF reconcile
  <1>10. CASE UNCHANGED vars
    <2>1. UNCHANGED <<files, index, texts, newest, grown, log, miscounted, work>>
      BY <1>10 DEF vars
    <2>2. Owed(c)' <= Owed(c)
      <3>1. Owed(c)' - log'[c] = Owed(c) - log[c] /\ Owed(c) \in Nat /\ Owed(c)' \in Nat
        BY <1>1, <2>1, OwedAtRest
      <3>2. log'[c] = log[c] /\ log[c] \in Nat
        BY <1>1, <2>1 DEF TypeInv
      <3> QED
        BY <3>1, <3>2
    <2> QED
      BY <1>1, <1>2, <1>3, <2>1, <2>2, CountSettled
  <1> QED
    BY <1>4, <1>5, <1>6, <1>7, <1>8, <1>9, <1>10 DEF Next

\* The words recorded for a chapter are never more than its texts have grown, in whatever
\* order saves, broken-off saves, external changes and reconciliations follow each other,
\* where the count does not start from a chapter that changed meanwhile or was deleted with a
\* file left over.
THEOREM NoWordTwice == Spec => []NoWordCountedTwice
  <1>1. ASSUME CountInv PROVE NoWordCountedTwice
    <2> SUFFICES ASSUME NEW c \in Chapters, c \notin miscounted PROVE log[c] <= grown[c]
      BY DEF NoWordCountedTwice
    <2>1. TypeInv /\ Counted(c)
      BY <1>1 DEF CountInv, SavedInv
    <2>2. PICK T \in SUBSET Texts, g \in [Texts -> Nat] : Accounted(c, T, g, Owed(c))
      BY <2>1 DEF Counted
    <2>3. Owed(c) \in Nat /\ log[c] \in Nat /\ grown[c] \in Nat
      BY <2>1, OwedIsNat DEF OwedOK, TypeInv
    <2>4. Owed(c) <= grown[c]
      BY <2>1, <2>2, <2>3, NotMore DEF Accounted
    <2>5. log[c] <= Owed(c)
      BY <2>1, OwedIsNat DEF OwedOK
    <2> QED
      BY <2>3, <2>4, <2>5
  <1> QED
    BY <1>1, CountInit, CountNext, PTL DEF Spec
=============================================================================
