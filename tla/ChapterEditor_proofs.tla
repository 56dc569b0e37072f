------------------------- MODULE ChapterEditor_proofs -------------------------
(***************************************************************************)
(* What a tab of the workbench shows, for any number of texts, mishaps and *)
(* interleavings of typing, saves, reads and polls.                        *)
(*                                                                         *)
(* That a reply never replaces a draft (DraftIsKept) is seen from each     *)
(* step by itself.  That a quiet tab shows the disk is not: between the    *)
(* moment in which a new text reaches the disk and the moment in which the *)
(* tab has it, something must always remember that it is still to come.    *)
(* EditorInv says what: an entry of the feed the page has not seen, a poll *)
(* that carries it, a read under way, a save whose reply will confirm it,  *)
(* or an index that will notice it (DiskInv).                              *)
(***************************************************************************)
EXTENDS ChapterEditor, TLAPS

Made == 1..texts

SessionType == [content : Made \cup {None}, saved : Made \cup {None},
                source : Made \cup {None}, dirty : BOOLEAN, error : BOOLEAN,
                timer : BOOLEAN, queued : BOOLEAN]
SaveType == [text : Made, own : BOOLEAN, applied : BOOLEAN]
ReadType == [for : {"open", "changed"}, expect : Made \cup {None}]
PollType == [stage : {"none", "sent", "answered"}, since : Nat, epoch : Nat,
             revision : Nat, changed : BOOLEAN, text : Made \cup {None}]

TypeInv ==
  /\ texts \in Nat \ {0}
  /\ disk \in Made /\ indexed \in Made
  /\ epoch \in Nat /\ feed \in Nat
  /\ cursor \in [epoch : Nat, revision : Nat]
  /\ poll \in PollType
  /\ reads \subseteq ReadType
  /\ cache \in Made \cup {None}
  /\ session \in SessionType
  /\ saves \subseteq SaveType

\* A closed tab has no draft; a draft is what is not known to be saved; the tab has at
\* most one save in flight, and only while it has a draft.
SessionInv ==
  /\ ~Open => session = Session(None)
  /\ Open => session.content # None
  /\ InFlight => session.dirty
  /\ ~session.dirty => session.content = session.saved
  /\ \A r, u \in saves : r.own /\ u.own => r = u

\* A point of the feed is not after another one: the life of the server counts first.
NotAfter(e, r, f, s) == e < f \/ (e = f /\ r <= s)

\* The page never knows more of the feed than a poll, and a poll not more than the server.
FeedInv ==
  /\ NotAfter(cursor.epoch, cursor.revision, epoch, feed)
  /\ poll.stage = "sent" => poll.since = cursor.revision
  /\ poll.stage = "answered" =>
       /\ NotAfter(cursor.epoch, cursor.revision, poll.epoch, poll.revision)
       /\ NotAfter(poll.epoch, poll.revision, epoch, feed)
       /\ poll.changed <=> poll.revision > cursor.revision

\* A save of the tab has been served, and its reply is to come.
Served == \E r \in saves : r.own /\ r.applied
ServedDisk == \E r \in saves : r.own /\ r.applied /\ r.text = disk

\* The tab takes no text for seen that it neither saved nor was told of.
SourceInv ==
  session.source = disk =>
    session.saved \in {None, disk} \/ disk \in overlooked \/ ServedDisk

\* What the page knows, or will know from the poll in flight, is all there is to know.
UpToDate ==
  IF poll.stage = "answered" THEN poll.epoch = epoch /\ poll.revision = feed
  ELSE cursor.epoch = epoch /\ cursor.revision = feed

\* The poll in flight tells of the text on the disk.
Reported ==
  /\ poll.stage = "answered" /\ poll.text = disk
  /\ poll.epoch # cursor.epoch \/ poll.changed

\* The tab has the text on the disk, or something remembers that it is to come.
DiskInv ==
  \/ ~Open
  \/ disk \in told \cup overlooked
  \/ ~Served /\ session.saved \in {None, disk}
  \/ ServedDisk
  \/ [for |-> "changed", expect |-> disk] \in reads
  \/ disk # indexed
  \/ ~UpToDate
  \/ Reported

EditorInv == TypeInv /\ SessionInv /\ FeedInv /\ SourceInv /\ DiskInv

-----------------------------------------------------------------------------
(* The save session. *)

\* What showing a text does to a session.
LEMMA ShownFacts ==
  ASSUME NEW s \in SessionType, NEW t \in Made
  PROVE  /\ Shown(s, t) \in SessionType
         /\ Shown(s, t).source = t
         /\ Shown(s, t).dirty = s.dirty
         /\ s.source = t \/ s.dirty => Shown(s, t).content = s.content /\ Shown(s, t).saved = s.saved
         /\ s.source # t /\ ~s.dirty => Shown(s, t).content = t /\ Shown(s, t).saved = t
  BY DEF Shown, SessionType

\* A tab just opened.
LEMMA SessionFacts ==
  ASSUME TypeInv, NEW t \in Made \cup {None}
  PROVE  /\ Session(t) \in SessionType
         /\ Session(t).content = t /\ Session(t).saved = t /\ Session(t).source = t
         /\ Session(t).dirty = FALSE
  BY DEF Session, SessionType, None

\* A draft that is sent.
LEMMA SendFacts ==
  ASSUME NEW s \in SessionType
  PROVE  /\ Send(s) \in SessionType
         /\ Send(s).content = s.content /\ Send(s).saved = s.saved /\ Send(s).source = s.source
         /\ Send(s).dirty = s.dirty
         /\ s.content # None => Request(s) \in SaveType
         /\ Request(s).text = s.content /\ Request(s).own = TRUE /\ Request(s).applied = FALSE
  BY DEF Send, Request, SessionType, SaveType

\* A save that failed.
LEMMA FailureFacts ==
  ASSUME NEW s \in SessionType
  PROVE  /\ AfterFailure(s) \in SessionType
         /\ AfterFailure(s).content = s.content /\ AfterFailure(s).saved = None
         /\ AfterFailure(s).source = s.source /\ AfterFailure(s).dirty = TRUE
  BY DEF AfterFailure, SessionType

\* Typing, or taking back what was typed, leaves alone what is saved and seen.
LEMMA TypedFacts ==
  ASSUME TypeInv, NEW t \in Nat, setContent(t)
  PROVE  /\ Open /\ t # session.content
         /\ \E dirty \in BOOLEAN :
              /\ dirty <=> InFlight \/ t # session.saved
              /\ session' = [session EXCEPT !.content = t, !.dirty = dirty, !.error = FALSE,
                                            !.timer = dirty]
         /\ session'.content = t /\ session'.saved = session.saved
         /\ session'.source = session.source
         /\ session'.dirty <=> InFlight \/ t # session.saved
  <1> DEFINE d == InFlight \/ t # session.saved
  <1>1. PICK e : e = d
    OBVIOUS
  <1>2. e \in BOOLEAN /\ (e <=> InFlight \/ t # session.saved)
    BY <1>1
  <1>3. /\ Open /\ t # session.content
        /\ session' = [session EXCEPT !.content = t, !.dirty = e, !.error = FALSE, !.timer = e]
    BY <1>1 DEF setContent
  <1> HIDE DEF d
  <1>4. /\ session'.content = t /\ session'.saved = session.saved
        /\ session'.source = session.source /\ session'.dirty = e
    BY <1>3 DEF TypeInv, SessionType
  <1> QED
    BY <1>2, <1>3, <1>4

\* A save sent, or put off: the draft stays a draft, and only one save is in flight.
LEMMA FlushFacts ==
  ASSUME TypeInv, SessionInv, flush
  PROVE  /\ session' \in SessionType /\ Open
         /\ session'.content = session.content /\ session'.saved = session.saved
         /\ session'.source = session.source /\ session'.dirty = session.dirty
         /\ \/ saves' = saves
            \/ /\ session.dirty /\ ~InFlight
               /\ \E q \in SaveType : q.own /\ ~q.applied /\ saves' = saves \cup {q}
  <1>1. Open /\ session \in SessionType /\ session.content # None
    BY DEF flush, TypeInv, SessionInv
  <1>2. CASE session.dirty /\ ~InFlight
    <2>1. PICK s : s = [session EXCEPT !.timer = FALSE]
      OBVIOUS
    <2>2. /\ s \in SessionType /\ s.content = session.content /\ s.saved = session.saved
          /\ s.source = session.source /\ s.dirty = session.dirty
      BY <1>1, <2>1 DEF SessionType
    <2>3. session' = Send(s) /\ saves' = saves \cup {Request(session)}
      BY <1>2, <2>1 DEF flush
    <2>4. Request(session) \in SaveType /\ Request(session).own /\ ~Request(session).applied
      BY <1>1, SendFacts
    <2> QED
      BY <1>1, <1>2, <2>2, <2>3, <2>4, SendFacts
  <1>3. CASE ~(session.dirty /\ ~InFlight)
    <2>1. session' = [session EXCEPT !.timer = FALSE, !.queued = session.dirty] /\ saves' = saves
      BY <1>3 DEF flush
    <2> QED
      BY <1>1, <2>1 DEF SessionType
  <1> QED
    BY <1>2, <1>3

\* A reply confirms what was sent; what was typed since stays, and is sent if asked for.
LEMMA ConfirmedFacts ==
  ASSUME TypeInv, SessionInv, NEW r \in saves, r.own, Confirmed(r)
  PROVE  /\ session' \in SessionType
         /\ session'.saved = r.text /\ session'.source = r.text
         /\ session'.content = session.content
         /\ session'.dirty <=> session.content # r.text
         /\ \/ saves' = saves \ {r}
            \/ /\ session'.dirty
               /\ \E q \in SaveType : q.own /\ ~q.applied /\ saves' = (saves \ {r}) \cup {q}
  <1>1. /\ session \in SessionType /\ r \in SaveType /\ r.text \in Made
        /\ session.dirty
    BY DEF TypeInv, SessionInv, SaveType, InFlight
  <1>2. session.content # None
    BY <1>1 DEF SessionInv, Session
  <1>3. PICK d : d = (session.content # r.text)
    OBVIOUS
  <1>4. PICK s : s = [session EXCEPT !.saved = r.text, !.dirty = d]
    OBVIOUS
  <1>5. /\ s \in SessionType /\ s.content = session.content /\ s.saved = r.text
        /\ s.source = session.source /\ s.dirty = d /\ d \in BOOLEAN
    BY <1>1, <1>3, <1>4 DEF SessionType
  <1>6. CASE s.queued /\ s.dirty
    <2>1. /\ saves' = (saves \ {r}) \cup {Request(s)}
          /\ session' = [Send(s) EXCEPT !.source = r.text]
      BY <1>3, <1>4, <1>6 DEF Confirmed
    <2>2. Send(s) \in SessionType /\ Send(s).content = s.content /\ Send(s).saved = s.saved
          /\ Send(s).dirty = s.dirty
      BY <1>5, SendFacts
    <2>3. /\ session' \in SessionType /\ session'.content = s.content /\ session'.saved = s.saved
          /\ session'.source = r.text /\ session'.dirty = s.dirty
      BY <1>1, <2>1, <2>2 DEF SessionType
    <2>4. Request(s) \in SaveType /\ Request(s).own /\ ~Request(s).applied
      BY <1>2, <1>5, SendFacts
    <2> QED
      BY <1>3, <1>5, <1>6, <2>1, <2>3, <2>4
  <1>7. CASE ~(s.queued /\ s.dirty)
    <2>1. saves' = (saves \ {r}) \cup {} /\ session' = Shown(s, r.text)
      BY <1>3, <1>4, <1>7 DEF Confirmed
    <2>2. /\ session' \in SessionType /\ session'.source = r.text /\ session'.dirty = s.dirty
          /\ session'.saved = r.text
          /\ s.source = r.text \/ s.dirty => session'.content = s.content
          /\ s.source # r.text /\ ~s.dirty => session'.content = r.text
      BY <1>1, <1>5, <2>1, ShownFacts
    <2> QED
      BY <1>3, <1>5, <2>1, <2>2
  <1> QED
    BY <1>6, <1>7

-----------------------------------------------------------------------------
(* Types, and what a session may look like. *)

\* At the start the tab is closed and nothing is under way.
LEMMA TypeInit == Init => TypeInv /\ SessionInv
  BY DEF Init, TypeInv, SessionInv, SessionType, Session, PollType, NoPoll, Made, None, Open,
         InFlight

\* A step that makes no text keeps its types if what it changes has them.
LEMMA SameTexts ==
  ASSUME TypeInv, texts' = texts
  PROVE  Made' = Made /\ SessionType' = SessionType /\ SaveType' = SaveType
         /\ ReadType' = ReadType /\ PollType' = PollType
  BY DEF Made, SessionType, SaveType, ReadType, PollType

\* A new text.
LEMMA NewText ==
  ASSUME TypeInv, texts' = texts + 1
  PROVE  /\ texts' \in Nat \ {0} /\ texts' \in Made' /\ texts' \notin Made \cup {None}
         /\ Made \subseteq Made'
         /\ session \in SessionType' /\ saves \subseteq SaveType' /\ reads \subseteq ReadType'
         /\ poll \in PollType'
  <1>1. texts' \in Nat \ {0} /\ texts' \in Made' /\ texts' \notin Made \cup {None}
        /\ Made \subseteq Made'
    BY DEF TypeInv, Made, None
  <1>2. session \in SessionType'
    BY <1>1 DEF TypeInv, SessionType
  <1>3. saves \subseteq SaveType'
    BY <1>1 DEF TypeInv, SaveType
  <1>4. reads \subseteq ReadType'
    BY <1>1 DEF TypeInv, ReadType
  <1>5. poll \in PollType'
    BY <1>1 DEF TypeInv, PollType
  <1> QED
    BY <1>1, <1>2, <1>3, <1>4, <1>5


\* Every step keeps the types.
LEMMA TypeStep ==
  ASSUME TypeInv, SessionInv, [Next]_vars
  PROVE  TypeInv'
  <1> USE DEF TypeInv
  <1>1. CASE UNCHANGED vars
    <2>1. texts' = texts /\ UNCHANGED <<server, page>>
      BY <1>1 DEF vars, server, page
    <2> QED
      BY <2>1, SameTexts DEF server, page
  <1>2. CASE type
    <2>1. /\ texts' = texts + 1 /\ setContent(texts + 1)
          /\ UNCHANGED <<disk, indexed, epoch, feed, cursor, poll, reads, cache, saves>>
      BY <1>2 DEF type, server
    <2>2. texts + 1 \in Nat
      OBVIOUS
    <2>3. PICK d \in BOOLEAN :
            session' = [session EXCEPT !.content = texts + 1, !.dirty = d, !.error = FALSE, !.timer = d]
      BY <2>1, <2>2, TypedFacts
    <2>4. session' \in SessionType'
      BY <2>1, <2>3, NewText DEF SessionType
    <2> QED
      BY <2>1, <2>4, NewText
  <1>3. CASE undo
    <2>1. PICK t \in {session.saved, cache} \ {None} : setContent(t)
      BY <1>3 DEF undo
    <2>2. texts' = texts /\ UNCHANGED <<disk, indexed, epoch, feed, cursor, poll, reads, cache, saves>>
      BY <1>3 DEF undo, server
    <2>3. t \in Made /\ t \in Nat
      BY <2>1 DEF SessionType, Made
    <2>4. PICK d \in BOOLEAN :
            session' = [session EXCEPT !.content = t, !.dirty = d, !.error = FALSE, !.timer = d]
      BY <2>1, <2>3, TypedFacts
    <2>5. session' \in SessionType
      BY <2>3, <2>4 DEF SessionType
    <2> QED
      BY <2>2, <2>5, SameTexts
  <1>4. CASE autosave \/ save
    <2>1. /\ flush /\ texts' = texts
          /\ UNCHANGED <<disk, indexed, epoch, feed, cursor, poll, reads, cache>>
      BY <1>4 DEF autosave, save, server
    <2> QED
      BY <2>1, FlushFacts, SameTexts
  <1>5. CASE saveFails
    <2>1. PICK r \in saves : /\ saves' = saves \ {r}
                             /\ session' = IF r.own THEN AfterFailure(session) ELSE session
      BY <1>5 DEF saveFails
    <2>2. texts' = texts /\ UNCHANGED <<disk, indexed, epoch, feed, cursor, poll, reads, cache>>
      BY <1>5 DEF saveFails, server
    <2> QED
      BY <2>1, <2>2, FailureFacts, SameTexts
  <1>6. ASSUME NEW own \in BOOLEAN, serveSave(own) PROVE TypeInv'
    <2>1. PICK r \in saves : /\ disk' = r.text /\ indexed' = r.text
                             /\ saves' = (saves \ {r}) \cup {[r EXCEPT !.applied = TRUE]}
      BY <1>6 DEF serveSave
    <2>2. texts' = texts /\ UNCHANGED <<epoch, feed, cursor, poll, reads, cache, session>>
      BY <1>6 DEF serveSave
    <2>3. r \in SaveType /\ [r EXCEPT !.applied = TRUE] \in SaveType /\ r.text \in Made
      BY DEF SaveType
    <2> QED
      BY <2>1, <2>2, <2>3, SameTexts
  <1>7. ASSUME NEW own \in BOOLEAN, saveDone(own) PROVE TypeInv'
    <2>1. PICK r \in saves :
            /\ r.own = own
            /\ cache' = IF Open THEN r.text ELSE None
            /\ \/ own /\ Confirmed(r)
               \/ /\ saves' = saves \ {r}
                  /\ session' = IF Open THEN Shown(session, r.text) ELSE session
      BY <1>7 DEF saveDone
    <2>2. texts' = texts /\ UNCHANGED <<disk, indexed, epoch, feed, cursor, poll, reads>>
      BY <1>7 DEF saveDone, server
    <2>3. r \in SaveType /\ r.text \in Made
      BY DEF SaveType
    <2>4. session' \in SessionType
      BY <2>1, <2>3, ConfirmedFacts, ShownFacts
    <2>5. saves' \subseteq SaveType
      <3>1. CASE own /\ Confirmed(r)
        BY <2>1, <3>1, ConfirmedFacts
      <3>2. CASE saves' = saves \ {r}
        BY <3>2
      <3> QED
        BY <2>1, <3>1, <3>2
    <2> QED
      BY <2>1, <2>2, <2>3, <2>4, <2>5, SameTexts
  <1>8. CASE handleOpen
    <2>1. /\ reads' = reads \cup {[for |-> "open", expect |-> None]} /\ texts' = texts
          /\ UNCHANGED <<disk, indexed, epoch, feed, cursor, poll, cache, session, saves>>
      BY <1>8 DEF handleOpen, server
    <2>2. [for |-> "open", expect |-> None] \in ReadType
      BY DEF ReadType
    <2> QED
      BY <2>1, <2>2, SameTexts
  <1>9. CASE openTab
    <2>1. /\ \E r \in reads : reads' = reads \ {r}
          /\ cache' = disk
          /\ session' = IF Open THEN Shown(session, disk) ELSE Session(disk)
      BY <1>9 DEF openTab
    <2>2. texts' = texts /\ UNCHANGED <<disk, indexed, epoch, feed, cursor, poll, saves>>
      BY <1>9 DEF openTab, server
    <2>3. session' \in SessionType
      BY <2>1, ShownFacts, SessionFacts
    <2> QED
      BY <2>1, <2>2, <2>3, SameTexts
  <1>10. CASE replaceText
    <2>1. /\ \E r \in reads : reads' = reads \ {r}
          /\ \/ cache' = disk /\ session' = Shown(session, disk)
             \/ UNCHANGED <<cache, session>>
      BY <1>10 DEF replaceText
    <2>2. texts' = texts /\ UNCHANGED <<disk, indexed, epoch, feed, cursor, poll, saves>>
      BY <1>10 DEF replaceText, server
    <2>3. session' \in SessionType
      BY <2>1, ShownFacts
    <2> QED
      BY <2>1, <2>2, <2>3, SameTexts
  <1>11. CASE readFails
    <2>1. /\ \E r \in reads : reads' = reads \ {r}
          /\ texts' = texts
          /\ UNCHANGED <<disk, indexed, epoch, feed, cursor, poll, cache, session, saves>>
      BY <1>11 DEF readFails, server
    <2> QED
      BY <2>1, SameTexts
  <1>12. CASE closeTab
    <2>1. /\ cache' = None /\ session' = Session(None)
          /\ saves' = {[r EXCEPT !.own = FALSE] : r \in saves}
          /\ texts' = texts /\ UNCHANGED <<disk, indexed, epoch, feed, cursor, poll, reads>>
      BY <1>12 DEF closeTab, server
    <2>2. saves' \subseteq SaveType
      BY <2>1 DEF SaveType
    <2> QED
      BY <2>1, <2>2, SessionFacts, SameTexts
  <1>13. CASE tick
    <2>1. /\ poll' = [NoPoll EXCEPT !.stage = "sent", !.since = cursor.revision]
          /\ texts' = texts
          /\ UNCHANGED <<disk, indexed, epoch, feed, cursor, reads, cache, session, saves>>
      BY <1>13 DEF tick, server
    <2>2. poll' \in PollType
      BY <2>1 DEF PollType, NoPoll, None
    <2> QED
      BY <2>1, <2>2, SameTexts
  <1>14. CASE answerPoll
    <2>1. PICK free \in BOOLEAN :
            /\ indexed' = IF free THEN disk ELSE indexed
            /\ feed' = IF free THEN NewRevision ELSE feed
      BY <1>14 DEF answerPoll
    <2>2. PICK c : c = (feed' > poll.since)
      OBVIOUS
    <2>3. /\ poll' = [poll EXCEPT !.stage = "answered", !.epoch = epoch, !.revision = feed',
                                  !.changed = c, !.text = indexed']
          /\ texts' = texts /\ UNCHANGED <<disk, epoch, cursor, reads, cache, session, saves>>
      BY <1>14, <2>2 DEF answerPoll
    <2>4. indexed' \in Made /\ feed' \in Nat /\ c \in BOOLEAN
      BY <2>1, <2>2 DEF NewRevision
    <2>5. poll' \in PollType
      BY <2>3, <2>4 DEF PollType
    <2> QED
      BY <2>3, <2>4, <2>5, SameTexts
  <1>15. CASE pollDone
    <2>1. /\ cursor' = [epoch |-> poll.epoch, revision |-> poll.revision] /\ poll' = NoPoll
          /\ texts' = texts
          /\ UNCHANGED <<disk, indexed, epoch, feed, cache, session, saves>>
      BY <1>15 DEF pollDone, server
    <2>2. reads' = reads \/ reads' = reads \cup {[for |-> "changed", expect |-> poll.text]}
      BY <1>15 DEF pollDone, Noticed
    <2>3. reads' \subseteq ReadType /\ NoPoll \in PollType
      BY <2>2 DEF ReadType, PollType, NoPoll, None
    <2>4. cursor' \in [epoch : Nat, revision : Nat]
      BY <2>1 DEF PollType
    <2> QED
      BY <2>1, <2>3, <2>4, SameTexts
  <1>16. CASE pollFails
    <2>1. /\ poll' = NoPoll /\ texts' = texts
          /\ UNCHANGED <<disk, indexed, epoch, feed, cursor, reads, cache, session, saves>>
      BY <1>16 DEF pollFails, server
    <2>2. NoPoll \in PollType
      BY DEF PollType, NoPoll, None
    <2> QED
      BY <2>1, <2>2, SameTexts
  <1>17. CASE reconcile
    BY <1>17, SameTexts DEF reconcile, NewRevision, page
  <1>18. CASE writeThroughIndex
    BY <1>18, NewText DEF writeThroughIndex, page
  <1>19. CASE writePastIndex
    BY <1>19, NewText DEF writePastIndex, page
  <1>20. CASE restart
    BY <1>20, SameTexts DEF restart, page
  <1> QED
    BY <1>1, <1>2, <1>3, <1>4, <1>5, <1>6, <1>7, <1>8, <1>9, <1>10, <1>11, <1>12, <1>13,
       <1>14, <1>15, <1>16, <1>17, <1>18, <1>19, <1>20 DEF Next

\* Every step keeps the shape of a session: a save in flight is one of a draft.
LEMMA SessionStep ==
  ASSUME TypeInv, SessionInv, [Next]_vars
  PROVE  SessionInv'
  <1> USE DEF SessionInv
  <1>1. CASE UNCHANGED <<cache, session, saves>>
    BY <1>1 DEF Open, InFlight
  <1>2. ASSUME NEW t \in Nat \ {0}, setContent(t), UNCHANGED <<cache, saves>>
        PROVE  SessionInv'
    <2>1. /\ Open /\ session'.content = t /\ session'.saved = session.saved
          /\ session'.dirty <=> InFlight \/ t # session.saved
      BY <1>2, TypedFacts
    <2> QED
      BY <1>2, <2>1 DEF Open, InFlight, None
  <1>3. CASE type
    BY <1>2, <1>3 DEF type, TypeInv
  <1>4. CASE undo
    <2>1. PICK t \in {session.saved, cache} \ {None} : setContent(t)
      BY <1>4 DEF undo
    <2>2. t \in Nat \ {0}
      BY <2>1 DEF TypeInv, SessionType, Made, None
    <2> QED
      BY <1>2, <1>4, <2>1, <2>2 DEF undo
  <1>5. CASE autosave \/ save
    <2>1. flush /\ UNCHANGED cache
      BY <1>5 DEF autosave, save
    <2> QED
      BY <2>1, FlushFacts DEF Open, InFlight
  <1>6. CASE saveFails
    <2>1. PICK r \in saves : /\ saves' = saves \ {r}
                             /\ session' = IF r.own THEN AfterFailure(session) ELSE session
      BY <1>6 DEF saveFails
    <2>2. UNCHANGED cache /\ session \in SessionType
      BY <1>6 DEF saveFails, TypeInv
    <2>3. r.own => session.dirty /\ Open
      BY SessionFacts DEF InFlight, None
    <2> QED
      BY <2>1, <2>2, <2>3, FailureFacts DEF Open, InFlight
  <1>7. ASSUME NEW own \in BOOLEAN, serveSave(own) PROVE SessionInv'
    <2>1. PICK r \in saves : saves' = (saves \ {r}) \cup {[r EXCEPT !.applied = TRUE]}
      BY <1>7 DEF serveSave
    <2>2. UNCHANGED <<cache, session>>
      BY <1>7 DEF serveSave
    <2>3. [r EXCEPT !.applied = TRUE].own = r.own
      BY DEF TypeInv, SaveType
    <2> QED
      BY <2>1, <2>2, <2>3 DEF Open, InFlight
  <1>8. ASSUME NEW own \in BOOLEAN, saveDone(own) PROVE SessionInv'
    <2>1. PICK r \in saves :
            /\ r.own = own
            /\ cache' = IF Open THEN r.text ELSE None
            /\ \/ own /\ Confirmed(r)
               \/ /\ ~own /\ saves' = saves \ {r}
                  /\ session' = IF Open THEN Shown(session, r.text) ELSE session
      BY <1>8 DEF saveDone
    <2>2. r.text \in Made /\ r.text # None /\ session \in SessionType
      BY DEF TypeInv, SaveType, Made, None
    <2>3. CASE own /\ Confirmed(r)
      <3>1. session.dirty /\ Open /\ cache' = r.text
        BY <2>1, <2>3, SessionFacts DEF InFlight, None
      <3> QED
        BY <2>1, <2>2, <2>3, <3>1, ConfirmedFacts DEF Open, InFlight
    <2>4. CASE ~own
      BY <2>1, <2>2, <2>4, ShownFacts DEF Open, InFlight
    <2> QED
      BY <2>1, <2>3, <2>4
  <1>9. CASE openTab
    <2>1. /\ cache' = disk /\ UNCHANGED saves
          /\ session' = IF Open THEN Shown(session, disk) ELSE Session(disk)
      BY <1>9 DEF openTab
    <2>2. disk \in Made /\ disk # None /\ session \in SessionType
      BY DEF TypeInv, Made, None
    <2>3. ~Open => ~InFlight
      BY SessionFacts DEF None
    <2>4. CASE Open
      BY <2>1, <2>2, <2>4, ShownFacts DEF Open, InFlight
    <2>5. CASE ~Open
      <3>1. /\ session'.content = disk /\ session'.saved = disk
            /\ cache' # None /\ ~InFlight
        BY <2>1, <2>2, <2>3, <2>5, SessionFacts
      <3> QED
        BY <2>1, <2>2, <3>1 DEF Open, InFlight
    <2> QED
      BY <2>4, <2>5
  <1>10. CASE replaceText
    <2>1. /\ UNCHANGED saves
          /\ \/ Open /\ cache' = disk /\ session' = Shown(session, disk)
             \/ UNCHANGED <<cache, session>>
      BY <1>10 DEF replaceText
    <2>2. disk \in Made /\ disk # None /\ session \in SessionType
      BY DEF TypeInv, Made, None
    <2> QED
      BY <2>1, <2>2, ShownFacts DEF Open, InFlight
  <1>11. CASE closeTab
    <2>1. /\ cache' = None /\ session' = Session(None)
          /\ saves' = {[r EXCEPT !.own = FALSE] : r \in saves}
      BY <1>11 DEF closeTab
    <2>2. \A q \in saves' : ~q.own
      BY <2>1 DEF TypeInv, SaveType
    <2> QED
      BY <2>1, <2>2, SessionFacts DEF Open, InFlight
  <1>12. CASE handleOpen \/ readFails \/ tick \/ answerPoll \/ pollDone \/ pollFails
    BY <1>1, <1>12 DEF handleOpen, readFails, tick, answerPoll, pollDone, pollFails
  <1>13. CASE reconcile \/ writeThroughIndex \/ writePastIndex \/ restart
    BY <1>1, <1>13 DEF reconcile, writeThroughIndex, writePastIndex, restart, page
  <1> QED
    BY <1>1, <1>3, <1>4, <1>5, <1>6, <1>7, <1>8, <1>9, <1>10, <1>11, <1>12, <1>13
       DEF Next, vars


-----------------------------------------------------------------------------
(* The feed, and what the tab remembers. *)

\* Every step keeps the page behind the poll and the poll behind the server.
LEMMA FeedStep ==
  ASSUME TypeInv, FeedInv, [Next]_vars
  PROVE  FeedInv'
  <1>1. /\ cursor.epoch \in Nat /\ cursor.revision \in Nat /\ epoch \in Nat /\ feed \in Nat
        /\ poll.epoch \in Nat /\ poll.revision \in Nat /\ poll.since \in Nat
    BY DEF TypeInv, PollType
  <1>2. CASE UNCHANGED <<cursor, epoch, feed, poll>>
    BY <1>2 DEF FeedInv, NotAfter
  <1>3. CASE tick
    <2>1. UNCHANGED <<cursor, epoch, feed>> /\ poll'.stage = "sent" /\ poll'.since = cursor.revision
      BY <1>3 DEF tick, server, NoPoll
    <2> QED
      BY <2>1 DEF FeedInv, NotAfter
  <1>4. CASE answerPoll
    <2>1. poll.stage = "sent" /\ UNCHANGED <<cursor, epoch>>
      BY <1>4 DEF answerPoll
    <2>2. feed' \in Nat /\ feed' >= feed
      BY <1>1, <1>4 DEF answerPoll, NewRevision
    <2>3. PICK c : c = (feed' > poll.since)
      OBVIOUS
    <2>4. poll' = [poll EXCEPT !.stage = "answered", !.epoch = epoch, !.revision = feed',
                               !.changed = c, !.text = indexed']
      BY <1>4, <2>3 DEF answerPoll
    <2>5. /\ poll'.stage = "answered" /\ poll'.epoch = epoch /\ poll'.revision = feed'
          /\ poll'.changed = c
      BY <2>4 DEF TypeInv, PollType
    <2>6. NotAfter(cursor.epoch, cursor.revision, epoch, feed')
      BY <1>1, <2>2 DEF FeedInv, NotAfter
    <2>7. c <=> feed' > cursor.revision
      BY <2>1, <2>3 DEF FeedInv
    <2>8. NotAfter(epoch, feed', epoch, feed')
      BY <1>1, <2>2 DEF NotAfter
    <2> QED
      BY <2>1, <2>5, <2>6, <2>7, <2>8 DEF FeedInv
  <1>5. CASE pollDone
    <2>1. /\ poll.stage = "answered" /\ poll' = NoPoll /\ UNCHANGED <<epoch, feed>>
          /\ cursor'.epoch = poll.epoch /\ cursor'.revision = poll.revision
      BY <1>5 DEF pollDone, server
    <2> QED
      BY <2>1 DEF FeedInv, NoPoll
  <1>6. CASE pollFails
    <2>1. poll' = NoPoll /\ UNCHANGED <<cursor, epoch, feed>>
      BY <1>6 DEF pollFails, server
    <2> QED
      BY <2>1 DEF FeedInv, NoPoll, NotAfter
  <1>7. CASE reconcile
    <2>1. UNCHANGED <<cursor, epoch, poll>> /\ feed' = feed + 1
      BY <1>7 DEF reconcile, NewRevision, page
    <2> QED
      BY <1>1, <2>1 DEF FeedInv, NotAfter
  <1>8. CASE restart
    <2>1. UNCHANGED <<cursor, poll>> /\ epoch' = epoch + 1 /\ feed' = 0
      BY <1>8 DEF restart, page
    <2> QED
      BY <1>1, <2>1 DEF FeedInv, NotAfter
  <1>9. CASE type \/ undo \/ autosave \/ save \/ saveFails
    BY <1>2, <1>9 DEF type, undo, autosave, save, saveFails, server
  <1>10. CASE handleOpen \/ openTab \/ replaceText \/ readFails \/ closeTab
    BY <1>2, <1>10 DEF handleOpen, openTab, replaceText, readFails, closeTab, server
  <1>11. CASE \E own \in BOOLEAN : serveSave(own) \/ saveDone(own)
    BY <1>2, <1>11 DEF serveSave, saveDone, server
  <1>12. CASE writeThroughIndex \/ writePastIndex
    BY <1>2, <1>12 DEF writeThroughIndex, writePastIndex, page
  <1> QED
    BY <1>2, <1>3, <1>4, <1>5, <1>6, <1>7, <1>8, <1>9, <1>10, <1>11, <1>12 DEF Next, vars

\* A save served keeps whom it is from; the tab's own save puts its text on the disk.
LEMMA ServedFacts ==
  ASSUME TypeInv, NEW own \in BOOLEAN, serveSave(own)
  PROVE  own => ServedDisk'
  <1>1. PICK r \in saves : /\ r.own = own /\ disk' = r.text
                           /\ saves' = (saves \ {r}) \cup {[r EXCEPT !.applied = TRUE]}
    BY DEF serveSave
  <1>2. PICK q : q = [r EXCEPT !.applied = TRUE]
    OBVIOUS
  <1>3. q \in saves' /\ q.own = own /\ q.applied = TRUE /\ q.text = disk'
    BY <1>1, <1>2 DEF TypeInv, SaveType
  <1> QED
    BY <1>3 DEF ServedDisk

\* After the reply to the tab's own save no save of it has been served.
LEMMA RepliedFacts ==
  ASSUME TypeInv, SessionInv, saveDone(TRUE)
  PROVE  /\ ~Served' /\ session'.source = session'.saved
         /\ Open /\ ~(session'.saved # disk /\ ServedDisk)
         /\ Served
  <1>1. PICK r \in saves : r.applied /\ r.own /\ Confirmed(r)
    BY DEF saveDone
  <1>2. Open
    BY <1>1, SessionFacts DEF SessionInv, InFlight, None
  <1>3. session'.saved = r.text /\ session'.source = r.text
    BY <1>1, ConfirmedFacts
  <1>4. ~Served'
    BY <1>1, ConfirmedFacts DEF SessionInv, Served
  <1> QED
    BY <1>1, <1>2, <1>3, <1>4 DEF SessionInv, Served, ServedDisk

\* A save that fails is forgotten, and with the tab's own what it had saved.
LEMMA FailedFacts ==
  ASSUME TypeInv, SessionInv, saveFails
  PROVE  /\ session'.source = session.source
         /\ \/ ~Served' /\ session'.saved = None
            \/ session' = session /\ Served' = Served /\ ServedDisk' = ServedDisk
  <1>1. PICK r \in saves : /\ saves' = saves \ {r}
                           /\ session' = IF r.own THEN AfterFailure(session) ELSE session
    BY DEF saveFails
  <1>2. disk' = disk /\ session \in SessionType
    BY DEF saveFails, server, TypeInv
  <1>3. CASE r.own
    BY <1>1, <1>2, <1>3, FailureFacts DEF SessionInv, Served
  <1>4. CASE ~r.own
    BY <1>1, <1>2, <1>4 DEF Served, ServedDisk
  <1> QED
    BY <1>3, <1>4

\* A draft sent is not served yet.
LEMMA SentFacts ==
  ASSUME TypeInv, SessionInv, flush, UNCHANGED disk
  PROVE  Served' = Served /\ ServedDisk' = ServedDisk
  BY FlushFacts DEF Served, ServedDisk


\* A text is taken for seen without being shown only over a draft; the page reads the file
\* again only when there is none.
LEMMA SourceStep ==
  ASSUME ~ReopenWhileDirty, TypeInv, SessionInv, SourceInv, [Next]_vars
  PROVE  SourceInv'
  <1>1. CASE UNCHANGED <<disk, overlooked, session, saves>>
    BY <1>1 DEF SourceInv, ServedDisk
  <1>2. ASSUME NEW t \in Nat, setContent(t), UNCHANGED <<disk, overlooked, saves>>
        PROVE  SourceInv'
    BY <1>2, TypedFacts DEF SourceInv, ServedDisk
  <1>3. CASE type
    BY <1>2, <1>3 DEF type, TypeInv, server, history
  <1>4. CASE undo
    <2>1. PICK t \in {session.saved, cache} \ {None} : setContent(t)
      BY <1>4 DEF undo
    <2>2. t \in Nat
      BY <2>1 DEF TypeInv, SessionType, Made
    <2> QED
      BY <1>2, <1>4, <2>1, <2>2 DEF undo, server, history
  <1>5. CASE autosave \/ save
    <2>1. flush /\ UNCHANGED <<disk, overlooked>>
      BY <1>5 DEF autosave, save, server, history
    <2> QED
      BY <2>1, FlushFacts, SentFacts DEF SourceInv
  <1>6. CASE saveFails
    <2>1. UNCHANGED <<disk, overlooked>>
      BY <1>6 DEF saveFails, server, history
    <2> QED
      BY <1>6, <2>1, FailedFacts DEF SourceInv
  <1>7. CASE serveSave(TRUE)
    BY <1>7, ServedFacts DEF SourceInv
  <1>8. CASE serveSave(FALSE)
    <2>1. disk' \in overlooked'
      BY <1>8 DEF serveSave
    <2> QED
      BY <2>1 DEF SourceInv
  <1>9. CASE saveDone(TRUE)
    <2>1. UNCHANGED disk
      BY <1>9 DEF saveDone, server
    <2> QED
      BY <1>9, <2>1, RepliedFacts DEF SourceInv
  <1>10. CASE saveDone(FALSE)
    <2>1. UNCHANGED disk /\ disk' \in overlooked'
      BY <1>10 DEF saveDone, server
    <2> QED
      BY <2>1 DEF SourceInv
  <1>11. CASE openTab
    <2>1. /\ ~session.dirty /\ UNCHANGED <<disk, overlooked, saves>>
          /\ session' = IF Open THEN Shown(session, disk) ELSE Session(disk)
      BY <1>11 DEF openTab, server, history
    <2>2. disk \in Made /\ session \in SessionType
      BY DEF TypeInv
    <2>3. CASE Open
      BY <2>1, <2>2, <2>3, ShownFacts DEF SourceInv, ServedDisk
    <2>4. CASE ~Open
      BY <2>1, <2>2, <2>4, SessionFacts DEF SourceInv
    <2> QED
      BY <2>3, <2>4
  <1>12. CASE replaceText
    <2>1. /\ UNCHANGED <<disk, saves>> /\ overlooked \subseteq overlooked'
          /\ \/ ~session.dirty /\ session' = Shown(session, disk)
             \/ UNCHANGED session
      BY <1>12 DEF replaceText, server
    <2>2. disk \in Made /\ session \in SessionType
      BY DEF TypeInv
    <2> QED
      BY <2>1, <2>2, ShownFacts DEF SourceInv, ServedDisk
  <1>13. CASE closeTab
    <2>1. session' = Session(None) /\ disk' = disk
      BY <1>13 DEF closeTab, server
    <2>2. disk # None
      BY DEF TypeInv, Made, None
    <2> QED
      BY <2>1, <2>2, SessionFacts DEF SourceInv
  <1>14. CASE writePastIndex
    <2>1. disk' \notin Made \cup {None} /\ session' = session
      BY <1>14, NewText DEF writePastIndex, page
    <2> QED
      BY <2>1 DEF SourceInv, TypeInv, SessionType
  <1>15. CASE writeThroughIndex
    <2>1. disk' \in overlooked'
      BY <1>15 DEF writeThroughIndex
    <2> QED
      BY <2>1 DEF SourceInv
  <1>16. CASE readFails \/ pollDone
    <2>1. UNCHANGED <<disk, session, saves>> /\ overlooked \subseteq overlooked'
      BY <1>16 DEF readFails, pollDone, server
    <2> QED
      BY <2>1 DEF SourceInv, ServedDisk
  <1>17. CASE handleOpen \/ tick \/ answerPoll \/ pollFails \/ reconcile \/ restart
    BY <1>1, <1>17 DEF handleOpen, tick, answerPoll, pollFails, reconcile, restart, server, page,
       history
  <1> QED
    BY <1>1, <1>3, <1>4, <1>5, <1>6, <1>7, <1>8, <1>9, <1>10, <1>11, <1>12, <1>13, <1>14,
       <1>15, <1>16, <1>17 DEF Next, vars

\* What the tab has of the disk, or what still remembers it, apart from the feed.
InTab ==
  \/ ~Open
  \/ ~Served /\ session.saved \in {None, disk}
  \/ ServedDisk
  \/ [for |-> "changed", expect |-> disk] \in reads

\* A step that touches neither the server nor what is known of the feed.
LEMMA SameFeed ==
  ASSUME DiskInv, UNCHANGED <<disk, indexed, epoch, feed, cursor, poll>>,
         told \subseteq told', overlooked \subseteq overlooked',
         InTab => InTab' \/ disk \in told' \cup overlooked'
  PROVE  DiskInv'
  BY DEF DiskInv, InTab, UpToDate, Reported

\* Whatever reaches the disk is remembered until the tab has it.
LEMMA DiskStep ==
  ASSUME ~ReopenWhileDirty, EditorInv, [Next]_vars
  PROVE  DiskInv'
  <1> USE DEF EditorInv
  <1>1. CASE UNCHANGED vars
    <2>1. UNCHANGED <<disk, indexed, epoch, feed, cursor, poll, reads, cache, session, saves,
                      told, overlooked>>
      BY <1>1 DEF vars
    <2> QED
      BY <2>1, SameFeed DEF InTab, Open, Served, ServedDisk
  <1>2. ASSUME NEW t \in Nat, setContent(t), UNCHANGED <<server, cursor, poll, reads, cache,
               saves, history>>
        PROVE  DiskInv'
    BY <1>2, TypedFacts, SameFeed
       DEF InTab, Open, Served, ServedDisk, server, history
  <1>3. CASE type
    BY <1>2, <1>3 DEF type, TypeInv
  <1>4. CASE undo
    <2>1. PICK t \in {session.saved, cache} \ {None} : setContent(t)
      BY <1>4 DEF undo
    <2>2. t \in Nat
      BY <2>1 DEF TypeInv, SessionType, Made
    <2> QED
      BY <1>2, <1>4, <2>1, <2>2 DEF undo
  <1>5. CASE autosave \/ save
    <2>1. flush /\ UNCHANGED <<disk, indexed, epoch, feed, cursor, poll, reads, cache, told,
                               overlooked>>
      BY <1>5 DEF autosave, save, server, history
    <2> QED
      BY <2>1, FlushFacts, SentFacts, SameFeed DEF InTab, Open
  <1>6. CASE saveFails
    <2>1. UNCHANGED <<disk, indexed, epoch, feed, cursor, poll, reads, cache, told, overlooked>>
      BY <1>6 DEF saveFails, server, history
    <2> QED
      BY <1>6, <2>1, FailedFacts, SameFeed DEF InTab, Open
  <1>7. CASE serveSave(TRUE)
    BY <1>7, ServedFacts DEF DiskInv
  <1>8. CASE serveSave(FALSE) \/ saveDone(FALSE) \/ writeThroughIndex
    <2>1. disk' \in overlooked'
      BY <1>8 DEF serveSave, saveDone, writeThroughIndex, server
    <2> QED
      BY <2>1 DEF DiskInv
  <1>9. CASE saveDone(TRUE)
    <2>1. UNCHANGED <<disk, indexed, epoch, feed, cursor, poll, reads, told, overlooked>>
      BY <1>9 DEF saveDone, server, Confirmed
    <2> QED
      BY <1>9, <2>1, RepliedFacts, SameFeed DEF InTab
  <1>10. CASE handleOpen
    <2>1. /\ UNCHANGED <<disk, indexed, epoch, feed, cursor, poll, cache, session, saves, told,
                         overlooked>>
          /\ reads \subseteq reads'
      BY <1>10 DEF handleOpen, server, history
    <2> QED
      BY <2>1, SameFeed DEF InTab, Open, Served, ServedDisk
  <1>11. CASE openTab
    <2>1. /\ ~session.dirty
          /\ UNCHANGED <<disk, indexed, epoch, feed, cursor, poll, saves, told, overlooked>>
          /\ session' = IF Open THEN Shown(session, disk) ELSE Session(disk)
      BY <1>11 DEF openTab, server, history
    <2>2. disk \in Made /\ session \in SessionType
      BY DEF TypeInv
    <2>3. ~Served /\ ~Served' /\ ~ServedDisk
      BY <2>1 DEF SessionInv, InFlight, Served, ServedDisk
    <2>4. session'.saved \in {None, disk} \/ disk \in overlooked
      <3>1. CASE Open
        BY <2>1, <2>2, <2>3, <3>1, ShownFacts DEF SourceInv
      <3>2. CASE ~Open
        BY <2>1, <2>2, <3>2, SessionFacts
      <3> QED
        BY <3>1, <3>2
    <2> QED
      BY <2>1, <2>3, <2>4 DEF DiskInv
  <1>12. CASE replaceText
    <2>1. PICK r \in reads :
            /\ reads' = reads \ {r}
            /\ overlooked' = IF session.dirty THEN overlooked \cup {r.expect} ELSE overlooked
            /\ IF Open /\ ~session.dirty
               THEN cache' = disk /\ session' = Shown(session, disk)
               ELSE UNCHANGED <<cache, session>>
      BY <1>12 DEF replaceText
    <2>2. UNCHANGED <<disk, indexed, epoch, feed, cursor, poll, saves, told>>
      BY <1>12 DEF replaceText, server
    <2>3. CASE ~Open
      BY <2>1, <2>3 DEF DiskInv, Open
    <2>4. CASE Open /\ session.dirty
      <3>1. UNCHANGED <<cache, session>> /\ overlooked' = overlooked \cup {r.expect}
        BY <2>1, <2>4
      <3>2. InTab => InTab' \/ disk \in overlooked'
        BY <2>1, <2>2, <3>1 DEF InTab, Open, Served, ServedDisk
      <3> QED
        BY <2>2, <3>1, <3>2, SameFeed
    <2>5. CASE Open /\ ~session.dirty
      <3>1. disk \in Made /\ session \in SessionType
        BY DEF TypeInv
      <3>2. ~Served /\ ~Served' /\ ~ServedDisk
        BY <2>2, <2>5 DEF SessionInv, InFlight, Served, ServedDisk
      <3>3. session'.saved \in {None, disk} \/ disk \in overlooked
        BY <2>1, <2>5, <3>1, <3>2, ShownFacts DEF SourceInv
      <3> QED
        BY <2>1, <2>2, <2>5, <3>2, <3>3 DEF DiskInv
    <2> QED
      BY <2>3, <2>4, <2>5
  <1>13. CASE readFails
    <2>1. PICK r \in reads : /\ reads' = reads \ {r}
                             /\ overlooked' = overlooked \cup ({r.expect} \ {None})
      BY <1>13 DEF readFails
    <2>2. UNCHANGED <<disk, indexed, epoch, feed, cursor, poll, cache, session, saves, told>>
      BY <1>13 DEF readFails, server
    <2>3. disk # None
      BY DEF TypeInv, Made, None
    <2> QED
      BY <2>1, <2>2, <2>3, SameFeed DEF InTab, Open, Served, ServedDisk
  <1>14. CASE closeTab
    BY <1>14 DEF closeTab, DiskInv, Open
  <1>15. CASE tick
    <2>1. /\ poll.stage = "none" /\ poll'.stage = "sent"
          /\ UNCHANGED <<disk, indexed, epoch, feed, cursor, reads, cache, session, saves, told,
                         overlooked>>
      BY <1>15 DEF tick, NoPoll, server, history
    <2> QED
      BY <2>1 DEF DiskInv, Open, Served, ServedDisk, UpToDate, Reported
  <1>16. CASE answerPoll
    <2>1. /\ poll.stage = "sent" /\ UNCHANGED <<disk, epoch, cursor, reads, cache, session,
                                                saves, told, overlooked>>
      BY <1>16 DEF answerPoll, history
    <2>2. \/ indexed' = indexed /\ feed' = feed
          \/ indexed' = disk /\ feed' = NewRevision
      BY <1>16 DEF answerPoll
    <2>3. PICK c : c = (feed' > poll.since)
      OBVIOUS
    <2>4. poll' = [poll EXCEPT !.stage = "answered", !.epoch = epoch, !.revision = feed',
                               !.changed = c, !.text = indexed']
      BY <1>16, <2>3 DEF answerPoll
    <2>5. /\ poll'.stage = "answered" /\ poll'.epoch = epoch /\ poll'.text = indexed'
          /\ poll'.changed = c
      BY <2>4 DEF TypeInv, PollType
    <2>6. poll.since = cursor.revision
      BY <2>1 DEF FeedInv
    <2>7. cursor.epoch = epoch => cursor.revision <= feed
      BY DEF FeedInv, NotAfter, TypeInv
    <2>8. feed \in Nat /\ cursor.revision \in Nat
      BY DEF TypeInv
    <2>9. CASE indexed' = disk /\ (disk # indexed \/ ~UpToDate)
      <3>1. epoch # cursor.epoch \/ feed' > cursor.revision
        BY <2>1, <2>2, <2>7, <2>8, <2>9 DEF UpToDate, NewRevision
      <3> QED
        BY <2>1, <2>3, <2>5, <2>6, <2>9, <3>1 DEF DiskInv, Reported
    <2>10. CASE indexed' # disk
      BY <2>1, <2>10 DEF DiskInv
    <2>11. CASE disk = indexed /\ UpToDate
      BY <2>1, <2>11 DEF DiskInv, Reported, Open, Served, ServedDisk
    <2> QED
      BY <2>9, <2>10, <2>11
  <1>17. CASE pollDone
    <2>1. /\ poll.stage = "answered" /\ poll' = NoPoll
          /\ cursor'.epoch = poll.epoch /\ cursor'.revision = poll.revision
          /\ UNCHANGED <<disk, indexed, epoch, feed, cache, session, saves>>
      BY <1>17 DEF pollDone, server
    <2>2. told \subseteq told' /\ overlooked \subseteq overlooked' /\ reads \subseteq reads'
      BY <1>17 DEF pollDone, Noticed
    <2>3. ~UpToDate => ~UpToDate'
      BY <2>1 DEF UpToDate, NoPoll
    <2>4. CASE Reported
      <3>1. CASE poll.epoch # cursor.epoch
        <4>1. poll.text \in overlooked'
          BY <1>17, <3>1 DEF pollDone
        <4> QED
          BY <2>1, <2>4, <4>1 DEF DiskInv, Reported
      <3>2. CASE poll.epoch = cursor.epoch
        <4>1. Noticed(disk)
          BY <1>17, <2>4, <3>2 DEF pollDone, Reported
        <4>2. \/ disk \in told' \/ ~Open \/ [for |-> "changed", expect |-> disk] \in reads'
          BY <4>1 DEF Noticed
        <4> QED
          BY <2>1, <4>2 DEF DiskInv, Open
      <3> QED
        BY <3>1, <3>2
    <2>5. CASE ~Reported
      BY <2>1, <2>2, <2>3, <2>5 DEF DiskInv, Open, Served, ServedDisk
    <2> QED
      BY <2>4, <2>5
  <1>18. CASE pollFails
    <2>1. /\ poll' = NoPoll /\ UNCHANGED <<disk, indexed, epoch, feed, cursor, reads, cache,
                                           session, saves, told, overlooked>>
      BY <1>18 DEF pollFails, server, history
    <2>2. /\ cursor.epoch \in Nat /\ cursor.revision \in Nat /\ epoch \in Nat /\ feed \in Nat
          /\ poll.epoch \in Nat /\ poll.revision \in Nat
      BY DEF TypeInv, PollType
    <2>3. Reported \/ ~UpToDate => ~UpToDate'
      BY <2>1, <2>2 DEF Reported, UpToDate, FeedInv, NotAfter, NoPoll
    <2> QED
      BY <2>1, <2>3 DEF DiskInv, Open, Served, ServedDisk
  <1>19. CASE reconcile
    <2>1. UNCHANGED <<epoch, cursor, poll>> /\ feed' = feed + 1
      BY <1>19 DEF reconcile, NewRevision, page
    <2>2. /\ cursor.epoch \in Nat /\ cursor.revision \in Nat /\ epoch \in Nat /\ feed \in Nat
          /\ poll.epoch \in Nat /\ poll.revision \in Nat
      BY DEF TypeInv, PollType
    <2>3. ~UpToDate'
      BY <2>1, <2>2 DEF UpToDate, FeedInv, NotAfter
    <2> QED
      BY <2>3 DEF DiskInv
  <1>20. CASE writePastIndex
    <2>1. disk' \notin Made \cup {None} /\ indexed' = indexed
      BY <1>20, NewText DEF writePastIndex, TypeInv
    <2> QED
      BY <2>1 DEF DiskInv, TypeInv
  <1>21. CASE restart
    <2>1. UNCHANGED <<cursor, poll>> /\ epoch' = epoch + 1
      BY <1>21 DEF restart, page
    <2>2. cursor.epoch \in Nat /\ epoch \in Nat /\ poll.epoch \in Nat
      BY DEF TypeInv, PollType
    <2>3. cursor.epoch <= epoch /\ (poll.stage = "answered" => poll.epoch <= epoch)
      BY <2>2 DEF FeedInv, NotAfter
    <2>4. ~UpToDate'
      BY <2>1, <2>2, <2>3 DEF UpToDate
    <2> QED
      BY <2>4 DEF DiskInv
  <1> QED
    BY <1>1, <1>3, <1>4, <1>5, <1>6, <1>7, <1>8, <1>9, <1>10, <1>11, <1>12, <1>13, <1>14,
       <1>15, <1>16, <1>17, <1>18, <1>19, <1>20, <1>21 DEF Next


\* At the start there is nothing to remember.
LEMMA EditorInit == Init => EditorInv
  <1> SUFFICES ASSUME Init PROVE EditorInv
    OBVIOUS
  <1>1. FeedInv /\ SourceInv /\ DiskInv
    BY DEF Init, FeedInv, SourceInv, DiskInv, NotAfter, Open, NoPoll, Session, None
  <1> QED
    BY <1>1, TypeInit DEF EditorInv

\* A step that changes what the tab shows of a draft is the author's own.
LEMMA DraftStep ==
  ASSUME TypeInv, SessionInv, [Next]_vars, Open, session.dirty, cache' # None,
         session'.content # session.content
  PROVE  UNCHANGED <<saves, reads, poll>>
  <1>1. CASE UNCHANGED session \/ type \/ undo
    BY <1>1 DEF type, undo
  <1>2. CASE autosave \/ save
    BY <1>2, FlushFacts DEF autosave, save
  <1>3. CASE saveFails
    BY <1>3, FailureFacts DEF saveFails, TypeInv
  <1>4. ASSUME NEW own \in BOOLEAN, saveDone(own) PROVE FALSE
    <2>1. PICK r \in saves : \/ r.own /\ Confirmed(r)
                             \/ session' = Shown(session, r.text)
      BY <1>4 DEF saveDone
    <2>2. r.text \in Made /\ session \in SessionType
      BY DEF TypeInv, SaveType
    <2> QED
      BY <2>1, <2>2, ConfirmedFacts, ShownFacts
  <1>5. CASE openTab
    <2>1. session' = Shown(session, disk)
      BY <1>5 DEF openTab
    <2> QED
      BY <2>1, ShownFacts DEF TypeInv
  <1>6. CASE replaceText
    BY <1>6 DEF replaceText
  <1>7. CASE closeTab
    BY <1>7 DEF closeTab
  <1>8. CASE \E own \in BOOLEAN : serveSave(own)
    BY <1>8 DEF serveSave
  <1>9. CASE handleOpen \/ readFails \/ tick \/ answerPoll \/ pollDone \/ pollFails
    BY <1>9 DEF handleOpen, readFails, tick, answerPoll, pollDone, pollFails
  <1>10. CASE reconcile \/ writeThroughIndex \/ writePastIndex \/ restart
    BY <1>10 DEF reconcile, writeThroughIndex, writePastIndex, restart, page
  <1> QED
    BY <1>1, <1>2, <1>3, <1>4, <1>5, <1>6, <1>7, <1>8, <1>9, <1>10 DEF Next, vars

-----------------------------------------------------------------------------
(* Theorems. *)

\* Every variable has its type, the tab has at most one save in flight, and a tab without
\* a draft shows what it knows to be saved; also when the author reopens the chapter.
THEOREM EditorTypeCorrect == Spec => [](TypeInv /\ SessionInv)
  <1>1. (TypeInv /\ SessionInv) /\ [Next]_vars => (TypeInv /\ SessionInv)'
    BY TypeStep, SessionStep
  <1> QED
    BY <1>1, TypeInit, PTL DEF Spec

\* In every behaviour what the author has typed and not saved is replaced by no reply to
\* a save, a read or a poll, in whatever order they come, and by no failure.
THEOREM DraftsAreKept == Spec => DraftIsKept
  <1>1. TypeInv /\ SessionInv /\ [Next]_vars
          => [Open /\ session.dirty /\ cache' # None /\ session'.content # session.content
                => UNCHANGED <<saves, reads, poll>>]_vars
    BY DraftStep
  <1> QED
    BY <1>1, EditorTypeCorrect, PTL DEF Spec, DraftIsKept

\* If the author does not open a chapter again over an unsaved draft, then in every
\* behaviour a tab that says "saved", when nothing is under way and the last poll has seen
\* everything, shows the text on the disk, unless the author was told of that text or it
\* came in a way no poll reports.
THEOREM QuietTabsShowDisk ==
  ASSUME ~ReopenWhileDirty
  PROVE  Spec => []QuietTabShowsDisk
  <1>1. EditorInv /\ [Next]_vars => EditorInv'
    BY TypeStep, SessionStep, FeedStep, SourceStep, DiskStep DEF EditorInv
  <1>2. EditorInv => QuietTabShowsDisk
    <2> SUFFICES ASSUME EditorInv, Quiet, disk = indexed,
                        cursor = [epoch |-> epoch, revision |-> feed],
                        disk \notin told \cup overlooked
                 PROVE  session.content = disk
      BY DEF QuietTabShowsDisk
    <2>1. /\ Open /\ ~session.dirty /\ saves = {} /\ reads = {} /\ poll.stage = "none"
      BY DEF Quiet, NoPoll
    <2>2. UpToDate /\ ~Reported /\ ~ServedDisk
      BY <2>1 DEF UpToDate, Reported, ServedDisk
    <2>3. session.saved \in {None, disk}
      BY <2>1, <2>2 DEF EditorInv, DiskInv
    <2> QED
      BY <2>1, <2>3 DEF EditorInv, SessionInv
  <1> QED
    BY <1>1, <1>2, EditorInit, PTL DEF Spec

=============================================================================
