--------------------------- MODULE ChapterMemory ---------------------------
(***************************************************************************)
(* The narrative memory of one book: what settling a chapter, the author's *)
(* decisions and discarding a chapter do to events, facts, the settlement  *)
(* ledger and the log of chapter state deltas.                             *)
(*                                                                         *)
(*   handlers/chapter-settlement-service.ts   settleConfirmedChapter       *)
(*   handlers/memory-settle-chapter.ts        the tool that calls it       *)
(*   engine/narrative-memory/settlement-idempotency.ts   decision, ledger  *)
(*   engine/narrative-memory/{reducer,ledger,fact-mutations}.ts            *)
(*   handlers/lore-memory-boundary-handlers.ts           approve, reject   *)
(*   handlers/chapter-discard-range.ts                   discard           *)
(*   core/src/state/chapter-state-commit.ts              delta log         *)
(*                                                                         *)
(* A text is a version number, its extraction one of Readings: the model   *)
(* may answer differently each time it is asked.  An event and the fact it *)
(* turns into share one identity, because both ids are made from the same  *)
(* chapter, type and tuple.  Each SQLite transaction is one action; the    *)
(* awaits before it (loading the configuration, the extraction) separate   *)
(* readChapter, decide and settle.                                         *)
(***************************************************************************)
EXTENDS Integers, FiniteSets, Sequences, SequencesExt, TLC

CONSTANTS Chapters,    \* chapter numbers
          VersionsOf,  \* the texts each chapter may be given
          Events,      \* tuples an extraction may produce
          ChapterOf, SlotOf, ValueOf,  \* of an event
          Risky,       \* events that always wait for the author
          Readings,    \* sequences of events an extraction of a text may give
          Manuals,     \* identities of facts the author writes
          AuthorWrites, \* <<slot, value>> the author may write
          Tasks,       \* settlements in progress at most
          Overlapping, \* BOOLEAN: another session may settle or discard meanwhile
          Reverting,   \* BOOLEAN: a text used before may come back
          InOrder,     \* BOOLEAN: chapters come and go at the end of the book
          Retirable,   \* facts the author may retire
          MaxRevision, \* bound: no text is saved once the book has this revision
          MaxForced    \* bound: forced settlements in a behaviour

Versions == UNION {VersionsOf[c] : c \in Chapters}
AllReadings == UNION {UNION {Readings[c][v] : v \in VersionsOf[c]} : c \in Chapters}
Slots == {SlotOf[e] : e \in Events} \cup {w[1] : w \in AuthorWrites}
FactIds == Events \cup Manuals

ASSUME ChaptersAssumption == Chapters \subseteq Nat \ {0}
ASSUME VersionsAssumption == Versions \subseteq Nat \ {0}
ASSUME EventsAssumption ==
  /\ ChapterOf \in [Events -> Chapters]
  /\ Risky \subseteq Events
  /\ Events \cap Manuals = {}
ASSUME ReadingsAssumption ==
  \A c \in Chapters : \A v \in VersionsOf[c] :
    Readings[c][v] \subseteq Seq({e \in Events : ChapterOf[e] = c})

VARIABLES text,      \* saved text of a chapter, 0 when there is none
          used,      \* texts a chapter has had
          events,    \* narrative_event: status, "none" when there is no row
          facts,     \* narrative_fact, by identity
          ledger,    \* narrative_chapter_settlement, NoRecord when there is no row
          artifacts, \* machineAppliedEventIds by chapter and text
          deltas,    \* chapter_state_delta, by fingerprint
          revision,  \* book.state_revision
          work,      \* what each settlement in progress holds
          discarding,  \* chapters whose memory is gone and whose files are not
          verdict,   \* history: what the author decided about an event
          overruled, \* history: facts the author closed
          forced     \* history: forced settlements started

vars == <<text, used, events, facts, ledger, artifacts, deltas, revision, work,
          discarding, verdict, overruled, forced>>

NoRecord == [version |-> 0, count |-> 0, events |-> {}]
Idle == [phase |-> "idle"]
Nothing == "nothing"

\* valid_until_chapter IS NULL
Open == -1

Init ==
  /\ text = [c \in Chapters |-> 0]
  /\ used = [c \in Chapters |-> {}]
  /\ events = [e \in Events |-> "none"]
  /\ facts = <<>>
  /\ ledger = [c \in Chapters |-> NoRecord]
  /\ artifacts = [c \in Chapters |-> [v \in Versions |-> {}]]
  /\ deltas = {}
  /\ revision = 0
  /\ work = [t \in Tasks |-> Idle]
  /\ discarding = {}
  /\ verdict = [e \in Events |-> "none"]
  /\ overruled = {}
  /\ forced = 0

-----------------------------------------------------------------------------
(* Facts and the slots they stand in. *)

EventFact(e) ==
  [slot |-> SlotOf[e], value |-> ValueOf[e], manual |-> FALSE, from |-> ChapterOf[e],
   until |-> Open, source |-> ChapterOf[e], corrects |-> Nothing]

OpenIn(fs, s) == {f \in DOMAIN fs : fs[f].slot = s /\ fs[f].until = Open}

CloseAt(fs, ids, c) ==
  [f \in DOMAIN fs |-> IF f \in ids THEN [fs[f] EXCEPT !.until = c] ELSE fs[f]]

ReopenAll(fs, ids) == CloseAt(fs, ids, Open)

upsertNarrativeFact(fs, id, fact) ==
  [f \in DOMAIN fs \cup {id} |-> IF f = id THEN fact ELSE fs[f]]

Corrected(fs, f) == \E m \in DOMAIN fs : fs[m].corrects = f

\* Slip: a fact of the same chapter is left open.
supersede_EarlierChapters(fs, id, fact) ==
  upsertNarrativeFact(CloseAt(fs, {f \in OpenIn(fs, fact.slot) \ {id} : fs[f].from < fact.from},
                              fact.from), id, fact)

\* Write a fact after closing the open facts of its slot.
supersede(fs, id, fact) ==
  upsertNarrativeFact(CloseAt(fs, OpenIn(fs, fact.slot) \ {id}, fact.from), id, fact)

latestChapter == Max({0} \cup {facts[f].from : f \in DOMAIN facts})

\* Slip: only what the author wrote for this chapter or a later one locks the slot.
slotLockedByManualFact_FromNowOn(fs, e) ==
  \E f \in OpenIn(fs, SlotOf[e]) :
    fs[f].manual /\ fs[f].value # ValueOf[e] /\ fs[f].from >= ChapterOf[e]

slotLockedByManualFact(fs, e) ==
  \E f \in OpenIn(fs, SlotOf[e]) : fs[f].manual /\ fs[f].value # ValueOf[e]

\* The reducer on one event.  mem: statuses, facts, and the events the machine applied.
applyOne(mem, e) ==
  IF mem.status[e] # "applied" THEN mem
  ELSE IF slotLockedByManualFact(mem.facts, e) THEN [mem EXCEPT !.status[e] = "pending"]
  ELSE [mem EXCEPT !.machine = @ \cup {e},
                   !.facts = IF e \in DOMAIN @ THEN @ ELSE supersede(@, e, EventFact(e))]

\* The reducer on a reading, in its order; events that were applied or rejected before
\* are not its business.
applyNarrativeEvents(mem, r, reducible) ==
  LET after[i \in 0..Len(r)] ==
        IF i = 0 THEN mem
        ELSE IF r[i] \in reducible THEN applyOne(after[i - 1], r[i])
        ELSE after[i - 1]
  IN  after[Len(r)]

\* Slip: whatever the new text no longer produces goes, also what the author approved.
retireStaleMachineFacts_Approved(fs, status, stale, machine, c) ==
  CloseAt(fs, {e \in stale \cap DOMAIN fs : fs[e].until = Open}, c - 1)

\* Slip: what the retired facts had closed stays closed.
retireStaleMachineFacts_NoReopening(fs, status, stale, machine, c) ==
  CloseAt(fs, {e \in stale \cap machine \cap DOMAIN fs :
                 fs[e].until = Open /\ status[e] = "applied"}, c - 1)

\* Retire the machine's open facts of events the new text no longer produces, and open
\* again what they had closed where that leaves a slot empty.
retireStaleMachineFacts(fs, status, stale, machine, c) ==
  LET gone == {e \in stale \cap machine \cap DOMAIN fs :
                  fs[e].until = Open /\ status[e] = "applied"}
      left == CloseAt(fs, gone, c - 1)
      back == {f \in DOMAIN left \ stale :
                 /\ OpenIn(left, left[f].slot) = {}
                 /\ \E g \in gone : /\ g # f
                                    /\ left[g].slot = left[f].slot
                                    /\ left[f].until = left[g].from
                 /\ left[f].until >= left[f].from
                 /\ ~Corrected(left, f)}
  IN  ReopenAll(left, back)

-----------------------------------------------------------------------------
(* Settling a chapter. *)

Unsettled(c) == text[c] # 0 /\ ledger[c].version # text[c]

AtTheEnd(c) ==
  /\ \A d \in Chapters : d > c => text[d] = 0
  /\ \A d \in Chapters : d < c => text[d] # 0 /\ ~Unsettled(d)

Busy == {t \in Tasks : work[t] # Idle}

WorksOn(t, c) == work[t] # Idle /\ work[t].chapter = c

\* The author or the writing pipeline saves a text of a chapter.
writeChapter(c, v) ==
  /\ v # text[c]
  /\ revision < MaxRevision
  /\ Reverting \/ v \notin used[c]
  /\ c \notin discarding
  /\ InOrder => AtTheEnd(c)
  /\ text' = [text EXCEPT ![c] = v]
  /\ used' = [used EXCEPT ![c] = @ \cup {v}]
  /\ UNCHANGED <<events, facts, ledger, artifacts, deltas, revision, work, discarding,
                 verdict, overruled, forced>>

\* memory.settle_chapter reads the saved text.
readChapter(t, c) ==
  /\ work[t] = Idle
  /\ text[c] # 0
  /\ Overlapping \/ (Busy = {} /\ c \notin discarding)
  /\ work' = [work EXCEPT ![t] = [phase |-> "read", chapter |-> c, version |-> text[c]]]
  /\ UNCHANGED <<text, used, events, facts, ledger, artifacts, deltas, revision,
                 discarding, verdict, overruled, forced>>

\* Slip: a chapter that was settled once is settled, whatever its text is now.
AlreadySettled_Once(w) == ledger[w.chapter].version # 0

AlreadySettled(w) == ledger[w.chapter].version = w.version

\* decideChapterSettlementIdempotency, before the extraction: the record read here is the
\* one the transaction after the extraction works with.  Forcing turns a skip into
\* another settlement and changes nothing else.
decide(t, force) ==
  /\ work[t].phase = "read"
  /\ LET w == work[t]
         record == ledger[w.chapter]
     IN  /\ force => AlreadySettled(w) /\ forced < MaxForced
         /\ work' = [work EXCEPT ![t] =
                       IF AlreadySettled(w) /\ ~force
                       THEN Idle
                       ELSE [phase |-> "extracting", chapter |-> w.chapter,
                             version |-> w.version, record |-> record]]
  /\ forced' = IF force THEN forced + 1 ELSE forced
  /\ UNCHANGED <<text, used, events, facts, ledger, artifacts, deltas, revision,
                 discarding, verdict, overruled>>

\* The delta a settlement commits: its fingerprint is made of the chapter, the origin
\* (text and number of the settlement) and what was extracted.
Delta(w, r) == <<w.chapter, w.version, w.record.count + 1, r>>

\* Slip: a rejected event that is read again is taken up again.
persistSettlementEvents_RejectedToo(r) ==
  [e \in Events |->
    IF e \in ToSet(r) /\ events[e] \in {"none", "rejected"}
    THEN IF e \in Risky THEN "pending" ELSE "applied"
    ELSE events[e]]

persistSettlementEvents(r) ==
  [e \in Events |->
    IF e \in ToSet(r) /\ events[e] = "none"
    THEN IF e \in Risky THEN "pending" ELSE "applied"
    ELSE events[e]]

\* Slip: only what this settlement applied itself.
machineAppliedEventIds_ThisTime(mem, previous, r) == mem.machine

\* The events the machine applied, now or at an earlier settlement that still stands.
machineAppliedEventIds(mem, previous, r) ==
  mem.machine \cup {e \in previous \cap ToSet(r) : mem.status[e] = "applied"}

\* The transaction after the extraction.
settle(t, r) ==
  /\ work[t].phase = "extracting"
  /\ r \in Readings[work[t].chapter][work[t].version]
  /\ Delta(work[t], r) \notin deltas
  /\ LET w == work[t]
         c == w.chapter
         persisted == persistSettlementEvents(r)
         reducible == {e \in Events : events[e] \notin {"applied", "rejected"}}
         mem == applyNarrativeEvents([status |-> persisted, facts |-> facts, machine |-> {}],
                                     r, reducible)
         previous == IF w.record = NoRecord THEN {} ELSE artifacts[c][w.record.version]
     IN  /\ events' = mem.status
         /\ facts' = retireStaleMachineFacts(mem.facts, mem.status,
                                             w.record.events \ ToSet(r), previous, c)
         /\ ledger' = [ledger EXCEPT ![c] = [version |-> w.version,
                                             count |-> w.record.count + 1,
                                             events |-> ToSet(r)]]
         /\ artifacts' = [artifacts EXCEPT ![c][w.version] = machineAppliedEventIds(mem, previous, r)]
         /\ deltas' = deltas \cup {Delta(w, r)}
  /\ revision' = revision + 1
  /\ work' = [work EXCEPT ![t] = Idle]
  /\ UNCHANGED <<text, used, discarding, verdict, overruled, forced>>

\* Slip: the revision is raised before the fingerprint is looked up.
refuseReplay_Counted(t, r) ==
  /\ work[t].phase = "extracting"
  /\ r \in Readings[work[t].chapter][work[t].version]
  /\ Delta(work[t], r) \in deltas
  /\ work' = [work EXCEPT ![t] = Idle]
  /\ revision' = revision + 1
  /\ UNCHANGED <<text, used, events, facts, ledger, artifacts, deltas, discarding,
                 verdict, overruled, forced>>

\* The delta is in the log already: the commit returns it without running the
\* projection, and the settlement is reported as failed.
refuseReplay(t, r) ==
  /\ work[t].phase = "extracting"
  /\ r \in Readings[work[t].chapter][work[t].version]
  /\ Delta(work[t], r) \in deltas
  /\ work' = [work EXCEPT ![t] = Idle]
  /\ UNCHANGED <<text, used, events, facts, ledger, artifacts, deltas, revision,
                 discarding, verdict, overruled, forced>>

\* No answer, an answer that does not parse, a reduction that throws (the transaction
\* rolls back) or the process ends: nothing was written.
fail(t) ==
  /\ work[t] # Idle
  /\ work' = [work EXCEPT ![t] = Idle]
  /\ UNCHANGED <<text, used, events, facts, ledger, artifacts, deltas, revision,
                 discarding, verdict, overruled, forced>>

-----------------------------------------------------------------------------
(* The author. *)

\* Approve a pending event: one transaction that is rolled back when the reducer leaves
\* the event pending.
approve(e) ==
  /\ events[e] = "pending"
  /\ LET mem == applyOne([status |-> [events EXCEPT ![e] = "applied"], facts |-> facts,
                          machine |-> {}], e)
     IN  /\ mem.status[e] = "applied"
         /\ events' = mem.status
         /\ facts' = mem.facts
  /\ verdict' = [verdict EXCEPT ![e] = "approved"]
  /\ UNCHANGED <<text, used, ledger, artifacts, deltas, revision, work, discarding,
                 overruled, forced>>

reject(e) ==
  /\ events[e] = "pending"
  /\ events' = [events EXCEPT ![e] = "rejected"]
  /\ verdict' = [verdict EXCEPT ![e] = "rejected"]
  /\ UNCHANGED <<text, used, facts, ledger, artifacts, deltas, revision, work, discarding,
                 overruled, forced>>

\* Move a pending event to the trash.
trash(e) ==
  /\ events[e] = "pending"
  /\ events' = [events EXCEPT ![e] = "none"]
  /\ UNCHANGED <<text, used, facts, ledger, artifacts, deltas, revision, work, discarding,
                 verdict, overruled, forced>>

createManual(m, s, v) ==
  /\ m \notin DOMAIN facts
  /\ facts' = supersede(facts, m, [slot |-> s, value |-> v, manual |-> TRUE,
                                   from |-> latestChapter, until |-> Open, source |-> 0,
                                   corrects |-> Nothing])
  /\ overruled' = overruled \cup OpenIn(facts, s)
  /\ UNCHANGED <<text, used, events, ledger, artifacts, deltas, revision, work, discarding,
                 verdict, forced>>

correct(m, f, v) ==
  /\ m \notin DOMAIN facts
  /\ f \in DOMAIN facts
  /\ facts[f].until = Open
  /\ facts[f].value # v
  /\ <<facts[f].slot, v>> \in AuthorWrites
  /\ facts' = upsertNarrativeFact(CloseAt(facts, {f}, latestChapter), m,
                                  [facts[f] EXCEPT !.value = v, !.manual = TRUE,
                                                   !.from = latestChapter, !.corrects = f])
  /\ overruled' = overruled \cup {f}
  /\ UNCHANGED <<text, used, events, ledger, artifacts, deltas, revision, work, discarding,
                 verdict, forced>>

retire(f) ==
  /\ f \in DOMAIN facts \cap Retirable
  /\ facts[f].until = Open
  /\ facts' = CloseAt(facts, {f}, latestChapter)
  /\ overruled' = overruled \cup {f}
  /\ UNCHANGED <<text, used, events, ledger, artifacts, deltas, revision, work, discarding,
                 verdict, forced>>

-----------------------------------------------------------------------------
(* Discarding a chapter: its memory in one transaction, its files afterwards. *)

\* Slip: what the author wrote on a fact of the chapter stays.
InDiscardRange_MachineOnly(f, c) == facts[f].source = c /\ ~facts[f].manual

InDiscardRange(f, c) == facts[f].source = c

discardMemory(c) ==
  /\ InOrder => AtTheEnd(c)
  /\ c \notin discarding
  /\ Overlapping \/ Busy = {}
  /\ LET gone == {f \in DOMAIN facts : InDiscardRange(f, c)}
         back == {f \in DOMAIN facts \ gone :
                    /\ facts[f].until = c
                    /\ c >= facts[f].from
                    /\ ~Corrected(facts, f)
                    /\ \E g \in gone \ {f} : /\ ~facts[g].manual
                                             /\ facts[g].slot = facts[f].slot
                                             /\ facts[g].from = c
                    /\ OpenIn(facts, facts[f].slot) \subseteq gone}
     IN  facts' = [f \in DOMAIN facts \ gone |-> ReopenAll(facts, back)[f]]
  /\ events' = [e \in Events |-> IF ChapterOf[e] = c THEN "none" ELSE events[e]]
  /\ verdict' = [e \in Events |-> IF ChapterOf[e] = c THEN "none" ELSE verdict[e]]
  /\ ledger' = [ledger EXCEPT ![c] = NoRecord]
  /\ artifacts' = [artifacts EXCEPT ![c] = [v \in Versions |-> {}]]
  /\ discarding' = discarding \cup {c}
  /\ overruled' = overruled \cap DOMAIN facts'
  /\ UNCHANGED <<text, used, deltas, revision, work, forced>>

discardFiles(c) ==
  /\ c \in discarding
  /\ text' = [text EXCEPT ![c] = 0]
  /\ discarding' = discarding \ {c}
  /\ UNCHANGED <<used, events, facts, ledger, artifacts, deltas, revision, work, verdict,
                 overruled, forced>>

\* Handling the files failed: the chapter stays, without memory, to be discarded again.
discardFails(c) ==
  /\ c \in discarding
  /\ discarding' = discarding \ {c}
  /\ UNCHANGED <<text, used, events, facts, ledger, artifacts, deltas, revision, work,
                 verdict, overruled, forced>>

-----------------------------------------------------------------------------

Author ==
  \/ \E e \in Events : approve(e) \/ reject(e) \/ trash(e)
  \/ \E m \in Manuals, w \in AuthorWrites : createManual(m, w[1], w[2])
  \/ \E m \in Manuals, f \in FactIds, w \in AuthorWrites : correct(m, f, w[2])
  \/ \E f \in FactIds : retire(f)

Settlement(t) ==
  \/ \E c \in Chapters : readChapter(t, c)
  \/ \E force \in BOOLEAN : decide(t, force)
  \/ \E r \in AllReadings : settle(t, r) \/ refuseReplay(t, r)
  \/ fail(t)

Next ==
  \/ \E c \in Chapters : \E v \in VersionsOf[c] : writeChapter(c, v)
  \/ \E t \in Tasks : Settlement(t)
  \/ Author
  \/ \E c \in Chapters : discardMemory(c) \/ discardFiles(c) \/ discardFails(c)

Spec == Init /\ [][Next]_vars

(***************************************************************************)
(* The pipeline asks for a settlement after it saves a chapter, and a      *)
(* failed or missing one is asked for again: the tool reports it as failed *)
(* and the book as unsettled.  A settlement under way goes on by itself,   *)
(* and a model that is asked over and over answers in the end.  Nothing is *)
(* assumed of the author.                                                  *)
(***************************************************************************)
Fairness ==
  /\ \A c \in Chapters : SF_vars(Unsettled(c) /\ \E t \in Tasks : readChapter(t, c))
  /\ \A t \in Tasks :
       /\ WF_vars(fail(t) \/ \E r \in AllReadings : settle(t, r) \/ refuseReplay(t, r))
       /\ \A c \in Chapters :
            /\ SF_vars(WorksOn(t, c) /\ decide(t, FALSE))
            /\ SF_vars(WorksOn(t, c) /\ \E r \in AllReadings : settle(t, r))
  /\ \A c \in Chapters : WF_vars(discardFiles(c))

FairSpec == Spec /\ Fairness

-----------------------------------------------------------------------------
(* Properties. *)

FactType ==
  [slot : Slots, value : {ValueOf[e] : e \in Events} \cup {w[2] : w \in AuthorWrites},
   manual : BOOLEAN, from : Chapters \cup {0},
   until : Chapters \cup {c - 1 : c \in Chapters} \cup {Open, 0},
   source : Chapters \cup {0}, corrects : FactIds \cup {Nothing}]

RecordType ==
  [version : Versions \cup {0}, count : Nat, events : SUBSET Events]

WorkType ==
  {Idle} \cup [phase : {"read"}, chapter : Chapters, version : Versions]
         \cup [phase : {"extracting"}, chapter : Chapters, version : Versions,
               record : RecordType]

\* Types, and one revision of the book per delta in the log: chapter_state_delta and
\* book.state_revision are written by one transaction.
TypeOK ==
  /\ text \in [Chapters -> Versions \cup {0}]
  /\ events \in [Events -> {"none", "pending", "applied", "rejected"}]
  /\ DOMAIN facts \subseteq FactIds
  /\ \A f \in DOMAIN facts : facts[f] \in FactType
  /\ \A c \in Chapters : ledger[c] \in RecordType
  /\ artifacts \in [Chapters -> [Versions -> SUBSET Events]]
  /\ \A t \in Tasks : work[t] \in WorkType
  /\ discarding \subseteq Chapters
  /\ revision = Cardinality(deltas)

AtMostOne(S) == \A f, g \in S : f = g

\* A slot of the current ledger holds one value.  False once a chapter is rewritten twice,
\* when retiring opens two closed facts at once (ThriceReadings of MCChapterMemory).
OneValuePerSlot == \A s \in Slots : AtMostOne(OpenIn(facts, s))

\* Nothing that is read, approved, written, corrected or retired is put beside a value that
\* stands: a slot gets a second value only when two that were closed are opened again at
\* once.
SecondValueOnlyByReopening ==
  [][\A s \in Slots :
       LET before == OpenIn(facts, s)
           now    == OpenIn(facts', s)
       IN  AtMostOne(before) /\ ~AtMostOne(now) => now \subseteq DOMAIN facts \ before]_vars

\* Once a chapter is settled from a new text, what only its old text said no longer
\* holds, unless the author approved it.
NoStaleFacts ==
  \A e \in Events \cap DOMAIN facts :
    facts[e].until = Open /\ verdict[e] = "none" => e \in ledger[ChapterOf[e]].events

\* Retiring, reopening and discarding leave no slot empty that a settled chapter speaks
\* of, unless the author emptied it.
NoHoles ==
  \A c \in Chapters \ discarding : \A e \in ledger[c].events :
    events[e] = "applied" =>
      \/ OpenIn(facts, SlotOf[e]) # {}
      \/ \E f \in overruled : facts[f].slot = SlotOf[e]

\* A chapter that is gone has left no event and no fact.
NoMemoryOfDiscardedChapters ==
  \A c \in Chapters : text[c] = 0 =>
    /\ \A e \in Events : ChapterOf[e] = c => events[e] = "none"
    /\ \A f \in DOMAIN facts : facts[f].source # c
    /\ ledger[c] = NoRecord

\* An event the author rejected stays rejected and never becomes a fact, however often
\* its chapter is settled again.
RejectionsStand ==
  \A e \in Events : verdict[e] = "rejected" => events[e] = "rejected" /\ e \notin DOMAIN facts

ValuesIn(fs, s) == {fs[f].value : f \in OpenIn(fs, s)}

\* Something a reading says, of slot s, that the value there is v.
Says(r, s, v) == \E e \in ToSet(r) : SlotOf[e] = s /\ ValueOf[e] = v

\* A settlement leaves to the author what is his: a value he has written stays and is
\* joined by no other, unless the text says the same and so takes the value over, and a
\* fact he approved leaves the current ledger only when something just read takes its
\* place.
AuthorsFactsStand ==
  [][\A t \in Tasks, r \in AllReadings : settle(t, r) =>
       \A f \in {g \in DOMAIN facts : facts[g].until = Open} :
         LET s == facts[f].slot
         IN  /\ facts[f].manual =>
                  \/ /\ facts[f].value \in ValuesIn(facts', s)
                     /\ ValuesIn(facts', s) \subseteq ValuesIn(facts, s)
                  \/ Says(r, s, facts[f].value)
             /\ f \in Events /\ verdict[f] = "approved" =>
                  facts'[f].until = Open \/ OpenIn(facts', s) \cap ToSet(r) # {}]_vars

\* What the author has closed, by retiring it, correcting it or writing over it, is never
\* reopened.
AuthorClosedStaysClosed == \A f \in overruled : facts[f].until # Open

\* The delta log holds a settlement of the saved text under the number that the next one
\* would get.  It stays behind when a chapter is discarded.
InLog(c) ==
  \E r \in AllReadings :
    <<c, text[c], ledger[c].count + 1, r>> \in deltas

\* A saved chapter is settled again and again until the book's memory is that of its
\* text, also when two sessions settle it at once, unless the log takes it for a replay.
SavedChaptersAreSettled == \A c \in Chapters : []<>(~Unsettled(c) \/ InLog(c))
=============================================================================
