------------------------ MODULE ChapterMemory_proofs ------------------------
(***************************************************************************)
(* Safety of the narrative memory, for any number of chapters, texts,      *)
(* readings, facts of the author and settlements in progress.              *)
(*                                                                         *)
(* What a settlement does to the facts is a fold of the reducer over the   *)
(* reading.  Reduced says what holds after each of its events: a slot      *)
(* either stands as before or holds one fact just read, and then no value  *)
(* of the author's stood there.  Around it, DecisionInv keeps apart what   *)
(* the machine has applied and what the author has decided, and DiscardInv *)
(* says that a chapter that is gone, or is being discarded, has no memory  *)
(* and no settlement at work on it.                                        *)
(***************************************************************************)
EXTENDS ChapterMemory, FiniteSetTheorems, WellFoundedInduction, TLAPS

Status == {"none", "pending", "applied", "rejected"}

Ends == Chapters \cup {c - 1 : c \in Chapters} \cup {Open, 0}

\* The fact of an event says what the event says; a fact of the author what he may write.
Sourced(f, x) ==
  /\ f \in Events => /\ x.slot = SlotOf[f] /\ x.value = ValueOf[f]
                      /\ x.manual = FALSE /\ x.source = ChapterOf[f]
  /\ f \in Manuals => /\ x.manual = TRUE
                       /\ \E w \in AuthorWrites : w[1] = x.slot /\ w[2] = x.value

Ledger(fs) ==
  /\ fs = [f \in DOMAIN fs |-> fs[f]]
  /\ DOMAIN fs \subseteq FactIds
  /\ IsFiniteSet(DOMAIN fs)
  /\ \A f \in DOMAIN fs : fs[f] \in FactType /\ Sourced(f, fs[f])

\* Two versions of a fact that differ in its end at most.
Kept(x, y) ==
  /\ x.slot = y.slot /\ x.value = y.value
  /\ x.manual = y.manual /\ x.from = y.from /\ x.source = y.source

Memory(mem) ==
  /\ mem = [status |-> mem.status, facts |-> mem.facts, machine |-> mem.machine]
  /\ mem.status \in [Events -> Status]
  /\ Ledger(mem.facts)
  /\ mem.machine \subseteq Events

\* What the author has in slot s, the reading says too.
Confirmed(fs, s, r) == \A f \in OpenIn(fs, s) : fs[f].manual => Says(r, s, fs[f].value)

\* What is true of mem when some events of reading r have been applied to base.
Reduced(base, r, reducible, mem) ==
  /\ Memory(mem)
  /\ DOMAIN mem.facts = DOMAIN base.facts \cup mem.machine
  /\ mem.machine \subseteq ToSet(r) \cap reducible
  /\ \A f \in DOMAIN base.facts : Kept(mem.facts[f], base.facts[f])
  /\ \A e \in Events \ (ToSet(r) \cap reducible) : mem.status[e] = base.status[e]
  /\ \A e \in mem.machine : /\ mem.status[e] = "applied"
                            /\ \E d \in mem.machine : OpenIn(mem.facts, SlotOf[e]) = {d}
  /\ \A s \in Slots :
       \/ OpenIn(mem.facts, s) = OpenIn(base.facts, s)
       \/ /\ \E d \in mem.machine : OpenIn(mem.facts, s) = {d}
          /\ Confirmed(base.facts, s, r)

-----------------------------------------------------------------------------
(* Facts. *)

\* A fact's fields, and a fact with another end.
LEMMA FactFields ==
  ASSUME NEW x \in FactType, NEW c \in Ends
  PROVE  /\ x.slot \in Slots /\ x.from \in Chapters \cup {0} /\ x.until \in Ends
         /\ x.source \in Chapters \cup {0} /\ x.manual \in BOOLEAN
         /\ [x EXCEPT !.until = c] \in FactType
         /\ [x EXCEPT !.until = c].until = c
         /\ Kept([x EXCEPT !.until = c], x)
  BY DEF FactType, Ends, Kept

\* Facts fs after closing, or opening again, those named.
Closed(fs, ids, c, new) ==
  /\ Ledger(new) /\ DOMAIN new = DOMAIN fs
  /\ \A f \in DOMAIN fs : /\ Kept(new[f], fs[f])
                          /\ f \in ids => new[f].until = c
                          /\ f \notin ids => new[f] = fs[f]

\* Closing changes the ends of the facts named and nothing else.
LEMMA Closing ==
  ASSUME NEW fs, Ledger(fs), NEW ids, NEW c \in Ends
  PROVE  Closed(fs, ids, c, CloseAt(fs, ids, c))
  <1> PICK gs : gs = CloseAt(fs, ids, c)
    OBVIOUS
  <1>1. /\ gs = [f \in DOMAIN gs |-> gs[f]] /\ DOMAIN gs = DOMAIN fs
        /\ \A f \in DOMAIN fs : /\ f \in ids => gs[f] = [fs[f] EXCEPT !.until = c]
                                /\ f \notin ids => gs[f] = fs[f]
    BY DEF CloseAt
  <1>2. ASSUME NEW f \in DOMAIN fs
        PROVE  /\ gs[f] \in FactType /\ Kept(gs[f], fs[f])
               /\ f \in ids => gs[f].until = c
    <2>1. fs[f] \in FactType
      BY DEF Ledger
    <2>2. CASE f \in ids
      <3> PICK x : x = fs[f]
        OBVIOUS
      <3>1. gs[f] = [x EXCEPT !.until = c]
        BY <1>1, <2>2
      <3>2. /\ [x EXCEPT !.until = c] \in FactType
            /\ [x EXCEPT !.until = c].until = c
            /\ Kept([x EXCEPT !.until = c], x)
        BY <2>1, FactFields
      <3> QED
        BY <2>2, <3>1, <3>2
    <2>3. CASE f \notin ids
      BY <1>1, <2>1, <2>3 DEF Kept
    <2> QED
      BY <2>2, <2>3
  <1>3. ASSUME NEW f \in DOMAIN fs
        PROVE  Sourced(f, gs[f])
    <2>1. Kept(gs[f], fs[f]) /\ Sourced(f, fs[f])
      BY <1>2 DEF Ledger
    <2> QED
      BY <2>1 DEF Kept, Sourced
  <1>4. Ledger(gs)
    BY <1>1, <1>2, <1>3 DEF Ledger
  <1> QED
    BY <1>1, <1>2, <1>4 DEF Closed

\* Facts fs with one more.
Written(fs, id, fact, new) ==
  /\ Ledger(new) /\ DOMAIN new = DOMAIN fs \cup {id} /\ new[id] = fact
  /\ \A f \in DOMAIN fs : new[f] = fs[f]

\* Writing a fact that was not there.
LEMMA Writing ==
  ASSUME NEW fs, Ledger(fs), NEW id \in FactIds, id \notin DOMAIN fs,
         NEW fact \in FactType, Sourced(id, fact)
  PROVE  Written(fs, id, fact, upsertNarrativeFact(fs, id, fact))
  <1> PICK gs : gs = upsertNarrativeFact(fs, id, fact)
    OBVIOUS
  <1>1. /\ gs = [f \in DOMAIN gs |-> gs[f]] /\ DOMAIN gs = DOMAIN fs \cup {id}
        /\ gs[id] = fact
        /\ \A f \in DOMAIN fs : gs[f] = fs[f]
    BY DEF upsertNarrativeFact
  <1>2. IsFiniteSet(DOMAIN gs)
    BY <1>1, FS_AddElement DEF Ledger
  <1>3. \A f \in DOMAIN gs : gs[f] \in FactType /\ Sourced(f, gs[f])
    BY <1>1 DEF Ledger, Sourced
  <1>4. Ledger(gs)
    BY <1>1, <1>2, <1>3 DEF Ledger
  <1> QED
    BY <1>1, <1>4 DEF Written

\* Facts fs with one more that is alone in its slot; no other slot changes.
TakenOver(fs, id, fact, new) ==
  /\ Ledger(new) /\ DOMAIN new = DOMAIN fs \cup {id} /\ new[id] = fact
  /\ \A f \in DOMAIN fs : Kept(new[f], fs[f])
  /\ OpenIn(new, fact.slot) = {id}
  /\ \A s : s # fact.slot => OpenIn(new, s) = OpenIn(fs, s)

\* A fact that supersedes takes its slot over.
LEMMA Superseding ==
  ASSUME NEW fs, Ledger(fs), NEW id \in FactIds, id \notin DOMAIN fs,
         NEW fact \in FactType, fact.until = Open, Sourced(id, fact)
  PROVE  TakenOver(fs, id, fact, supersede(fs, id, fact))
  <1> DEFINE ids == OpenIn(fs, fact.slot) \ {id}
  <1> PICK hs : hs = CloseAt(fs, ids, fact.from)
    OBVIOUS
  <1> PICK gs : gs = supersede(fs, id, fact)
    OBVIOUS
  <1>1. fact.from \in Ends /\ fact.from # Open
    BY ChaptersAssumption DEF FactType, Ends, Open
  <1>2. /\ Ledger(hs) /\ DOMAIN hs = DOMAIN fs
        /\ \A f \in DOMAIN fs : /\ Kept(hs[f], fs[f])
                                /\ f \in ids => hs[f].until = fact.from
                                /\ f \notin ids => hs[f] = fs[f]
    <2> HIDE DEF ids
    <2>1. Closed(fs, ids, fact.from, hs)
      BY <1>1, Closing
    <2> QED
      BY <2>1 DEF Closed
  <1>3. gs = upsertNarrativeFact(hs, id, fact)
    BY DEF supersede
  <1>4. /\ Ledger(gs) /\ DOMAIN gs = DOMAIN fs \cup {id} /\ gs[id] = fact
        /\ \A f \in DOMAIN fs : gs[f] = hs[f]
    <2> HIDE DEF ids
    <2>1. Written(hs, id, fact, gs)
      BY <1>2, <1>3, Writing
    <2> QED
      BY <1>2, <2>1 DEF Written
  <1>5. OpenIn(gs, fact.slot) = {id}
    <2>1. ASSUME NEW f \in DOMAIN fs, gs[f].slot = fact.slot
          PROVE  gs[f].until # Open
      <3>1. gs[f] = hs[f] /\ Kept(hs[f], fs[f])
        BY <1>2, <1>4
      <3>2. fs[f].slot = fact.slot
        BY <2>1, <3>1 DEF Kept
      <3>3. CASE f \in ids
        BY <3>1, <3>3, <1>1, <1>2
      <3>4. CASE f \notin ids
        BY <3>1, <3>2, <3>4, <1>2 DEF OpenIn
      <3> QED
        BY <3>3, <3>4
    <2> QED
      BY <2>1, <1>4 DEF OpenIn
  <1>6. ASSUME NEW s, s # fact.slot
        PROVE  OpenIn(gs, s) = OpenIn(fs, s)
    <2>1. \A f \in DOMAIN fs : fs[f].slot = s => gs[f] = fs[f]
      BY <1>2, <1>4, <1>6 DEF OpenIn
    <2>2. \A f \in DOMAIN fs : gs[f].slot = fs[f].slot
      BY <1>2, <1>4 DEF Kept
    <2> QED
      BY <2>1, <2>2, <1>4, <1>6 DEF OpenIn
  <1> QED
    BY <1>2, <1>4, <1>5, <1>6 DEF TakenOver

-----------------------------------------------------------------------------
(* The reducer. *)

\* What the reducer does with one event, field by field.
LEMMA Applying ==
  ASSUME NEW mem, Memory(mem), NEW e \in Events, NEW new, new = applyOne(mem, e)
  PROVE  /\ mem.status[e] # "applied" => new = mem
         /\ mem.status[e] = "applied" /\ slotLockedByManualFact(mem.facts, e) =>
              new = [status |-> [mem.status EXCEPT ![e] = "pending"], facts |-> mem.facts,
                     machine |-> mem.machine]
         /\ mem.status[e] = "applied" /\ ~slotLockedByManualFact(mem.facts, e) =>
              new = [status |-> mem.status,
                     facts |-> IF e \in DOMAIN mem.facts THEN mem.facts
                               ELSE supersede(mem.facts, e, EventFact(e)),
                     machine |-> mem.machine \cup {e}]
  <1> PICK st, fs, ma : mem = [status |-> st, facts |-> fs, machine |-> ma]
    BY DEF Memory
  <1> PICK locked : locked = slotLockedByManualFact(fs, e)
    OBVIOUS
  <1> PICK taken : taken = supersede(fs, e, EventFact(e))
    OBVIOUS
  <1>1. new = IF st[e] # "applied" THEN mem
              ELSE IF locked THEN [mem EXCEPT !.status[e] = "pending"]
              ELSE [mem EXCEPT !.machine = @ \cup {e},
                               !.facts = IF e \in DOMAIN @ THEN @ ELSE taken]
    BY DEF applyOne
  <1> QED
    BY <1>1

\* The fact an event turns into.
LEMMA EventFactType ==
  ASSUME NEW e \in Events
  PROVE  /\ EventFact(e) \in FactType /\ Sourced(e, EventFact(e))
         /\ EventFact(e).until = Open /\ EventFact(e).slot = SlotOf[e]
  BY EventsAssumption DEF EventFact, FactType, Slots, Sourced, Open

\* An applied event that is no fact yet takes its slot over, unless the author's lock it.
LEMMA Taking ==
  ASSUME NEW mem, Memory(mem), NEW e \in Events, mem.status[e] = "applied",
         e \notin DOMAIN mem.facts, NEW new, new = applyOne(mem, e), new.status[e] = "applied"
  PROVE  new.status = mem.status /\ TakenOver(mem.facts, e, EventFact(e), new.facts)
  <1>1. ~slotLockedByManualFact(mem.facts, e)
    <2>1. SUFFICES ASSUME slotLockedByManualFact(mem.facts, e) PROVE FALSE
      OBVIOUS
    <2>2. new.status = [mem.status EXCEPT ![e] = "pending"]
      BY <2>1, Applying
    <2> QED
      BY <2>2 DEF Memory
  <1>2. new.status = mem.status /\ new.facts = supersede(mem.facts, e, EventFact(e))
    BY <1>1, Applying
  <1> PICK fact : fact = EventFact(e)
    OBVIOUS
  <1> PICK fs : fs = mem.facts
    OBVIOUS
  <1>3. /\ fact \in FactType /\ Sourced(e, fact) /\ fact.until = Open /\ e \in FactIds
        /\ Ledger(fs) /\ e \notin DOMAIN fs
    BY EventFactType DEF FactIds, Memory
  <1>4. TakenOver(fs, e, fact, supersede(fs, e, fact))
    BY <1>3, Superseding
  <1> QED
    BY <1>2, <1>4

\* One event of the reading keeps what is true of the reduction so far.
LEMMA ReduceOne ==
  ASSUME NEW base, Memory(base), NEW r, NEW reducible, reducible \subseteq Events,
         reducible \cap DOMAIN base.facts = {},
         NEW mem, Reduced(base, r, reducible, mem),
         NEW e \in ToSet(r) \cap reducible
  PROVE  Reduced(base, r, reducible, applyOne(mem, e))
  <1> PICK new : new = applyOne(mem, e)
    OBVIOUS
  <1> SUFFICES Reduced(base, r, reducible, new)
    OBVIOUS
  <1>0. e \in Events /\ Memory(mem) /\ Ledger(mem.facts) /\ Ledger(base.facts)
    BY DEF Reduced, Memory
  <1>1. CASE mem.status[e] # "applied"
    BY <1>0, <1>1, Applying
  <1>2. CASE mem.status[e] = "applied" /\ slotLockedByManualFact(mem.facts, e)
    <2>1. /\ new = [status |-> new.status, facts |-> new.facts, machine |-> new.machine]
          /\ new.status = [mem.status EXCEPT ![e] = "pending"]
          /\ new.facts = mem.facts /\ new.machine = mem.machine
      BY <1>0, <1>2, Applying
    <2>2. e \notin mem.machine
      <3>1. SUFFICES ASSUME e \in mem.machine PROVE FALSE
        OBVIOUS
      <3>2. PICK d \in mem.machine : OpenIn(mem.facts, SlotOf[e]) = {d}
        BY <3>1 DEF Reduced
      <3>3. d \in Events /\ d \in DOMAIN mem.facts
        BY <3>2 DEF Reduced, Memory
      <3>4. mem.facts[d].manual = FALSE
        BY <1>0, <3>3 DEF Ledger, Sourced
      <3> QED
        BY <1>2, <3>2, <3>4 DEF slotLockedByManualFact
    <2>3. new.status \in [Events -> Status]
      BY <1>0, <2>1 DEF Memory, Status
    <2>4. \A d \in Events : d # e => new.status[d] = mem.status[d]
      BY <2>1, <1>0 DEF Memory
    <2>5. Memory(new)
      BY <2>1, <2>3, <1>0 DEF Memory
    <2>6. \A d \in mem.machine : d \in Events
      BY <1>0 DEF Memory
    <2>7. \A d \in Events \ (ToSet(r) \cap reducible) : new.status[d] = base.status[d]
      BY <2>4 DEF Reduced
    <2>8. \A d \in mem.machine : new.status[d] = "applied"
      BY <2>2, <2>4, <2>6 DEF Reduced
    <2>9. /\ DOMAIN new.facts = DOMAIN base.facts \cup new.machine
          /\ new.machine \subseteq ToSet(r) \cap reducible
          /\ \A f \in DOMAIN base.facts : Kept(new.facts[f], base.facts[f])
      BY <2>1 DEF Reduced
    <2>10. \A d \in new.machine :
             /\ new.status[d] = "applied"
             /\ \E x \in new.machine : OpenIn(new.facts, SlotOf[d]) = {x}
      BY <2>1, <2>8 DEF Reduced
    <2>11. \A s \in Slots :
             \/ OpenIn(new.facts, s) = OpenIn(base.facts, s)
             \/ /\ \E d \in new.machine : OpenIn(new.facts, s) = {d}
                /\ Confirmed(base.facts, s, r)
      BY <2>1 DEF Reduced
    <2> QED
      BY <2>5, <2>7, <2>9, <2>10, <2>11 DEF Reduced
  <1>3. CASE mem.status[e] = "applied" /\ ~slotLockedByManualFact(mem.facts, e)
    <2>1. CASE e \in DOMAIN mem.facts
      <3>1. e \in mem.machine
        BY <2>1 DEF Reduced
      <3>2. new = [status |-> mem.status, facts |-> mem.facts, machine |-> mem.machine \cup {e}]
        BY <1>0, <1>3, <2>1, Applying
      <3>3. mem.machine \cup {e} = mem.machine
        BY <3>1
      <3>4. new = mem
        BY <3>2, <3>3, <1>0 DEF Memory
      <3> QED
        BY <3>4
    <2>2. CASE e \notin DOMAIN mem.facts
      <3> PICK s : s = SlotOf[e]
        OBVIOUS
      <3>1. /\ new = [status |-> new.status, facts |-> new.facts, machine |-> new.machine]
            /\ new.status = mem.status
            /\ new.facts = supersede(mem.facts, e, EventFact(e))
            /\ new.machine = mem.machine \cup {e}
        BY <1>0, <1>3, <2>2, Applying
      <3>2. /\ Ledger(new.facts) /\ DOMAIN new.facts = DOMAIN mem.facts \cup {e}
            /\ \A f \in DOMAIN mem.facts : Kept(new.facts[f], mem.facts[f])
            /\ OpenIn(new.facts, s) = {e}
            /\ \A q : q # s => OpenIn(new.facts, q) = OpenIn(mem.facts, q)
        <4> PICK fact : fact = EventFact(e)
          OBVIOUS
        <4>1. /\ e \in FactIds /\ fact \in FactType /\ Sourced(e, fact)
              /\ fact.until = Open /\ fact.slot = s
          BY <1>0, EventFactType DEF FactIds
        <4> PICK fs : fs = mem.facts
          OBVIOUS
        <4>2. new.facts = supersede(fs, e, fact)
          BY <3>1
        <4>3. Ledger(fs) /\ e \notin DOMAIN fs
          BY <1>0, <2>2
        <4>4. TakenOver(fs, e, fact, new.facts)
          BY <4>1, <4>2, <4>3, Superseding
        <4> QED
          BY <4>1, <4>4 DEF TakenOver
      <3>3. Memory(new)
        BY <1>0, <3>1, <3>2 DEF Memory
      <3>4. \A f \in DOMAIN base.facts : Kept(new.facts[f], base.facts[f])
        BY <3>2 DEF Reduced, Kept
      <3>5. Confirmed(base.facts, s, r)
        <4>1. CASE OpenIn(mem.facts, s) = OpenIn(base.facts, s)
          <5>1. ASSUME NEW f \in OpenIn(base.facts, s), base.facts[f].manual
                PROVE  ValueOf[e] = base.facts[f].value
            <6>1. f \in DOMAIN base.facts /\ f \in OpenIn(mem.facts, s)
              BY <4>1, <5>1 DEF OpenIn
            <6>2. Kept(mem.facts[f], base.facts[f])
              BY <6>1 DEF Reduced
            <6>3. mem.facts[f].manual /\ mem.facts[f].value = base.facts[f].value
              BY <5>1, <6>2 DEF Kept
            <6> QED
              BY <1>3, <6>1, <6>3 DEF slotLockedByManualFact
          <5> QED
            BY <5>1 DEF Confirmed, Says
        <4>2. CASE OpenIn(mem.facts, s) # OpenIn(base.facts, s)
          <5>1. s \in Slots
            BY <1>0 DEF Slots
          <5> QED
            BY <4>2, <5>1 DEF Reduced
        <4> QED
          BY <4>1, <4>2
      <3>6. \A q \in Slots :
              \/ OpenIn(new.facts, q) = OpenIn(base.facts, q)
              \/ /\ \E d \in new.machine : OpenIn(new.facts, q) = {d}
                 /\ Confirmed(base.facts, q, r)
        <4> TAKE q \in Slots
        <4>1. CASE q = s
          BY <3>1, <3>2, <3>5, <4>1
        <4>2. CASE q # s
          <5>1. OpenIn(new.facts, q) = OpenIn(mem.facts, q)
            BY <3>2, <4>2
          <5> QED
            BY <3>1, <5>1 DEF Reduced
        <4> QED
          BY <4>1, <4>2
      <3>7. \A x \in new.machine :
              /\ new.status[x] = "applied"
              /\ \E d \in new.machine : OpenIn(new.facts, SlotOf[x]) = {d}
        <4> TAKE x \in new.machine
        <4>1. new.status[x] = "applied"
          BY <1>3, <3>1 DEF Reduced
        <4>2. \E d \in new.machine : OpenIn(new.facts, SlotOf[x]) = {d}
          <5>1. CASE SlotOf[x] = s
            BY <3>1, <3>2, <5>1
          <5>2. CASE SlotOf[x] # s
            <6>1. OpenIn(new.facts, SlotOf[x]) = OpenIn(mem.facts, SlotOf[x])
              BY <3>2, <5>2
            <6>2. x \in mem.machine
              BY <3>1, <5>2
            <6> QED
              BY <3>1, <6>1, <6>2 DEF Reduced
          <5> QED
            BY <5>1, <5>2
        <4> QED
          BY <4>1, <4>2
      <3>8. /\ DOMAIN new.facts = DOMAIN base.facts \cup new.machine
            /\ new.machine \subseteq ToSet(r) \cap reducible
            /\ \A x \in Events \ (ToSet(r) \cap reducible) : new.status[x] = base.status[x]
        BY <3>1, <3>2 DEF Reduced
      <3> QED
        BY <3>3, <3>4, <3>6, <3>7, <3>8 DEF Reduced
    <2> QED
      BY <2>1, <2>2
  <1> QED
    BY <1>1, <1>2, <1>3

\* A set of naturals that is not empty has a least element.
LEMMA LeastNat ==
  ASSUME NEW T, T \subseteq Nat, T # {}
  PROVE  \E x \in T : \A y \in T : x <= y
  <1> DEFINE R == {ss \in Nat \X Nat : ss[1] < ss[2]}
  <1>1. R = OpToRel(<, Nat)
    BY DEF OpToRel
  <1>2. IsWellFoundedOn(R, Nat)
    BY <1>1, NatLessThanWellFounded
  <1>3. PICK x \in T : \A y \in T : ~ (<<y, x>> \in R)
    <2> HIDE DEF R
    <2> QED
      BY <1>2, WFMin
  <1>4. ASSUME NEW y \in T
        PROVE  x <= y
    <2>1. x \in Nat /\ y \in Nat
      OBVIOUS
    <2>2. ~ (y < x)
      BY <1>3, <2>1
    <2> QED
      BY <2>1, <2>2
  <1> QED
    BY <1>4

\* One position of the reducer's walk over a reading.
StepAt(mem, r, reducible, g, i) ==
  IF i = 0 THEN mem
  ELSE IF r[i] \in reducible THEN applyOne(g[i - 1], r[i])
  ELSE g[i - 1]

Walk(mem, r, reducible, n, g) == g = [i \in 0..n |-> StepAt(mem, r, reducible, g, i)]

\* The walk is defined for every length.
LEMMA WalkExists ==
  ASSUME NEW mem, NEW r, NEW reducible, NEW n \in Nat
  PROVE  \E g : Walk(mem, r, reducible, n, g)
  <1> DEFINE T == {k \in Nat : ~ \E g : Walk(mem, r, reducible, k, g)}
  <1>1. SUFFICES ASSUME T # {} PROVE FALSE
    OBVIOUS
  <1>2. PICK k \in T : \A j \in T : k <= j
    <2>1. T \subseteq Nat
      OBVIOUS
    <2> HIDE DEF T
    <2> QED
      BY <1>1, <2>1, LeastNat
  <1>3. CASE k = 0
    <2> PICK g : g = [i \in 0..0 |-> mem]
      OBVIOUS
    <2>1. Walk(mem, r, reducible, 0, g)
      BY DEF Walk, StepAt
    <2> QED
      BY <1>3, <2>1
  <1>4. CASE k # 0
    <2>1. k \in Nat /\ k - 1 \in Nat /\ k - 1 \notin T
      BY <1>2, <1>4
    <2>2. PICK h : Walk(mem, r, reducible, k - 1, h)
      BY <2>1
    <2> PICK g : g = [i \in 0..k |-> IF i = k THEN StepAt(mem, r, reducible, h, k) ELSE h[i]]
      OBVIOUS
    <2>3. ASSUME NEW i \in 0..k
          PROVE  g[i] = StepAt(mem, r, reducible, g, i)
      <3>1. i # 0 => i - 1 \in 0..(k - 1) /\ g[i - 1] = h[i - 1]
        BY <2>1
      <3>2. StepAt(mem, r, reducible, g, i) = StepAt(mem, r, reducible, h, i)
        BY <3>1 DEF StepAt
      <3>3. i # k => i \in 0..(k - 1)
        BY <2>1
      <3>4. i # k => h[i] = StepAt(mem, r, reducible, h, i)
        BY <2>2, <3>3 DEF Walk
      <3> QED
        BY <3>2, <3>4
    <2>4. Walk(mem, r, reducible, k, g)
      BY <2>3 DEF Walk
    <2> QED
      BY <2>4
  <1> QED
    BY <1>3, <1>4

\* The reducer's answer is the last position of such a walk.
LEMMA WalkOf ==
  ASSUME NEW mem, NEW r, NEW reducible, Len(r) \in Nat
  PROVE  \E g : /\ Walk(mem, r, reducible, Len(r), g)
               /\ applyNarrativeEvents(mem, r, reducible) = g[Len(r)]
  <1> DEFINE A == CHOOSE g : g = [i \in 0..Len(r) |->
                                   IF i = 0 THEN mem
                                   ELSE IF r[i] \in reducible THEN applyOne(g[i - 1], r[i])
                                   ELSE g[i - 1]]
  <1>1. \E g : g = [i \in 0..Len(r) |->
                     IF i = 0 THEN mem
                     ELSE IF r[i] \in reducible THEN applyOne(g[i - 1], r[i])
                     ELSE g[i - 1]]
    <2>1. PICK g : Walk(mem, r, reducible, Len(r), g)
      BY WalkExists
    <2>2. g = [i \in 0..Len(r) |->
                 IF i = 0 THEN mem
                 ELSE IF r[i] \in reducible THEN applyOne(g[i - 1], r[i])
                 ELSE g[i - 1]]
      BY <2>1 DEF Walk, StepAt
    <2> QED
      BY <2>2
  <1>2. A = [i \in 0..Len(r) |->
               IF i = 0 THEN mem
               ELSE IF r[i] \in reducible THEN applyOne(A[i - 1], r[i])
               ELSE A[i - 1]]
    BY <1>1
  <1>3. applyNarrativeEvents(mem, r, reducible) = A[Len(r)]
    BY DEF applyNarrativeEvents
  <1>4. Walk(mem, r, reducible, Len(r), A)
    <2> HIDE DEF A
    <2> QED
      BY <1>2 DEF Walk, StepAt
  <1> QED
    BY <1>3, <1>4

\* The reducer takes a reading as a whole as it takes one event.
LEMMA Reduction ==
  ASSUME NEW base, Memory(base), NEW r \in Seq(Events), NEW reducible,
         reducible \subseteq Events, reducible \cap DOMAIN base.facts = {},
         Reduced(base, r, reducible, base)
  PROVE  Reduced(base, r, reducible, applyNarrativeEvents(base, r, reducible))
  <1>0. Len(r) \in Nat
    OBVIOUS
  <1> PICK n \in Nat : n = Len(r)
    BY <1>0
  <1>1. PICK g : /\ Walk(base, r, reducible, n, g)
                 /\ applyNarrativeEvents(base, r, reducible) = g[n]
    BY WalkOf
  <1> DEFINE T == {i \in 0..n : ~ Reduced(base, r, reducible, g[i])}
  <1>2. SUFFICES ASSUME T # {} PROVE FALSE
    BY <1>1
  <1>3. PICK i \in T : \A j \in T : i <= j
    <2>1. T \subseteq Nat
      OBVIOUS
    <2> HIDE DEF T
    <2> QED
      BY <1>2, <2>1, LeastNat
  <1>4. g[i] = StepAt(base, r, reducible, g, i)
    BY <1>1 DEF Walk
  <1>5. i # 0
    BY <1>3, <1>4 DEF StepAt
  <1>6. Reduced(base, r, reducible, g[i - 1])
    BY <1>3, <1>5
  <1>7. r[i] \in ToSet(r)
    BY <1>5 DEF ToSet
  <1>8. CASE r[i] \in reducible
    <2>1. g[i] = applyOne(g[i - 1], r[i])
      BY <1>4, <1>5, <1>8 DEF StepAt
    <2> PICK mem : mem = g[i - 1]
      OBVIOUS
    <2>2. Reduced(base, r, reducible, applyOne(mem, r[i]))
      BY <1>6, <1>7, <1>8, ReduceOne
    <2> QED
      BY <1>3, <2>1, <2>2
  <1>9. CASE r[i] \notin reducible
    BY <1>3, <1>4, <1>5, <1>6, <1>9 DEF StepAt
  <1> QED
    BY <1>8, <1>9

-----------------------------------------------------------------------------
(* Retiring. *)

\* Facts fs after those that are gone have been retired: the other open facts are as they
\* were, and a closed one is open again only where every open fact of its slot is gone.
RetiredTo(fs, gone, new) ==
  /\ Ledger(new) /\ DOMAIN new = DOMAIN fs
  /\ \A f \in DOMAIN fs :
       /\ Kept(new[f], fs[f])
       /\ f \in gone => new[f].until # Open
       /\ f \notin gone /\ fs[f].until = Open => new[f].until = Open
       /\ fs[f].until # Open /\ new[f].until = Open => OpenIn(fs, fs[f].slot) \subseteq gone

\* That is what retireStaleMachineFacts does.
LEMMA Retiring ==
  ASSUME NEW fs, Ledger(fs), NEW status, NEW stale, NEW machine, NEW c \in Chapters
  PROVE  \E gone \in SUBSET (stale \cap machine) :
           RetiredTo(fs, gone, retireStaleMachineFacts(fs, status, stale, machine, c))
  <1> DEFINE out == {e \in stale \cap machine \cap DOMAIN fs :
                       fs[e].until = Open /\ status[e] = "applied"}
             again(left) ==
               {f \in DOMAIN left \ stale :
                 /\ OpenIn(left, left[f].slot) = {}
                 /\ \E g \in out : /\ g # f
                                  /\ left[g].slot = left[f].slot
                                  /\ left[f].until = left[g].from
                 /\ left[f].until >= left[f].from
                 /\ ~Corrected(left, f)}
  <1> PICK gone : gone = out
    OBVIOUS
  <1> PICK left : left = CloseAt(fs, gone, c - 1)
    OBVIOUS
  <1> PICK back : back = again(left)
    OBVIOUS
  <1> PICK new : new = CloseAt(left, back, Open)
    OBVIOUS
  <1>1. new = retireStaleMachineFacts(fs, status, stale, machine, c)
    BY DEF retireStaleMachineFacts, ReopenAll
  <1>2. /\ gone \subseteq stale \cap machine
        /\ back \cap stale = {} /\ back \subseteq DOMAIN left
        /\ \A f \in back : OpenIn(left, left[f].slot) = {}
    OBVIOUS
  <1> HIDE DEF out, again
  <1>3. c - 1 \in Ends /\ c - 1 # Open /\ Open \in Ends
    BY ChaptersAssumption DEF Ends, Open
  <1>4. /\ Ledger(left) /\ DOMAIN left = DOMAIN fs
        /\ \A f \in DOMAIN fs : /\ Kept(left[f], fs[f])
                                /\ f \in gone => left[f].until = c - 1
                                /\ f \notin gone => left[f] = fs[f]
    BY <1>3, Closing DEF Closed
  <1>5. /\ Ledger(new) /\ DOMAIN new = DOMAIN left
        /\ \A f \in DOMAIN left : /\ Kept(new[f], left[f])
                                  /\ f \in back => new[f].until = Open
                                  /\ f \notin back => new[f] = left[f]
    <2>1. Closed(left, back, Open, new)
      BY <1>3, <1>4, Closing
    <2> QED
      BY <2>1 DEF Closed
  <1>6. ASSUME NEW f \in DOMAIN fs
        PROVE  /\ Kept(new[f], fs[f])
               /\ f \in gone => new[f].until # Open
               /\ f \notin gone /\ fs[f].until = Open => new[f].until = Open
               /\ fs[f].until # Open /\ new[f].until = Open =>
                    OpenIn(fs, fs[f].slot) \subseteq gone
    <2>1. Kept(new[f], fs[f])
      BY <1>4, <1>5 DEF Kept
    <2>2. f \in gone => new[f].until # Open
      BY <1>2, <1>3, <1>4, <1>5
    <2>3. f \notin gone /\ fs[f].until = Open => new[f].until = Open
      BY <1>4, <1>5
    <2>4. ASSUME fs[f].until # Open, new[f].until = Open, NEW g \in OpenIn(fs, fs[f].slot)
          PROVE  g \in gone
      <3>1. SUFFICES ASSUME g \notin gone PROVE FALSE
        OBVIOUS
      <3>2. f \in back
        BY <2>2, <2>4, <1>4, <1>5
      <3>3. left[f].slot = fs[f].slot
        BY <1>4 DEF Kept
      <3>4. g \in DOMAIN fs /\ fs[g].slot = fs[f].slot /\ fs[g].until = Open
        BY <2>4 DEF OpenIn
      <3>5. g \in OpenIn(left, left[f].slot)
        BY <3>1, <3>3, <3>4, <1>4 DEF OpenIn
      <3> QED
        BY <3>2, <3>5, <1>2
    <2> QED
      BY <2>1, <2>2, <2>3, <2>4
  <1>7. RetiredTo(fs, gone, new)
    BY <1>4, <1>5, <1>6 DEF RetiredTo
  <1> QED
    BY <1>1, <1>2, <1>7

-----------------------------------------------------------------------------
(* The inductive invariants. *)

\* A settlement on record names the text it was made from.
RecordOK(x) == x \in RecordType /\ (x = NoRecord \/ x.version \in Versions)

\* A settlement in progress works on a text of its chapter.
WorkOK(w) ==
  /\ w \in WorkType
  /\ w # Idle => w.version \in VersionsOf[w.chapter]
  /\ w.phase = "extracting" => RecordOK(w.record)

TypeInv ==
  /\ text \in [Chapters -> Versions \cup {0}]
  /\ \A c \in Chapters : text[c] # 0 => text[c] \in VersionsOf[c]
  /\ events \in [Events -> Status]
  /\ Ledger(facts)
  /\ ledger \in [Chapters -> RecordType]
  /\ \A c \in Chapters : RecordOK(ledger[c])
  /\ artifacts \in [Chapters -> [Versions -> SUBSET Events]]
  /\ work \in [Tasks -> WorkType]
  /\ \A t \in Tasks : WorkOK(work[t])
  /\ discarding \subseteq Chapters
  /\ verdict \in [Events -> {"none", "approved", "rejected"}]
  /\ IsFiniteSet(deltas)
  /\ revision = Cardinality(deltas)

\* Only an applied event is a fact; the author's verdict stands in the events; what the
\* machine has on its list it applied itself, to events of that chapter.
DecisionInv ==
  /\ \A e \in Events \cap DOMAIN facts : events[e] = "applied"
  /\ \A e \in Events : /\ verdict[e] = "rejected" => events[e] = "rejected"
                       /\ verdict[e] = "approved" => events[e] = "applied"
  /\ \A c \in Chapters, v \in Versions : \A e \in artifacts[c][v] :
       ChapterOf[e] = c /\ events[e] = "applied" /\ verdict[e] # "approved"

\* A chapter that has left no event, no fact and no record.
Forgotten(c) ==
  /\ \A e \in Events : ChapterOf[e] = c => events[e] = "none"
  /\ \A f \in DOMAIN facts : facts[f].source # c
  /\ ledger[c] = NoRecord

\* With one session at a time, nobody settles a chapter that is gone or going, and such a
\* chapter is forgotten.
DiscardInv ==
  /\ \A t \in Tasks : work[t] # Idle =>
       text[work[t].chapter] # 0 /\ work[t].chapter \notin discarding
  /\ \A c \in Chapters : text[c] = 0 \/ c \in discarding => Forgotten(c)

\* The texts and the records of a settlement in progress.
LEMMA WorkFields ==
  ASSUME NEW w, WorkOK(w)
  PROVE  /\ w # Idle => w.chapter \in Chapters /\ w.version \in Versions
         /\ w.phase \in {"read", "extracting"} => w # Idle
         /\ w.phase = "extracting" => RecordOK(w.record)
         /\ w = Idle \/ w.phase \in {"read", "extracting"}
  BY DEF WorkOK, WorkType, Idle

-----------------------------------------------------------------------------
(* Settling. *)

\* What the reducer starts from, which events it may take up, and what it answers.
Before(r) == [status |-> persistSettlementEvents(r), facts |-> facts, machine |-> {}]

Reducible == {e \in Events : events[e] \notin {"applied", "rejected"}}

After(r) == applyNarrativeEvents(Before(r), r, Reducible)

\* Registering a reading gives a status to what had none and was read, and to nothing else.
LEMMA Persisting ==
  ASSUME TypeInv, NEW r
  PROVE  /\ persistSettlementEvents(r) \in [Events -> Status]
         /\ \A e \in Events :
              events[e] # "none" \/ e \notin ToSet(r) => persistSettlementEvents(r)[e] = events[e]
  BY DEF TypeInv, persistSettlementEvents, Status

\* The reading of a settlement is reduced as Reduced says.
LEMMA SettlementReduces ==
  ASSUME TypeInv, DecisionInv, NEW r \in Seq(Events)
  PROVE  Reduced(Before(r), r, Reducible, After(r))
  <1> PICK base : base = Before(r)
    OBVIOUS
  <1> PICK reducible : reducible = Reducible
    OBVIOUS
  <1>1. /\ base = [status |-> base.status, facts |-> base.facts, machine |-> base.machine]
        /\ base.status = persistSettlementEvents(r) /\ base.facts = facts /\ base.machine = {}
    BY DEF Before
  <1>2. Memory(base)
    BY <1>1, Persisting DEF Memory, TypeInv
  <1>3. reducible \subseteq Events /\ reducible \cap DOMAIN base.facts = {}
    BY <1>1 DEF Reducible, DecisionInv
  <1>4. Reduced(base, r, reducible, base)
    BY <1>1, <1>2 DEF Reduced, Kept
  <1> QED
    BY <1>2, <1>3, <1>4, Reduction DEF After

\* What settling chapter c from text v makes of the memory, with what is gone of the old
\* text's facts.
Settled(c, v, r, previous, gone) ==
  LET mem == After(r)
  IN  /\ events' = mem.status
      /\ RetiredTo(mem.facts, gone, facts')
      /\ artifacts' = [artifacts EXCEPT ![c][v] = machineAppliedEventIds(mem, previous, r)]

\* The transaction of a settlement, in these terms.
LEMMA Settling ==
  ASSUME TypeInv, DecisionInv, NEW t \in Tasks, NEW r, settle(t, r)
  PROVE  \E c \in Chapters, v \in Versions, previous, gone \in SUBSET Events :
           /\ c = work[t].chapter /\ v = work[t].version
           /\ r \in Seq({e \in Events : ChapterOf[e] = c})
           /\ gone \subseteq previous /\ gone \cap ToSet(r) = {}
           /\ previous = {} \/ \E q \in Versions : previous = artifacts[c][q]
           /\ Settled(c, v, r, previous, gone)
  <1> PICK w : w = work[t]
    OBVIOUS
  <1> PICK c : c = w.chapter
    OBVIOUS
  <1> PICK v : v = w.version
    OBVIOUS
  <1> PICK mem : mem = After(r)
    OBVIOUS
  <1> PICK stale : stale = w.record.events \ ToSet(r)
    OBVIOUS
  <1> PICK previous : previous = IF w.record = NoRecord THEN {}
                                 ELSE artifacts[c][w.record.version]
    OBVIOUS
  <1>1. /\ w.phase = "extracting" /\ r \in Readings[c][v]
        /\ events' = mem.status
        /\ facts' = retireStaleMachineFacts(mem.facts, mem.status, stale, previous, c)
        /\ artifacts' = [artifacts EXCEPT ![c][v] = machineAppliedEventIds(mem, previous, r)]
    BY DEF settle, After, Before, Reducible
  <1>2. WorkOK(w)
    BY DEF TypeInv
  <1>3. w # Idle /\ c \in Chapters /\ v \in Versions /\ v \in VersionsOf[c] /\ RecordOK(w.record)
    BY <1>1, <1>2, WorkFields DEF WorkOK
  <1>4. r \in Seq({e \in Events : ChapterOf[e] = c})
    BY <1>1, <1>3, ReadingsAssumption
  <1>5. previous = {} \/ \E q \in Versions : previous = artifacts[c][q]
    BY <1>3 DEF RecordOK
  <1>6. Ledger(mem.facts)
    <2>1. r \in Seq(Events)
      BY <1>4
    <2> QED
      BY <2>1, SettlementReduces DEF Reduced, Memory
  <1>7. PICK gone \in SUBSET (stale \cap previous) : RetiredTo(mem.facts, gone, facts')
    <2> PICK fs : fs = mem.facts
      OBVIOUS
    <2> PICK st : st = mem.status
      OBVIOUS
    <2>1. c \in Chapters /\ Ledger(fs)
      BY <1>3, <1>6
    <2>2. \E gone \in SUBSET (stale \cap previous) :
            RetiredTo(fs, gone, retireStaleMachineFacts(fs, st, stale, previous, c))
      BY <2>1, Retiring
    <2> QED
      BY <1>1, <2>2
  <1>8. Settled(c, v, r, previous, gone)
    BY <1>1, <1>7 DEF Settled
  <1>9. gone \subseteq previous /\ gone \cap ToSet(r) = {}
    BY <1>7
  <1>10. previous \in SUBSET Events /\ gone \in SUBSET Events
    BY <1>3, <1>5, <1>9 DEF TypeInv
  <1> QED
    BY <1>3, <1>4, <1>5, <1>8, <1>9, <1>10

\* What a settlement makes of a slot: one fact just read, or what stood there without what
\* is gone, or, when all of that is gone, facts that had been closed.
LEMMA SettledSlots ==
  ASSUME TypeInv, DecisionInv, NEW c, NEW v, NEW r \in Seq(Events), NEW previous, NEW gone,
         gone \cap ToSet(r) = {}, Settled(c, v, r, previous, gone), NEW s \in Slots
  PROVE  \/ /\ \E d \in ToSet(r) : OpenIn(facts', s) = {d}
            /\ Confirmed(facts, s, r)
         \/ OpenIn(facts', s) = OpenIn(facts, s) \ gone
         \/ /\ OpenIn(facts, s) \subseteq gone
            /\ OpenIn(facts', s) \subseteq DOMAIN facts \ OpenIn(facts, s)
  <1> PICK mem : mem = After(r)
    OBVIOUS
  <1> PICK mid : mid = OpenIn(mem.facts, s)
    OBVIOUS
  <1> PICK new : new = facts'
    OBVIOUS
  <1>1. /\ DOMAIN mem.facts = DOMAIN facts \cup mem.machine
        /\ mem.machine \subseteq ToSet(r) /\ mem.machine \subseteq Events
        /\ Ledger(mem.facts)
        /\ \A e \in mem.machine : \E d \in mem.machine : OpenIn(mem.facts, SlotOf[e]) = {d}
        /\ \/ mid = OpenIn(facts, s)
           \/ /\ \E d \in mem.machine : mid = {d}
              /\ Confirmed(facts, s, r)
    <2>1. Reduced(Before(r), r, Reducible, mem)
      BY SettlementReduces
    <2>2. Before(r).facts = facts
      BY DEF Before
    <2> QED
      BY <2>1, <2>2 DEF Reduced, Memory
  <1>2. /\ DOMAIN new = DOMAIN mem.facts
        /\ \A f \in DOMAIN mem.facts :
             /\ new[f].slot = mem.facts[f].slot
             /\ f \in gone => new[f].until # Open
             /\ f \notin gone /\ mem.facts[f].until = Open => new[f].until = Open
             /\ mem.facts[f].until # Open /\ new[f].until = Open =>
                  OpenIn(mem.facts, mem.facts[f].slot) \subseteq gone
    BY DEF Settled, RetiredTo, Kept
  <1>3. mid \ gone \subseteq OpenIn(new, s)
    BY <1>2 DEF OpenIn
  <1>4. CASE mid \subseteq gone
    <2>1. mid = OpenIn(facts, s)
      BY <1>1, <1>4
    <2>2. ASSUME NEW f \in OpenIn(new, s)
          PROVE  f \in DOMAIN facts \ OpenIn(facts, s)
      <3>1. f \in DOMAIN mem.facts /\ mem.facts[f].slot = s /\ new[f].until = Open
        BY <2>2, <1>2 DEF OpenIn
      <3>2. f \notin mid
        BY <3>1, <1>2, <1>4
      <3>3. f \notin mem.machine
        <4>1. SUFFICES ASSUME f \in mem.machine PROVE FALSE
          OBVIOUS
        <4>2. mem.facts[f].slot = SlotOf[f]
          BY <1>1, <3>1, <4>1 DEF Ledger, Sourced
        <4>3. PICK d \in mem.machine : mid = {d}
          BY <1>1, <3>1, <4>1, <4>2
        <4> QED
          BY <1>1, <1>4, <4>3
      <3> QED
        BY <1>1, <2>1, <3>1, <3>2, <3>3
    <2> QED
      BY <1>4, <2>1, <2>2
  <1>5. CASE ~ (mid \subseteq gone)
    <2>1. OpenIn(new, s) = mid \ gone
      BY <1>2, <1>3, <1>5 DEF OpenIn
    <2>2. CASE mid = OpenIn(facts, s)
      BY <2>1, <2>2
    <2>3. CASE \E d \in mem.machine : mid = {d} /\ Confirmed(facts, s, r)
      BY <1>1, <2>1, <2>3
    <2> QED
      BY <1>1, <2>2, <2>3
  <1> QED
    BY <1>4, <1>5

-----------------------------------------------------------------------------
(* What the author and discarding do to the facts. *)

\* A finite set of naturals that is not empty has a greatest element.
LEMMA GreatestNat ==
  ASSUME NEW S, S \subseteq Nat, S # {}, IsFiniteSet(S)
  PROVE  Max(S) \in S
  <1> DEFINE Bad(Q) == Q \subseteq Nat /\ Q # {} /\ IsFiniteSet(Q)
                       /\ ~ \E x \in Q : \A y \in Q : y <= x
             T == {n \in Nat : \E Q : Bad(Q) /\ Cardinality(Q) = n}
  <1>1. \E x \in S : \A y \in S : y <= x
    <2>1. SUFFICES ASSUME Bad(S) PROVE FALSE
      OBVIOUS
    <2>2. Cardinality(S) \in T
      BY <2>1, FS_CardinalityType
    <2>3. PICK n \in T : \A k \in T : n <= k
      <3>1. T \subseteq Nat /\ T # {}
        BY <2>2
      <3> HIDE DEF T
      <3> QED
        BY <3>1, LeastNat
    <2>4. PICK Q : Bad(Q) /\ Cardinality(Q) = n
      BY <2>3
    <2>5. PICK x : x \in Q
      BY <2>4
    <2> PICK R : R = Q \ {x}
      OBVIOUS
    <2>6. R \subseteq Nat /\ IsFiniteSet(R) /\ Cardinality(R) = n - 1 /\ n \in Nat
      BY <2>3, <2>4, <2>5, FS_RemoveElement
    <2>7. Cardinality(R) \in Nat
      BY <2>6, FS_CardinalityType
    <2>8. ~ Bad(R)
      <3>1. SUFFICES ASSUME Bad(R) PROVE FALSE
        OBVIOUS
      <3>2. n - 1 \in T
        BY <3>1, <2>6, <2>7
      <3> HIDE DEF T
      <3> QED
        BY <3>2, <2>3, <2>6
    <2>9. CASE R = {}
      <3>1. \A y \in Q : y = x
        BY <2>9
      <3> QED
        BY <3>1, <2>4, <2>5
    <2>10. CASE R # {}
      <3>1. PICK z \in R : \A y \in R : y <= z
        BY <2>6, <2>8, <2>10
      <3>2. z \in Nat /\ x \in Nat /\ z \in Q
        BY <3>1, <2>4, <2>5, <2>6
      <3>3. CASE x <= z
        <4>1. \A y \in Q : y <= z
          BY <3>1, <3>3
        <4> QED
          BY <3>2, <4>1, <2>4
      <3>4. CASE z <= x
        <4>1. \A y \in Q : y <= x
          <5> TAKE y \in Q
          <5>1. y = x \/ y \in R
            OBVIOUS
          <5>2. y \in Nat
            BY <2>4
          <5> QED
            BY <3>1, <3>2, <3>4, <5>1, <5>2
        <4> QED
          BY <2>5, <4>1, <2>4
      <3> QED
        BY <3>2, <3>3, <3>4
    <2> QED
      BY <2>9, <2>10
  <1> HIDE DEF Bad, T
  <1>2. \E x \in S : \A y \in S : x >= y
    BY <1>1
  <1> QED
    BY <1>2 DEF Max

\* The chapter the author's facts are dated with.
LEMMA LatestChapterType ==
  ASSUME Ledger(facts)
  PROVE  /\ latestChapter \in Chapters \cup {0}
         /\ latestChapter \in Ends /\ latestChapter # Open
  <1> DEFINE from == {facts[f].from : f \in DOMAIN facts}
  <1>1. IsFiniteSet(from)
    <2> PICK h : h = [f \in DOMAIN facts |-> facts[f].from]
      OBVIOUS
    <2>1. h \in Surjection(DOMAIN facts, from)
      BY DEF Surjection
    <2> QED
      BY <2>1, FS_Surjection DEF Ledger
  <1>2. from \subseteq Chapters \cup {0}
    BY DEF Ledger, FactType
  <1> HIDE DEF from
  <1>3. {0} \cup from \subseteq Nat /\ IsFiniteSet({0} \cup from)
    BY <1>1, <1>2, ChaptersAssumption, FS_AddElement
  <1>4. Max({0} \cup from) \in {0} \cup from
    BY <1>3, GreatestNat
  <1>5. latestChapter = Max({0} \cup from)
    BY DEF latestChapter, from
  <1>6. latestChapter \in Chapters \cup {0}
    BY <1>2, <1>4, <1>5
  <1>7. latestChapter # Open
    BY <1>6, ChaptersAssumption DEF Open
  <1> QED
    BY <1>6, <1>7 DEF Ends

\* The facts after a change that adds those in added.
Carried(fs, added, new) ==
  /\ Ledger(new) /\ DOMAIN new = DOMAIN fs \cup added
  /\ \A f \in DOMAIN fs : Kept(new[f], fs[f])

\* What the reducer is given when event e is approved.
Approved(e) == [status |-> [events EXCEPT ![e] = "applied"], facts |-> facts, machine |-> {}]

\* Approving an event makes it a fact, alone in its slot.
LEMMA Approving ==
  ASSUME TypeInv, DecisionInv, NEW e \in Events, approve(e)
  PROVE  /\ events' = [events EXCEPT ![e] = "applied"]
         /\ Carried(facts, {e}, facts') /\ facts'[e] = EventFact(e)
         /\ \A s : OpenIn(facts', s) = OpenIn(facts, s) \/ OpenIn(facts', s) = {e}
  <1> PICK st : st = [events EXCEPT ![e] = "applied"]
    OBVIOUS
  <1> PICK base : base = Approved(e)
    OBVIOUS
  <1> PICK mem : mem = applyOne(base, e)
    OBVIOUS
  <1> PICK fact : fact = EventFact(e)
    OBVIOUS
  <1>1. /\ events[e] = "pending" /\ mem.status[e] = "applied"
        /\ events' = mem.status /\ facts' = mem.facts
    BY DEF approve, Approved
  <1>2. st \in [Events -> Status] /\ st[e] = "applied"
    BY DEF TypeInv, Status
  <1>3. Memory(base) /\ base.status = st /\ base.facts = facts /\ base.machine = {}
    BY <1>2 DEF Memory, TypeInv, Approved
  <1>4. e \notin DOMAIN facts
    BY <1>1 DEF DecisionInv
  <1>5. mem.status = base.status /\ TakenOver(base.facts, e, fact, mem.facts)
    BY <1>1, <1>2, <1>3, <1>4, Taking
  <1> PICK new : new = facts'
    OBVIOUS
  <1>6. events' = st /\ TakenOver(facts, e, fact, new)
    BY <1>1, <1>3, <1>5
  <1>7. \A s : OpenIn(new, s) = OpenIn(facts, s) \/ OpenIn(new, s) = {e}
    BY <1>6 DEF TakenOver
  <1> QED
    BY <1>6, <1>7 DEF Carried, TakenOver

\* What the author writes stands alone in its slot and belongs to no chapter.
LEMMA Creating ==
  ASSUME Ledger(facts), NEW m \in Manuals, NEW w \in AuthorWrites, createManual(m, w[1], w[2])
  PROVE  /\ Carried(facts, {m}, facts') /\ facts'[m].source = 0
         /\ \A s : OpenIn(facts', s) = OpenIn(facts, s) \/ OpenIn(facts', s) = {m}
  <1> PICK fact : fact = [slot |-> w[1], value |-> w[2], manual |-> TRUE,
                          from |-> latestChapter, until |-> Open, source |-> 0,
                          corrects |-> Nothing]
    OBVIOUS
  <1>1. m \notin DOMAIN facts /\ facts' = supersede(facts, m, fact)
    BY DEF createManual
  <1>2. /\ w[1] \in Slots
        /\ w[2] \in {ValueOf[e] : e \in Events} \cup {x[2] : x \in AuthorWrites}
    BY DEF Slots
  <1>3. fact \in FactType
    BY <1>2, LatestChapterType DEF FactType
  <1>4. /\ Sourced(m, fact) /\ m \in FactIds /\ fact.until = Open /\ fact.source = 0
    BY EventsAssumption DEF Sourced, FactIds
  <1>5. TakenOver(facts, m, fact, supersede(facts, m, fact))
    BY <1>1, <1>3, <1>4, Superseding
  <1> PICK new : new = facts'
    OBVIOUS
  <1>6. TakenOver(facts, m, fact, new)
    BY <1>1, <1>5
  <1>7. \A s : OpenIn(new, s) = OpenIn(facts, s) \/ OpenIn(new, s) = {m}
    BY <1>6 DEF TakenOver
  <1> QED
    BY <1>4, <1>6, <1>7 DEF Carried, TakenOver

\* A correction takes the place of the fact it corrects.
LEMMA Correcting ==
  ASSUME Ledger(facts), NEW m \in Manuals, NEW f, NEW v, correct(m, f, v)
  PROVE  /\ f \in DOMAIN facts /\ m \notin DOMAIN facts
         /\ Carried(facts, {m}, facts') /\ facts'[m].source = facts[f].source
         /\ \A s : \/ OpenIn(facts', s) = OpenIn(facts, s)
                   \/ /\ f \in OpenIn(facts, s)
                      /\ OpenIn(facts', s) = (OpenIn(facts, s) \ {f}) \cup {m}
  <1> PICK x : x = facts[f]
    OBVIOUS
  <1> PICK n : n = latestChapter
    OBVIOUS
  <1> PICK fact : fact = [x EXCEPT !.value = v, !.manual = TRUE, !.from = n, !.corrects = f]
    OBVIOUS
  <1> PICK mid : mid = CloseAt(facts, {f}, n)
    OBVIOUS
  <1>1. /\ m \notin DOMAIN facts /\ f \in DOMAIN facts /\ x.until = Open
        /\ <<x.slot, v>> \in AuthorWrites
        /\ facts' = upsertNarrativeFact(mid, m, fact)
    BY DEF correct
  <1>2. n \in Chapters \cup {0} /\ n \in Ends /\ n # Open
    BY LatestChapterType
  <1>3. x \in FactType /\ f \in FactIds
    BY <1>1 DEF Ledger
  <1>4. v \in {ValueOf[e] : e \in Events} \cup {w[2] : w \in AuthorWrites}
    <2>1. v = <<x.slot, v>>[2]
      OBVIOUS
    <2> QED
      BY <1>1, <2>1
  <1>5. /\ fact \in FactType /\ fact.slot = x.slot /\ fact.value = v /\ fact.manual = TRUE
        /\ fact.until = Open /\ fact.source = x.source
    BY <1>1, <1>2, <1>3, <1>4 DEF FactType
  <1>6. Sourced(m, fact) /\ m \in FactIds
    <2>1. <<x.slot, v>>[1] = fact.slot /\ <<x.slot, v>>[2] = fact.value
      BY <1>5
    <2> QED
      BY <1>1, <1>5, <2>1, EventsAssumption DEF Sourced, FactIds
  <1>7. /\ Ledger(mid) /\ DOMAIN mid = DOMAIN facts
        /\ \A g \in DOMAIN facts : /\ Kept(mid[g], facts[g])
                                   /\ g \in {f} => mid[g].until = n
                                   /\ g \notin {f} => mid[g] = facts[g]
    <2>1. Closed(facts, {f}, n, mid)
      BY <1>2, Closing
    <2> QED
      BY <2>1 DEF Closed
  <1>8. Written(mid, m, fact, facts')
    <2>1. m \notin DOMAIN mid
      BY <1>1, <1>7
    <2>2. Written(mid, m, fact, upsertNarrativeFact(mid, m, fact))
      BY <1>5, <1>6, <1>7, <2>1, Writing
    <2> QED
      BY <1>1, <2>2
  <1> PICK new : new = facts'
    OBVIOUS
  <1>9. /\ Ledger(new) /\ DOMAIN new = DOMAIN facts \cup {m} /\ new[m] = fact
        /\ \A g \in DOMAIN facts : Kept(new[g], facts[g]) /\ (g # f => new[g] = facts[g])
        /\ new[f].until # Open
    BY <1>1, <1>2, <1>7, <1>8 DEF Written
  <1>10. ASSUME NEW s
         PROVE  \/ OpenIn(new, s) = OpenIn(facts, s)
                \/ /\ f \in OpenIn(facts, s)
                   /\ OpenIn(new, s) = (OpenIn(facts, s) \ {f}) \cup {m}
    <2>1. CASE s = x.slot
      <3>1. f \in OpenIn(facts, s)
        BY <1>1, <2>1 DEF OpenIn
      <3>2. new[m].slot = s /\ new[m].until = Open
        BY <1>5, <1>9, <2>1
      <3>3. \A g \in DOMAIN facts : g # f => new[g] = facts[g]
        BY <1>9
      <3>4. OpenIn(new, s) = (OpenIn(facts, s) \ {f}) \cup {m}
        BY <1>1, <1>9, <3>2, <3>3 DEF OpenIn
      <3> QED
        BY <3>1, <3>4
    <2>2. CASE s # x.slot
      <3>1. new[f].slot # s /\ facts[f].slot # s /\ new[m].slot # s
        <4>1. Kept(new[f], facts[f]) /\ new[m] = fact
          BY <1>1, <1>9
        <4>2. facts[f].slot = x.slot /\ fact.slot = x.slot
          BY <1>5
        <4> QED
          BY <2>2, <4>1, <4>2 DEF Kept
      <3>2. \A g \in DOMAIN facts : g # f => new[g] = facts[g]
        BY <1>9
      <3> QED
        BY <1>9, <3>1, <3>2 DEF OpenIn
    <2> QED
      BY <2>1, <2>2
  <1> QED
    BY <1>1, <1>5, <1>9, <1>10 DEF Carried

\* Retiring a fact leaves the others.
LEMMA RetiringOne ==
  ASSUME Ledger(facts), NEW f, retire(f)
  PROVE  /\ Carried(facts, {}, facts')
         /\ \A s : OpenIn(facts', s) \subseteq OpenIn(facts, s)
  <1> PICK n : n = latestChapter
    OBVIOUS
  <1> PICK new : new = facts'
    OBVIOUS
  <1>1. new = CloseAt(facts, {f}, n)
    BY DEF retire
  <1>2. n \in Ends /\ n # Open
    BY LatestChapterType
  <1>3. /\ Ledger(new) /\ DOMAIN new = DOMAIN facts
        /\ \A g \in DOMAIN facts : /\ Kept(new[g], facts[g])
                                   /\ g \in {f} => new[g].until = n
                                   /\ g \notin {f} => new[g] = facts[g]
    <2>1. Closed(facts, {f}, n, new)
      BY <1>1, <1>2, Closing
    <2> QED
      BY <2>1 DEF Closed
  <1>4. ASSUME NEW s
        PROVE  OpenIn(new, s) \subseteq OpenIn(facts, s)
    BY <1>2, <1>3 DEF OpenIn
  <1> QED
    BY <1>3, <1>4 DEF Carried

\* Discarding a chapter takes its facts; what is opened again had been closed, and stands
\* where nothing is left.
LEMMA Discarding ==
  ASSUME Ledger(facts), NEW c \in Chapters, discardMemory(c)
  PROVE  /\ Ledger(facts') /\ DOMAIN facts' \subseteq DOMAIN facts
         /\ \A f \in DOMAIN facts' : Kept(facts'[f], facts[f]) /\ facts[f].source # c
         /\ \A f \in DOMAIN facts : facts[f].source # c => f \in DOMAIN facts'
         /\ \A s : \/ OpenIn(facts', s) \subseteq OpenIn(facts, s)
                   \/ OpenIn(facts', s) \subseteq DOMAIN facts \ OpenIn(facts, s)
  <1> PICK gone : gone = {f \in DOMAIN facts : InDiscardRange(f, c)}
    OBVIOUS
  <1> PICK back : back = {f \in DOMAIN facts \ gone :
                    /\ facts[f].until = c
                    /\ c >= facts[f].from
                    /\ ~Corrected(facts, f)
                    /\ \E g \in gone \ {f} : /\ ~facts[g].manual
                                             /\ facts[g].slot = facts[f].slot
                                             /\ facts[g].from = c
                    /\ OpenIn(facts, facts[f].slot) \subseteq gone}
    OBVIOUS
  <1> PICK mid : mid = CloseAt(facts, back, Open)
    OBVIOUS
  <1> PICK new : new = facts'
    OBVIOUS
  <1>1. new = [f \in DOMAIN facts \ gone |-> mid[f]]
    BY DEF discardMemory, ReopenAll
  <1>2. c # Open /\ Open \in Ends
    BY ChaptersAssumption DEF Ends, Open
  <1>3. /\ back \subseteq DOMAIN facts /\ gone \subseteq DOMAIN facts
        /\ \A f \in back : /\ facts[f].until # Open
                           /\ OpenIn(facts, facts[f].slot) \subseteq gone
        /\ \A f \in DOMAIN facts : f \in gone <=> facts[f].source = c
    BY <1>2 DEF InDiscardRange
  <1>4. /\ Ledger(mid) /\ DOMAIN mid = DOMAIN facts
        /\ \A f \in DOMAIN facts : /\ Kept(mid[f], facts[f])
                                   /\ f \in back => mid[f].until = Open
                                   /\ f \notin back => mid[f] = facts[f]
    <2>1. Closed(facts, back, Open, mid)
      BY <1>2, Closing
    <2> QED
      BY <2>1 DEF Closed
  <1>5. /\ new = [f \in DOMAIN new |-> new[f]] /\ DOMAIN new = DOMAIN facts \ gone
        /\ \A f \in DOMAIN new : new[f] = mid[f]
    BY <1>1
  <1>6. Ledger(new)
    <2>1. IsFiniteSet(DOMAIN new)
      BY <1>4, <1>5, FS_Subset DEF Ledger
    <2>2. \A f \in DOMAIN new : new[f] \in FactType /\ Sourced(f, new[f])
      BY <1>4, <1>5 DEF Ledger
    <2>3. DOMAIN new \subseteq FactIds
      BY <1>5 DEF Ledger
    <2> QED
      BY <1>5, <2>1, <2>2, <2>3 DEF Ledger
  <1>7. ASSUME NEW s, ~ (OpenIn(new, s) \subseteq OpenIn(facts, s))
        PROVE  OpenIn(new, s) \subseteq DOMAIN facts \ OpenIn(facts, s)
    <2>1. PICK f \in OpenIn(new, s) : f \notin OpenIn(facts, s)
      BY <1>7
    <2>2. f \in DOMAIN new /\ new[f].slot = s /\ new[f].until = Open /\ facts[f].slot = s
      BY <2>1, <1>4, <1>5 DEF OpenIn, Kept
    <2>3. f \in back
      BY <2>1, <2>2, <1>4, <1>5 DEF OpenIn
    <2>4. OpenIn(facts, s) \subseteq gone
      BY <1>3, <2>2, <2>3
    <2> QED
      BY <2>4, <1>5 DEF OpenIn
  <1>8. \A f \in DOMAIN new : Kept(new[f], facts[f]) /\ facts[f].source # c
    BY <1>3, <1>4, <1>5
  <1>9. \A f \in DOMAIN facts : facts[f].source # c => f \in DOMAIN new
    BY <1>3, <1>5
  <1> QED
    BY <1>5, <1>6, <1>7, <1>8, <1>9

-----------------------------------------------------------------------------
(* Types. *)

\* At the start.
LEMMA TypeInit ==
  ASSUME Init
  PROVE  TypeInv
  <1>1. Ledger(facts)
    <2>1. facts = <<>>
      BY DEF Init
    <2>2. DOMAIN facts = {} /\ facts = [f \in DOMAIN facts |-> facts[f]]
      BY <2>1
    <2> QED
      BY <2>2, FS_EmptySet DEF Ledger
  <1>2. IsFiniteSet(deltas) /\ revision = Cardinality(deltas)
    BY FS_EmptySet DEF Init
  <1>3. RecordOK(NoRecord)
    BY DEF RecordOK, RecordType, NoRecord
  <1>4. WorkOK(Idle)
    BY DEF WorkOK, WorkType, Idle
  <1>5. ledger \in [Chapters -> RecordType] /\ \A c \in Chapters : RecordOK(ledger[c])
    BY <1>3 DEF Init, RecordOK
  <1>6. work \in [Tasks -> WorkType] /\ \A t \in Tasks : WorkOK(work[t])
    BY <1>4 DEF Init, WorkOK
  <1>7. artifacts \in [Chapters -> [Versions -> SUBSET Events]]
    BY DEF Init
  <1>8. /\ text \in [Chapters -> Versions \cup {0}] /\ \A c \in Chapters : text[c] = 0
        /\ events \in [Events -> Status] /\ discarding \subseteq Chapters
        /\ verdict \in [Events -> {"none", "approved", "rejected"}]
    BY DEF Init, Status
  <1> QED
    BY <1>1, <1>2, <1>5, <1>6, <1>7, <1>8 DEF TypeInv

\* A settlement that changes what it holds, or gives it up, keeps the type of the others.
LEMMA WorkStep ==
  ASSUME TypeInv, NEW t \in Tasks, NEW w, WorkOK(w), work' = [work EXCEPT ![t] = w]
  PROVE  work' \in [Tasks -> WorkType] /\ \A u \in Tasks : WorkOK(work'[u])
  <1>1. w \in WorkType
    BY DEF WorkOK
  <1>2. work' \in [Tasks -> WorkType]
    BY <1>1 DEF TypeInv
  <1>3. ASSUME NEW u \in Tasks
        PROVE  WorkOK(work'[u])
    <2>1. work'[u] = IF u = t THEN w ELSE work[u]
      BY DEF TypeInv
    <2>2. WorkOK(work[u])
      BY DEF TypeInv
    <2> QED
      BY <2>1, <2>2
  <1> QED
    BY <1>2, <1>3

\* Every step keeps the types.
LEMMA TypeNext ==
  ASSUME TypeInv, DecisionInv, [Next]_vars
  PROVE  TypeInv'
  <1>0. WorkOK(Idle)
    BY DEF WorkOK, WorkType, Idle
  <1>1. ASSUME NEW c \in Chapters, NEW v \in VersionsOf[c], writeChapter(c, v)
        PROVE  TypeInv'
    <2>1. v \in Versions
      BY DEF Versions
    <2>2. /\ text' \in [Chapters -> Versions \cup {0}]
          /\ \A d \in Chapters : text'[d] # 0 => text'[d] \in VersionsOf[d]
      BY <1>1, <2>1 DEF writeChapter, TypeInv
    <2>3. UNCHANGED <<events, facts, ledger, artifacts, deltas, revision, work, discarding,
                      verdict>>
      BY <1>1 DEF writeChapter
    <2> QED
      BY <2>2, <2>3 DEF TypeInv
  <1>2. ASSUME NEW t \in Tasks, NEW c \in Chapters, readChapter(t, c)
        PROVE  TypeInv'
    <2> PICK w : w = [phase |-> "read", chapter |-> c, version |-> text[c]]
      OBVIOUS
    <2>1. work' = [work EXCEPT ![t] = w] /\ text[c] # 0
      BY <1>2 DEF readChapter
    <2>2. text[c] \in VersionsOf[c] /\ text[c] \in Versions
      BY <2>1 DEF TypeInv, Versions
    <2>3. w \in WorkType /\ w.phase # "extracting" /\ w.version \in VersionsOf[w.chapter]
      BY <2>2 DEF WorkType
    <2>4. WorkOK(w)
      BY <2>3 DEF WorkOK
    <2>5. work' \in [Tasks -> WorkType] /\ \A u \in Tasks : WorkOK(work'[u])
      BY <2>1, <2>4, WorkStep
    <2>6. UNCHANGED <<text, events, facts, ledger, artifacts, deltas, revision, discarding,
                      verdict>>
      BY <1>2 DEF readChapter
    <2> QED
      BY <2>5, <2>6 DEF TypeInv
  <1>3. ASSUME NEW t \in Tasks, NEW force \in BOOLEAN, decide(t, force)
        PROVE  TypeInv'
    <2> PICK w : w = work[t]
      OBVIOUS
    <2> PICK record : record = ledger[w.chapter]
      OBVIOUS
    <2> PICK next : next = [phase |-> "extracting", chapter |-> w.chapter,
                            version |-> w.version, record |-> record]
      OBVIOUS
    <2>1. w.phase = "read" /\ (work' = [work EXCEPT ![t] = Idle]
                               \/ work' = [work EXCEPT ![t] = next])
      BY <1>3 DEF decide
    <2>2. WorkOK(w)
      BY DEF TypeInv
    <2>3. w # Idle
      BY <2>1 DEF Idle
    <2>4. w.chapter \in Chapters /\ w.version \in Versions /\ w.version \in VersionsOf[w.chapter]
      BY <2>2, <2>3, WorkFields DEF WorkOK
    <2>5. RecordOK(record) /\ record \in RecordType
      BY <2>4 DEF TypeInv
    <2>6. next \in WorkType /\ next.version \in VersionsOf[next.chapter] /\ RecordOK(next.record)
      BY <2>4, <2>5 DEF WorkType
    <2>7. WorkOK(next)
      BY <2>6 DEF WorkOK
    <2>8. work' \in [Tasks -> WorkType] /\ \A u \in Tasks : WorkOK(work'[u])
      BY <2>1, <2>7, <1>0, WorkStep
    <2>9. UNCHANGED <<text, events, facts, ledger, artifacts, deltas, revision, discarding,
                      verdict>>
      BY <1>3 DEF decide
    <2> QED
      BY <2>8, <2>9 DEF TypeInv
  <1>4. ASSUME NEW t \in Tasks, NEW r, settle(t, r)
        PROVE  TypeInv'
    <2> PICK w : w = work[t]
      OBVIOUS
    <2>1. PICK c \in Chapters, v \in Versions, previous, gone \in SUBSET Events :
            /\ c = w.chapter /\ v = w.version
            /\ r \in Seq({e \in Events : ChapterOf[e] = c})
            /\ previous = {} \/ \E q \in Versions : previous = artifacts[c][q]
            /\ Settled(c, v, r, previous, gone)
      BY <1>4, Settling
    <2> PICK mem : mem = After(r)
      OBVIOUS
    <2> PICK record : record = [version |-> v, count |-> w.record.count + 1, events |-> ToSet(r)]
      OBVIOUS
    <2>2. /\ ledger' = [ledger EXCEPT ![c] = record]
          /\ deltas' = deltas \cup {Delta(w, r)} /\ Delta(w, r) \notin deltas
          /\ revision' = revision + 1
          /\ work' = [work EXCEPT ![t] = Idle] /\ w.phase = "extracting"
          /\ UNCHANGED <<text, discarding, verdict>>
      BY <1>4, <2>1 DEF settle
    <2>3. r \in Seq(Events)
      BY <2>1
    <2>4. Memory(mem)
      BY <2>3, SettlementReduces DEF Reduced
    <2>5. events' \in [Events -> Status] /\ Ledger(facts')
      BY <2>1, <2>4 DEF Settled, RetiredTo, Memory
    <2>6. RecordOK(record) /\ record \in RecordType
      <3>1. WorkOK(w)
        BY DEF TypeInv
      <3>2. w.record \in RecordType
        BY <2>2, <3>1, WorkFields DEF RecordOK
      <3>3. w.record.count + 1 \in Nat
        BY <3>2 DEF RecordType
      <3>4. ToSet(r) \subseteq Events
        BY <2>3 DEF ToSet
      <3> QED
        BY <3>3, <3>4 DEF RecordOK, RecordType
    <2>7. ledger' \in [Chapters -> RecordType] /\ \A d \in Chapters : RecordOK(ledger'[d])
      BY <2>2, <2>6 DEF TypeInv
    <2>8. artifacts' \in [Chapters -> [Versions -> SUBSET Events]]
      <3> PICK ids : ids = machineAppliedEventIds(mem, previous, r)
        OBVIOUS
      <3>1. previous \subseteq Events
        BY <2>1 DEF TypeInv
      <3>2. ids \subseteq Events
        BY <2>4, <3>1 DEF machineAppliedEventIds, Memory
      <3>3. artifacts' = [artifacts EXCEPT ![c][v] = ids]
        BY <2>1 DEF Settled
      <3> QED
        BY <3>2, <3>3 DEF TypeInv
    <2>9. work' \in [Tasks -> WorkType] /\ \A u \in Tasks : WorkOK(work'[u])
      BY <2>2, <1>0, WorkStep
    <2>10. IsFiniteSet(deltas') /\ revision' = Cardinality(deltas')
      BY <2>2, FS_AddElement DEF TypeInv
    <2> QED
      BY <2>2, <2>5, <2>7, <2>8, <2>9, <2>10 DEF TypeInv
  <1>5. ASSUME NEW t \in Tasks, \/ fail(t) \/ \E r \in AllReadings : refuseReplay(t, r)
        PROVE  TypeInv'
    <2>1. /\ work' = [work EXCEPT ![t] = Idle]
          /\ UNCHANGED <<text, events, facts, ledger, artifacts, deltas, revision, discarding,
                         verdict>>
      BY <1>5 DEF fail, refuseReplay
    <2>2. work' \in [Tasks -> WorkType] /\ \A u \in Tasks : WorkOK(work'[u])
      BY <2>1, <1>0, WorkStep
    <2> QED
      BY <2>1, <2>2 DEF TypeInv
  <1>6. ASSUME NEW e \in Events, approve(e)
        PROVE  TypeInv'
    <2>1. events' = [events EXCEPT ![e] = "applied"] /\ Carried(facts, {e}, facts')
      BY <1>6, Approving
    <2>2. /\ verdict' = [verdict EXCEPT ![e] = "approved"]
          /\ UNCHANGED <<text, ledger, artifacts, deltas, revision, work, discarding>>
      BY <1>6 DEF approve
    <2> QED
      BY <2>1, <2>2 DEF TypeInv, Status, Carried
  <1>7. ASSUME NEW e \in Events, reject(e) \/ trash(e)
        PROVE  TypeInv'
    <2>1. /\ events' \in [Events -> Status]
          /\ verdict' \in [Events -> {"none", "approved", "rejected"}]
          /\ UNCHANGED <<text, facts, ledger, artifacts, deltas, revision, work, discarding>>
      BY <1>7 DEF reject, trash, TypeInv, Status
    <2> QED
      BY <2>1 DEF TypeInv
  <1>8. ASSUME \/ \E m \in Manuals, w \in AuthorWrites : createManual(m, w[1], w[2])
               \/ \E m \in Manuals, f \in FactIds, w \in AuthorWrites : correct(m, f, w[2])
               \/ \E f \in FactIds : retire(f)
        PROVE  TypeInv'
    <2>1. Ledger(facts)
      BY DEF TypeInv
    <2>2. Ledger(facts')
      BY <1>8, <2>1, Creating, Correcting, RetiringOne DEF Carried
    <2>3. UNCHANGED <<text, events, ledger, artifacts, deltas, revision, work, discarding,
                      verdict>>
      BY <1>8 DEF createManual, correct, retire
    <2> QED
      BY <2>2, <2>3 DEF TypeInv
  <1>9. ASSUME NEW c \in Chapters, discardMemory(c)
        PROVE  TypeInv'
    <2>1. Ledger(facts')
      BY <1>9, Discarding DEF TypeInv
    <2>2. /\ events' = [e \in Events |-> IF ChapterOf[e] = c THEN "none" ELSE events[e]]
          /\ verdict' = [e \in Events |-> IF ChapterOf[e] = c THEN "none" ELSE verdict[e]]
          /\ ledger' = [ledger EXCEPT ![c] = NoRecord]
          /\ artifacts' = [artifacts EXCEPT ![c] = [v \in Versions |-> {}]]
          /\ discarding' = discarding \cup {c}
          /\ UNCHANGED <<text, deltas, revision, work>>
      BY <1>9 DEF discardMemory
    <2>3. events' \in [Events -> Status]
      BY <2>2 DEF TypeInv, Status
    <2>4. verdict' \in [Events -> {"none", "approved", "rejected"}]
      BY <2>2 DEF TypeInv
    <2>5. RecordOK(NoRecord) /\ NoRecord \in RecordType
      BY DEF RecordOK, RecordType, NoRecord
    <2>6. ledger' \in [Chapters -> RecordType] /\ \A d \in Chapters : RecordOK(ledger'[d])
      BY <2>2, <2>5 DEF TypeInv
    <2>7. artifacts' \in [Chapters -> [Versions -> SUBSET Events]]
      BY <2>2 DEF TypeInv
    <2>8. discarding' \subseteq Chapters
      BY <2>2 DEF TypeInv
    <2> QED
      BY <2>1, <2>2, <2>3, <2>4, <2>6, <2>7, <2>8 DEF TypeInv
  <1>10. ASSUME NEW c \in Chapters, discardFiles(c) \/ discardFails(c)
         PROVE  TypeInv'
    <2>1. /\ text' \in [Chapters -> Versions \cup {0}]
          /\ \A d \in Chapters : text'[d] # 0 => text'[d] \in VersionsOf[d]
      BY <1>10 DEF discardFiles, discardFails, TypeInv
    <2>2. /\ discarding' \subseteq Chapters
          /\ UNCHANGED <<events, facts, ledger, artifacts, deltas, revision, work, verdict>>
      BY <1>10 DEF discardFiles, discardFails, TypeInv
    <2> QED
      BY <2>1, <2>2 DEF TypeInv
  <1>11. CASE UNCHANGED vars
    BY <1>11 DEF vars, TypeInv
  <1> QED
    BY <1>1, <1>2, <1>3, <1>4, <1>5, <1>6, <1>7, <1>8, <1>9, <1>10, <1>11
    DEF Next, Settlement, Author

-----------------------------------------------------------------------------
(* Decisions. *)

\* What a settlement does to the events, the facts and the machine's list.
LEMMA SettledDecisions ==
  ASSUME TypeInv, DecisionInv, NEW t \in Tasks, NEW r, settle(t, r)
  PROVE  /\ DecisionInv'
         /\ \A f \in DOMAIN facts' :
              /\ f \in DOMAIN facts => facts'[f].source = facts[f].source
              /\ f \notin DOMAIN facts => facts'[f].source = work[t].chapter
         /\ \A e \in Events : ChapterOf[e] # work[t].chapter => events'[e] = events[e]
  <1>1. PICK c \in Chapters, v \in Versions, previous, gone \in SUBSET Events :
          /\ c = work[t].chapter /\ v = work[t].version
          /\ r \in Seq({e \in Events : ChapterOf[e] = c})
          /\ previous = {} \/ \E q \in Versions : previous = artifacts[c][q]
          /\ Settled(c, v, r, previous, gone)
    BY Settling
  <1> PICK mem : mem = After(r)
    OBVIOUS
  <1> PICK base : base = Before(r)
    OBVIOUS
  <1> PICK ids : ids = machineAppliedEventIds(mem, previous, r)
    OBVIOUS
  <1>2. r \in Seq(Events) /\ \A e \in ToSet(r) : e \in Events /\ ChapterOf[e] = c
    BY <1>1 DEF ToSet
  <1>3. /\ events' = mem.status /\ DOMAIN facts' = DOMAIN mem.facts
        /\ \A f \in DOMAIN mem.facts : facts'[f].source = mem.facts[f].source
        /\ artifacts' = [artifacts EXCEPT ![c][v] = ids]
        /\ verdict' = verdict
    <2>1. verdict' = verdict
      BY DEF settle
    <2> QED
      BY <1>1, <2>1 DEF Settled, RetiredTo, Kept
  <1>4. /\ base.facts = facts
        /\ \A e \in Events : events[e] # "none" \/ e \notin ToSet(r) => base.status[e] = events[e]
    BY Persisting DEF Before
  <1>5. Reduced(base, r, Reducible, mem)
    BY <1>2, SettlementReduces
  <1>6. /\ Ledger(mem.facts) /\ mem.machine \subseteq Events
        /\ DOMAIN mem.facts = DOMAIN facts \cup mem.machine
        /\ mem.machine \subseteq ToSet(r) \cap Reducible
        /\ \A f \in DOMAIN facts : mem.facts[f].source = facts[f].source
        /\ \A e \in Events \ (ToSet(r) \cap Reducible) : mem.status[e] = base.status[e]
        /\ \A e \in mem.machine : mem.status[e] = "applied"
    BY <1>4, <1>5 DEF Reduced, Memory, Kept
  <1>7. \A e \in Events : events[e] \in {"applied", "rejected"} => events'[e] = events[e]
    <2> TAKE e \in Events
    <2>1. events[e] \in {"applied", "rejected"} => e \notin Reducible /\ events[e] # "none"
      BY DEF Reducible
    <2> QED
      BY <1>3, <1>4, <1>6, <2>1
  <1>8. \A e \in Events \cap DOMAIN facts' : events'[e] = "applied"
    <2> TAKE e \in Events \cap DOMAIN facts'
    <2>1. CASE e \in mem.machine
      BY <1>3, <1>6, <2>1
    <2>2. CASE e \in DOMAIN facts
      BY <1>7, <2>2 DEF DecisionInv
    <2> QED
      BY <1>3, <1>6, <2>1, <2>2
  <1>9. \A e \in Events : /\ verdict'[e] = "rejected" => events'[e] = "rejected"
                          /\ verdict'[e] = "approved" => events'[e] = "applied"
    BY <1>3, <1>7 DEF DecisionInv
  <1>10. \A e \in ids : ChapterOf[e] = c /\ events'[e] = "applied" /\ verdict'[e] # "approved"
    <2> TAKE e \in ids
    <2>1. CASE e \in mem.machine
      <3>1. events[e] # "applied" /\ e \in Events
        BY <1>6, <2>1 DEF Reducible
      <3> QED
        BY <1>2, <1>3, <1>6, <2>1, <3>1 DEF DecisionInv
    <2>2. CASE e \in previous
      <3>1. PICK q \in Versions : e \in artifacts[c][q]
        BY <1>1, <2>2
      <3>2. e \in Events
        BY <3>1 DEF TypeInv
      <3> QED
        BY <1>3, <1>7, <3>1, <3>2 DEF DecisionInv
    <2> QED
      BY <2>1, <2>2 DEF machineAppliedEventIds
  <1>11. \A d \in Chapters, q \in Versions : \A e \in artifacts'[d][q] :
           ChapterOf[e] = d /\ events'[e] = "applied" /\ verdict'[e] # "approved"
    <2> TAKE d \in Chapters, q \in Versions
    <2>1. CASE d = c /\ q = v
      <3>1. artifacts'[d][q] = ids
        BY <1>3, <2>1 DEF TypeInv
      <3> QED
        BY <1>10, <2>1, <3>1
    <2>2. CASE ~ (d = c /\ q = v)
      <3>1. artifacts'[d][q] = artifacts[d][q] /\ artifacts[d][q] \subseteq Events
        BY <1>3, <2>2 DEF TypeInv
      <3> QED
        BY <1>3, <1>7, <3>1 DEF DecisionInv
    <2> QED
      BY <2>1, <2>2
  <1>12. DecisionInv'
    BY <1>8, <1>9, <1>11 DEF DecisionInv
  <1>13. ASSUME NEW f \in DOMAIN facts'
         PROVE  /\ f \in DOMAIN facts => facts'[f].source = facts[f].source
                /\ f \notin DOMAIN facts => facts'[f].source = c
    <2>1. CASE f \in DOMAIN facts
      BY <1>3, <1>6, <2>1
    <2>2. CASE f \notin DOMAIN facts
      <3>1. f \in mem.machine
        BY <1>3, <1>6, <2>2
      <3>2. f \in Events /\ ChapterOf[f] = c /\ f \in DOMAIN mem.facts
        BY <1>2, <1>6, <3>1
      <3>3. mem.facts[f].source = ChapterOf[f]
        BY <1>6, <3>2 DEF Ledger, Sourced
      <3> QED
        BY <1>3, <2>2, <3>2, <3>3
    <2> QED
      BY <2>1, <2>2
  <1>14. ASSUME NEW e \in Events, ChapterOf[e] # c
         PROVE  events'[e] = events[e]
    <2>1. e \notin ToSet(r)
      BY <1>2, <1>14
    <2>2. mem.status[e] = base.status[e]
      BY <2>1, <1>6
    <2> QED
      BY <1>3, <1>4, <2>1, <2>2
  <1> QED
    BY <1>1, <1>12, <1>13, <1>14

\* At the start.
LEMMA DecisionInit ==
  ASSUME Init
  PROVE  DecisionInv
  BY DEF Init, DecisionInv

\* Every step keeps decisions apart from what the machine applied.
LEMMA DecisionNext ==
  ASSUME TypeInv, DecisionInv, [Next]_vars
  PROVE  DecisionInv'
  <1>1. ASSUME UNCHANGED <<events, verdict, artifacts>>, Ledger(facts),
               DOMAIN facts' \subseteq DOMAIN facts \cup Manuals
        PROVE  DecisionInv'
    BY <1>1, EventsAssumption DEF DecisionInv
  <1>2. Ledger(facts)
    BY DEF TypeInv
  <1>3. ASSUME \/ \E c \in Chapters : \E v \in VersionsOf[c] : writeChapter(c, v)
               \/ \E t \in Tasks, c \in Chapters : readChapter(t, c)
               \/ \E t \in Tasks, force \in BOOLEAN : decide(t, force)
               \/ \E t \in Tasks, r \in AllReadings : refuseReplay(t, r)
               \/ \E t \in Tasks : fail(t)
               \/ \E c \in Chapters : discardFiles(c) \/ discardFails(c)
        PROVE  DecisionInv'
    <2>1. UNCHANGED <<events, verdict, artifacts, facts>>
      BY <1>3 DEF writeChapter, readChapter, decide, refuseReplay, fail, discardFiles, discardFails
    <2> QED
      BY <2>1, <1>1, <1>2
  <1>4. ASSUME NEW t \in Tasks, NEW r, settle(t, r)
        PROVE  DecisionInv'
    BY <1>4, SettledDecisions
  <1>5. ASSUME NEW e \in Events, approve(e)
        PROVE  DecisionInv'
    <2>1. events' = [events EXCEPT ![e] = "applied"] /\ DOMAIN facts' = DOMAIN facts \cup {e}
      BY <1>5, Approving DEF Carried
    <2>2. /\ verdict' = [verdict EXCEPT ![e] = "approved"] /\ artifacts' = artifacts
          /\ events[e] = "pending"
      BY <1>5 DEF approve
    <2>3. \A d \in Events \cap DOMAIN facts' : events'[d] = "applied"
      BY <2>1 DEF DecisionInv, TypeInv
    <2>4. \A d \in Events : /\ verdict'[d] = "rejected" => events'[d] = "rejected"
                            /\ verdict'[d] = "approved" => events'[d] = "applied"
      BY <2>1, <2>2 DEF DecisionInv, TypeInv
    <2>5. \A c \in Chapters, v \in Versions : \A d \in artifacts'[c][v] :
            ChapterOf[d] = c /\ events'[d] = "applied" /\ verdict'[d] # "approved"
      <3> TAKE c \in Chapters, v \in Versions
      <3> TAKE d \in artifacts'[c][v]
      <3>1. d \in artifacts[c][v] /\ d \in Events
        BY <2>2 DEF TypeInv
      <3>2. d # e
        BY <2>2, <3>1 DEF DecisionInv
      <3> QED
        BY <2>1, <2>2, <3>1, <3>2 DEF DecisionInv, TypeInv
    <2> QED
      BY <2>3, <2>4, <2>5 DEF DecisionInv
  <1>6. ASSUME NEW e \in Events, reject(e) \/ trash(e)
        PROVE  DecisionInv'
    <2>1. /\ events[e] = "pending" /\ UNCHANGED <<facts, artifacts>>
          /\ \/ /\ events' = [events EXCEPT ![e] = "rejected"]
                /\ verdict' = [verdict EXCEPT ![e] = "rejected"]
             \/ events' = [events EXCEPT ![e] = "none"] /\ verdict' = verdict
      BY <1>6 DEF reject, trash
    <2>2. \A d \in Events : d # e => events'[d] = events[d] /\ verdict'[d] = verdict[d]
      BY <2>1 DEF TypeInv
    <2>3. e \notin DOMAIN facts /\ verdict[e] \notin {"approved", "rejected"}
      BY <2>1 DEF DecisionInv
    <2>4. /\ verdict'[e] = "rejected" => events'[e] = "rejected"
          /\ verdict'[e] # "approved"
      BY <2>1, <2>3 DEF TypeInv
    <2>5. \A c \in Chapters, v \in Versions : \A d \in artifacts'[c][v] :
            ChapterOf[d] = c /\ events'[d] = "applied" /\ verdict'[d] # "approved"
      <3> TAKE c \in Chapters, v \in Versions
      <3> TAKE d \in artifacts'[c][v]
      <3>1. d \in artifacts[c][v] /\ d \in Events
        BY <2>1 DEF TypeInv
      <3>2. d # e
        BY <2>1, <3>1 DEF DecisionInv
      <3> QED
        BY <2>2, <3>1, <3>2 DEF DecisionInv
    <2>6. \A d \in Events \cap DOMAIN facts' : events'[d] = "applied"
      BY <2>1, <2>2, <2>3 DEF DecisionInv
    <2>7. \A d \in Events : /\ verdict'[d] = "rejected" => events'[d] = "rejected"
                            /\ verdict'[d] = "approved" => events'[d] = "applied"
      BY <2>2, <2>4 DEF DecisionInv
    <2> QED
      BY <2>5, <2>6, <2>7 DEF DecisionInv
  <1>7. ASSUME \/ \E m \in Manuals, w \in AuthorWrites : createManual(m, w[1], w[2])
               \/ \E m \in Manuals, f \in FactIds, w \in AuthorWrites : correct(m, f, w[2])
               \/ \E f \in FactIds : retire(f)
        PROVE  DecisionInv'
    <2>1. DOMAIN facts' \subseteq DOMAIN facts \cup Manuals
      BY <1>2, <1>7, Creating, Correcting, RetiringOne DEF Carried
    <2>2. UNCHANGED <<events, verdict, artifacts>>
      BY <1>7 DEF createManual, correct, retire
    <2> QED
      BY <2>1, <2>2, <1>1, <1>2
  <1>8. ASSUME NEW c \in Chapters, discardMemory(c)
        PROVE  DecisionInv'
    <2>1. /\ DOMAIN facts' \subseteq DOMAIN facts
          /\ \A f \in DOMAIN facts' : facts[f].source # c
      BY <1>2, <1>8, Discarding
    <2>2. /\ events' = [e \in Events |-> IF ChapterOf[e] = c THEN "none" ELSE events[e]]
          /\ verdict' = [e \in Events |-> IF ChapterOf[e] = c THEN "none" ELSE verdict[e]]
          /\ artifacts' = [artifacts EXCEPT ![c] = [v \in Versions |-> {}]]
      BY <1>8 DEF discardMemory
    <2>3. \A e \in Events \cap DOMAIN facts' : events'[e] = "applied"
      <3> TAKE e \in Events \cap DOMAIN facts'
      <3>1. facts[e].source = ChapterOf[e]
        BY <1>2, <2>1 DEF Ledger, Sourced
      <3> QED
        BY <2>1, <2>2, <3>1 DEF DecisionInv
    <2>4. \A e \in Events : /\ verdict'[e] = "rejected" => events'[e] = "rejected"
                            /\ verdict'[e] = "approved" => events'[e] = "applied"
      BY <2>2 DEF DecisionInv
    <2>5. \A d \in Chapters, v \in Versions : \A e \in artifacts'[d][v] :
            ChapterOf[e] = d /\ events'[e] = "applied" /\ verdict'[e] # "approved"
      <3> TAKE d \in Chapters, v \in Versions
      <3> TAKE e \in artifacts'[d][v]
      <3>1. d # c /\ e \in artifacts[d][v] /\ e \in Events
        BY <2>2 DEF TypeInv
      <3>2. ChapterOf[e] = d
        BY <3>1 DEF DecisionInv
      <3> QED
        BY <2>2, <3>1, <3>2 DEF DecisionInv
    <2> QED
      BY <2>3, <2>4, <2>5 DEF DecisionInv
  <1>9. CASE UNCHANGED vars
    BY <1>9 DEF vars, DecisionInv
  <1> QED
    BY <1>3, <1>4, <1>5, <1>6, <1>7, <1>8, <1>9 DEF Next, Settlement, Author

-----------------------------------------------------------------------------
(* Discarding. *)

\* At the start.
LEMMA DiscardInit ==
  ASSUME Init
  PROVE  DiscardInv
  BY DEF Init, DiscardInv, Forgotten, Idle

\* A chapter that stays forgotten.
LEMMA StaysForgotten ==
  ASSUME NEW c \in Chapters, Forgotten(c),
         \A e \in Events : ChapterOf[e] = c => events'[e] = events[e],
         \A f \in DOMAIN facts' : facts'[f].source = c =>
           f \in DOMAIN facts /\ facts'[f].source = facts[f].source,
         ledger'[c] = ledger[c]
  PROVE  Forgotten(c)'
  BY DEF Forgotten

\* With one session at a time, every step leaves what is discarded forgotten.
LEMMA DiscardNext ==
  ASSUME TypeInv, DecisionInv, DiscardInv, ~Overlapping, [Next]_vars
  PROVE  DiscardInv'
  <1>0. Ledger(facts)
    BY DEF TypeInv
  <1>1. ASSUME NEW c \in Chapters, NEW v \in VersionsOf[c], writeChapter(c, v)
        PROVE  DiscardInv'
    <2>1. text' = [text EXCEPT ![c] = v] /\ v # 0
      BY <1>1, VersionsAssumption DEF writeChapter, Versions
    <2>2. UNCHANGED <<events, facts, ledger, work, discarding>>
      BY <1>1 DEF writeChapter
    <2>3. \A d \in Chapters : (text[d] # 0 => text'[d] # 0) /\ (text'[d] = 0 => text[d] = 0)
      BY <2>1 DEF TypeInv
    <2>4. \A t \in Tasks : work[t] # Idle => work[t].chapter \in Chapters
      BY WorkFields DEF TypeInv
    <2>5. \A d \in Chapters : Forgotten(d)' = Forgotten(d)
      BY <2>2 DEF Forgotten
    <2> QED
      BY <2>2, <2>3, <2>4, <2>5 DEF DiscardInv
  <1>2. ASSUME NEW t \in Tasks, NEW c \in Chapters, readChapter(t, c)
        PROVE  DiscardInv'
    <2>1. /\ work' = [work EXCEPT ![t] = [phase |-> "read", chapter |-> c, version |-> text[c]]]
          /\ text[c] # 0 /\ c \notin discarding
          /\ UNCHANGED <<text, events, facts, ledger, discarding>>
      BY <1>2 DEF readChapter
    <2>2. \A u \in Tasks : work'[u] # Idle =>
            text'[work'[u].chapter] # 0 /\ work'[u].chapter \notin discarding'
      BY <2>1 DEF DiscardInv, TypeInv
    <2>3. \A d \in Chapters : Forgotten(d)' = Forgotten(d)
      BY <2>1 DEF Forgotten
    <2> QED
      BY <2>1, <2>2, <2>3 DEF DiscardInv
  <1>3. ASSUME NEW t \in Tasks, \/ \E force \in BOOLEAN : decide(t, force)
                                \/ \E r \in AllReadings : refuseReplay(t, r)
                                \/ fail(t)
        PROVE  DiscardInv'
    <2>1. UNCHANGED <<text, events, facts, ledger, discarding>>
      BY <1>3 DEF decide, refuseReplay, fail
    <2>2. \A u \in Tasks : work'[u] # Idle => work[u] # Idle /\ work'[u].chapter = work[u].chapter
      <3>1. \/ work' = [work EXCEPT ![t] = Idle]
            \/ /\ work[t].phase = "read"
               /\ work' = [work EXCEPT ![t] = [phase |-> "extracting", chapter |-> work[t].chapter,
                             version |-> work[t].version, record |-> ledger[work[t].chapter]]]
        BY <1>3 DEF decide, refuseReplay, fail
      <3> QED
        BY <3>1 DEF TypeInv, Idle
    <2>3. \A d \in Chapters : Forgotten(d)' = Forgotten(d)
      BY <2>1 DEF Forgotten
    <2> QED
      BY <2>1, <2>2, <2>3 DEF DiscardInv
  <1>4. ASSUME NEW t \in Tasks, NEW r, settle(t, r)
        PROVE  DiscardInv'
    <2> PICK c : c = work[t].chapter
      OBVIOUS
    <2>1. /\ \A f \in DOMAIN facts' :
               /\ f \in DOMAIN facts => facts'[f].source = facts[f].source
               /\ f \notin DOMAIN facts => facts'[f].source = c
          /\ \A e \in Events : ChapterOf[e] # c => events'[e] = events[e]
      BY <1>4, SettledDecisions
    <2>2. /\ work[t].phase = "extracting" /\ work' = [work EXCEPT ![t] = Idle]
          /\ UNCHANGED <<text, discarding>>
          /\ \E x : ledger' = [ledger EXCEPT ![c] = x]
      BY <1>4 DEF settle
    <2>3. text[c] # 0 /\ c \notin discarding
      BY <2>2 DEF DiscardInv, Idle
    <2>4. ASSUME NEW d \in Chapters, text[d] = 0 \/ d \in discarding
          PROVE  Forgotten(d)'
      <3>1. d # c /\ Forgotten(d)
        BY <2>3, <2>4 DEF DiscardInv
      <3>2. ledger'[d] = ledger[d]
        BY <2>2, <3>1 DEF TypeInv
      <3> QED
        BY <2>1, <3>1, <3>2, StaysForgotten
    <2>5. \A u \in Tasks : work'[u] # Idle => work'[u] = work[u]
      BY <2>2 DEF TypeInv
    <2> QED
      BY <2>2, <2>4, <2>5 DEF DiscardInv
  <1>5. ASSUME NEW e \in Events, approve(e)
        PROVE  DiscardInv'
    <2>1. /\ events' = [events EXCEPT ![e] = "applied"] /\ events[e] = "pending"
          /\ DOMAIN facts' = DOMAIN facts \cup {e} /\ facts'[e].source = ChapterOf[e]
          /\ \A f \in DOMAIN facts : facts'[f].source = facts[f].source
          /\ UNCHANGED <<text, ledger, work, discarding>>
      <3>1. /\ events' = [events EXCEPT ![e] = "applied"]
            /\ Carried(facts, {e}, facts') /\ facts'[e] = EventFact(e)
        BY <1>5, Approving
      <3>2. events[e] = "pending" /\ UNCHANGED <<text, ledger, work, discarding>>
        BY <1>5 DEF approve
      <3>3. EventFact(e).source = ChapterOf[e]
        BY DEF EventFact
      <3> QED
        BY <3>1, <3>2, <3>3 DEF Carried, Kept
    <2>2. ASSUME NEW d \in Chapters, Forgotten(d)
          PROVE  Forgotten(d)'
      <3>1. ChapterOf[e] # d
        BY <2>1, <2>2 DEF Forgotten
      <3> QED
        BY <2>1, <2>2, <3>1, StaysForgotten DEF TypeInv
    <2> QED
      BY <2>1, <2>2 DEF DiscardInv
  <1>6. ASSUME NEW e \in Events, reject(e) \/ trash(e)
        PROVE  DiscardInv'
    <2>1. /\ events[e] = "pending"
          /\ \A d \in Events : d # e => events'[d] = events[d]
          /\ UNCHANGED <<text, facts, ledger, work, discarding>>
      BY <1>6 DEF reject, trash, TypeInv
    <2>2. ASSUME NEW d \in Chapters, Forgotten(d)
          PROVE  Forgotten(d)'
      <3>1. ChapterOf[e] # d
        BY <2>1, <2>2 DEF Forgotten
      <3> QED
        BY <2>1, <2>2, <3>1, StaysForgotten
    <2> QED
      BY <2>1, <2>2 DEF DiscardInv
  <1>7. ASSUME \/ \E m \in Manuals, w \in AuthorWrites : createManual(m, w[1], w[2])
               \/ \E m \in Manuals, f \in FactIds, w \in AuthorWrites : correct(m, f, w[2])
               \/ \E f \in FactIds : retire(f)
        PROVE  DiscardInv'
    <2>1. UNCHANGED <<text, events, ledger, work, discarding>>
      BY <1>7 DEF createManual, correct, retire
    <2>2. ASSUME NEW f \in DOMAIN facts'
          PROVE  \/ f \in DOMAIN facts /\ facts'[f].source = facts[f].source
                 \/ facts'[f].source = 0
                 \/ \E g \in DOMAIN facts : facts'[f].source = facts[g].source
      <3>1. CASE \E m \in Manuals, w \in AuthorWrites : createManual(m, w[1], w[2])
        BY <3>1, <2>2, <1>0, Creating DEF Carried, Kept
      <3>2. CASE \E m \in Manuals, g \in FactIds, w \in AuthorWrites : correct(m, g, w[2])
        <4>1. PICK m \in Manuals, g \in FactIds, w \in AuthorWrites : correct(m, g, w[2])
          BY <3>2
        <4>2. /\ g \in DOMAIN facts /\ Carried(facts, {m}, facts')
              /\ facts'[m].source = facts[g].source
          BY <4>1, <1>0, Correcting
        <4> QED
          BY <4>2, <2>2 DEF Carried, Kept
      <3>3. CASE \E g \in FactIds : retire(g)
        BY <3>3, <2>2, <1>0, RetiringOne DEF Carried, Kept
      <3> QED
        BY <1>7, <3>1, <3>2, <3>3
    <2>3. ASSUME NEW d \in Chapters, Forgotten(d)
          PROVE  Forgotten(d)'
      <3>1. d # 0
        BY ChaptersAssumption
      <3>2. \A f \in DOMAIN facts' : facts'[f].source # d
        BY <2>2, <2>3, <3>1 DEF Forgotten
      <3> QED
        BY <2>1, <2>3, <3>2 DEF Forgotten
    <2> QED
      BY <2>1, <2>3 DEF DiscardInv
  <1>8. ASSUME NEW c \in Chapters, discardMemory(c)
        PROVE  DiscardInv'
    <2>1. /\ DOMAIN facts' \subseteq DOMAIN facts
          /\ \A f \in DOMAIN facts' : facts'[f].source = facts[f].source /\ facts[f].source # c
      BY <1>0, <1>8, Discarding DEF Kept
    <2>2. /\ events' = [e \in Events |-> IF ChapterOf[e] = c THEN "none" ELSE events[e]]
          /\ ledger' = [ledger EXCEPT ![c] = NoRecord]
          /\ discarding' = discarding \cup {c}
          /\ Busy = {}
          /\ UNCHANGED <<text, work>>
      BY <1>8 DEF discardMemory
    <2>3. ASSUME NEW d \in Chapters, d = c \/ Forgotten(d)
          PROVE  Forgotten(d)'
      <3>1. \A e \in Events : ChapterOf[e] = d => events'[e] = "none"
        BY <2>2, <2>3 DEF Forgotten
      <3>2. \A f \in DOMAIN facts' : facts'[f].source # d
        BY <2>1, <2>3 DEF Forgotten
      <3>3. ledger'[d] = NoRecord
        BY <2>2, <2>3 DEF Forgotten, TypeInv
      <3> QED
        BY <3>1, <3>2, <3>3 DEF Forgotten
    <2>4. \A t \in Tasks : work'[t] = Idle
      BY <2>2 DEF Busy
    <2> QED
      BY <2>2, <2>3, <2>4 DEF DiscardInv
  <1>9. ASSUME NEW c \in Chapters, discardFiles(c) \/ discardFails(c)
        PROVE  DiscardInv'
    <2>1. /\ c \in discarding /\ discarding' = discarding \ {c}
          /\ text' = [text EXCEPT ![c] = 0] \/ text' = text
          /\ UNCHANGED <<events, facts, ledger, work>>
      BY <1>9 DEF discardFiles, discardFails
    <2>2. \A d \in Chapters : Forgotten(d)' = Forgotten(d)
      BY <2>1 DEF Forgotten
    <2>3. \A d \in Chapters : text'[d] = 0 \/ d \in discarding' => text[d] = 0 \/ d \in discarding
      BY <2>1 DEF TypeInv
    <2>4. \A t \in Tasks : work'[t] # Idle =>
            text'[work'[t].chapter] # 0 /\ work'[t].chapter \notin discarding'
      <3> TAKE t \in Tasks
      <3>1. work[t] # Idle => /\ work[t].chapter \in Chapters
                              /\ text[work[t].chapter] # 0 /\ work[t].chapter \notin discarding
        BY WorkFields DEF TypeInv, DiscardInv
      <3> QED
        BY <2>1, <3>1 DEF TypeInv
    <2> QED
      BY <2>2, <2>3, <2>4 DEF DiscardInv
  <1>10. CASE UNCHANGED vars
    <2>1. UNCHANGED <<text, events, facts, ledger, work, discarding>>
      BY <1>10 DEF vars
    <2>2. \A d \in Chapters : Forgotten(d)' = Forgotten(d)
      BY <2>1 DEF Forgotten
    <2> QED
      BY <2>1, <2>2 DEF DiscardInv
  <1> QED
    BY <1>1, <1>2, <1>3, <1>4, <1>5, <1>6, <1>7, <1>8, <1>9, <1>10
    DEF Next, Settlement, Author

-----------------------------------------------------------------------------
(* The theorems. *)

\* The two invariants that need no hypothesis.
LEMMA MemoryInvariant == Spec => [](TypeInv /\ DecisionInv)
  <1>1. Init => TypeInv /\ DecisionInv
    BY TypeInit, DecisionInit
  <1>2. (TypeInv /\ DecisionInv) /\ [Next]_vars => (TypeInv /\ DecisionInv)'
    BY TypeNext, DecisionNext
  <1> QED
    BY <1>1, <1>2, PTL DEF Spec

\* Events, facts, records, lists of the machine and settlements in progress keep their
\* types, and the book's revision counts the deltas in the log (commitChapterStateDelta
\* writes both in one transaction), whatever is settled, refused, given up or discarded.
THEOREM MemoryTypeCorrect == Spec => []TypeOK
  <1>1. TypeInv => TypeOK
    BY DEF TypeInv, TypeOK, Ledger, Status, RecordOK, WorkOK
  <1> QED
    BY <1>1, MemoryInvariant, PTL

\* An event the author has rejected stays rejected and is never a fact, however often its
\* chapter is settled again and whoever else settles meanwhile
\* (persistSettlementEvents leaves a known event alone, the reducer skips it).
THEOREM RejectionsAreFinal == Spec => []RejectionsStand
  <1>1. DecisionInv => RejectionsStand
    BY DEF DecisionInv, RejectionsStand
  <1> QED
    BY <1>1, MemoryInvariant, PTL

\* As long as no other session settles or discards meanwhile, a chapter that has been
\* discarded has left no event, no fact and no settlement on record (discardChapterRange).
THEOREM DiscardedIsForgotten ==
  ASSUME ~Overlapping
  PROVE  Spec => []NoMemoryOfDiscardedChapters
  <1>1. Init => TypeInv /\ DecisionInv /\ DiscardInv
    BY TypeInit, DecisionInit, DiscardInit
  <1>2. (TypeInv /\ DecisionInv /\ DiscardInv) /\ [Next]_vars =>
          (TypeInv /\ DecisionInv /\ DiscardInv)'
    BY TypeNext, DecisionNext, DiscardNext
  <1>3. DiscardInv => NoMemoryOfDiscardedChapters
    BY DEF DiscardInv, Forgotten, NoMemoryOfDiscardedChapters
  <1> QED
    BY <1>1, <1>2, <1>3, PTL DEF Spec

\* What one settlement leaves to the author.
LEMMA SettlementLeaves ==
  ASSUME TypeInv, DecisionInv, NEW t \in Tasks, NEW r, settle(t, r),
         NEW f \in DOMAIN facts, facts[f].until = Open, NEW s, s = facts[f].slot
  PROVE  /\ facts[f].manual =>
              \/ /\ facts[f].value \in ValuesIn(facts', s)
                 /\ ValuesIn(facts', s) \subseteq ValuesIn(facts, s)
              \/ Says(r, s, facts[f].value)
         /\ f \in Events /\ verdict[f] = "approved" =>
              facts'[f].until = Open \/ OpenIn(facts', s) \cap ToSet(r) # {}
  <1>1. PICK c \in Chapters, v \in Versions, previous, gone \in SUBSET Events :
          /\ r \in Seq({e \in Events : ChapterOf[e] = c})
          /\ gone \subseteq previous /\ gone \cap ToSet(r) = {}
          /\ previous = {} \/ \E q \in Versions : previous = artifacts[c][q]
          /\ Settled(c, v, r, previous, gone)
    BY Settling
  <1>2. Ledger(facts) /\ facts[f] \in FactType /\ Sourced(f, facts[f]) /\ f \in FactIds
    BY DEF TypeInv, Ledger
  <1>3. f \in OpenIn(facts, s) /\ s \in Slots
    <2>1. s \in Slots
      BY <1>2 DEF FactType
    <2> QED
      BY <2>1 DEF OpenIn
  <1>4. r \in Seq(Events)
    BY <1>1
  <1>5. \A g \in gone : g \in Events /\ verdict[g] # "approved"
    BY <1>1 DEF TypeInv, DecisionInv
  <1>6. \/ /\ \E d \in ToSet(r) : OpenIn(facts', s) = {d}
           /\ Confirmed(facts, s, r)
        \/ OpenIn(facts', s) = OpenIn(facts, s) \ gone
        \/ /\ OpenIn(facts, s) \subseteq gone
           /\ OpenIn(facts', s) \subseteq DOMAIN facts \ OpenIn(facts, s)
    BY <1>1, <1>3, <1>4, SettledSlots
  <1>7. \A g \in DOMAIN facts : g \in DOMAIN facts' /\ facts'[g].value = facts[g].value
    <2> PICK mem : mem = After(r)
      OBVIOUS
    <2>1. Reduced(Before(r), r, Reducible, mem) /\ Before(r).facts = facts
      BY <1>4, SettlementReduces DEF Before
    <2>2. \A g \in DOMAIN facts : g \in DOMAIN mem.facts /\ mem.facts[g].value = facts[g].value
      BY <2>1 DEF Reduced, Kept
    <2>3. /\ DOMAIN facts' = DOMAIN mem.facts
          /\ \A g \in DOMAIN mem.facts : facts'[g].value = mem.facts[g].value
      BY <1>1 DEF Settled, RetiredTo, Kept
    <2> QED
      BY <2>2, <2>3
  <1>8. CASE f \in gone
    <2>1. f \in Events /\ facts[f].manual = FALSE
      BY <1>2, <1>5, <1>8 DEF Sourced
    <2> QED
      BY <1>5, <1>8, <2>1
  <1>9. CASE f \notin gone
    <2>1. CASE OpenIn(facts', s) = OpenIn(facts, s) \ gone
      <3>1. f \in OpenIn(facts', s) /\ OpenIn(facts', s) \subseteq OpenIn(facts, s)
        BY <1>3, <1>9, <2>1
      <3>2. facts'[f].until = Open
        BY <3>1 DEF OpenIn
      <3>3. \A g \in OpenIn(facts', s) : facts'[g].value = facts[g].value
        BY <1>7, <3>1 DEF OpenIn
      <3>4. /\ facts[f].value \in ValuesIn(facts', s)
            /\ ValuesIn(facts', s) \subseteq ValuesIn(facts, s)
        BY <3>1, <3>3 DEF ValuesIn
      <3> QED
        BY <3>2, <3>4
    <2>2. CASE \E d \in ToSet(r) : OpenIn(facts', s) = {d} /\ Confirmed(facts, s, r)
      BY <1>3, <2>2 DEF Confirmed
    <2> QED
      BY <1>3, <1>6, <1>9, <2>1, <2>2
  <1> QED
    BY <1>8, <1>9

\* A settlement never takes a value from the author unless the text says the same, and
\* never an approved fact without putting something just read in its place
\* (slotLockedByManualFact, machineAppliedEventIds, retireStaleMachineFacts).
THEOREM AuthorsFactsAreSafe == Spec => AuthorsFactsStand
  <1>1. TypeInv /\ DecisionInv =>
          \A t \in Tasks, r \in AllReadings : settle(t, r) =>
            \A f \in {g \in DOMAIN facts : facts[g].until = Open} :
              LET s == facts[f].slot
              IN  /\ facts[f].manual =>
                       \/ /\ facts[f].value \in ValuesIn(facts', s)
                          /\ ValuesIn(facts', s) \subseteq ValuesIn(facts, s)
                       \/ Says(r, s, facts[f].value)
                  /\ f \in Events /\ verdict[f] = "approved" =>
                       facts'[f].until = Open \/ OpenIn(facts', s) \cap ToSet(r) # {}
    BY SettlementLeaves
  <1> QED
    BY <1>1, MemoryInvariant, PTL DEF AuthorsFactsStand

\* One step on one slot.
LEMMA SecondValue ==
  ASSUME TypeInv, DecisionInv, [Next]_vars, NEW s \in Slots,
         AtMostOne(OpenIn(facts, s)), ~AtMostOne(OpenIn(facts', s))
  PROVE  OpenIn(facts', s) \subseteq DOMAIN facts \ OpenIn(facts, s)
  <1>0. Ledger(facts)
    BY DEF TypeInv
  <1>1. \A S, d : S \subseteq OpenIn(facts, s) \/ S = {d} => AtMostOne(S)
    BY DEF AtMostOne
  <1>2. facts' # facts
    OBVIOUS
  <1>3. ASSUME NEW t \in Tasks, NEW r, settle(t, r)
        PROVE  OpenIn(facts', s) \subseteq DOMAIN facts \ OpenIn(facts, s)
    <2>1. PICK c \in Chapters, v \in Versions, previous, gone \in SUBSET Events :
            /\ r \in Seq({e \in Events : ChapterOf[e] = c})
            /\ gone \cap ToSet(r) = {}
            /\ Settled(c, v, r, previous, gone)
      BY <1>3, Settling
    <2>2. r \in Seq(Events)
      BY <2>1
    <2>3. \/ \E d \in ToSet(r) : OpenIn(facts', s) = {d}
          \/ OpenIn(facts', s) = OpenIn(facts, s) \ gone
          \/ OpenIn(facts', s) \subseteq DOMAIN facts \ OpenIn(facts, s)
      BY <2>1, <2>2, SettledSlots
    <2> QED
      BY <1>1, <2>3
  <1>4. ASSUME NEW e \in Events, approve(e)
        PROVE  FALSE
    <2>1. OpenIn(facts', s) = OpenIn(facts, s) \/ OpenIn(facts', s) = {e}
      BY <1>4, Approving
    <2> QED
      BY <1>1, <2>1
  <1>5. ASSUME NEW m \in Manuals, NEW w \in AuthorWrites, createManual(m, w[1], w[2])
        PROVE  FALSE
    <2>1. OpenIn(facts', s) = OpenIn(facts, s) \/ OpenIn(facts', s) = {m}
      BY <1>0, <1>5, Creating
    <2> QED
      BY <1>1, <2>1
  <1>6. ASSUME NEW m \in Manuals, NEW f, NEW v, correct(m, f, v)
        PROVE  FALSE
    <2>1. \/ OpenIn(facts', s) = OpenIn(facts, s)
          \/ /\ f \in OpenIn(facts, s)
             /\ OpenIn(facts', s) = (OpenIn(facts, s) \ {f}) \cup {m}
      BY <1>0, <1>6, Correcting
    <2>2. f \in OpenIn(facts, s) => OpenIn(facts, s) \ {f} = {}
      BY DEF AtMostOne
    <2>3. OpenIn(facts', s) = OpenIn(facts, s) \/ OpenIn(facts', s) = {m}
      BY <2>1, <2>2
    <2> QED
      BY <1>1, <2>3
  <1>7. ASSUME NEW f, retire(f)
        PROVE  FALSE
    <2>1. OpenIn(facts', s) \subseteq OpenIn(facts, s)
      BY <1>0, <1>7, RetiringOne
    <2> QED
      BY <1>1, <2>1
  <1>8. ASSUME NEW c \in Chapters, discardMemory(c)
        PROVE  OpenIn(facts', s) \subseteq DOMAIN facts \ OpenIn(facts, s)
    <2>1. \/ OpenIn(facts', s) \subseteq OpenIn(facts, s)
          \/ OpenIn(facts', s) \subseteq DOMAIN facts \ OpenIn(facts, s)
      BY <1>0, <1>8, Discarding
    <2> QED
      BY <1>1, <2>1
  <1>9. ASSUME \/ \E c \in Chapters : \E v \in VersionsOf[c] : writeChapter(c, v)
               \/ \E t \in Tasks, c \in Chapters : readChapter(t, c)
               \/ \E t \in Tasks, force \in BOOLEAN : decide(t, force)
               \/ \E t \in Tasks, r \in AllReadings : refuseReplay(t, r)
               \/ \E t \in Tasks : fail(t)
               \/ \E e \in Events : reject(e) \/ trash(e)
               \/ \E c \in Chapters : discardFiles(c) \/ discardFails(c)
               \/ UNCHANGED vars
        PROVE  FALSE
    BY <1>2, <1>9 DEF writeChapter, readChapter, decide, refuseReplay, fail, reject, trash,
                      discardFiles, discardFails, vars
  <1> QED
    BY <1>3, <1>4, <1>5, <1>6, <1>7, <1>8, <1>9 DEF Next, Settlement, Author

\* Reading, approving, writing, correcting and retiring never put a second value beside one
\* that stands (closeSupersededNarrativeFacts): a slot comes to hold two only when two that
\* were closed are opened again at once, by retiring or discarding.
THEOREM SecondValueIsReopened == Spec => SecondValueOnlyByReopening
  <1>1. TypeInv /\ DecisionInv /\ [Next]_vars =>
          \A s \in Slots :
            LET before == OpenIn(facts, s)
                now    == OpenIn(facts', s)
            IN  AtMostOne(before) /\ ~AtMostOne(now) => now \subseteq DOMAIN facts \ before
    BY SecondValue
  <1> QED
    BY <1>1, MemoryInvariant, PTL DEF SecondValueOnlyByReopening, Spec

=============================================================================
