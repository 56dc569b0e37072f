-------------------------- MODULE MCChapterMemory --------------------------
(* Instances of ChapterMemory for TLC. *)
EXTENDS ChapterMemory

\* A hero's way through two chapters, and an oath that only the author may confirm.
WayEvents    == {"north", "south", "west", "oath"}
WayChapterOf == "north" :> 1 @@ "south" :> 2 @@ "west" :> 2 @@ "oath" :> 2
WaySlotOf    == "north" :> "place" @@ "south" :> "place" @@ "west" :> "place" @@ "oath" :> "bond"
WayValueOf   == "north" :> "north" @@ "south" :> "south" @@ "west" :> "west" @@ "oath" :> "oath"
WayRisky     == {"oath"}
WayAuthorWrites == {<<"place", "east">>, <<"place", "south">>}
\* Chapter 2 is rewritten once: the way out of it is cut.
WayVersionsOf == 1 :> {1} @@ 2 :> {1, 2}
WayReadings ==
  1 :> (1 :> {<<"north">>})
  @@ 2 :> (1 :> {<<"south", "west">>, <<"south", "west", "oath">>} @@ 2 :> {<<"oath">>, <<"south">>, <<>>})

\* Chapter 2 is rewritten twice, and the second time the hero stays where he was: settled
\* in turn, these break OneValuePerSlot.
ThriceVersionsOf == 1 :> {1} @@ 2 :> {1, 2, 3}
ThriceReadings ==
  1 :> (1 :> {<<"north">>}) @@ 2 :> (1 :> {<<"south">>} @@ 2 :> {<<"west">>} @@ 3 :> {<<>>})

\* One chapter, settled by two sessions at once.
PairEvents    == {"south", "west"}
PairChapterOf == [e \in PairEvents |-> 1]
PairSlotOf    == [e \in PairEvents |-> "place"]
PairValueOf   == [e \in PairEvents |-> e]
PairVersionsOf == 1 :> {1, 2}
PairReadings   == 1 :> (1 :> {<<"south">>} @@ 2 :> {<<"west">>, <<>>})
=============================================================================
