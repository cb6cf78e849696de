------------------------- MODULE FirstContactProofs -------------------------
(***************************************************************************)
(* Proofs about FirstContact, for any comments, scenes and limits: nothing  *)
(* is claimed of a business that was not seen (ClaimsObserved), and nobody  *)
(* gets two first messages (ReachedOnce).                                   *)
(*                                                                          *)
(* The first follows a claim from the page to the text: at every place a    *)
(* fact is stored or held, it is one that was observed, and what has been   *)
(* observed stays observed.  The second rests on there being one active     *)
(* draft at a time, and on the rows that the gate reads before it starts.   *)
(***************************************************************************)
EXTENDS FirstContact, SequenceTheorems, FiniteSetTheorems, WellFoundedInduction, TLAPS

-----------------------------------------------------------------------------
(* Operators                                                               *)

LEMMA Constants ==
  /\ None \notin OwnSites /\ None # "platform" /\ None \notin Answers /\ None \notin Nat /\ None \notin Snapshots
  /\ MaxAttempts \in Nat \ {0} /\ MaxDrafts \in Nat \ {0}
  /\ Comments \subseteq Nat /\ IsFiniteSet(Comments) /\ \A s \in Scenes : s \in SceneRecords
  /\ Visits \subseteq {1, 2}
BY FirstContactAssumption

\* The smaller of two numbers.
LEMMA MinOfTwo ==
  ASSUME NEW a \in Nat, NEW b \in Nat
  PROVE  /\ Min({a, b}) \in {a, b}
         /\ Min({a, b}) <= a /\ Min({a, b}) <= b
<1>1. PICK x \in {a, b} : \A y \in {a, b} : x <= y
  <2>1. CASE a <= b
    BY <2>1
  <2>2. CASE b <= a
    BY <2>2
  <2> QED
    BY <2>1, <2>2
<1> QED
  BY <1>1 DEF Min

\* A finite set of numbers has a greatest: otherwise take a smallest one that has none, and
\* one of its numbers away.
LEMMA GreatestExists ==
  ASSUME NEW S \in SUBSET Nat, IsFiniteSet(S), S # {}
  PROVE  Max(S) \in S
<1> DEFINE Topped(T) == \E x \in T : \A y \in T : x >= y
           Bad == {T \in SUBSET S : T # {} /\ ~Topped(T)}
           Sizes == {Cardinality(T) : T \in Bad}
<1>1. \A T \in SUBSET S : IsFiniteSet(T) /\ Cardinality(T) \in Nat
  BY FS_Subset, FS_CardinalityType
<1>2. Bad = {}
  <2> SUFFICES ASSUME Bad # {} PROVE FALSE
    OBVIOUS
  <2>1. Sizes \subseteq Nat /\ Sizes # {}
    BY <1>1
  <2>2. PICK n \in Sizes : \A m \in Sizes : ~(m < n)
    <3>1. PICK n \in Sizes : \A m \in Sizes : <<m, n>> \notin OpToRel(<, Nat)
      <4> HIDE DEF Sizes
      <4> QED
        BY <2>1, WFMin, NatLessThanWellFounded
    <3> HIDE DEF Sizes
    <3> QED
      BY <2>1, <3>1 DEF OpToRel
  <2>3. PICK T \in Bad : Cardinality(T) = n
    BY <2>2
  <2>4. PICK x \in T : TRUE
    BY <2>3
  <2> DEFINE U == T \ {x}
  <2>5. U \in SUBSET S /\ T \subseteq S /\ x \in S
    BY <2>3, <2>4
  <2>6. Cardinality(U) = n - 1 /\ n - 1 < n
    <3>1. IsFiniteSet(T) /\ Cardinality(T) \in Nat
      BY <1>1, <2>5
    <3>2. Cardinality(U) = Cardinality(T) - 1
      BY <2>4, <3>1, FS_RemoveElement
    <3> QED
      BY <2>3, <3>1, <3>2
  <2>7. U \notin Bad
    <3> HIDE DEF U, Bad
    <3> QED
      BY <2>2, <2>6
  <2>8. CASE U = {}
    <3>1. \A y \in T : y = x
      BY <2>8
    <3>2. Topped(T)
      BY <2>4, <2>5, <3>1
    <3> QED
      BY <2>3, <3>2
  <2>9. CASE U # {}
    <3>1. PICK m \in U : \A y \in U : m >= y
      BY <2>5, <2>7, <2>9
    <3>2. m \in T /\ m \in Nat /\ x \in Nat /\ \A y \in T : y = x \/ y \in U
      BY <2>5, <3>1
    <3>3. \A y \in T : y \in Nat
      BY <2>5
    <3>4. CASE m >= x
      <4>1. \A y \in T : m >= y
        BY <3>1, <3>2, <3>4
      <4> QED
        BY <2>3, <3>2, <4>1
    <3>5. CASE ~(m >= x)
      <4>1. \A y \in T : x >= y
        BY <3>1, <3>2, <3>3, <3>5
      <4> QED
        BY <2>3, <2>4, <4>1
    <3> QED
      BY <3>4, <3>5
  <2> QED
    BY <2>8, <2>9
<1>3. \E x \in S : \A y \in S : x >= y
  BY <1>2
<1> QED
  BY <1>3 DEF Max

\* The opportunity that weighs most is one of them.
LEMMA TopIsOne ==
  ASSUME NEW opps \in SUBSET Opportunities, opps # {}
  PROVE  Top(opps) \in opps
<1> DEFINE Best(o) == \A x \in opps : Weight[x] <= Weight[o]
<1>w. /\ Weight["NEW_WEBSITE"] = 30 /\ Weight["BROKEN_WEBSITE"] = 28 /\ Weight["WEBSITE_REBUILD"] = 18
      /\ Weight["ONLINE_BOOKING"] = 22 /\ Weight["VISUAL_SHOWCASE"] = 10
  BY DEF Weight, Opportunities
<1>1. \E o \in opps : Best(o)
  <2>1. CASE "NEW_WEBSITE" \in opps
    <3>1. Best("NEW_WEBSITE")
      BY <1>w DEF Opportunities
    <3> QED
      BY <2>1, <3>1
  <2>2. CASE "NEW_WEBSITE" \notin opps /\ "BROKEN_WEBSITE" \in opps
    <3>1. Best("BROKEN_WEBSITE")
      BY <1>w, <2>2 DEF Opportunities
    <3> QED
      BY <2>2, <3>1
  <2>3. CASE /\ "NEW_WEBSITE" \notin opps /\ "BROKEN_WEBSITE" \notin opps
             /\ "ONLINE_BOOKING" \in opps
    <3>1. Best("ONLINE_BOOKING")
      BY <1>w, <2>3 DEF Opportunities
    <3> QED
      BY <2>3, <3>1
  <2>4. CASE /\ opps \subseteq {"WEBSITE_REBUILD", "VISUAL_SHOWCASE"}
             /\ "WEBSITE_REBUILD" \in opps
    <3>1. Best("WEBSITE_REBUILD")
      BY <1>w, <2>4
    <3> QED
      BY <2>4, <3>1
  <2>5. CASE opps \subseteq {"VISUAL_SHOWCASE"}
    <3>1. PICK o \in opps : o = "VISUAL_SHOWCASE"
      BY <2>5
    <3>2. Best(o)
      BY <1>w, <2>5, <3>1
    <3> QED
      BY <3>2
  <2>6. opps \subseteq {"NEW_WEBSITE", "BROKEN_WEBSITE", "WEBSITE_REBUILD", "ONLINE_BOOKING",
                        "VISUAL_SHOWCASE"}
    BY DEF Opportunities
  <2>7. \/ "NEW_WEBSITE" \in opps
        \/ "NEW_WEBSITE" \notin opps /\ "BROKEN_WEBSITE" \in opps
        \/ /\ "NEW_WEBSITE" \notin opps /\ "BROKEN_WEBSITE" \notin opps
           /\ "ONLINE_BOOKING" \in opps
        \/ opps \subseteq {"WEBSITE_REBUILD", "VISUAL_SHOWCASE"} /\ "WEBSITE_REBUILD" \in opps
        \/ opps \subseteq {"VISUAL_SHOWCASE"}
    BY <2>6, Zenon
  <2> HIDE DEF Best
  <2> QED
    BY <2>1, <2>2, <2>3, <2>4, <2>5, <2>7
<1>2. Top(opps) = CHOOSE o \in opps : Best(o)
  BY DEF Top
<1> HIDE DEF Best
<1> QED
  BY <1>1, <1>2

LEMMA ScoreIsNatural ==
  ASSUME TypeOK, NEW opps \in SUBSET Opportunities
  PROVE  Score(opps) \in Nat
<1>1. scene.fit \in Nat
  BY Constants DEF TypeOK, SceneRecords
<1>2. CASE opps = {}
  BY <1>1, <1>2 DEF Score
<1>3. CASE opps # {}
  <2> DEFINE w == Weight[Top(opps)] + (IF Cardinality(opps) > 1 THEN 5 ELSE 0)
  <2>1. \A o \in Opportunities : Weight[o] \in Nat
    BY DEF Weight, Opportunities
  <2>2. w \in Nat
    BY <1>3, <2>1, TopIsOne
  <2> HIDE DEF w
  <2>3. Min({30, w}) \in Nat
    BY <2>2, MinOfTwo
  <2>4. Score(opps) = scene.fit + Min({30, w})
    BY <1>3 DEF Score, w
  <2> QED
    BY <1>1, <2>3, <2>4
<1> QED
  BY <1>2, <1>3

\* The latest of some stored snapshots is one of them: there are at most two.
LEMMA LatestIsOne ==
  ASSUME TypeOK, NEW S \in SUBSET Stored, S # {}
  PROVE  \E i \in S : LatestOf(S) = snaps[i]
<1> DEFINE Last(i) == \A j \in S : snaps[j].taken <= snaps[i].taken
<1>1. \A i \in S : i \in {1, 2} /\ snaps[i].taken \in Nat
  BY Constants DEF TypeOK, Stored, Snapshots
<1>2. \E i \in S : Last(i)
  <2>1. PICK a \in S : TRUE
    OBVIOUS
  <2>2. CASE \E b \in S : b # a /\ ~(snaps[b].taken <= snaps[a].taken)
    <3>1. PICK b \in S : b # a /\ ~(snaps[b].taken <= snaps[a].taken)
      BY <2>2
    <3>2. Last(b)
      BY <1>1, <3>1
    <3> QED
      BY <3>2
  <2>3. CASE \A b \in S : b # a => snaps[b].taken <= snaps[a].taken
    <3>1. Last(a)
      BY <1>1, <2>3
    <3> QED
      BY <3>1
  <2> QED
    BY <2>2, <2>3
<1>3. LatestOf(S) = snaps[CHOOSE i \in S : Last(i)]
  BY DEF LatestOf
<1> HIDE DEF Last
<1> QED
  BY <1>2, <1>3

\* What the merging of the stored snapshots keeps of them.
LEMMA MergedFromStored ==
  ASSUME TypeOK, Stored # {}
  PROVE  /\ Merged \in Seen
         /\ Merged.link # None => \E i \in Stored : snaps[i].link = Merged.link
         /\ Merged.books => \E i \in Stored : snaps[i].header /\ snaps[i].books
         /\ Merged.busy => \E i \in Stored : snaps[i].busy
<1> DEFINE linked == {i \in Stored : snaps[i].link # None}
           read == {i \in Stored : snaps[i].header}
<1>1. \A i \in Stored : snaps[i] \in Snapshots
  BY DEF TypeOK, Stored
<1>2. linked # {} => \E i \in linked : LatestOf(linked) = snaps[i]
  BY LatestIsOne
<1>3. read # {} => \E i \in read : LatestOf(read) = snaps[i]
  BY LatestIsOne
<1>4. \E i \in Stored : LatestOf(Stored) = snaps[i]
  BY LatestIsOne
<1>5. Merged = [link |-> IF linked = {} THEN None ELSE LatestOf(linked).link,
                books |-> read # {} /\ LatestOf(read).books,
                busy |-> LatestOf(Stored).busy, closed |-> LatestOf(Stored).closed]
  BY DEF Merged
<1>6. /\ Merged.link = IF linked = {} THEN None ELSE LatestOf(linked).link
      /\ Merged.books = (read # {} /\ LatestOf(read).books)
      /\ Merged.busy = LatestOf(Stored).busy
  BY <1>5
<1>7. linked # {} => LatestOf(linked).link \in Links
  BY <1>1, <1>2 DEF Snapshots
<1>8. LatestOf(Stored).busy \in BOOLEAN /\ LatestOf(Stored).closed \in BOOLEAN
  BY <1>1, <1>4 DEF Snapshots
<1>9. (read # {} /\ LatestOf(read).books) \in BOOLEAN
  OBVIOUS
<1>10. None \in Links
  BY DEF Links
<1>11. Merged \in Seen
  BY <1>5, <1>7, <1>8, <1>9, <1>10 DEF Seen
<1> QED
  BY <1>2, <1>3, <1>4, <1>6, <1>11
-----------------------------------------------------------------------------
(* Types                                                                   *)

LEMMA Elements ==
  ASSUME NEW S, NEW s \in Seq(S)
  PROVE  \A k \in DOMAIN s : s[k] \in S
OBVIOUS

LEMMA DraftTyped ==
  ASSUME TypeOK, NEW d \in DOMAIN drafts
  PROVE  /\ drafts[d] \in DraftRecords
         /\ d \in 1..MaxDrafts
         /\ DOMAIN drafts = 1..Len(drafts) /\ Len(drafts) \in Nat
BY Constants DEF TypeOK

\* Drafts are rewritten in place, or one is added.
LEMMA Rewritten ==
  ASSUME TypeOK, NEW ds, ds \in [DOMAIN drafts -> DraftRecords]
  PROVE  /\ ds \in Seq(DraftRecords) /\ Len(ds) = Len(drafts) /\ Len(ds) <= MaxDrafts
         /\ DOMAIN ds = DOMAIN drafts
<1>1. DOMAIN drafts = 1..Len(drafts) /\ Len(drafts) \in Nat /\ Len(drafts) <= MaxDrafts
  BY DEF TypeOK
<1>2. ds \in [1..Len(drafts) -> DraftRecords]
  BY <1>1
<1>3. ds \in Seq(DraftRecords) /\ Len(ds) = Len(drafts)
  BY <1>1, <1>2
<1> QED
  BY <1>1, <1>3

LEMMA StatusTyped ==
  ASSUME TypeOK, NEW d \in DOMAIN drafts, NEW s \in Statuses
  PROVE  WithStatus(d, s) \in [DOMAIN drafts -> DraftRecords]
<1>1. \A e \in DOMAIN drafts : drafts[e] \in DraftRecords
  BY DraftTyped
<1>2. drafts \in [DOMAIN drafts -> DraftRecords]
  BY <1>1 DEF TypeOK
<1>3. [drafts[d] EXCEPT !.status = s] \in DraftRecords
  BY <1>1 DEF DraftRecords
<1> QED
  BY <1>2, <1>3 DEF WithStatus

LEMMA CancelledTyped ==
  ASSUME NEW D, NEW ds, ds \in [D -> DraftRecords]
  PROVE  Cancelled(ds) \in [D -> DraftRecords]
<1>1. \A d \in D : ds[d] \in DraftRecords /\ [ds[d] EXCEPT !.status = "CANCELLED"] \in DraftRecords
  BY DEF DraftRecords, Statuses
<1> QED
  BY <1>1 DEF Cancelled

\* How far each execution of the inspection has come, and what it has by then.
Staged ==
  \A i \in Visits :
    /\ visit[i].at = "read" => visit[i].got # None
    /\ visit[i].at = "stored" => snaps[i] # None
    /\ visit[i].at = "checked" =>
         /\ visit[i].obs \in Seen
         /\ visit[i].web # None => visit[i].obs.link \in OwnSites

\* There is room for the draft that is being composed.
Room == planned # None => Len(drafts) < MaxDrafts

\* The sender holds one of the drafts.
Held == send # None => send.draft \in DOMAIN drafts

Typed == TypeOK /\ Staged /\ Room /\ Held

LEMMA TypesInit == Init => TypeOK
<1> SUFFICES ASSUME Init PROVE TypeOK
  OBVIOUS
<1> USE DEF Init
<1>1. scene \in Scenes /\ page \in Seen
  BY Constants DEF SceneRecords
<1>2. visit \in [Visits -> VisitRecords] /\ snaps \in [Visits -> Snapshots \union {None}]
  BY DEF Waiting, VisitRecords
<1>3. lead \in LeadRecords /\ comment \in [Comments -> Ages \union {None}]
  BY DEF LeadRecords, LeadStatuses
<1>4. drafts \in Seq(DraftRecords) /\ Len(drafts) <= MaxDrafts /\ thread \in Seq(1..MaxDrafts)
  BY Constants
<1> QED
  BY <1>1, <1>2, <1>3, <1>4 DEF TypeOK

LEMMA FactsTyped ==
  /\ Facts \subseteq (FactKinds \union Answers) \X Links
  /\ \A link \in Links : LinkFact(link) \in Facts
  /\ \A obs : ProfileFacts(obs) \subseteq Facts
  /\ \A link \in Links : \A web : CheckFacts(link, web) \subseteq Facts
  /\ \A obs \in Seen : \A web : FactsOf(obs, web) \subseteq Facts
<1>1. Facts \subseteq (FactKinds \union Answers) \X Links
  BY DEF Facts
<1>2. \A link \in Links : LinkFact(link) \in Facts
  BY DEF LinkFact, Facts, FactKinds
<1>3. None \in Links
  BY DEF Links
<1>4. \A obs : ProfileFacts(obs) \subseteq Facts
  <2>1. <<"booking", None>> \in Facts /\ <<"posts", None>> \in Facts
    BY <1>3 DEF Facts, FactKinds
  <2> QED
    BY <2>1 DEF ProfileFacts
<1>5. \A link \in Links : \A web : CheckFacts(link, web) \subseteq Facts
  <2>1. \A k \in FactKinds, link \in Links : <<k, link>> \in Facts
    BY DEF Facts
  <2>2. {"error", "built", "no widget"} \subseteq FactKinds
    BY DEF FactKinds
  <2>3. ASSUME NEW link \in Links, NEW web
        PROVE  CheckFacts(link, web) \subseteq Facts
    <3> DEFINE K == (IF web = "error" THEN {"error"} ELSE {})
                       \union (IF web = "built" THEN {"built"} ELSE {})
                       \union (IF web \in Loaded \ {"bookable"} THEN {"no widget"} ELSE {})
    <3>1. K \subseteq FactKinds
      BY <2>2
    <3>2. CheckFacts(link, web) = {<<k, link>> : k \in K}
      BY DEF CheckFacts
    <3> HIDE DEF K
    <3> QED
      BY <2>1, <3>1, <3>2
  <2> QED
    BY <2>3
<1>6. ASSUME NEW obs \in Seen, NEW web
      PROVE  FactsOf(obs, web) \subseteq Facts
  <2>1. obs.link \in Links
    BY DEF Seen
  <2> QED
    BY <1>2, <1>4, <1>5, <2>1 DEF FactsOf
<1> QED
  BY <1>1, <1>2, <1>4, <1>5, <1>6

\* What an inspection reads, as it is found on the page.
LEMMA InspectReads ==
  ASSUME Typed, NEW i \in Visits, Inspect(i)
  PROVE  \E got \in Snapshots :
           /\ visit' = [visit EXCEPT ![i].at = "read", ![i].got = got]
           /\ observed' = observed \union SnapshotFacts(got)
           /\ got.header \/ got.link = None
<1>1. page \in Seen
  BY DEF Typed, TypeOK
<1>2. PICK header \in BOOLEAN :
        LET got == [header |-> header, link |-> IF header THEN page.link ELSE None,
                    books |-> header /\ page.books, busy |-> page.busy, closed |-> page.closed,
                    taken |-> 1 + Cardinality({j \in Visits : visit[j].got # None})]
        IN /\ visit' = [visit EXCEPT ![i].at = "read", ![i].got = got]
           /\ observed' = observed \union SnapshotFacts(got)
  BY DEF Inspect
<1> DEFINE got == [header |-> header, link |-> IF header THEN page.link ELSE None,
                   books |-> header /\ page.books, busy |-> page.busy, closed |-> page.closed,
                   taken |-> 1 + Cardinality({j \in Visits : visit[j].got # None})]
<1>3. Cardinality({j \in Visits : visit[j].got # None}) \in Nat
  <2>1. IsFiniteSet({1, 2})
    <3>1. IsFiniteSet({1}) /\ {1} \union {2} = {1, 2}
      BY FS_Singleton
    <3>2. IsFiniteSet({1} \union {2})
      BY <3>1, FS_AddElement
    <3> QED
      BY <3>1, <3>2
  <2>2. IsFiniteSet({j \in Visits : visit[j].got # None})
    BY <2>1, Constants, FS_Subset
  <2> QED
    BY <2>2, FS_CardinalityType
<1>4. got \in Snapshots /\ (got.header \/ got.link = None)
  BY <1>1, <1>3 DEF Seen, Snapshots, Links
<1>5. /\ visit' = [visit EXCEPT ![i].at = "read", ![i].got = got]
      /\ observed' = observed \union SnapshotFacts(got)
  BY <1>2
<1> HIDE DEF got
<1> QED
  BY <1>4, <1>5

\* What an analysis starts from: the stored snapshots merged, and how the website answers.
LEMMA CheckReads ==
  ASSUME Typed, NEW i \in Visits, CheckWebsite(i)
  PROVE  \E obs \in Seen, web \in Answers \union {None} :
           /\ obs = Merged /\ Stored # {} /\ (web # None => obs.link \in OwnSites)
           /\ visit' = [visit EXCEPT ![i].at = "checked", ![i].obs = obs, ![i].web = web]
           /\ observed' = observed \union
                (IF web = None \/ Reusable(obs) THEN {} ELSE {<<web, obs.link>>})
           /\ web # None /\ Reusable(obs) => web = check.web
<1> DEFINE obs == Merged
<1>1. PICK web \in (IF obs.link \notin OwnSites \/ ~scene.checks THEN {None}
                    ELSE IF Reusable(obs) THEN {check.web} ELSE scene.answers) :
        /\ visit' = [visit EXCEPT ![i].at = "checked", ![i].obs = obs, ![i].web = web]
        /\ observed' = observed \union
             (IF web = None \/ Reusable(obs) THEN {} ELSE {<<web, obs.link>>})
  BY DEF CheckWebsite
<1>2. i \in Stored
  BY DEF CheckWebsite, Typed, Staged, Stored
<1>3. obs \in Seen
  BY <1>2, MergedFromStored DEF Typed
<1>4. scene \in SceneRecords /\ (Reusable(obs) => check.web \in Answers)
  BY Constants DEF Reusable, Typed, TypeOK
<1> HIDE DEF obs
<1>5. web \in Answers \union {None}
  BY <1>1, <1>4 DEF SceneRecords
<1>6. /\ web # None => obs.link \in OwnSites
      /\ web # None /\ Reusable(obs) => web = check.web
  BY <1>1
<1> QED
  BY <1>1, <1>2, <1>3, <1>5, <1>6 DEF obs

\* An inspection and its analysis.
LEMMA VisitTypes ==
  ASSUME Typed, NEW i \in Visits,
         Inspect(i) \/ StoreSnapshot(i) \/ InspectionFails(i) \/ CheckWebsite(i) \/ Judge(i)
  PROVE  TypeOK'
<1>1. /\ visit[i] \in VisitRecords /\ scene \in SceneRecords /\ page \in Seen /\ lead \in LeadRecords
      /\ visit \in [Visits -> VisitRecords]
  BY Constants DEF Typed, TypeOK
<1> USE DEF Typed
<1>2. CASE Inspect(i)
  <2>1. PICK got \in Snapshots :
          /\ visit' = [visit EXCEPT ![i].at = "read", ![i].got = got]
          /\ observed' = observed \union SnapshotFacts(got)
    BY <1>2, InspectReads
  <2>5. visit' \in [Visits -> VisitRecords]
    BY <1>1, <2>1 DEF VisitRecords
  <2>6. got.link \in Links
    BY DEF Snapshots
  <2>7. SnapshotFacts(got) \subseteq (FactKinds \union Answers) \X Links
    BY <2>6, FactsTyped DEF SnapshotFacts
  <2> QED
    BY <1>2, <2>1, <2>5, <2>7 DEF TypeOK, Inspect, sendVars
<1>3. CASE StoreSnapshot(i)
  <2>1. visit' \in [Visits -> VisitRecords]
    BY <1>1, <1>3 DEF StoreSnapshot, VisitRecords
  <2>2. snaps' \in [Visits -> Snapshots \union {None}]
    BY <1>1, <1>3 DEF StoreSnapshot, VisitRecords, TypeOK
  <2> QED
    BY <1>3, <2>1, <2>2 DEF TypeOK, StoreSnapshot, sendVars
<1>4. CASE InspectionFails(i)
  <2>1. visit' \in [Visits -> VisitRecords]
    BY <1>1, <1>4 DEF InspectionFails, VisitRecords
  <2>2. lead' \in LeadRecords
    BY <1>1, <1>4 DEF InspectionFails, LeadRecords, LeadStatuses
  <2> QED
    BY <1>4, <2>1, <2>2 DEF TypeOK, InspectionFails, sendVars
<1>5. CASE CheckWebsite(i)
  <2>1. PICK obs \in Seen, web \in Answers \union {None} :
          /\ obs = Merged /\ Stored # {} /\ (web # None => obs.link \in OwnSites)
          /\ visit' = [visit EXCEPT ![i].at = "checked", ![i].obs = obs, ![i].web = web]
          /\ observed' = observed \union
               (IF web = None \/ Reusable(obs) THEN {} ELSE {<<web, obs.link>>})
          /\ web # None /\ Reusable(obs) => web = check.web
    BY <1>5, CheckReads
  <2>5. visit' \in [Visits -> VisitRecords]
    BY <1>1, <2>1 DEF VisitRecords
  <2>6. observed' \subseteq (FactKinds \union Answers) \X Links
    <3>1. observed \subseteq (FactKinds \union Answers) \X Links
      BY DEF TypeOK
    <3>2. web # None => <<web, obs.link>> \in (FactKinds \union Answers) \X Links
      BY DEF Seen
    <3> QED
      BY <2>1, <3>1, <3>2
  <2> QED
    BY <1>5, <2>5, <2>6 DEF TypeOK, CheckWebsite, sendVars
<1>6. CASE Judge(i)
  <2> DEFINE obs == visit[i].obs
             web == visit[i].web
             opps == OpportunitiesOf(obs, web)
  <2>1. obs \in Seen /\ web \in Answers \union {None} /\ (web # None => obs.link \in OwnSites)
    BY <1>1, <1>6 DEF Judge, Staged, VisitRecords
  <2>2. /\ visit' = [visit EXCEPT ![i].at = "done"]
        /\ check' = IF web = None THEN None ELSE [url |-> obs.link, web |-> web]
        /\ lead' = [lead EXCEPT
             !.facts = FactsOf(obs, web), !.opps = opps, !.score = Score(opps),
             !.status = IF @ \in {"DISCOVERED", "ANALYZED", "QUALIFIED", "DISQUALIFIED"}
                        THEN Judged(obs, opps, Score(opps)) ELSE @]
    BY <1>6 DEF Judge
  <2>3. opps \subseteq Opportunities
    BY DEF OpportunitiesOf, Opportunities
  <2> HIDE DEF obs, web, opps
  <2>4. FactsOf(obs, web) \subseteq Facts
    BY <2>1, FactsTyped
  <2>5. Score(opps) \in Nat
    BY <2>3, ScoreIsNatural
  <2>6. Judged(obs, opps, Score(opps)) \in LeadStatuses
    BY DEF Judged, LeadStatuses
  <2>7. lead' \in LeadRecords
    BY <1>1, <2>2, <2>3, <2>4, <2>5, <2>6 DEF LeadRecords
  <2>8. check' \in [url : OwnSites, web : Answers] \union {None}
    BY <2>1, <2>2
  <2>9. visit' \in [Visits -> VisitRecords]
    BY <1>1, <2>2 DEF VisitRecords
  <2> QED
    BY <1>6, <2>7, <2>8, <2>9 DEF TypeOK, Judge, sendVars
<1> QED
  BY <1>2, <1>3, <1>4, <1>5, <1>6
\* A comment arrives or ages; the business edits its profile.
LEMMA OutsideTypes ==
  ASSUME Typed, \/ PageChanges
                \/ \E c \in Comments : CommentArrives(c) \/ CommentAges(c)
  PROVE  TypeOK'
<1>1. /\ scene \in SceneRecords /\ lead \in LeadRecords /\ comment \in [Comments -> Ages \union {None}]
      /\ observed \subseteq (FactKinds \union Answers) \X Links
  BY Constants DEF Typed, TypeOK
<1> USE DEF Typed
<1>2. CASE PageChanges
  <2>1. page' \in Seen
    BY <1>1, <1>2 DEF PageChanges, SceneRecords
  <2> QED
    BY <1>2, <2>1 DEF TypeOK, PageChanges, sendVars
<1>3. ASSUME NEW c \in Comments, CommentArrives(c)
      PROVE  TypeOK'
  <2>1. lead' \in LeadRecords
    BY <1>1, <1>3 DEF CommentArrives, LeadRecords, LeadStatuses, SceneRecords
  <2>2. comment' \in [Comments -> Ages \union {None}]
    BY <1>1, <1>3 DEF CommentArrives, Ages
  <2>3. <<"comment", None>> \in (FactKinds \union Answers) \X Links
    BY DEF FactKinds, Links
  <2>4. observed' \subseteq (FactKinds \union Answers) \X Links
    BY <1>1, <1>3, <2>3 DEF CommentArrives
  <2> QED
    BY <1>3, <2>1, <2>2, <2>4 DEF TypeOK, CommentArrives, leadVars, sendVars
<1>4. ASSUME NEW c \in Comments, CommentAges(c)
      PROVE  TypeOK'
  <2>1. comment' \in [Comments -> Ages \union {None}]
    BY <1>1, <1>4 DEF CommentAges, Ages
  <2> QED
    BY <1>4, <2>1 DEF TypeOK, CommentAges, leadVars, sendVars
<1> QED
  BY <1>2, <1>3, <1>4

\* A step that only rewrites drafts and the lead's status.
LEMMA RewriteTypes ==
  ASSUME TypeOK, drafts' \in [DOMAIN drafts -> DraftRecords], lead' \in LeadRecords,
         UNCHANGED <<scene, leadVars, comment, observed>>,
         planned' \in Plans \union {None}, send' \in Sends \union {None},
         thread' \in Seq(1..MaxDrafts), replied' \subseteq Comments, echoes' \subseteq DOMAIN drafts
  PROVE  TypeOK'
<1>1. /\ drafts' \in Seq(DraftRecords) /\ Len(drafts') <= MaxDrafts
      /\ DOMAIN drafts' = DOMAIN drafts
  BY Rewritten
<1> QED
  BY <1>1 DEF TypeOK, leadVars

\* A draft that is queued.
LEMMA PlanTypes ==
  ASSUME Typed, Plan \/ CompositionFails
  PROVE  TypeOK'
<1>1. /\ scene \in SceneRecords /\ lead \in LeadRecords /\ planned \in Plans \union {None}
      /\ drafts \in Seq(DraftRecords) /\ Len(drafts) \in Nat
  BY Constants DEF Typed, TypeOK
<1> USE DEF Typed
<1>2. CASE PlanFirstMessage
  <2>1. <<"comment", None>> \in Facts
    BY DEF Facts, FactKinds, Links
  <2>2. Top(lead.opps) \in Opportunities \union {None}
    <3>1. lead.opps \subseteq Opportunities
      BY <1>1 DEF LeadRecords
    <3> QED
      BY <3>1, TopIsOne DEF Top
  <2>3. Recent # {} => Max(Recent) \in Comments
    <3>1. Recent \in SUBSET Comments
      BY DEF Recent
    <3>2. Recent \in SUBSET Nat /\ IsFiniteSet(Recent)
      BY <3>1, Constants, FS_Subset
    <3> QED
      BY <3>1, <3>2, GreatestExists
  <2>4. planned' \in Plans
    BY <1>1, <1>2, <2>1, <2>2, <2>3 DEF PlanFirstMessage, Plans, LeadRecords
  <2> QED
    BY <1>2, <2>4 DEF TypeOK, PlanFirstMessage, leadVars, sendVars
<1>3. CASE CompositionFails
  <2>1. lead' \in LeadRecords
    BY <1>1, <1>3 DEF CompositionFails, LeadRecords, LeadStatuses
  <2> QED
    BY <1>3, <2>1 DEF TypeOK, CompositionFails, leadVars, sendVars
<1>4. CASE QueueFirstMessage
  <2>1. planned \in Plans /\ Len(drafts) < MaxDrafts
    BY <1>1, <1>4 DEF QueueFirstMessage, Room
  <2>2. PICK claims \in Texts(planned), status \in {"BLOCKED", "APPROVED", "PENDING_APPROVAL"} :
          drafts' = Append(drafts, [comment |-> planned.comment, claims |-> claims, attempts |-> 0,
                                    row |-> "none", mishaps |-> 0, status |-> status])
    BY <1>4 DEF QueueFirstMessage
  <2> DEFINE draft == [comment |-> planned.comment, claims |-> claims, attempts |-> 0,
                       row |-> "none", mishaps |-> 0, status |-> status]
  <2>3. claims \subseteq Facts
    <3>1. TemplateClaims(planned) \subseteq planned.facts
      BY DEF TemplateClaims
    <3>2. claims \subseteq planned.facts
      BY <2>2, <3>1 DEF Texts
    <3> QED
      BY <2>1, <3>2 DEF Plans
  <2>4. draft \in DraftRecords
    BY <2>1, <2>2, <2>3, Constants DEF DraftRecords, Plans, Statuses, Open, AwaitingPerson,
       RowStates
  <2> HIDE DEF draft
  <2>5. /\ drafts' \in Seq(DraftRecords) /\ Len(drafts') = Len(drafts) + 1
        /\ DOMAIN drafts \subseteq DOMAIN drafts'
    <3>1. drafts' = Append(drafts, draft)
      BY <2>2 DEF draft
    <3>2. drafts' \in Seq(DraftRecords) /\ Len(drafts') = Len(drafts) + 1
      BY <1>1, <2>4, <3>1, AppendProperties
    <3> QED
      BY <1>1, <3>2
  <2>6. Len(drafts') <= MaxDrafts
    BY <1>1, <2>1, <2>5, Constants
  <2>7. lead' \in LeadRecords
    <3>1. StatusAfterBlock(Len(drafts) + 1) \in LeadStatuses
      BY DEF StatusAfterBlock, LeadStatuses
    <3> QED
      BY <1>1, <1>4, <3>1 DEF QueueFirstMessage, LeadRecords, LeadStatuses
  <2>8. planned' = None
    BY <1>4 DEF QueueFirstMessage
  <2> QED
    BY <1>4, <2>5, <2>6, <2>7, <2>8 DEF TypeOK, QueueFirstMessage, leadVars, sendVars
<1> QED
  BY <1>2, <1>3, <1>4 DEF Plan
\* The operator decides, and what is approved is taken up.
LEMMA DecisionTypes ==
  ASSUME Typed, NEW d \in DOMAIN drafts,
         \/ Approve(d) \/ Reject(d) \/ RejectAndRedraft(d) \/ Expire(d) \/ ResumeLane(d)
         \/ Prepare(d) \/ Echo(d)
  PROVE  TypeOK'
<1>1. /\ lead \in LeadRecords /\ planned \in Plans \union {None} /\ send \in Sends \union {None}
      /\ thread \in Seq(1..MaxDrafts) /\ replied \subseteq Comments /\ echoes \subseteq DOMAIN drafts
      /\ drafts \in [DOMAIN drafts -> DraftRecords] /\ drafts[d] \in DraftRecords /\ d \in 1..MaxDrafts
  BY DraftTyped DEF Typed, TypeOK
<1>2. \A s \in Statuses : WithStatus(d, s) \in [DOMAIN drafts -> DraftRecords]
  BY StatusTyped DEF Typed
<1>3. {"APPROVED", "REJECTED", "EXPIRED", "CANCELLED", "EXECUTING"} \subseteq Statuses
  BY DEF Statuses, Open
<1>4. \A s \in LeadStatuses, b \in BOOLEAN :
        /\ [lead EXCEPT !.status = s] \in LeadRecords
        /\ [lead EXCEPT !.igsid = b] \in LeadRecords
        /\ [lead EXCEPT !.igsid = b, !.status = s] \in LeadRecords
  BY <1>1 DEF LeadRecords
<1>5. {"DISQUALIFIED", "QUALIFIED", "HANDED_OFF", "CONTACTED"} \subseteq LeadStatuses /\ lead.status \in LeadStatuses
  BY <1>1 DEF LeadRecords, LeadStatuses
<1>6. CASE Approve(d)
  BY <1>1, <1>2, <1>3, <1>6, RewriteTypes DEF Approve, Typed, sendVars
<1>7. CASE Reject(d)
  BY <1>1, <1>2, <1>3, <1>4, <1>5, <1>7, RewriteTypes DEF Reject, Typed, sendVars
<1>8. CASE RejectAndRedraft(d)
  BY <1>1, <1>2, <1>3, <1>4, <1>5, <1>8, RewriteTypes DEF RejectAndRedraft, Typed, sendVars
<1>9. CASE Expire(d)
  <2>1. lead' \in LeadRecords
    BY <1>4, <1>5, <1>9 DEF Expire
  <2> QED
    BY <1>1, <1>2, <1>3, <1>9, <2>1, RewriteTypes DEF Expire, Typed, sendVars
<1>10. CASE ResumeLane(d)
  BY <1>1, <1>2, <1>3, <1>10, RewriteTypes DEF ResumeLane, Typed, sendVars
<1>11. CASE Prepare(d)
  <2>1. drafts' \in [DOMAIN drafts -> DraftRecords]
    BY <1>2, <1>3, <1>11 DEF Prepare
  <2>2. lead' \in LeadRecords
    <3>1. StatusAfterBlock(d) \in LeadStatuses
      BY <1>5 DEF StatusAfterBlock
    <3> QED
      BY <1>1, <1>4, <1>5, <1>11, <3>1 DEF Prepare
  <2>3. send' \in Sends \union {None}
    <3>1. lead.igsid \in BOOLEAN /\ (drafts[d].attempts > 0 \/ drafts[d].row # "none") \in BOOLEAN
      BY <1>1 DEF LeadRecords
    <3> DEFINE looks == drafts[d].attempts > 0 \/ drafts[d].row # "none"
               held == [draft |-> d, leased |-> FALSE, looks |-> looks, igsid |-> lead.igsid,
                        saw |-> {}, result |-> None]
    <3>2. held \in Sends
      <4> HIDE DEF looks
      <4> QED
        BY <1>1, <3>1 DEF Sends, looks
    <3>3. send' = held \/ send' = send
      BY <1>11 DEF Prepare
    <3> HIDE DEF held
    <3> QED
      BY <1>1, <3>2, <3>3
  <2> QED
    BY <1>1, <1>11, <2>1, <2>2, <2>3, RewriteTypes DEF Prepare, Typed
<1>12. CASE Echo(d)
  <2>1. drafts' \in [DOMAIN drafts -> DraftRecords]
    <3>1. [drafts[d] EXCEPT !.row = "SENT"] \in DraftRecords
      BY <1>1 DEF DraftRecords, RowStates
    <3>2. [drafts EXCEPT ![d].row = "SENT"] \in [DOMAIN drafts -> DraftRecords]
      BY <1>1, <3>1
    <3>3. Cancelled(drafts) \in [DOMAIN drafts -> DraftRecords]
      BY <1>1, CancelledTyped
    <3> QED
      BY <1>12, <3>2, <3>3 DEF Echo
  <2>2. lead' \in LeadRecords
    BY <1>4, <1>5, <1>12 DEF Echo
  <2>3. echoes' \subseteq DOMAIN drafts
    BY <1>1, <1>12 DEF Echo
  <2> QED
    BY <1>1, <1>12, <2>1, <2>2, <2>3, RewriteTypes DEF Echo, Typed
<1> QED
  BY <1>6, <1>7, <1>8, <1>9, <1>10, <1>11, <1>12

LEMMA TakeOverTypes ==
  ASSUME Typed, TakeOver
  PROVE  TypeOK'
<1>1. /\ lead \in LeadRecords /\ planned \in Plans \union {None} /\ send \in Sends \union {None}
      /\ thread \in Seq(1..MaxDrafts) /\ replied \subseteq Comments /\ echoes \subseteq DOMAIN drafts
      /\ drafts \in [DOMAIN drafts -> DraftRecords]
  BY DraftTyped DEF Typed, TypeOK
<1>2. drafts' \in [DOMAIN drafts -> DraftRecords]
  BY <1>1, CancelledTyped DEF TakeOver
<1>3. lead' \in LeadRecords
  BY <1>1 DEF TakeOver, LeadRecords, LeadStatuses
<1> QED
  BY <1>1, <1>2, <1>3, RewriteTypes DEF TakeOver, Typed, sendVars

\* What the sender reports.
LEMMA ReportTypes ==
  ASSUME TypeOK, send # None, NEW r \in Results, Reports(r)
  PROVE  send' \in Sends /\ send' = [send EXCEPT !.result = r]
BY DEF TypeOK, Sends, Reports

\* A draft is executed.
LEMMA ExecuteTypes ==
  ASSUME Typed, TurnedAway \/ LeaseConversation \/ ReplyPrivately \/ Message
  PROVE  TypeOK'
<1> DEFINE d == send.draft
<1>1. /\ lead \in LeadRecords /\ planned \in Plans \union {None} /\ send \in Sends /\ send # None
      /\ thread \in Seq(1..MaxDrafts) /\ replied \subseteq Comments /\ echoes \subseteq DOMAIN drafts
      /\ drafts \in [DOMAIN drafts -> DraftRecords] /\ d \in DOMAIN drafts
      /\ drafts[d] \in DraftRecords /\ d \in 1..MaxDrafts
  <2>1. send # None
    BY DEF TurnedAway, LeaseConversation, ReplyPrivately, Message, Sending
  <2>2. d \in DOMAIN drafts
    BY <2>1 DEF Typed, Held
  <2> QED
    BY <2>1, <2>2, DraftTyped DEF Typed, TypeOK
<1> HIDE DEF d
<1>2. \A r \in Results : Reports(r) => send' \in Sends \union {None}
  BY <1>1, ReportTypes DEF Typed
<1>3. NotSent \subseteq Results /\ PrivateReplyFallback \subseteq Results
      /\ {"SUCCESS", "RETRYABLE_FAILURE", "RATE_LIMITED", "BARRIER"} \subseteq Results
      /\ {"NOT_PERMITTED", "OWNERSHIP_CONFLICT", "TARGET_NOT_FOUND", "CAPABILITY_UNAVAILABLE",
          "ALREADY_CONTACTED"} \subseteq Results
  BY DEF Results, NotSent, PrivateReplyFallback
<1>4. Delivered(d) => /\ thread' \in Seq(1..MaxDrafts) /\ echoes' \subseteq DOMAIN drafts
                      /\ send' \in Sends \union {None}
  <2>1. Append(thread, d) \in Seq(1..MaxDrafts)
    BY <1>1, AppendProperties
  <2> QED
    BY <1>1, <1>2, <1>3, <2>1 DEF Delivered
<1>5. ASSUME NEW R \in SUBSET Results, NotDelivered(R)
      PROVE  send' \in Sends \union {None} /\ UNCHANGED <<thread, echoes>>
  BY <1>2, <1>3, <1>5 DEF NotDelivered
<1>6. CASE TurnedAway
  <2>1. send' \in Sends \union {None}
    BY <1>2, <1>3, <1>6 DEF TurnedAway
  <2> QED
    BY <1>1, <1>6, <2>1, RewriteTypes DEF TurnedAway, Typed
<1>7. CASE LeaseConversation
  <2>1. send' \in Sends
    BY <1>1, <1>7 DEF LeaseConversation, Sends
  <2>2. [drafts[d] EXCEPT !.row = "PENDING"] \in DraftRecords
    BY <1>1 DEF DraftRecords, RowStates
  <2>3. drafts' = [drafts EXCEPT ![d].row = "PENDING"]
    BY <1>7 DEF LeaseConversation, d
  <2>4. drafts' \in [DOMAIN drafts -> DraftRecords]
    BY <1>1, <2>2, <2>3
  <2> QED
    BY <1>1, <1>7, <2>1, <2>4, RewriteTypes DEF LeaseConversation, Typed
<1>8. CASE ReplyPrivately
  <2>1. /\ send' \in Sends \union {None} /\ thread' \in Seq(1..MaxDrafts)
        /\ replied' \subseteq Comments /\ echoes' \subseteq DOMAIN drafts
    <3>1. drafts[d].comment \in Comments
      BY <1>1, <1>8 DEF ReplyPrivately, Private, DraftRecords, d
    <3>2. CASE Reports("SUCCESS") /\ UNCHANGED <<thread, replied, echoes>>
      BY <1>1, <1>2, <1>3, <3>2
    <3>3. CASE Reports("OWNERSHIP_CONFLICT") /\ UNCHANGED <<thread, replied, echoes>>
      BY <1>1, <1>2, <1>3, <3>3
    <3>4. CASE Delivered(d) /\ replied' = replied \union {drafts[d].comment}
      BY <1>1, <1>4, <3>1, <3>4
    <3>5. CASE /\ NotDelivered({"NOT_PERMITTED"} \union (IF scene.refused THEN PrivateReplyFallback ELSE {}))
               /\ UNCHANGED replied
      <4>1. {"NOT_PERMITTED"} \union (IF scene.refused THEN PrivateReplyFallback ELSE {}) \in SUBSET Results
        <5>1. (IF scene.refused THEN PrivateReplyFallback ELSE {}) \subseteq Results
          BY <1>3
        <5>2. {"NOT_PERMITTED"} \subseteq Results
          BY <1>3
        <5> QED
          BY <5>1, <5>2
      <4>2. send' \in Sends \union {None} /\ UNCHANGED <<thread, echoes>>
        BY <1>5, <3>5, <4>1
      <4> QED
        BY <1>1, <3>5, <4>2
    <3> QED
      BY <1>8, <3>2, <3>3, <3>4, <3>5 DEF ReplyPrivately, d
  <2> QED
    BY <1>1, <1>8, <2>1, RewriteTypes DEF ReplyPrivately, Typed
<1>9. CASE Message
  <2>1. send' \in Sends \union {None} /\ thread' \in Seq(1..MaxDrafts) /\ echoes' \subseteq DOMAIN drafts
    <3>1. CASE Reports("SUCCESS") /\ UNCHANGED <<thread, echoes>>
      BY <1>1, <1>2, <1>3, <3>1
    <3>2. CASE /\ send' = [send EXCEPT !.result = "ALREADY_CONTACTED", !.saw = {thread[k] : k \in DOMAIN thread}]
               /\ UNCHANGED <<thread, echoes>>
      <4>1. {thread[k] : k \in DOMAIN thread} \subseteq 1..MaxDrafts
        <5>1. \A k \in DOMAIN thread : thread[k] \in 1..MaxDrafts
          BY <1>1, Elements
        <5> QED
          BY <5>1
      <4> QED
        BY <1>1, <1>3, <3>2, <4>1 DEF Sends
    <3>3. CASE Reports("OWNERSHIP_CONFLICT") /\ UNCHANGED <<thread, echoes>>
      BY <1>1, <1>2, <1>3, <3>3
    <3>4. CASE Delivered(d)
      BY <1>4, <3>4
    <3>5. CASE NotDelivered({"NOT_PERMITTED", "TARGET_NOT_FOUND"})
      <4>1. {"NOT_PERMITTED", "TARGET_NOT_FOUND"} \in SUBSET Results
        BY <1>3
      <4> QED
        BY <1>1, <1>5, <3>5, <4>1
    <3> QED
      BY <1>9, <3>1, <3>2, <3>3, <3>4, <3>5 DEF Message, d
  <2> QED
    BY <1>1, <1>9, <2>1, RewriteTypes DEF Message, Typed
<1> QED
  BY <1>6, <1>7, <1>8, <1>9
\* The outcome is written down: for the draft, for the others if a stranger was seen, and for
\* the lead.
LEMMA RecordWrites ==
  ASSUME Typed, Record
  PROVE  \E next \in Statuses, recorded \in [DOMAIN drafts -> DraftRecords] :
           LET d == send.draft
               r == send.result
               human == Strangers(send.saw) # {}
               was == IF human THEN "HANDED_OFF" ELSE lead.status
           IN /\ \A e \in DOMAIN drafts \ {d} : recorded[e] = drafts[e]
              /\ recorded[d].claims = drafts[d].claims /\ recorded[d].comment = drafts[d].comment
              /\ recorded[d].row = "none" <=> drafts[d].row = "none"
              /\ recorded[d].status = next
              /\ next \in Open => r # "SUCCESS"
              /\ next # "EXECUTING"
              /\ drafts' = IF human THEN Cancelled(recorded) ELSE recorded
              /\ lead'.status = LeadAfter(d, r, next \notin Open, was)
              /\ lead' \in LeadRecords
<1> DEFINE d == send.draft
           r == send.result
           tries == IF r = "RATE_LIMITED" THEN drafts[d].attempts
                    ELSE Min({MaxAttempts, drafts[d].attempts + 1})
           next == NextStatus(d, r, tries)
           row == IF drafts[d].row = "none" THEN "none"
                  ELSE CASE r = "SUCCESS" -> "SENT" [] r \in NotSent -> "FAILED"
                         [] OTHER -> drafts[d].row
           again == r \in {"RETRYABLE_FAILURE", "RATE_LIMITED", "BARRIER", "CAPABILITY_UNAVAILABLE"}
           mishaps == IF again THEN Min({scene.faults, drafts[d].mishaps + 1}) ELSE drafts[d].mishaps
           recorded == [drafts EXCEPT ![d].attempts = tries, ![d].status = next, ![d].row = row,
                                      ![d].mishaps = mishaps]
           human == Strangers(send.saw) # {}
           was == IF human THEN "HANDED_OFF" ELSE lead.status
<1>1. /\ drafts' = IF human THEN Cancelled(recorded) ELSE recorded
      /\ lead' = [lead EXCEPT !.status = LeadAfter(d, r, next \notin Open, was),
                              !.igsid = @ \/ (r = "SUCCESS" /\ Private(d))]
      /\ send # None /\ send' = None
      /\ UNCHANGED <<scene, leadVars, comment, planned, thread, replied, echoes, observed>>
  BY DEF Record
<1>2. /\ lead \in LeadRecords /\ planned \in Plans \union {None} /\ send \in Sends
      /\ thread \in Seq(1..MaxDrafts) /\ replied \subseteq Comments /\ echoes \subseteq DOMAIN drafts
      /\ drafts \in [DOMAIN drafts -> DraftRecords] /\ d \in DOMAIN drafts
      /\ drafts[d] \in DraftRecords /\ scene.faults \in Nat
  BY <1>1, Constants, DraftTyped DEF Typed, TypeOK, Held, SceneRecords
<1>3. tries \in 0..MaxAttempts
  <2>1. drafts[d].attempts \in 0..MaxAttempts /\ MaxAttempts \in Nat
    BY <1>2, Constants DEF DraftRecords
  <2> QED
    BY <2>1, MinOfTwo
<1>4. next \in Statuses
  BY DEF NextStatus, Statuses, Open, AwaitingPerson
<1>5. row \in RowStates
  BY <1>2 DEF RowStates, DraftRecords
<1>6. mishaps \in Nat
  <2>1. drafts[d].mishaps \in Nat
    BY <1>2 DEF DraftRecords
  <2>2. Min({scene.faults, drafts[d].mishaps + 1}) \in Nat
    <3>1. drafts[d].mishaps + 1 \in Nat
      BY <2>1
    <3> HIDE DEF d
    <3>2. Min({scene.faults, drafts[d].mishaps + 1}) \in {scene.faults, drafts[d].mishaps + 1}
      BY <1>2, <3>1, MinOfTwo
    <3> QED
      BY <1>2, <3>1, <3>2
  <2> QED
    BY <2>1, <2>2
<1>7. was \in LeadStatuses
  BY <1>2 DEF LeadRecords, LeadStatuses
<1> HIDE DEF tries, next, row, mishaps, human, was
<1>8. recorded \in [DOMAIN drafts -> DraftRecords]
  <2>1. [drafts[d] EXCEPT !.attempts = tries, !.status = next, !.row = row, !.mishaps = mishaps]
          \in DraftRecords
    BY <1>2, <1>3, <1>4, <1>5, <1>6 DEF DraftRecords
  <2>2. recorded = [drafts EXCEPT ![d] = [drafts[d] EXCEPT !.attempts = tries, !.status = next,
                                            !.row = row, !.mishaps = mishaps]]
    BY <1>2 DEF DraftRecords
  <2> QED
    BY <1>2, <2>1, <2>2
<1>10. LeadAfter(d, r, next \notin Open, was) \in LeadStatuses
  BY <1>7 DEF LeadAfter, LeadStatuses
<1>11. lead' \in LeadRecords /\ lead'.status = LeadAfter(d, r, next \notin Open, was)
  <2>1. (lead.igsid \/ (r = "SUCCESS" /\ Private(d))) \in BOOLEAN
    OBVIOUS
  <2> QED
    BY <1>1, <1>2, <1>10, <2>1 DEF LeadRecords
<1>12. /\ \A e \in DOMAIN drafts \ {d} : recorded[e] = drafts[e]
       /\ recorded[d].claims = drafts[d].claims /\ recorded[d].comment = drafts[d].comment
       /\ recorded[d].row = row /\ recorded[d].status = next
  BY <1>2 DEF recorded, DraftRecords
<1>13. row = "none" <=> drafts[d].row = "none"
  BY <1>2 DEF row, DraftRecords
<1>14. /\ next \in Open => r # "SUCCESS"
       /\ next # "EXECUTING"
  BY DEF next, NextStatus, Open, AwaitingPerson
<1>15. drafts' = IF human THEN Cancelled(recorded) ELSE recorded
  BY <1>1
<1> HIDE DEF recorded
<1> WITNESS next \in Statuses, recorded \in [DOMAIN drafts -> DraftRecords]
<1> QED
  BY <1>11, <1>12, <1>13, <1>14, <1>15 DEF human, was

LEMMA RecordTypes ==
  ASSUME Typed, Record
  PROVE  TypeOK'
<1>1. PICK recorded \in [DOMAIN drafts -> DraftRecords], human \in BOOLEAN :
        /\ drafts' = IF human THEN Cancelled(recorded) ELSE recorded
        /\ lead' \in LeadRecords
  BY RecordWrites
<1>2. /\ planned \in Plans \union {None} /\ thread \in Seq(1..MaxDrafts)
      /\ replied \subseteq Comments /\ echoes \subseteq DOMAIN drafts /\ send' = None
  BY DEF Typed, TypeOK, Record
<1>3. drafts' \in [DOMAIN drafts -> DraftRecords]
  BY <1>1, CancelledTyped
<1> QED
  BY <1>1, <1>2, <1>3, RewriteTypes DEF Typed, Record

LEMMA CrashTypes ==
  ASSUME Typed, Crash
  PROVE  TypeOK'
<1> DEFINE d == send.draft
<1>1. /\ lead \in LeadRecords
      /\ thread \in Seq(1..MaxDrafts) /\ replied \subseteq Comments /\ echoes \subseteq DOMAIN drafts
      /\ drafts \in [DOMAIN drafts -> DraftRecords] /\ d \in DOMAIN drafts
      /\ drafts[d] \in DraftRecords
  BY Constants, DraftTyped DEF Typed, TypeOK, Held, Crash
<1>2. [drafts[d] EXCEPT !.status = "APPROVED", !.mishaps = @ + 1] \in DraftRecords
  <2>1. drafts[d].mishaps + 1 \in Nat /\ "APPROVED" \in Statuses
    BY <1>1 DEF DraftRecords, Statuses, Open
  <2> QED
    BY <1>1, <2>1 DEF DraftRecords
<1>3. drafts' = [drafts EXCEPT ![d] = [drafts[d] EXCEPT !.status = "APPROVED", !.mishaps = @ + 1]]
  BY <1>1 DEF Crash, DraftRecords
<1>4. drafts' \in [DOMAIN drafts -> DraftRecords]
  BY <1>1, <1>2, <1>3
<1> QED
  BY <1>1, <1>4, RewriteTypes DEF Typed, Crash

LEMMA TypeStep ==
  ASSUME Typed, [Next]_vars
  PROVE  TypeOK'
<1>1. CASE UNCHANGED vars
  BY <1>1 DEF Typed, TypeOK, vars, leadVars, sendVars
<1> QED
  BY <1>1, VisitTypes, OutsideTypes, PlanTypes, DecisionTypes, TakeOverTypes, ExecuteTypes,
     RecordTypes, CrashTypes DEF Next, Execute

\* The stages of an inspection.
LEMMA StagedStep ==
  ASSUME Typed, [Next]_vars
  PROVE  Staged'
<1>1. CASE UNCHANGED <<visit, snaps>>
  BY <1>1 DEF Typed, Staged
<1>2. ASSUME NEW i \in Visits,
             Inspect(i) \/ StoreSnapshot(i) \/ InspectionFails(i) \/ CheckWebsite(i) \/ Judge(i)
      PROVE  Staged'
  <2> DEFINE Stage(j) ==
        /\ visit[j].at = "read" => visit[j].got # None
        /\ visit[j].at = "stored" => snaps[j] # None
        /\ visit[j].at = "checked" =>
             /\ visit[j].obs \in Seen
             /\ visit[j].web # None => visit[j].obs.link \in OwnSites
  <2>1. /\ visit \in [Visits -> VisitRecords] /\ snaps \in [Visits -> Snapshots \union {None}]
        /\ \A j \in Visits : Stage(j)
    BY DEF Typed, TypeOK, Staged
  <2>2. \A j \in Visits \ {i} : visit'[j] = visit[j] /\ snaps'[j] = snaps[j]
    BY <1>2, <2>1 DEF Inspect, StoreSnapshot, InspectionFails, CheckWebsite, Judge
  <2>3. Stage(i)'
    <3>1. CASE Inspect(i)
      <4>1. PICK got \in Snapshots : visit' = [visit EXCEPT ![i].at = "read", ![i].got = got]
        BY <3>1, InspectReads
      <4>2. got # None
        BY Constants
      <4> QED
        BY <2>1, <4>1, <4>2 DEF VisitRecords
    <3>2. CASE StoreSnapshot(i)
      BY <2>1, <3>2 DEF StoreSnapshot, VisitRecords
    <3>3. CASE InspectionFails(i)
      BY <2>1, <3>3 DEF InspectionFails, VisitRecords
    <3>4. CASE CheckWebsite(i)
      <4>1. PICK obs \in Seen, web \in Answers \union {None} :
              /\ web # None => obs.link \in OwnSites
              /\ visit' = [visit EXCEPT ![i].at = "checked", ![i].obs = obs, ![i].web = web]
        BY <3>4, CheckReads
      <4> QED
        BY <2>1, <4>1 DEF VisitRecords
    <3>5. CASE Judge(i)
      BY <2>1, <3>5 DEF Judge, VisitRecords
    <3> QED
      BY <1>2, <3>1, <3>2, <3>3, <3>4, <3>5
  <2> QED
    BY <2>1, <2>2, <2>3 DEF Staged
<1> QED
  BY <1>1, <1>2 DEF Next, Plan, Execute, vars, leadVars, sendVars, PageChanges, CommentArrives,
     CommentAges, PlanFirstMessage, QueueFirstMessage, CompositionFails, TakeOver, Approve, Reject,
     RejectAndRedraft, Expire, ResumeLane, Prepare, Echo, TurnedAway, LeaseConversation,
     ReplyPrivately, Message, Record, Crash
\* Drafts are never taken away, and what one says, and to whom, is never changed.
KeepsText(ds) ==
  /\ DOMAIN ds = DOMAIN drafts
  /\ \A d \in DOMAIN drafts : ds[d].claims = drafts[d].claims /\ ds[d].comment = drafts[d].comment

LEMMA StatusKeeps ==
  ASSUME Typed, NEW d \in DOMAIN drafts, NEW s
  PROVE  KeepsText(WithStatus(d, s))
<1>1. \A e \in DOMAIN drafts : drafts[e] \in DraftRecords
  BY DraftTyped DEF Typed
<1> QED
  BY <1>1 DEF KeepsText, WithStatus, DraftRecords

LEMMA CancelledKeeps ==
  ASSUME NEW ds, KeepsText(ds), \A d \in DOMAIN drafts : ds[d] \in DraftRecords
  PROVE  KeepsText(Cancelled(ds))
BY DEF KeepsText, Cancelled, DraftRecords

LEMMA TextKept ==
  ASSUME Typed, [Next]_vars, ~QueueFirstMessage
  PROVE  KeepsText(drafts')
<1>1. \A d \in DOMAIN drafts : drafts[d] \in DraftRecords
  BY DraftTyped DEF Typed
<1>2. CASE UNCHANGED drafts
  BY <1>2 DEF KeepsText
<1>3. CASE TakeOver
  <2>1. KeepsText(drafts)
    BY DEF KeepsText
  <2> QED
    BY <1>1, <1>3, <2>1, CancelledKeeps DEF TakeOver
<1>4. ASSUME NEW d \in DOMAIN drafts,
             \/ Approve(d) \/ Reject(d) \/ RejectAndRedraft(d) \/ Expire(d) \/ ResumeLane(d)
             \/ Prepare(d)
      PROVE  KeepsText(drafts')
  BY <1>4, StatusKeeps DEF Approve, Reject, RejectAndRedraft, Expire, ResumeLane, Prepare
<1>5. ASSUME NEW d \in DOMAIN drafts, Echo(d)
      PROVE  KeepsText(drafts')
  <2>1. KeepsText(drafts)
    BY DEF KeepsText
  <2>2. KeepsText(Cancelled(drafts))
    BY <1>1, <2>1, CancelledKeeps
  <2>3. KeepsText([drafts EXCEPT ![d].row = "SENT"])
    BY <1>1 DEF KeepsText, DraftRecords
  <2> QED
    BY <1>5, <2>2, <2>3 DEF Echo
<1>6. CASE LeaseConversation
  <2>1. drafts' = [drafts EXCEPT ![send.draft].row = "PENDING"]
    BY <1>6 DEF LeaseConversation
  <2> QED
    BY <1>1, <2>1 DEF KeepsText, DraftRecords
<1>7. CASE Record
  <2>1. PICK recorded \in [DOMAIN drafts -> DraftRecords], human \in BOOLEAN :
          /\ \A e \in DOMAIN drafts \ {send.draft} : recorded[e] = drafts[e]
          /\ recorded[send.draft].claims = drafts[send.draft].claims
          /\ recorded[send.draft].comment = drafts[send.draft].comment
          /\ drafts' = IF human THEN Cancelled(recorded) ELSE recorded
    BY <1>7, RecordWrites
  <2>2. KeepsText(recorded) /\ \A d \in DOMAIN drafts : recorded[d] \in DraftRecords
    BY <2>1 DEF KeepsText
  <2> QED
    BY <2>1, <2>2, CancelledKeeps
<1>8. CASE Crash
  <2>1. drafts' = [drafts EXCEPT ![send.draft].status = "APPROVED", ![send.draft].mishaps = @ + 1]
    BY <1>8 DEF Crash
  <2> QED
    BY <1>1, <2>1 DEF KeepsText, DraftRecords
<1>9. CASE UNCHANGED vars
  BY <1>9, <1>2 DEF vars
<1> QED
  BY <1>2, <1>3, <1>4, <1>5, <1>6, <1>7, <1>8, <1>9 DEF Next, Plan, Execute, PageChanges, Inspect,
     StoreSnapshot, InspectionFails, CheckWebsite, Judge, CommentArrives, CommentAges,
     PlanFirstMessage, CompositionFails, TurnedAway, ReplyPrivately, Message
LEMMA RoomStep ==
  ASSUME Typed, [Next]_vars
  PROVE  Room' /\ Held'
<1>1. /\ drafts \in Seq(DraftRecords) /\ Len(drafts) \in Nat
      /\ planned # None => Len(drafts) < MaxDrafts
      /\ send # None => send \in Sends /\ send.draft \in DOMAIN drafts
  BY DEF Typed, TypeOK, Room, Held
<1>2. CASE QueueFirstMessage
  <2>1. planned' = None /\ send' = send
    BY <1>2 DEF QueueFirstMessage, sendVars
  <2>2. DOMAIN drafts \subseteq DOMAIN drafts'
    <3>1. PICK draft : drafts' = Append(drafts, draft)
      BY <1>2 DEF QueueFirstMessage
    <3>2. \A k \in DOMAIN drafts : k \in 1..(Len(drafts) + 1)
      BY <1>1
    <3> QED
      BY <1>1, <3>1, <3>2
  <2> QED
    BY <1>1, <2>1, <2>2 DEF Room, Held
<1>3. CASE ~QueueFirstMessage
  <2>1. DOMAIN drafts' = DOMAIN drafts
    BY <1>3, TextKept DEF KeepsText
  <2>2. Len(drafts') = Len(drafts)
    <3>1. drafts' \in Seq(DraftRecords)
      BY TypeStep DEF TypeOK
    <3> QED
      BY <1>1, <2>1, <3>1
  <2>3. planned' = planned \/ planned' = None \/ Len(drafts) < MaxDrafts
    BY <1>3 DEF Next, Plan, Execute, vars, leadVars, sendVars, PageChanges, Inspect,
     StoreSnapshot, InspectionFails, CheckWebsite, Judge, CommentArrives,
     CommentAges, PlanFirstMessage, CompositionFails, TakeOver, Approve, Reject,
     RejectAndRedraft, Expire, ResumeLane, Prepare, Echo, TurnedAway, LeaseConversation,
     ReplyPrivately, Message, Record, Crash
  <2>4. \/ send' = send \/ send' = None
        \/ send # None /\ send'.draft = send.draft
        \/ \E d \in DOMAIN drafts : send'.draft = d
    <3>1. CASE TurnedAway
      <4>1. \E r : send' = [send EXCEPT !.result = r]
        BY <3>1 DEF TurnedAway, Reports
      <4> QED
        BY <1>1, <3>1, <4>1 DEF TurnedAway, Sending, Sends
    <3>2. CASE LeaseConversation
      BY <1>1, <3>2 DEF LeaseConversation, Sending, Sends
    <3>3. CASE ReplyPrivately
      <4>1. \E r : send' = [send EXCEPT !.result = r]
        BY <3>3 DEF ReplyPrivately, Reports, Delivered, NotDelivered
      <4> QED
        BY <1>1, <3>3, <4>1 DEF ReplyPrivately, Sending, Sends
    <3>4. CASE Message
      <4>1. \/ \E r : send' = [send EXCEPT !.result = r]
            \/ \E r, saw : send' = [send EXCEPT !.result = r, !.saw = saw]
        BY <3>4 DEF Message, Reports, Delivered, NotDelivered
      <4> QED
        BY <1>1, <3>4, <4>1 DEF Message, Sending, Sends
    <3>5. ASSUME NEW d \in DOMAIN drafts, Prepare(d)
          PROVE  send' = send \/ send'.draft = d
      BY <3>5 DEF Prepare
    <3> QED
      BY <1>3, <3>1, <3>2, <3>3, <3>4, <3>5 DEF Next, Plan, Execute, vars, leadVars, sendVars,
         PageChanges, Inspect, StoreSnapshot, InspectionFails, CheckWebsite, Judge, CommentArrives,
         CommentAges, PlanFirstMessage, CompositionFails, TakeOver, Approve, Reject,
         RejectAndRedraft, Expire, ResumeLane, Echo, Record, Crash
  <2> QED
    BY <1>1, <2>1, <2>2, <2>3, <2>4 DEF Room, Held
<1> QED
  BY <1>2, <1>3

LEMMA TypedHolds == Spec => []Typed
<1>1. Init => Typed
  <2>1. Init => Staged /\ Room /\ Held
    BY DEF Init, Staged, Room, Held, Waiting
  <2> QED
    BY <2>1, TypesInit DEF Typed
<1>2. Typed /\ [Next]_vars => Typed'
  BY TypeStep, StagedStep, RoomStep DEF Typed
<1> QED
  BY <1>1, <1>2, PTL DEF Spec

\* The columns keep their ranges, and so does what the processes hold in memory.
THEOREM TypesCorrect == Spec => []TypeOK
<1>1. Typed => TypeOK
  BY DEF Typed
<1> QED
  BY <1>1, TypedHolds, PTL
-----------------------------------------------------------------------------
(* Nothing is claimed that was not seen                                    *)

\* The facts of a sheet are backed by what has been seen; "no link" apart.
Sheet(seen, F) ==
  \A f \in F : f[1] # "no link" =>
    \/ f \in seen
    \/ f[1] = "no widget" /\ \E web \in Loaded \ {"bookable"} : <<web, f[2]>> \in seen

\* What an inspection has shown is in the history.
Shown(seen, got) == Sheet(seen, SnapshotFacts(got)) /\ (got.header \/ got.link = None)

\* From the page to the text: at every place a fact is stored or held.
VisitsShown ==
  \A i \in Visits :
    /\ visit[i].got # None => Shown(observed, visit[i].got)
    /\ snaps[i] # None => Shown(observed, snaps[i])
    /\ visit[i].at = "checked" =>
         /\ Sheet(observed, FactsOf(visit[i].obs, visit[i].web))
         /\ visit[i].web # None => <<visit[i].web, visit[i].obs.link>> \in observed
CheckSeen == check # None => <<check.web, check.url>> \in observed
LeadBacked == Sheet(observed, lead.facts)
PlanBacked == planned # None => Sheet(observed, planned.facts)
DraftsBacked == \A d \in DOMAIN drafts : Sheet(observed, drafts[d].claims)
CommentsSeen == \A c \in Comments : comment[c] # None => <<"comment", None>> \in observed

ClaimsInv == /\ VisitsShown /\ CheckSeen /\ LeadBacked /\ PlanBacked /\ DraftsBacked /\ CommentsSeen

LEMMA SheetGrows ==
  ASSUME NEW S, NEW T, S \subseteq T
  PROVE  /\ \A F : Sheet(S, F) => Sheet(T, F)
         /\ \A got : Shown(S, got) => Shown(T, got)
BY DEF Sheet, Shown

LEMMA SheetPart ==
  ASSUME NEW S, NEW F, NEW G
  PROVE  /\ Sheet(S, F) /\ G \subseteq F => Sheet(S, G)
         /\ Sheet(S, F) /\ Sheet(S, G) => Sheet(S, F \union G)
         /\ F \subseteq S => Sheet(S, F)
         /\ Sheet(S, {})
BY DEF Sheet

\* The history only grows.
LEMMA ObservedGrows ==
  ASSUME [Next]_vars
  PROVE  observed \subseteq observed'
<1>1. ASSUME NEW i \in Visits, Inspect(i)
      PROVE  observed \subseteq observed'
  BY <1>1 DEF Inspect
<1> QED
  BY <1>1 DEF Next, Plan, Execute, vars, leadVars, sendVars, PageChanges, StoreSnapshot,
     InspectionFails, CheckWebsite, Judge, CommentArrives, CommentAges, PlanFirstMessage,
     QueueFirstMessage, CompositionFails, TakeOver, Approve, Reject, RejectAndRedraft, Expire,
     ResumeLane, Prepare, Echo, TurnedAway, LeaseConversation, ReplyPrivately, Message, Record, Crash

\* What a check says of a link is the answer of that link.
LEMMA CheckBacked ==
  ASSUME NEW seen, NEW link, NEW web \in Answers, <<web, link>> \in seen
  PROVE  Sheet(seen, CheckFacts(link, web))
<1>1. \A f \in CheckFacts(link, web) :
        \/ f = <<"error", link>> /\ web = "error"
        \/ f = <<"built", link>> /\ web = "built"
        \/ f = <<"no widget", link>> /\ web \in Loaded \ {"bookable"}
  BY DEF CheckFacts
<1>2. ASSUME NEW f \in CheckFacts(link, web)
      PROVE  \/ f \in seen
             \/ f[1] = "no widget" /\ \E w \in Loaded \ {"bookable"} : <<w, f[2]>> \in seen
  <2>1. CASE f = <<"no widget", link>> /\ web \in Loaded \ {"bookable"}
    <3>1. f[1] = "no widget" /\ f[2] = link
      BY <2>1
    <3> QED
      BY <2>1, <3>1
  <2> QED
    BY <1>1, <2>1
<1> QED
  BY <1>2 DEF Sheet

\* The facts an analysis makes of the stored snapshots and the website's answer.
LEMMA FactsBacked ==
  ASSUME Typed, NEW seen, Stored # {},
         \A i \in Stored : Shown(seen, snaps[i]),
         NEW web \in Answers \union {None},
         web # None => <<web, Merged.link>> \in seen
  PROVE  Sheet(seen, FactsOf(Merged, web))
<1>1. Sheet(seen, ProfileFacts(Merged))
  <2>1. Merged.books => <<"booking", None>> \in seen
    <3> SUFFICES ASSUME Merged.books PROVE <<"booking", None>> \in seen
      OBVIOUS
    <3>1. PICK i \in Stored : snaps[i].header /\ snaps[i].books
      BY MergedFromStored DEF Typed
    <3>2. <<"booking", None>> \in SnapshotFacts(snaps[i])
      BY <3>1 DEF SnapshotFacts, ProfileFacts
    <3> QED
      BY <3>2 DEF Shown, Sheet
  <2>2. Merged.busy => <<"posts", None>> \in seen
    <3> SUFFICES ASSUME Merged.busy PROVE <<"posts", None>> \in seen
      OBVIOUS
    <3>1. PICK i \in Stored : snaps[i].busy
      BY MergedFromStored DEF Typed
    <3>2. <<"posts", None>> \in SnapshotFacts(snaps[i])
      BY <3>1 DEF SnapshotFacts, ProfileFacts
    <3> QED
      BY <3>2 DEF Shown, Sheet
  <2>3. ProfileFacts(Merged) \subseteq seen
    BY <2>1, <2>2 DEF ProfileFacts
  <2> QED
    BY <2>3, SheetPart
<1>2. Sheet(seen, CheckFacts(Merged.link, web))
  <2>1. CASE web = None
    <3>1. web # "error" /\ web # "built" /\ web \notin Loaded
      BY <2>1, Constants DEF Answers, Loaded
    <3>2. CheckFacts(Merged.link, web) = {}
      BY <3>1 DEF CheckFacts
    <3> QED
      BY <3>2, SheetPart
  <2>2. CASE web # None
    BY <2>2, CheckBacked
  <2> QED
    BY <2>1, <2>2
<1>3. Sheet(seen, {LinkFact(Merged.link)})
  <2>1. CASE Merged.link = None
    <3>1. LinkFact(Merged.link) = <<"no link", None>>
      BY <2>1, Constants DEF LinkFact, OwnSites
    <3>2. Sheet(seen, {<<"no link", None>>})
      <4>1. ASSUME NEW f, f = <<"no link", None>>
            PROVE  f[1] = "no link"
        BY <4>1
      <4> QED
        BY <4>1 DEF Sheet
    <3> QED
      BY <3>1, <3>2
  <2>2. CASE Merged.link # None
    <3>1. PICK i \in Stored : snaps[i].link = Merged.link
      BY <2>2, MergedFromStored DEF Typed
    <3>2. snaps[i].header
      BY <2>2, <3>1 DEF Shown
    <3>3. LinkFact(Merged.link) \in SnapshotFacts(snaps[i])
      BY <3>1, <3>2 DEF SnapshotFacts
    <3> QED
      BY <3>3, SheetPart DEF Shown
  <2> QED
    BY <2>1, <2>2
<1> QED
  <2> DEFINE checked == IF Merged.link \in OwnSites THEN CheckFacts(Merged.link, web) ELSE {}
             rest == IF {f \in checked : f[1] \in {"error", "built"}} = {}
                     THEN {LinkFact(Merged.link)} ELSE {}
  <2>1. Sheet(seen, checked) /\ Sheet(seen, rest)
    BY <1>2, <1>3, SheetPart
  <2>2. FactsOf(Merged, web) = (ProfileFacts(Merged) \union checked) \union rest
    BY DEF FactsOf
  <2> HIDE DEF checked, rest
  <2>3. Sheet(seen, ProfileFacts(Merged) \union checked)
    BY <1>1, <2>1, SheetPart
  <2> QED
    BY <2>1, <2>2, <2>3, SheetPart
LEMMA VisitsStep ==
  ASSUME Typed, ClaimsInv, [Next]_vars
  PROVE  VisitsShown' /\ CheckSeen'
<1> DEFINE Good(j) ==
      /\ visit[j].got # None => Shown(observed, visit[j].got)
      /\ snaps[j] # None => Shown(observed, snaps[j])
      /\ visit[j].at = "checked" =>
           /\ Sheet(observed, FactsOf(visit[j].obs, visit[j].web))
           /\ visit[j].web # None => <<visit[j].web, visit[j].obs.link>> \in observed
<1>1. /\ visit \in [Visits -> VisitRecords] /\ snaps \in [Visits -> Snapshots \union {None}]
      /\ \A j \in Visits : Good(j)
      /\ CheckSeen
  BY DEF Typed, TypeOK, ClaimsInv, VisitsShown
<1>2. observed \subseteq observed'
  BY ObservedGrows
<1>3. ASSUME NEW j \in Visits, visit'[j] = visit[j], snaps'[j] = snaps[j]
      PROVE  Good(j)'
  <2>1. Good(j)
    BY <1>1
  <2>2. \A got : Shown(observed, got) => Shown(observed', got)
    BY <1>2, SheetGrows
  <2>3. visit[j].at = "checked" => Sheet(observed', FactsOf(visit[j].obs, visit[j].web))
    BY <1>2, <2>1, SheetGrows
  <2> QED
    BY <1>2, <1>3, <2>1, <2>2, <2>3
<1>4. UNCHANGED check => CheckSeen'
  BY <1>1, <1>2 DEF CheckSeen
<1>5. CASE UNCHANGED <<visit, snaps, check>>
  BY <1>3, <1>4, <1>5 DEF VisitsShown
<1>6. ASSUME NEW i \in Visits,
             Inspect(i) \/ StoreSnapshot(i) \/ InspectionFails(i) \/ CheckWebsite(i) \/ Judge(i)
      PROVE  VisitsShown' /\ CheckSeen'
  <2>1. \A j \in Visits \ {i} : visit'[j] = visit[j] /\ snaps'[j] = snaps[j]
    BY <1>1, <1>6 DEF Inspect, StoreSnapshot, InspectionFails, CheckWebsite, Judge
  <2>2. Good(i)' /\ CheckSeen'
    <3>1. CASE Inspect(i)
      <4>1. PICK got \in Snapshots :
              /\ visit' = [visit EXCEPT ![i].at = "read", ![i].got = got]
              /\ observed' = observed \union SnapshotFacts(got)
              /\ got.header \/ got.link = None
        BY <3>1, InspectReads
      <4>2. Shown(observed', got)
        BY <4>1, SheetPart DEF Shown
      <4>3. /\ visit'[i].got = got /\ visit'[i].at = "read"
            /\ snaps' = snaps
        BY <1>1, <3>1, <4>1 DEF Inspect, VisitRecords
      <4>4. CheckSeen'
        BY <1>4, <3>1 DEF Inspect
      <4> QED
        BY <1>1, <1>2, <4>2, <4>3, <4>4, SheetGrows
    <3>2. CASE StoreSnapshot(i)
      <4>1. /\ visit'[i].got = visit[i].got /\ visit'[i].at = "stored"
            /\ snaps'[i] = visit[i].got /\ observed' = observed /\ check' = check
        BY <1>1, <3>2 DEF StoreSnapshot, VisitRecords
      <4> QED
        BY <1>1, <1>4, <4>1
    <3>3. CASE InspectionFails(i)
      <4>1. /\ visit'[i].got = visit[i].got /\ visit'[i].at = "done"
            /\ snaps'[i] = snaps[i] /\ observed' = observed /\ check' = check
        BY <1>1, <3>3 DEF InspectionFails, VisitRecords
      <4> QED
        BY <1>1, <1>4, <4>1
    <3>4. CASE CheckWebsite(i)
      <4>1. PICK obs \in Seen, web \in Answers \union {None} :
              /\ obs = Merged /\ Stored # {} /\ (web # None => obs.link \in OwnSites)
              /\ visit' = [visit EXCEPT ![i].at = "checked", ![i].obs = obs, ![i].web = web]
              /\ observed' = observed \union
                   (IF web = None \/ Reusable(obs) THEN {} ELSE {<<web, obs.link>>})
              /\ web # None /\ Reusable(obs) => web = check.web
        BY <3>4, CheckReads
      <4>2. web # None => <<web, obs.link>> \in observed'
        BY <1>1, <4>1 DEF CheckSeen, Reusable
      <4>3. \A j \in Stored : Shown(observed', snaps[j])
        BY <1>1, <1>2, SheetGrows DEF Stored
      <4>4. Sheet(observed', FactsOf(obs, web))
        BY <4>1, <4>2, <4>3, FactsBacked
      <4>5. /\ visit'[i].got = visit[i].got /\ visit'[i].obs = obs /\ visit'[i].web = web
            /\ snaps' = snaps /\ check' = check
        BY <1>1, <3>4, <4>1 DEF CheckWebsite, VisitRecords
      <4> QED
        BY <1>1, <1>2, <1>4, <4>2, <4>4, <4>5, SheetGrows
    <3>5. CASE Judge(i)
      <4>1. /\ visit'[i].got = visit[i].got /\ visit'[i].at = "done"
            /\ snaps'[i] = snaps[i] /\ observed' = observed /\ visit[i].at = "checked"
            /\ check' = IF visit[i].web = None THEN None
                        ELSE [url |-> visit[i].obs.link, web |-> visit[i].web]
        BY <1>1, <3>5 DEF Judge, VisitRecords
      <4>2. CheckSeen'
        BY <1>1, <4>1 DEF CheckSeen
      <4> QED
        BY <1>1, <4>1, <4>2
    <3> QED
      BY <1>6, <3>1, <3>2, <3>3, <3>4, <3>5
  <2> QED
    BY <1>3, <2>1, <2>2 DEF VisitsShown
<1> QED
  BY <1>5, <1>6 DEF Next, Plan, Execute, vars, leadVars, sendVars, PageChanges, CommentArrives,
     CommentAges, PlanFirstMessage, QueueFirstMessage, CompositionFails, TakeOver, Approve, Reject,
     RejectAndRedraft, Expire, ResumeLane, Prepare, Echo, TurnedAway, LeaseConversation,
     ReplyPrivately, Message, Record, Crash
\* The facts of the lead are rewritten by an analysis only.
LEMMA LeadFacts ==
  ASSUME Typed, [Next]_vars
  PROVE  \/ lead'.facts = lead.facts
         \/ \E i \in Visits : /\ visit[i].at = "checked"
                              /\ lead'.facts = FactsOf(visit[i].obs, visit[i].web)
<1>1. lead \in LeadRecords
  BY DEF Typed, TypeOK
<1>2. ASSUME NEW i \in Visits, Judge(i)
      PROVE  /\ visit[i].at = "checked"
             /\ lead'.facts = FactsOf(visit[i].obs, visit[i].web)
  <2>1. \E opps, score, status :
          lead' = [lead EXCEPT !.facts = FactsOf(visit[i].obs, visit[i].web), !.opps = opps,
                               !.score = score, !.status = status]
    BY <1>2 DEF Judge
  <2> QED
    BY <1>1, <1>2, <2>1 DEF Judge, LeadRecords
<1>3. CASE Record
  <2>1. \E status, igsid : lead' = [lead EXCEPT !.status = status, !.igsid = igsid]
    BY <1>3 DEF Record
  <2> QED
    BY <1>1, <2>1 DEF LeadRecords
<1>4. (\E status : lead' = [lead EXCEPT !.status = status]) => lead'.facts = lead.facts
  BY <1>1 DEF LeadRecords
<1>5. (\E igsid : lead' = [lead EXCEPT !.igsid = igsid]) => lead'.facts = lead.facts
  BY <1>1 DEF LeadRecords
<1>6. (\E igsid, status : lead' = [lead EXCEPT !.igsid = igsid, !.status = status])
        => lead'.facts = lead.facts
  BY <1>1 DEF LeadRecords
<1>7. (\E igsid, status : lead' = [lead EXCEPT !.status = status, !.igsid = igsid])
        => lead'.facts = lead.facts
  BY <1>1 DEF LeadRecords
<1>8. ASSUME NEW d \in DOMAIN drafts,
             Reject(d) \/ RejectAndRedraft(d) \/ Expire(d) \/ Prepare(d) \/ Echo(d)
      PROVE  lead'.facts = lead.facts
  BY <1>4, <1>5, <1>6, <1>8 DEF Reject, RejectAndRedraft, Expire, Prepare, Echo
<1>9. CASE QueueFirstMessage \/ CompositionFails \/ TakeOver
  BY <1>4, <1>9 DEF QueueFirstMessage, CompositionFails, TakeOver
<1>10. ASSUME NEW c \in Comments, CommentArrives(c)
       PROVE  lead'.facts = lead.facts
  BY <1>7, <1>10 DEF CommentArrives
<1>11. ASSUME NEW i \in Visits, InspectionFails(i)
       PROVE  lead'.facts = lead.facts
  BY <1>4, <1>11 DEF InspectionFails
<1> QED
  BY <1>2, <1>3, <1>8, <1>9, <1>10, <1>11 DEF Next, Plan, Execute, vars, leadVars, sendVars,
     PageChanges, Inspect, StoreSnapshot, CheckWebsite, CommentAges, PlanFirstMessage, Approve,
     ResumeLane, TurnedAway, LeaseConversation, ReplyPrivately, Message, Crash

LEMMA ClaimsStep ==
  ASSUME Typed, ClaimsInv, [Next]_vars
  PROVE  ClaimsInv'
<1>1. VisitsShown' /\ CheckSeen'
  BY VisitsStep
<1>2. observed \subseteq observed'
  BY ObservedGrows
<1>3. \A F : Sheet(observed, F) => Sheet(observed', F)
  BY <1>2, SheetGrows
<1>4. /\ VisitsShown /\ Sheet(observed, lead.facts) /\ PlanBacked /\ DraftsBacked /\ CommentsSeen
  BY DEF ClaimsInv, LeadBacked
<1>5. LeadBacked'
  <2>1. ASSUME NEW i \in Visits, visit[i].at = "checked"
        PROVE  Sheet(observed', FactsOf(visit[i].obs, visit[i].web))
    BY <1>3, <1>4, <2>1 DEF VisitsShown
  <2> QED
    BY <1>3, <1>4, <2>1, LeadFacts DEF LeadBacked
<1>6. PlanBacked'
  <2>1. CASE PlanFirstMessage
    <3>1. /\ planned'.facts = lead.facts \union (IF Recent = {} THEN {} ELSE {<<"comment", None>>})
          /\ observed' = observed
      BY <2>1 DEF PlanFirstMessage
    <3>2. Recent # {} => <<"comment", None>> \in observed
      <4>1. \A c \in Recent : c \in Comments /\ comment[c] = 0 /\ 0 # None
        BY Constants DEF Recent
      <4> QED
        BY <1>4, <4>1 DEF CommentsSeen
    <3>3. Sheet(observed, IF Recent = {} THEN {} ELSE {<<"comment", None>>})
      BY <3>2, SheetPart
    <3>4. Sheet(observed, planned'.facts)
      BY <1>4, <3>1, <3>3, SheetPart
    <3> QED
      BY <3>1, <3>4 DEF PlanBacked
  <2>2. CASE ~PlanFirstMessage
    <3>1. planned' = planned \/ planned' = None
      BY <2>2 DEF Next, Plan, Execute, vars, leadVars, sendVars, PageChanges, Inspect,
         StoreSnapshot, InspectionFails, CheckWebsite, Judge, CommentArrives, CommentAges,
         QueueFirstMessage, CompositionFails, TakeOver, Approve, Reject, RejectAndRedraft, Expire,
         ResumeLane, Prepare, Echo, TurnedAway, LeaseConversation, ReplyPrivately, Message,
         Record, Crash
    <3> QED
      BY <1>3, <1>4, <3>1 DEF PlanBacked
  <2> QED
    BY <2>1, <2>2
<1>7. DraftsBacked'
  <2>1. CASE QueueFirstMessage
    <3>0. PICK claims \in Texts(planned) : \E draft :
            draft.claims = claims /\ drafts' = Append(drafts, draft)
      BY <2>1 DEF QueueFirstMessage
    <3>1. PICK draft : draft.claims = claims /\ drafts' = Append(drafts, draft)
      BY <3>0
    <3>2. claims \subseteq planned.facts
      BY DEF Texts, TemplateClaims
    <3>3. Sheet(observed', claims)
      <4>1. Sheet(observed, planned.facts)
        BY <1>4, <2>1 DEF PlanBacked, QueueFirstMessage
      <4> QED
        BY <1>3, <3>2, <4>1, SheetPart
    <3>4. /\ \A d \in DOMAIN drafts : drafts'[d] = drafts[d]
          /\ DOMAIN drafts' = DOMAIN drafts \union {Len(drafts) + 1}
          /\ drafts'[Len(drafts) + 1] = draft
      <4>1. drafts \in Seq(DraftRecords)
        BY DEF Typed, TypeOK
      <4> QED
        BY <3>1, <4>1
    <3> QED
      BY <1>3, <1>4, <3>1, <3>3, <3>4 DEF DraftsBacked
  <2>2. CASE ~QueueFirstMessage
    BY <1>3, <1>4, <2>2, TextKept DEF DraftsBacked, KeepsText
  <2> QED
    BY <2>1, <2>2
<1>8. CommentsSeen'
  <2>1. comment \in [Comments -> Ages \union {None}]
    BY DEF Typed, TypeOK
  <2>2. ASSUME NEW c \in Comments, CommentArrives(c)
        PROVE  CommentsSeen'
    BY <2>2 DEF CommentArrives, CommentsSeen
  <2>3. ASSUME NEW c \in Comments, CommentAges(c)
        PROVE  CommentsSeen'
    <3>1. comment[c] # None /\ comment' = [comment EXCEPT ![c] = @ + 1]
      BY <2>3, Constants DEF CommentAges
    <3> QED
      BY <1>2, <1>4, <2>1, <3>1 DEF CommentsSeen
  <2>4. CASE UNCHANGED comment
    BY <1>2, <1>4, <2>4 DEF CommentsSeen
  <2> QED
    BY <2>2, <2>3, <2>4 DEF Next, Plan, Execute, vars, leadVars, sendVars, PageChanges, Inspect,
       StoreSnapshot, InspectionFails, CheckWebsite, Judge, PlanFirstMessage, QueueFirstMessage,
       CompositionFails, TakeOver, Approve, Reject, RejectAndRedraft, Expire, ResumeLane, Prepare,
       Echo, TurnedAway, LeaseConversation, ReplyPrivately, Message, Record, Crash
<1> QED
  BY <1>1, <1>5, <1>6, <1>7, <1>8 DEF ClaimsInv

\* Whatever a first message claims of a business, but for the want of a link, was seen on its
\* profile or is the answer of the very link it is claimed of: for any scenes and comments.
THEOREM NothingInvented == Spec => []ClaimsObserved
<1>1. Init => ClaimsInv
  <2> SUFFICES ASSUME Init PROVE ClaimsInv
    OBVIOUS
  <2>1. VisitsShown /\ CheckSeen
    BY DEF Init, VisitsShown, CheckSeen, Waiting
  <2>2. LeadBacked /\ PlanBacked
    BY SheetPart DEF Init, LeadBacked, PlanBacked
  <2>3. DraftsBacked /\ CommentsSeen
    BY DEF Init, DraftsBacked, CommentsSeen
  <2> QED
    BY <2>1, <2>2, <2>3 DEF ClaimsInv
<1>2. Typed /\ ClaimsInv /\ [Next]_vars => ClaimsInv'
  BY ClaimsStep
<1>3. ClaimsInv => ClaimsObserved
  BY DEF ClaimsInv, DraftsBacked, Sheet, ClaimsObserved, Backed
<1> QED
  BY <1>1, <1>2, <1>3, TypedHolds, PTL DEF Spec
-----------------------------------------------------------------------------
(* Nobody gets two first messages                                          *)

Active(d) == drafts[d].status \in Open \union {"EXECUTING"}
InOutreach == {"OUTREACH_PENDING", "UNREACHABLE", "HANDED_OFF", "CONTACTED"}

\* One draft at a time may still be sent, and the lead is in outreach while there is one.
OneActive ==
  \A d \in DOMAIN drafts : Active(d) =>
    /\ planned = None /\ lead.status \in InOutreach
    /\ \A e \in DOMAIN drafts : Active(e) => d = e

\* What is executed has its intent written down once it has the conversation, and no other
\* draft's row says that it arrived or may have.
Alone ==
  send # None =>
    /\ send.draft \in DOMAIN drafts /\ drafts[send.draft].status = "EXECUTING"
    /\ send.leased => drafts[send.draft].row # "none"
    /\ \A e \in DOMAIN drafts : e # send.draft => drafts[e].row \notin Live

\* Of the messages in the thread all but the last are written off for good.
ThreadKnown ==
  \A k \in DOMAIN thread :
    /\ thread[k] \in DOMAIN drafts /\ drafts[thread[k]].row # "none"
    /\ Private(thread[k]) => drafts[thread[k]].comment \in replied
    /\ k < Len(thread) => drafts[thread[k]].row = "FAILED" /\ ~Active(thread[k])

ReachInv == OneActive /\ Alone /\ ThreadKnown

\* A step that leaves the drafts alone, and the lead in outreach where it is.
LEMMA QuietReach ==
  ASSUME ReachInv, UNCHANGED <<drafts, thread, replied>>,
         \/ send' = send \/ send' = None
         \/ send # None /\ send'.draft = send.draft /\ send'.leased = send.leased,
         planned' = planned \/ planned' = None \/ \A d \in DOMAIN drafts : ~Active(d),
         lead.status \in InOutreach => \/ lead'.status \in InOutreach
                                       \/ \A d \in DOMAIN drafts : ~Active(d)
  PROVE  ReachInv'
<1>1. OneActive'
  BY DEF ReachInv, OneActive, Active
<1>2. Alone'
  BY DEF ReachInv, Alone
<1>3. ThreadKnown'
  BY DEF ReachInv, ThreadKnown, Active, Private
<1> QED
  BY <1>1, <1>2, <1>3 DEF ReachInv

\* A step that only takes drafts out of those that may still be sent.
LEMMA FewerReach ==
  ASSUME Typed, ReachInv, UNCHANGED <<thread, replied, send>>, planned' = planned,
         KeepsText(drafts'),
         \A d \in DOMAIN drafts :
           /\ drafts'[d].row = drafts[d].row
           /\ drafts'[d].status \in Open \union {"EXECUTING"} => Active(d)
           /\ drafts[d].status = "EXECUTING" => drafts'[d].status = "EXECUTING",
         \/ lead'.status = lead.status \/ lead'.status \in InOutreach
         \/ \A d \in DOMAIN drafts : drafts'[d].status \notin Open \union {"EXECUTING"}
  PROVE  ReachInv'
<1>1. OneActive'
  BY DEF ReachInv, OneActive, Active, KeepsText
<1>2. Alone'
  BY DEF ReachInv, Alone, KeepsText
<1>3. ThreadKnown'
  BY DEF ReachInv, ThreadKnown, Active, Private, KeepsText
<1> QED
  BY <1>1, <1>2, <1>3 DEF ReachInv
\* Inspections, comments and what is being planned.
LEMMA OutsideReach ==
  ASSUME Typed, ReachInv,
         \/ PageChanges \/ PlanFirstMessage \/ CompositionFails
         \/ \E i \in Visits : Inspect(i) \/ StoreSnapshot(i) \/ InspectionFails(i)
                              \/ CheckWebsite(i) \/ Judge(i)
         \/ \E c \in Comments : CommentArrives(c) \/ CommentAges(c)
  PROVE  ReachInv'
<1>1. lead \in LeadRecords
  BY DEF Typed, TypeOK
<1>2. \A d \in DOMAIN drafts : Active(d) => planned = None /\ lead.status \in InOutreach
  BY DEF ReachInv, OneActive
<1>3. UNCHANGED <<drafts, thread, replied, send>>
  BY DEF PageChanges, PlanFirstMessage, CompositionFails, Inspect, StoreSnapshot, InspectionFails,
     CheckWebsite, Judge, CommentArrives, CommentAges, sendVars
<1>4. CASE \/ PageChanges
           \/ \E i \in Visits : Inspect(i) \/ StoreSnapshot(i) \/ CheckWebsite(i)
           \/ \E c \in Comments : CommentAges(c)
  <2>1. UNCHANGED <<lead, planned>>
    BY <1>4 DEF PageChanges, Inspect, StoreSnapshot, CheckWebsite, CommentAges
  <2> QED
    BY <1>3, <2>1, QuietReach
<1>5. CASE PlanFirstMessage
  <2>1. \A d \in DOMAIN drafts : ~Active(d)
    BY <1>2, <1>5 DEF PlanFirstMessage, InOutreach
  <2> QED
    BY <1>3, <2>1, QuietReach
<1>6. CASE CompositionFails
  <2>1. \A d \in DOMAIN drafts : ~Active(d)
    BY <1>2, <1>6 DEF CompositionFails
  <2> QED
    BY <1>3, <2>1, QuietReach
<1>7. ASSUME NEW i \in Visits, InspectionFails(i)
      PROVE  ReachInv'
  <2>1. lead'.status = "UNREACHABLE" /\ planned' = planned
    BY <1>1, <1>7 DEF InspectionFails, LeadRecords
  <2> QED
    BY <1>3, <2>1, QuietReach DEF InOutreach
<1>8. ASSUME NEW i \in Visits, Judge(i)
      PROVE  ReachInv'
  <2>1. lead.status \in InOutreach => lead'.status = lead.status
    <3>1. \E facts, opps, score, status :
            lead' = [lead EXCEPT !.facts = facts, !.opps = opps, !.score = score,
                                 !.status = IF @ \in {"DISCOVERED", "ANALYZED", "QUALIFIED", "DISQUALIFIED"}
                                            THEN status ELSE @]
      BY <1>8 DEF Judge
    <3> QED
      BY <1>1, <3>1 DEF LeadRecords, InOutreach
  <2>2. planned' = planned
    BY <1>8 DEF Judge
  <2> QED
    BY <1>3, <2>1, <2>2, QuietReach
<1>9. ASSUME NEW c \in Comments, CommentArrives(c)
      PROVE  ReachInv'
  <2>1. lead.status \in InOutreach => lead'.status = lead.status
    BY <1>1, <1>9 DEF CommentArrives, LeadRecords, InOutreach
  <2>2. planned' = planned
    BY <1>9 DEF CommentArrives
  <2> QED
    BY <1>3, <2>1, <2>2, QuietReach
<1> QED
  BY <1>4, <1>5, <1>6, <1>7, <1>8, <1>9

\* A draft is queued: there was none that may still be sent.
LEMMA QueueReach ==
  ASSUME Typed, ReachInv, QueueFirstMessage
  PROVE  ReachInv'
<1> DEFINE n == Len(drafts) + 1
<1>1. drafts \in Seq(DraftRecords) /\ Len(drafts) \in Nat /\ DOMAIN drafts = 1..Len(drafts)
  BY DEF Typed, TypeOK
<1>2. PICK draft : /\ drafts' = Append(drafts, draft) /\ draft.row = "none"
                   /\ draft.status \in Open => ~Denied(n)
                   /\ draft.status # "EXECUTING"
  <2>1. PICK claims \in Texts(planned) :
          drafts' = Append(drafts, [comment |-> planned.comment, claims |-> claims, attempts |-> 0,
                                    row |-> "none", mishaps |-> 0,
                                    status |-> IF Denied(n) THEN "BLOCKED"
                                               ELSE IF scene.autonomous THEN "APPROVED"
                                               ELSE "PENDING_APPROVAL"])
    BY DEF QueueFirstMessage
  <2> QED
    BY <2>1 DEF Open, AwaitingPerson
<1>3. /\ \A d \in DOMAIN drafts : drafts'[d] = drafts[d]
      /\ DOMAIN drafts' = DOMAIN drafts \union {n} /\ n \notin DOMAIN drafts
      /\ drafts'[n] = draft
  BY <1>1, <1>2
<1> HIDE DEF n
<1>4. /\ planned' = None /\ UNCHANGED <<send, thread, replied>>
      /\ \A d \in DOMAIN drafts : ~Active(d)
  BY DEF QueueFirstMessage, sendVars, ReachInv, OneActive
<1>5. send = None
  BY <1>4 DEF ReachInv, Alone, Active
<1>6. draft.status \in Open => lead'.status \in InOutreach
  <2>1. lead \in LeadRecords
    BY DEF Typed, TypeOK
  <2>2. ~Denied(n) => lead'.status = "OUTREACH_PENDING"
    BY <2>1 DEF QueueFirstMessage, LeadRecords, n
  <2> QED
    BY <1>2, <2>2 DEF InOutreach
<1>7. OneActive'
  BY <1>2, <1>3, <1>4, <1>6 DEF OneActive, Active
<1>8. Alone'
  BY <1>4, <1>5 DEF Alone
<1>9. ThreadKnown'
  BY <1>3, <1>4 DEF ReachInv, ThreadKnown, Active, Private
<1> QED
  BY <1>7, <1>8, <1>9 DEF ReachInv

\* The operator decides.
LEMMA DecisionReach ==
  ASSUME Typed, ReachInv, [Next]_vars,
         \/ TakeOver
         \/ \E d \in DOMAIN drafts : Approve(d) \/ Reject(d) \/ RejectAndRedraft(d) \/ Expire(d)
                                     \/ ResumeLane(d)
  PROVE  ReachInv'
<1>1. lead \in LeadRecords /\ \A e \in DOMAIN drafts : drafts[e] \in DraftRecords
  BY DraftTyped DEF Typed, TypeOK
<1>2. UNCHANGED <<thread, replied, send>> /\ planned' = planned
  BY DEF TakeOver, Approve, Reject, RejectAndRedraft, Expire, ResumeLane, sendVars
<1>3. KeepsText(drafts')
  BY TextKept DEF TakeOver, Approve, Reject, RejectAndRedraft, Expire, ResumeLane,
     QueueFirstMessage
<1>4. CASE TakeOver
  <2>1. lead'.status = "HANDED_OFF"
    BY <1>1, <1>4 DEF TakeOver, LeadRecords
  <2>2. \A e \in DOMAIN drafts :
          /\ drafts'[e].row = drafts[e].row
          /\ drafts'[e].status \in {drafts[e].status, "CANCELLED"}
          /\ drafts[e].status = "EXECUTING" => drafts'[e].status = "EXECUTING"
    BY <1>1, <1>4 DEF TakeOver, Cancelled, DraftRecords, Open, AwaitingPerson
  <2>3. \A e \in DOMAIN drafts : drafts'[e].status \in Open \union {"EXECUTING"} => Active(e)
    BY <2>2 DEF Active, Open, AwaitingPerson
  <2> QED
    BY <1>2, <1>3, <2>1, <2>2, <2>3, FewerReach DEF InOutreach
<1>5. ASSUME NEW d \in DOMAIN drafts, Approve(d) \/ ResumeLane(d)
      PROVE  ReachInv'
  <2>1. /\ drafts[d].status \in AwaitingPerson /\ drafts' = WithStatus(d, "APPROVED") /\ lead' = lead
    BY <1>5 DEF Approve, ResumeLane, AwaitingPerson
  <2>2. \A e \in DOMAIN drafts :
          /\ drafts'[e].row = drafts[e].row
          /\ drafts'[e].status = IF e = d THEN "APPROVED" ELSE drafts[e].status
    BY <1>1, <2>1 DEF WithStatus, DraftRecords
  <2>3. \A e \in DOMAIN drafts :
          /\ drafts'[e].status \in Open \union {"EXECUTING"} => Active(e)
          /\ drafts[e].status = "EXECUTING" => drafts'[e].status = "EXECUTING"
    BY <2>1, <2>2 DEF Active, Open, AwaitingPerson
  <2> QED
    BY <1>2, <1>3, <2>1, <2>2, <2>3, FewerReach
<1>6. ASSUME NEW d \in DOMAIN drafts, Reject(d) \/ RejectAndRedraft(d) \/ Expire(d)
      PROVE  ReachInv'
  <2>1. PICK s \in {"REJECTED", "EXPIRED"} :
          drafts[d].status \in {"PENDING_APPROVAL", "APPROVED"} /\ drafts' = WithStatus(d, s)
    BY <1>6 DEF Reject, RejectAndRedraft, Expire
  <2>2. \A e \in DOMAIN drafts :
          /\ drafts'[e].row = drafts[e].row
          /\ drafts'[e].status = IF e = d THEN s ELSE drafts[e].status
    BY <1>1, <2>1 DEF WithStatus, DraftRecords
  <2>3. \A e \in DOMAIN drafts :
          /\ drafts'[e].status \in Open \union {"EXECUTING"} => Active(e)
          /\ drafts[e].status = "EXECUTING" => drafts'[e].status = "EXECUTING"
    BY <2>1, <2>2 DEF Active, Open, AwaitingPerson
  <2>4. \A e \in DOMAIN drafts : Active(e) => e = d
    BY <2>1 DEF ReachInv, OneActive, Active, Open, AwaitingPerson
  <2>5. \A e \in DOMAIN drafts : drafts'[e].status \notin Open \union {"EXECUTING"}
    BY <2>2, <2>3, <2>4 DEF Open, AwaitingPerson
  <2> QED
    BY <1>2, <1>3, <2>2, <2>3, <2>5, FewerReach
<1> QED
  BY <1>4, <1>5, <1>6
\* A draft is taken up: the gate has seen that no other may have arrived.
LEMMA PrepareReach ==
  ASSUME Typed, ReachInv, [Next]_vars, NEW d \in DOMAIN drafts, Prepare(d)
  PROVE  ReachInv'
<1>1. lead \in LeadRecords /\ \A e \in DOMAIN drafts : drafts[e] \in DraftRecords
  BY DraftTyped DEF Typed, TypeOK
<1>2. /\ UNCHANGED <<thread, replied, planned>> /\ send = None /\ drafts[d].status = "APPROVED"
      /\ KeepsText(drafts')
  BY TextKept DEF Prepare, QueueFirstMessage, sendVars
<1>3. \A e \in DOMAIN drafts : Active(e) <=> e = d
  BY <1>2 DEF ReachInv, OneActive, Active, Open
<1>4. CASE Denied(d)
  <2>1. drafts' = WithStatus(d, "CANCELLED") /\ send' = send
    BY <1>4 DEF Prepare
  <2>2. \A e \in DOMAIN drafts :
          /\ drafts'[e].row = drafts[e].row
          /\ drafts'[e].status = IF e = d THEN "CANCELLED" ELSE drafts[e].status
    BY <1>1, <2>1 DEF WithStatus, DraftRecords
  <2>3. \A e \in DOMAIN drafts :
          /\ drafts'[e].status \notin Open \union {"EXECUTING"}
          /\ drafts[e].status # "EXECUTING"
    BY <1>2, <1>3, <2>2 DEF Active, Open, AwaitingPerson
  <2> QED
    BY <1>2, <2>1, <2>2, <2>3, FewerReach
<1>5. CASE ~Denied(d)
  <2>1. /\ drafts' = WithStatus(d, "EXECUTING") /\ lead' = lead
        /\ send'.draft = d /\ send'.leased = FALSE
    BY <1>5 DEF Prepare
  <2>2. \A e \in DOMAIN drafts :
          /\ drafts'[e].row = drafts[e].row
          /\ drafts'[e].status = IF e = d THEN "EXECUTING" ELSE drafts[e].status
    BY <1>1, <2>1 DEF WithStatus, DraftRecords
  <2>3. \A e \in DOMAIN drafts : e # d => drafts[e].row \notin Live
    BY <1>5 DEF Denied, ContactedBefore, History
  <2>4. DOMAIN drafts' = DOMAIN drafts /\ \A e \in DOMAIN drafts : Active(e)' <=> Active(e)
    BY <1>2, <1>3, <2>2 DEF Active, KeepsText
  <2>5. OneActive'
    BY <1>2, <2>1, <2>4 DEF ReachInv, OneActive
  <2>6. Alone'
    BY <2>1, <2>2, <2>3, <2>4 DEF Alone
  <2>7. ThreadKnown'
    BY <1>2, <2>2, <2>4 DEF ReachInv, ThreadKnown, Private, KeepsText
  <2> QED
    BY <2>5, <2>6, <2>7 DEF ReachInv
<1> QED
  BY <1>4, <1>5

\* The platform tells of a message: its row says it arrived, or a stranger wrote it.
LEMMA EchoReach ==
  ASSUME Typed, ReachInv, [Next]_vars, NEW d \in DOMAIN drafts, Echo(d)
  PROVE  ReachInv'
<1>1. lead \in LeadRecords /\ \A e \in DOMAIN drafts : drafts[e] \in DraftRecords
  BY DraftTyped DEF Typed, TypeOK
<1>2. UNCHANGED <<thread, replied, planned, send>> /\ KeepsText(drafts')
  BY TextKept DEF Echo, QueueFirstMessage, sendVars
<1>3. CASE drafts[d].row \in Live
  <2>1. drafts' = [drafts EXCEPT ![d].row = "SENT"] /\ lead'.status = lead.status
    BY <1>1, <1>3 DEF Echo, LeadRecords
  <2>2. \A e \in DOMAIN drafts :
          /\ drafts'[e].row = IF e = d THEN "SENT" ELSE drafts[e].row
          /\ drafts'[e].status = drafts[e].status
    BY <1>1, <2>1 DEF DraftRecords
  <2>3. OneActive'
    BY <1>2, <2>1, <2>2 DEF ReachInv, OneActive, Active, KeepsText
  <2>4. Alone'
    BY <1>2, <1>3, <2>2 DEF ReachInv, Alone, KeepsText, Live
  <2>5. ThreadKnown'
    BY <1>2, <1>3, <2>2 DEF ReachInv, ThreadKnown, Active, Private, KeepsText, Live
  <2> QED
    BY <2>3, <2>4, <2>5 DEF ReachInv
<1>4. CASE drafts[d].row \notin Live
  <2>1. lead'.status = "HANDED_OFF" /\ drafts' = Cancelled(drafts)
    BY <1>1, <1>4 DEF Echo, LeadRecords
  <2>2. \A e \in DOMAIN drafts :
          /\ drafts'[e].row = drafts[e].row
          /\ drafts'[e].status \in {drafts[e].status, "CANCELLED"}
          /\ drafts[e].status = "EXECUTING" => drafts'[e].status = "EXECUTING"
    BY <1>1, <2>1 DEF Cancelled, DraftRecords, Open, AwaitingPerson
  <2>3. \A e \in DOMAIN drafts : drafts'[e].status \in Open \union {"EXECUTING"} => Active(e)
    BY <2>2 DEF Active, Open, AwaitingPerson
  <2> QED
    BY <1>2, <2>1, <2>2, <2>3, FewerReach DEF InOutreach
<1> QED
  BY <1>3, <1>4

\* The intent is written down: the draft is the only active one, so at most the last to arrive.
LEMMA LeaseReach ==
  ASSUME Typed, ReachInv, [Next]_vars, LeaseConversation
  PROVE  ReachInv'
<1> DEFINE d == send.draft
<1>1. /\ \A e \in DOMAIN drafts : drafts[e] \in DraftRecords
      /\ send # None /\ send \in Sends /\ d \in DOMAIN drafts /\ drafts[d].status = "EXECUTING"
  BY DraftTyped DEF Typed, TypeOK, LeaseConversation, Sending, ReachInv, Alone
<1>2. UNCHANGED <<thread, replied, planned, lead>> /\ KeepsText(drafts')
  BY TextKept DEF LeaseConversation, QueueFirstMessage
<1>3. send'.draft = d
  BY <1>1 DEF LeaseConversation, Sends
<1>4. \A e \in DOMAIN drafts :
        /\ drafts'[e].row = IF e = d THEN "PENDING" ELSE drafts[e].row
        /\ drafts'[e].status = drafts[e].status
  BY <1>1 DEF LeaseConversation, DraftRecords
<1> HIDE DEF d
<1>5. OneActive'
  BY <1>2, <1>4 DEF ReachInv, OneActive, Active, KeepsText
<1>6. Alone'
  BY <1>1, <1>2, <1>3, <1>4 DEF ReachInv, Alone, KeepsText, d
<1>7. Active(d)
  BY <1>1 DEF Active
<1>8. ThreadKnown'
  BY <1>2, <1>4, <1>7 DEF ReachInv, ThreadKnown, Active, Private, KeepsText
<1> QED
  BY <1>5, <1>6, <1>8 DEF ReachInv

\* A message arrives that was not in the thread, and whatever is there is written off.
LEMMA DeliveryReach ==
  ASSUME Typed, ReachInv, Delivered(send.draft), send # None, send.leased,
         UNCHANGED <<drafts, lead, planned>>,
         \A k \in DOMAIN thread : thread[k] # send.draft,
         replied \subseteq replied',
         Private(send.draft) => drafts[send.draft].comment \in replied'
  PROVE  ReachInv'
<1> DEFINE d == send.draft
           n == Len(thread) + 1
<1>1. /\ send \in Sends /\ d \in DOMAIN drafts /\ drafts[d].status = "EXECUTING"
      /\ drafts[d].row # "none" /\ \A e \in DOMAIN drafts : e # d => drafts[e].row \notin Live
  BY DEF Typed, TypeOK, ReachInv, Alone
<1>2. send'.draft = d /\ send'.leased = send.leased
  <2>1. PICK r : send' = [send EXCEPT !.result = r]
    BY DEF Delivered, Reports
  <2> QED
    BY <1>1, <2>1 DEF Sends
<1>3. /\ DOMAIN thread = 1..Len(thread) /\ Len(thread) \in Nat
      /\ DOMAIN thread' = DOMAIN thread \union {n} /\ Len(thread') = n
      /\ \A k \in DOMAIN thread : thread'[k] = thread[k]
      /\ thread'[n] = d
  <2>1. thread \in Seq(1..MaxDrafts) /\ thread' = Append(thread, d)
    BY DEF Typed, TypeOK, Delivered
  <2> HIDE DEF d
  <2> QED
    BY <2>1
<1> HIDE DEF d, n
<1>4. \A e \in DOMAIN drafts : e # d => ~Active(e)
  BY <1>1 DEF ReachInv, OneActive, Active
<1>5. \A k \in DOMAIN thread :
        /\ thread[k] \in DOMAIN drafts /\ thread[k] # d
        /\ drafts[thread[k]].row = "FAILED" /\ ~Active(thread[k])
        /\ Private(thread[k]) => drafts[thread[k]].comment \in replied'
  <2> SUFFICES ASSUME NEW k \in DOMAIN thread
               PROVE  /\ thread[k] \in DOMAIN drafts /\ thread[k] # d
                      /\ drafts[thread[k]].row = "FAILED" /\ ~Active(thread[k])
                      /\ Private(thread[k]) => drafts[thread[k]].comment \in replied'
    OBVIOUS
  <2>1. /\ thread[k] \in DOMAIN drafts /\ thread[k] # d /\ drafts[thread[k]].row # "none"
        /\ Private(thread[k]) => drafts[thread[k]].comment \in replied
    BY DEF ReachInv, ThreadKnown, d
  <2>2. drafts[thread[k]].row \in RowStates
    BY <2>1, DraftTyped DEF Typed, DraftRecords
  <2>3. drafts[thread[k]].row = "FAILED"
    BY <1>1, <2>1, <2>2 DEF RowStates, Live
  <2> QED
    BY <1>4, <2>1, <2>3
<1>6. OneActive'
  BY DEF ReachInv, OneActive, Active
<1>7. Alone'
  BY <1>1, <1>2 DEF Alone
<1>8. ThreadKnown'
  <2> DEFINE Fine(e) == /\ e \in DOMAIN drafts /\ drafts[e].row # "none"
                        /\ Private(e) => drafts[e].comment \in replied'
  <2>1. \A k \in DOMAIN thread : Fine(thread'[k]) /\ drafts[thread'[k]].row = "FAILED" /\ ~Active(thread'[k])
    BY <1>3, <1>5
  <2>2. Fine(thread'[n])
    BY <1>1, <1>3 DEF d
  <2>3. \A k \in DOMAIN thread' :
          /\ Fine(thread'[k])
          /\ k < Len(thread') => drafts[thread'[k]].row = "FAILED" /\ ~Active(thread'[k])
    <3> HIDE DEF Fine
    <3>1. \A k \in DOMAIN thread' : k \in DOMAIN thread \/ (k = n /\ ~(k < Len(thread')))
      BY <1>3 DEF n
    <3> QED
      BY <2>1, <2>2, <3>1
  <2> QED
    BY <2>3 DEF ThreadKnown, Private, Active
<1> QED
  BY <1>6, <1>7, <1>8 DEF ReachInv
LEMMA ReportReach ==
  ASSUME Typed, ReachInv, UNCHANGED <<drafts, lead, planned, thread, replied>>, send # None,
         NEW r, Reports(r)
  PROVE  ReachInv'
<1>1. send'.draft = send.draft /\ send'.leased = send.leased
  BY DEF Typed, TypeOK, Sends, Reports
<1> QED
  BY <1>1, QuietReach

\* The draft is sent, or not.
LEMMA SendReach ==
  ASSUME Typed, ReachInv, TurnedAway \/ ReplyPrivately \/ Message
  PROVE  ReachInv'
<1> DEFINE d == send.draft
<1>1. /\ send # None /\ send \in Sends /\ UNCHANGED <<drafts, lead, planned>>
      /\ thread \in Seq(1..MaxDrafts)
  BY DEF Typed, TypeOK, TurnedAway, ReplyPrivately, Message, Sending
<1>2. ASSUME UNCHANGED <<thread, replied>>, NEW r, Reports(r)
      PROVE  ReachInv'
  BY <1>1, <1>2, ReportReach
<1>3. ASSUME UNCHANGED replied, NEW R, NotDelivered(R)
      PROVE  ReachInv'
  BY <1>2, <1>3 DEF NotDelivered
<1>4. CASE TurnedAway
  BY <1>2, <1>4 DEF TurnedAway
<1>5. CASE ReplyPrivately
  <2>1. send.leased /\ Private(d)
    BY <1>5 DEF ReplyPrivately
  <2>2. CASE /\ drafts[d].comment \notin replied /\ Delivered(d)
             /\ replied' = replied \union {drafts[d].comment}
    <3>1. \A k \in DOMAIN thread : thread[k] # d
      BY <2>1, <2>2 DEF ReachInv, ThreadKnown
    <3> QED
      BY <1>1, <2>1, <2>2, <3>1, DeliveryReach
  <2>3. CASE \E R : NotDelivered(R) /\ UNCHANGED replied
    BY <1>3, <2>3
  <2>4. CASE \E r : Reports(r) /\ UNCHANGED <<thread, replied, echoes>>
    BY <1>2, <2>4
  <2> QED
    BY <1>5, <2>2, <2>3, <2>4 DEF ReplyPrivately
<1>6. CASE Message
  <2>1. send.leased /\ ~Private(d) /\ replied' = replied
    BY <1>6 DEF Message
  <2>2. CASE thread = <<>> /\ Delivered(d)
    BY <1>1, <2>1, <2>2, DeliveryReach
  <2>3. CASE \E R : NotDelivered(R)
    BY <1>3, <2>1, <2>3
  <2>4. CASE \E r : Reports(r) /\ UNCHANGED <<thread, echoes>>
    BY <1>2, <2>1, <2>4
  <2>5. CASE /\ \E r, saw : send' = [send EXCEPT !.result = r, !.saw = saw]
             /\ UNCHANGED <<thread, echoes>>
    <3>1. send'.draft = send.draft /\ send'.leased = send.leased
      BY <1>1, <2>5 DEF Sends
    <3> QED
      BY <1>1, <2>1, <2>5, <3>1, QuietReach
  <2> QED
    BY <1>6, <2>2, <2>3, <2>4, <2>5 DEF Message
<1> QED
  BY <1>4, <1>5, <1>6

\* The outcome is written down: the draft may be tried again, or never more.
LEMMA RecordReach ==
  ASSUME Typed, ReachInv, [Next]_vars, Record
  PROVE  ReachInv'
<1> DEFINE d == send.draft
           r == send.result
           human == Strangers(send.saw) # {}
           was == IF human THEN "HANDED_OFF" ELSE lead.status
<1>1. /\ \A e \in DOMAIN drafts : drafts[e] \in DraftRecords
      /\ send # None /\ d \in DOMAIN drafts /\ drafts[d].status = "EXECUTING"
      /\ send' = None /\ UNCHANGED <<planned, thread, replied>>
  BY DraftTyped DEF Typed, TypeOK, Record, ReachInv, Alone
<1>2. PICK next \in Statuses, recorded \in [DOMAIN drafts -> DraftRecords] :
        /\ \A e \in DOMAIN drafts \ {d} : recorded[e] = drafts[e]
        /\ recorded[d].claims = drafts[d].claims /\ recorded[d].comment = drafts[d].comment
        /\ recorded[d].row = "none" <=> drafts[d].row = "none"
        /\ recorded[d].status = next
        /\ next \in Open => r # "SUCCESS"
        /\ next # "EXECUTING"
        /\ drafts' = IF human THEN Cancelled(recorded) ELSE recorded
        /\ lead'.status = LeadAfter(d, r, next \notin Open, was)
  BY RecordWrites
<1>3. KeepsText(drafts')
  BY TextKept DEF Record, QueueFirstMessage
<1>4. \A e \in DOMAIN drafts : Active(e) <=> e = d
  BY <1>1 DEF ReachInv, OneActive, Active
<1> HIDE DEF d, r, human, was
<1>5. \A e \in DOMAIN drafts :
        /\ drafts'[e].row = recorded[e].row
        /\ drafts'[e].status \in Open => /\ ~human /\ recorded[e].status \in Open
        /\ drafts'[e].status = "EXECUTING" => recorded[e].status = "EXECUTING"
  <2>1. \A e \in DOMAIN drafts : recorded[e] \in DraftRecords
    OBVIOUS
  <2>2. CASE human
    BY <1>2, <2>1, <2>2 DEF Cancelled, DraftRecords, Open, AwaitingPerson
  <2>3. CASE ~human
    BY <1>2, <2>3
  <2> QED
    BY <2>2, <2>3
<1>6. \A e \in DOMAIN drafts : /\ e # d => drafts'[e].row = drafts[e].row
                               /\ e = d => (drafts'[e].row = "none" <=> drafts[e].row = "none")
  BY <1>2, <1>5
<1>7. \A e \in DOMAIN drafts : Active(e)' => e = d /\ ~human /\ next \in Open
  <2> SUFFICES ASSUME NEW e \in DOMAIN drafts, Active(e)'
               PROVE  e = d /\ ~human /\ next \in Open
    OBVIOUS
  <2>1. \/ ~human /\ recorded[e].status \in Open
        \/ recorded[e].status = "EXECUTING"
    BY <1>5 DEF Active
  <2>2. recorded[e].status \in Open \union {"EXECUTING"}
    BY <2>1
  <2>3. e = d
    BY <1>2, <1>4, <2>2 DEF Active
  <2> QED
    BY <1>2, <2>1, <2>3
<1>8. next \in Open /\ ~human => lead'.status = lead.status
  BY <1>2 DEF LeadAfter, was
<1>9. planned = None /\ lead.status \in InOutreach
  BY <1>1, <1>4 DEF ReachInv, OneActive
<1>10. OneActive'
  BY <1>1, <1>3, <1>7, <1>8, <1>9 DEF OneActive, KeepsText
<1>11. Alone'
  BY <1>1 DEF Alone
<1>12. ThreadKnown'
  <2>1. \A k \in DOMAIN thread : k < Len(thread) => thread[k] # d
    BY <1>1, <1>4 DEF ReachInv, ThreadKnown
  <2>2. \A k \in DOMAIN thread :
          k < Len(thread) => drafts'[thread[k]].row = "FAILED" /\ ~Active(thread[k])'
    <3> SUFFICES ASSUME NEW k \in DOMAIN thread, k < Len(thread)
                 PROVE  /\ drafts'[thread[k]].row = "FAILED"
                         /\ drafts'[thread[k]].status \notin Open \union {"EXECUTING"}
      BY <1>1 DEF Active
    <3>1. PICK e \in DOMAIN drafts : e = thread[k] /\ e # d /\ drafts[e].row = "FAILED"
      BY <2>1 DEF ReachInv, ThreadKnown
    <3>2. drafts'[e].row = "FAILED" /\ ~Active(e)'
      BY <1>6, <1>7, <3>1
    <3> QED
      BY <3>1, <3>2 DEF Active
  <2>3. \A k \in DOMAIN thread : thread[k] \in DOMAIN drafts
    BY DEF ReachInv, ThreadKnown
  <2> QED
    BY <1>1, <1>3, <1>6, <2>2, <2>3 DEF ReachInv, ThreadKnown, Private, KeepsText
<1> QED
  BY <1>10, <1>11, <1>12 DEF ReachInv

LEMMA CrashReach ==
  ASSUME Typed, ReachInv, [Next]_vars, Crash
  PROVE  ReachInv'
<1> DEFINE d == send.draft
<1>1. /\ \A e \in DOMAIN drafts : drafts[e] \in DraftRecords
      /\ send # None /\ d \in DOMAIN drafts /\ drafts[d].status = "EXECUTING"
      /\ send' = None /\ planned' = None /\ UNCHANGED <<thread, replied, lead>>
  BY DraftTyped DEF Typed, TypeOK, Crash, ReachInv, Alone
<1>2. KeepsText(drafts')
  BY TextKept DEF Crash, QueueFirstMessage, sendVars
<1>3. \A e \in DOMAIN drafts :
        /\ drafts'[e].row = drafts[e].row
        /\ drafts'[e].status = IF e = d THEN "APPROVED" ELSE drafts[e].status
  BY <1>1 DEF Crash, DraftRecords
<1> HIDE DEF d
<1>4. \A e \in DOMAIN drafts : Active(e)' <=> Active(e)
  BY <1>1, <1>3 DEF Active, Open
<1>5. OneActive'
  BY <1>1, <1>2, <1>4 DEF ReachInv, OneActive, KeepsText
<1>6. Alone'
  BY <1>1 DEF Alone
<1>7. ThreadKnown'
  BY <1>1, <1>2, <1>3, <1>4 DEF ReachInv, ThreadKnown, Private, KeepsText
<1> QED
  BY <1>5, <1>6, <1>7 DEF ReachInv

LEMMA ReachStep ==
  ASSUME Typed, ReachInv, [Next]_vars
  PROVE  ReachInv'
<1>1. CASE UNCHANGED vars
  <2>1. UNCHANGED <<drafts, thread, replied, send, planned, lead>>
    BY <1>1 DEF vars, sendVars
  <2> QED
    BY <2>1, QuietReach
<1>2. CASE Plan \/ CompositionFails
  BY <1>2, OutsideReach, QueueReach DEF Plan
<1>3. CASE Execute \/ Crash
  BY <1>3, SendReach, LeaseReach, RecordReach, CrashReach DEF Execute
<1> QED
  BY <1>1, <1>2, <1>3, OutsideReach, DecisionReach, PrepareReach, EchoReach DEF Next

\* Nobody gets two first messages, but for one whose row was written off after it had arrived.
THEOREM OneFirstMessage == Spec => []ReachedOnce
<1>1. Init => ReachInv
  BY DEF Init, ReachInv, OneActive, Alone, ThreadKnown
<1>2. Typed /\ ReachInv /\ [Next]_vars => ReachInv'
  BY ReachStep
<1>3. ReachInv => ReachedOnce
  BY DEF ReachInv, ThreadKnown, ReachedOnce, WrittenOff
<1> QED
  BY <1>1, <1>2, <1>3, TypedHolds, PTL DEF Spec
=============================================================================
