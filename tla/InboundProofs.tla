--------------------------- MODULE InboundProofs ---------------------------
(***************************************************************************)
(* Proofs about Inbound, for any number of processes, any script and any   *)
(* number of deliveries.                                                   *)
(*                                                                         *)
(* Three sources bring the same message: the webhook, a read through the   *)
(* API and one through the browser.  The tables they leave are good (Good):*)
(* a row with an id agrees with the message of that id, and no id names two*)
(* rows.  Every handler takes a good table to a good one, and moves its    *)
(* rows in few ways (Moves): who wrote what stays, an open answer may be   *)
(* cancelled, rows are only added at the end.  Stored is the invariant of  *)
(* the database and of what the processes hold.                            *)
(*                                                                         *)
(* Answers are counted by the rows they hang on: as many rows are answered *)
(* as answers are in the thread (AsManySent), only rows of warm messages   *)
(* are (AnswersForWarm), and rows of different messages have different ids.*)
(*                                                                         *)
(* That a read of the thread is stored is counted, too.  Of the messages of*)
(* a text it showed, those whose place among them is beyond the number of  *)
(* rows with that text are added (LaterPlaces), so that the others and the *)
(* added ones are as many as were shown.                                   *)
(***************************************************************************)
EXTENDS Inbound, TLAPS, FiniteSetTheorems, SequenceTheorems, WellFoundedInduction

(***************************************************************************)
(* Least, greatest and i-th numbers.                                       *)
(***************************************************************************)
LEMMA LeastExists ==
  ASSUME NEW S \in SUBSET Nat, S # {}
  PROVE  Min(S) \in S /\ \A y \in S : Min(S) <= y
<1>1. PICK n \in S : \A m \in S : <<m, n>> \notin OpToRel(<, Nat)
  BY WFMin, NatLessThanWellFounded
<1>2. \A m \in S : ~(m < n)
  BY <1>1 DEF OpToRel
<1>3. \A m \in S : n <= m
  BY <1>2
<1> QED
  BY <1>3 DEF Min

LEMMA GreatestExists ==
  ASSUME NEW n \in Nat, NEW S \in SUBSET (1..n), S # {}
  PROVE  Max(S) \in S
<1> DEFINE T == {n - k : k \in S}
<1>1. \A k \in S : k \in Nat /\ k <= n /\ n - k \in Nat
  OBVIOUS
<1>2. T \in SUBSET Nat /\ T # {}
  BY <1>1
<1>3. Min(T) \in T /\ \A y \in T : Min(T) <= y
  <2> HIDE DEF T
  <2> QED
    BY <1>2, LeastExists
<1>4. PICK k \in S : Min(T) = n - k
  BY <1>3
<1>5. \A l \in S : k >= l
  <2> SUFFICES ASSUME NEW l \in S PROVE k >= l
    OBVIOUS
  <2>1. Min(T) <= n - l
    BY <1>3
  <2>2. n - k <= n - l
    BY <1>4, <2>1
  <2> QED
    BY <1>1, <2>2
<1> QED
  BY <1>5 DEF Max

LEMMA Downward ==
  ASSUME NEW n \in Nat, NEW S \in SUBSET (1..n), NEW k \in S
  PROVE  /\ IsFiniteSet(S) /\ Cardinality(S) \in Nat
         /\ IsFiniteSet({l \in S : l <= k})
         /\ Cardinality({l \in S : l <= k}) \in 1..Cardinality(S)
<1>1. IsFiniteSet(S)
  <2>1. IsFiniteSet(1..n)
    BY FS_Interval
  <2> QED
    BY <2>1, FS_Subset
<1>2. {l \in S : l <= k} \in SUBSET S /\ k \in {l \in S : l <= k}
  OBVIOUS
<1>3. IsFiniteSet({l \in S : l <= k}) /\ Cardinality({l \in S : l <= k}) <= Cardinality(S)
  BY <1>1, <1>2, FS_Subset
<1>4. Cardinality({l \in S : l <= k}) # 0
  BY <1>2, <1>3, FS_EmptySet
<1> QED
  BY <1>1, <1>3, <1>4, FS_CardinalityType

\* Different numbers have different places.
LEMMA PlacesDiffer ==
  ASSUME NEW n \in Nat, NEW S \in SUBSET (1..n), NEW k \in S, NEW l \in S, k < l
  PROVE  Cardinality({m \in S : m <= k}) < Cardinality({m \in S : m <= l})
<1>1. IsFiniteSet({m \in S : m <= l})
  BY Downward
<1>2. IsFiniteSet({m \in S : m <= k})
  BY Downward
<1>3. \A m \in S : m \in Nat
  OBVIOUS
<1>4. {m \in S : m <= k} \in SUBSET {m \in S : m <= l}
  <2>1. \A m \in S : m <= k => m <= l
    BY <1>3
  <2> QED
    BY <2>1
<1>5. l \in {m \in S : m <= l} /\ l \notin {m \in S : m <= k}
  BY <1>3
<1>6. Cardinality({m \in S : m <= l}) \in Nat /\ Cardinality({m \in S : m <= k}) \in Nat
  BY <1>1, <1>2, FS_CardinalityType
<1>7. {m \in S : m <= k} # {m \in S : m <= l}
  BY <1>5
<1> QED
  BY <1>1, <1>4, <1>6, <1>7, FS_Subset

\* Every place is taken, so the i-th number exists.
LEMMA NthExists ==
  ASSUME NEW n \in Nat, NEW S \in SUBSET (1..n), NEW i \in 1..Cardinality(S)
  PROVE  Nth(S, i) \in S /\ Cardinality({l \in S : l <= Nth(S, i)}) = i
<1> DEFINE place == [k \in S |-> Cardinality({l \in S : l <= k})]
<1>1. IsFiniteSet(S) /\ Cardinality(S) \in Nat
  <2>1. IsFiniteSet(1..n)
    BY FS_Interval
  <2> QED
    BY <2>1, FS_Subset, FS_CardinalityType
<1>2. place \in [S -> 1..Cardinality(S)]
  BY Downward
<1>3. \A k, l \in S : place[k] = place[l] => k = l
  <2> SUFFICES ASSUME NEW k \in S, NEW l \in S, k < l PROVE place[k] # place[l]
    OBVIOUS
  <2>1. place[k] < place[l]
    BY PlacesDiffer
  <2>2. place[k] \in Nat /\ place[l] \in Nat
    BY <1>1, <1>2
  <2> QED
    BY <2>1, <2>2
<1>4. place \in Injection(S, 1..Cardinality(S))
  BY <1>2, <1>3 DEF Injection, IsInjective
<1>5. IsFiniteSet(1..Cardinality(S)) /\ Cardinality(1..Cardinality(S)) = Cardinality(S)
  BY <1>1, FS_Interval
<1>6. place \in Surjection(S, 1..Cardinality(S))
  BY <1>4, <1>5, FS_Injection
<1>7. \E k \in S : place[k] = i
  BY <1>6 DEF Surjection
<1>8. \E k \in S : Cardinality({l \in S : l <= k}) = i
  BY <1>7
<1> QED
  BY <1>8 DEF Nth

(***************************************************************************)
(* The table of messages.                                                  *)
(***************************************************************************)
\* A table whose rows are about the first n messages of the thread.
TableOK(table, n) ==
  /\ table \in Seq(RowRecords)
  /\ \A i \in 1..Len(table) : table[i].mid \in {0} \cup 1..n /\ table[i].copy \in 1..n

LEMMA RowTyped ==
  ASSUME NEW from \in Authors, NEW word \in Texts, NEW mid \in Nat, NEW copy \in Nat
  PROVE  /\ Row(from, word, mid, copy) \in RowRecords
         /\ Row(from, word, mid, copy).from = from /\ Row(from, word, mid, copy).word = word
         /\ Row(from, word, mid, copy).mid = mid /\ Row(from, word, mid, copy).copy = copy
         /\ Row(from, word, mid, copy).answer = "none"
         /\ Row(from, word, mid, copy).handled = (Direction(from) = "OUT")
         /\ from \in Outbound => Row(from, word, mid, copy).handled
BY DEF Row, RowRecords, Answers, Direction, Outbound

\* Cancelling what is open touches nothing but the answers that were open.
LEMMA CancelledTable ==
  ASSUME NEW n \in Nat, NEW table, TableOK(table, n)
  PROVE  /\ TableOK(Cancelled(table), n) /\ Len(Cancelled(table)) = Len(table)
         /\ \A i \in 1..Len(table) :
              /\ Cancelled(table)[i].from = table[i].from
              /\ Cancelled(table)[i].word = table[i].word
              /\ Cancelled(table)[i].mid = table[i].mid
              /\ Cancelled(table)[i].copy = table[i].copy
              /\ Cancelled(table)[i].handled = table[i].handled
              /\ Cancelled(table)[i].answer = IF table[i].answer = "open" THEN "cancelled" ELSE table[i].answer
<1> DEFINE new(i) == IF table[i].answer = "open" THEN [table[i] EXCEPT !.answer = "cancelled"] ELSE table[i]
<1>1. DOMAIN table = 1..Len(table) /\ Len(table) \in Nat /\ \A i \in 1..Len(table) : table[i] \in RowRecords
  BY DEF TableOK
<1>2. Cancelled(table) = [i \in 1..Len(table) |-> new(i)]
  BY <1>1 DEF Cancelled
<1>3. \A i \in 1..Len(table) :
        /\ new(i) \in RowRecords
        /\ new(i).from = table[i].from /\ new(i).word = table[i].word /\ new(i).mid = table[i].mid
        /\ new(i).copy = table[i].copy /\ new(i).handled = table[i].handled
        /\ new(i).answer = IF table[i].answer = "open" THEN "cancelled" ELSE table[i].answer
  BY <1>1 DEF RowRecords, Answers
<1> HIDE DEF new
<1>4. Cancelled(table) \in Seq(RowRecords) /\ Len(Cancelled(table)) = Len(table)
  BY <1>1, <1>2, <1>3
<1>5. \A i \in 1..Len(table) : Cancelled(table)[i] = new(i)
  BY <1>2
<1>6. \A i \in 1..Len(table) :
        /\ Cancelled(table)[i].from = table[i].from
        /\ Cancelled(table)[i].word = table[i].word
        /\ Cancelled(table)[i].mid = table[i].mid
        /\ Cancelled(table)[i].copy = table[i].copy
        /\ Cancelled(table)[i].handled = table[i].handled
        /\ Cancelled(table)[i].answer = IF table[i].answer = "open" THEN "cancelled" ELSE table[i].answer
  BY <1>3, <1>5
<1>7. TableOK(Cancelled(table), n)
  BY <1>4, <1>6 DEF TableOK
<1> QED
  BY <1>4, <1>6, <1>7

LEMMA AppendedTable ==
  ASSUME NEW n \in Nat, NEW table, TableOK(table, n),
         NEW row \in RowRecords, row.mid \in {0} \cup 1..n, row.copy \in 1..n
  PROVE  /\ TableOK(Append(table, row), n) /\ Len(Append(table, row)) = Len(table) + 1
         /\ \A i \in 1..Len(table) : Append(table, row)[i] = table[i]
         /\ Append(table, row)[Len(table) + 1] = row
<1>1. table \in Seq(RowRecords) /\ Len(table) \in Nat
  BY DEF TableOK
<1>2. /\ Append(table, row) \in Seq(RowRecords) /\ Len(Append(table, row)) = Len(table) + 1
      /\ \A i \in 1..Len(table) : Append(table, row)[i] = table[i]
      /\ Append(table, row)[Len(table) + 1] = row
  BY <1>1, AppendProperties
<1>3. \A i \in 1..(Len(table) + 1) : i \in 1..Len(table) \/ i = Len(table) + 1
  BY <1>1
<1> QED
  BY <1>2, <1>3 DEF TableOK

\* One row is written over.
LEMMA ChangedTable ==
  ASSUME NEW n \in Nat, NEW table, TableOK(table, n), NEW i \in 1..Len(table),
         NEW row \in RowRecords, row.mid \in {0} \cup 1..n, row.copy \in 1..n
  PROVE  /\ TableOK([table EXCEPT ![i] = row], n) /\ Len([table EXCEPT ![i] = row]) = Len(table)
         /\ \A j \in 1..Len(table) : [table EXCEPT ![i] = row][j] = IF j = i THEN row ELSE table[j]
<1>1. table \in Seq(RowRecords) /\ Len(table) \in Nat
  BY DEF TableOK
<1>2. [table EXCEPT ![i] = row] \in Seq(RowRecords) /\ Len([table EXCEPT ![i] = row]) = Len(table)
      /\ \A j \in 1..Len(table) : [table EXCEPT ![i] = row][j] = IF j = i THEN row ELSE table[j]
  BY <1>1
<1> QED
  BY <1>2 DEF TableOK

\* Some rows are added.
LEMMA JoinedTable ==
  ASSUME NEW n \in Nat, NEW table, TableOK(table, n), NEW more, TableOK(more, n)
  PROVE  /\ TableOK(table \o more, n) /\ Len(table \o more) = Len(table) + Len(more)
         /\ \A i \in 1..Len(table) : (table \o more)[i] = table[i]
         /\ \A i \in 1..Len(more) : (table \o more)[Len(table) + i] = more[i]
<1>1. table \in Seq(RowRecords) /\ more \in Seq(RowRecords) /\ Len(table) \in Nat /\ Len(more) \in Nat
  BY DEF TableOK
<1>2. /\ table \o more \in Seq(RowRecords) /\ Len(table \o more) = Len(table) + Len(more)
      /\ \A i \in 1..(Len(table) + Len(more)) :
           (table \o more)[i] = IF i <= Len(table) THEN table[i] ELSE more[i - Len(table)]
  BY <1>1, ConcatProperties
<1>3. \A i \in 1..(Len(table) + Len(more)) : i \in 1..Len(table) \/ i - Len(table) \in 1..Len(more)
  BY <1>1
<1>4. \A i \in 1..Len(table) : i \in 1..(Len(table) + Len(more)) /\ i <= Len(table)
  BY <1>1
<1>5. \A i \in 1..Len(more) : Len(table) + i \in 1..(Len(table) + Len(more)) /\ ~(Len(table) + i <= Len(table))
                              /\ (Len(table) + i) - Len(table) = i
  BY <1>1
<1>6. \A i \in 1..Len(table) : (table \o more)[i] = table[i]
  BY <1>2, <1>4
<1>7. \A i \in 1..Len(more) : (table \o more)[Len(table) + i] = more[i]
  BY <1>2, <1>5
<1>8. \A i \in 1..Len(table \o more) : (table \o more)[i].mid \in {0} \cup 1..n /\ (table \o more)[i].copy \in 1..n
  <2> SUFFICES ASSUME NEW i \in 1..Len(table \o more)
               PROVE  (table \o more)[i].mid \in {0} \cup 1..n /\ (table \o more)[i].copy \in 1..n
    OBVIOUS
  <2>1. CASE i \in 1..Len(table)
    BY <1>6, <2>1 DEF TableOK
  <2>2. CASE i - Len(table) \in 1..Len(more)
    <3>1. i = Len(table) + (i - Len(table))
      BY <1>1, <1>2
    <3>2. (table \o more)[i] = more[i - Len(table)]
      BY <1>7, <2>2, <3>1
    <3> QED
      BY <2>2, <3>2 DEF TableOK
  <2> QED
    BY <1>2, <1>3, <2>1, <2>2
<1> QED
  BY <1>2, <1>6, <1>7, <1>8 DEF TableOK

(***************************************************************************)
(* Types: the thread and the webhook inbox, the tables, the processes.     *)
(***************************************************************************)
WorldOK ==
  /\ scenario \in Scenarios /\ said \in 0..Len(scenario.script)
  /\ thread \in Seq(Letters)
  /\ hooks \in Seq(HookRecords) /\ \A k \in HookIds : Range(hooks[k].events) \subseteq Positions
  /\ retries \in Nat /\ crashed \in BOOLEAN

DbOK ==
  /\ TableOK(rows, Len(thread))
  /\ known \in 0..Len(thread)
  /\ stage \in Sends
  /\ linked \in BOOLEAN /\ paused \in BOOLEAN /\ suppressed \in BOOLEAN /\ followUp \in BOOLEAN
  /\ jobs \subseteq {"inbox", "thread"}

PlacesOK(drained) == \A e \in drained : e[2] \in DOMAIN hooks[e[1]].events

MemoryOK ==
  /\ pc \in [Runners -> Phases]
  /\ events \in [Runners -> SUBSET (HookIds \X {1, 2})]
  /\ \A r \in Runners : PlacesOK(events[r])
  /\ todo \in [Runners -> SUBSET RowIds] /\ pending \in [Runners -> SUBSET RowIds]
  /\ job \in [Runners -> {"none", "inbox", "thread"}]
  /\ saw \in [Runners -> 0..Len(thread)]
  /\ channel \in [Runners -> Channels \cup {"none"}]
  /\ told \subseteq RowIds

PhasesOK ==
  \A r \in Runners : /\ events[r] # {} <=> pc[r] = "events"
                     /\ todo[r] # {} <=> pc[r] \in {"replies", "composing"}
                     /\ job[r] # "none" <=> pc[r] = "reading"
                     /\ channel[r] # "none" <=> pc[r] = "reading"

LEMMA TypeParts == TypeOK <=> WorldOK /\ DbOK /\ MemoryOK /\ PhasesOK
BY DEF TypeOK, WorldOK, DbOK, MemoryOK, PhasesOK, PlacesOK, TableOK, RowIds, Positions

LEMMA TypesInit == Init => TypeOK
<1> SUFFICES ASSUME Init PROVE TypeOK
  OBVIOUS
<1>1. thread = <<[from |-> "automation", word |-> Pitch]>> /\ rows = <<Row("automation", Pitch, 0, 1)>>
  BY DEF Init
<1>2. [from |-> "automation", word |-> Pitch] \in Letters
  BY DEF Letters, Authors, Texts
<1>3. thread \in Seq(Letters) /\ Len(thread) = 1
  BY <1>1, <1>2
<1>4. Row("automation", Pitch, 0, 1) \in RowRecords /\ Row("automation", Pitch, 0, 1).mid = 0
      /\ Row("automation", Pitch, 0, 1).copy = 1
  <2>1. "automation" \in Authors /\ Pitch \in Texts /\ 0 \in Nat /\ 1 \in Nat
    BY DEF Authors, Texts
  <2> QED
    BY <2>1, RowTyped
<1>5. TableOK(rows, Len(thread))
  BY <1>1, <1>3, <1>4 DEF TableOK
<1>6. WorldOK
  <2>1. scenario \in Scenarios /\ scenario.script \in Seq(Words \cup {Note})
    BY InboundAssumption DEF Init
  <2>2. said \in 0..Len(scenario.script)
    BY <2>1 DEF Init
  <2>3. hooks = <<>> /\ retries = 0 /\ crashed = FALSE
    BY DEF Init
  <2>4. hooks \in Seq(HookRecords) /\ Len(hooks) = 0
    BY <2>3
  <2>5. HookIds = {}
    BY <2>4 DEF HookIds
  <2> QED
    BY <1>3, <2>1, <2>2, <2>3, <2>4, <2>5 DEF WorldOK
<1>7. DbOK
  <2>1. known = 1 /\ stage = "CONTACTED" /\ linked = FALSE /\ paused = FALSE /\ suppressed = FALSE
        /\ followUp = TRUE /\ jobs = {}
    BY DEF Init
  <2>2. known \in 0..Len(thread)
    BY <1>3, <2>1
  <2> QED
    BY <1>5, <2>1, <2>2 DEF DbOK, Sends
<1>8. MemoryOK
  BY <1>3 DEF Init, MemoryOK, PlacesOK, Phases
<1>9. PhasesOK
  BY DEF Init, PhasesOK
<1> QED
  BY <1>6, <1>7, <1>8, <1>9, TypeParts

\* What is delivered is in the thread.
LEMMA PayloadsTyped ==
  ASSUME WorldOK, NEW payload \in Payloads
  PROVE  payload \in Seq(Nat) /\ Range(payload) \subseteq Positions
<1>1. Events \subseteq Positions /\ Positions \subseteq Nat
  BY DEF Events, Positions
<1>2. CASE \E i \in Events : payload = <<i>>
  <2>1. PICK i \in Events : payload = <<i>>
    BY <1>2
  <2> QED
    BY <1>1, <2>1 DEF Range
<1>3. CASE payload \in Events \X Events
  <2>1. PICK i \in Events, j \in Events : payload = <<i, j>>
    BY <1>3
  <2> QED
    BY <1>1, <2>1 DEF Range
<1> QED
  BY <1>2, <1>3 DEF Payloads

\* The inbox grows by one payload.
LEMMA StoreEffect ==
  ASSUME WorldOK, NEW payload \in Payloads, Store(payload)
  PROVE  /\ hooks' \in Seq(HookRecords) /\ Len(hooks') = Len(hooks) + 1 /\ Len(hooks) \in Nat
         /\ \A k \in HookIds : hooks'[k] = hooks[k]
         /\ \A k \in 1..Len(hooks') : Range(hooks'[k].events) \subseteq Positions
<1> DEFINE new == [events |-> payload, processed |-> FALSE]
<1>1. payload \in Seq(Nat) /\ Range(payload) \subseteq Positions
  BY PayloadsTyped
<1>2. new \in HookRecords /\ new.events = payload
  BY <1>1 DEF HookRecords
<1>3. hooks' = Append(hooks, new) /\ hooks \in Seq(HookRecords)
  BY DEF Store, WorldOK
<1> HIDE DEF new
<1>4. /\ hooks' \in Seq(HookRecords) /\ Len(hooks') = Len(hooks) + 1 /\ Len(hooks) \in Nat
      /\ \A k \in 1..Len(hooks) : hooks'[k] = hooks[k]
      /\ hooks'[Len(hooks) + 1] = new
  BY <1>2, <1>3, AppendProperties
<1>5. \A k \in 1..Len(hooks') : k \in 1..Len(hooks) \/ k = Len(hooks) + 1
  BY <1>4
<1>6. \A k \in 1..Len(hooks) : Range(hooks[k].events) \subseteq Positions
  BY DEF WorldOK, HookIds
<1> QED
  BY <1>1, <1>2, <1>4, <1>5, <1>6 DEF HookIds

\* The inbox is only added to, and what is stored in it stays; the thread grows.
WorldGrows ==
  /\ Len(thread) <= Len(thread')
  /\ \A i \in Positions : thread'[i] = thread[i]
  /\ HookIds \subseteq HookIds' /\ \A k \in HookIds : hooks'[k].events = hooks[k].events
  /\ scenario' = scenario

LEMMA LettersAppended ==
  ASSUME WorldOK, NEW letter \in Letters, thread' = Append(thread, letter)
  PROVE  /\ thread' \in Seq(Letters) /\ Len(thread') = Len(thread) + 1 /\ Len(thread) \in Nat
         /\ \A i \in Positions : thread'[i] = thread[i]
         /\ thread'[Len(thread')] = letter
         /\ Positions' = Positions \cup {Len(thread')} /\ Len(thread') \notin Positions
<1>1. thread \in Seq(Letters) /\ Len(thread) \in Nat
  BY DEF WorldOK
<1>2. thread' \in Seq(Letters) /\ Len(thread') = Len(thread) + 1
      /\ (\A i \in 1..Len(thread) : thread'[i] = thread[i]) /\ thread'[Len(thread) + 1] = letter
  BY <1>1, AppendProperties
<1> QED
  BY <1>1, <1>2 DEF Positions

\* The script is Rohit's or the prospect's.
LEMMA WriteEffect ==
  ASSUME WorldOK, Write
  PROVE  said' \in 0..Len(scenario.script)
         /\ \E letter \in Letters : letter.from # "automation" /\ thread' = Append(thread, letter)
<1> DEFINE letter == [from |-> IF scenario.script[said + 1] = Note THEN "rohit" ELSE "prospect",
                      word |-> scenario.script[said + 1]]
<1>1. scenario.script \in Seq(Words \cup {Note}) /\ said \in 0..Len(scenario.script)
      /\ said < Len(scenario.script)
  BY InboundAssumption DEF WorldOK, Write
<1>2. said + 1 \in 1..Len(scenario.script)
  BY <1>1
<1>3. scenario.script[said + 1] \in Words \cup {Note}
  BY <1>1, <1>2
<1>4. letter \in Letters /\ letter.from # "automation"
  BY <1>3 DEF Letters, Authors, Texts
<1>5. thread' = Append(thread, letter) /\ said' = said + 1
  BY DEF Write
<1>6. said' \in 0..Len(scenario.script)
  BY <1>1, <1>5
<1> QED
  BY <1>4, <1>5, <1>6

LEMMA WorldNext == TypeOK /\ [Next]_vars => WorldOK' /\ WorldGrows
<1> SUFFICES ASSUME TypeOK, [Next]_vars PROVE WorldOK' /\ WorldGrows
  OBVIOUS
<1>1. WorldOK
  BY TypeParts
<1>2. Len(thread) \in Nat
  BY <1>1 DEF WorldOK
<1>3. ASSUME UNCHANGED <<scenario, thread, said, hooks, retries>>, crashed' \in BOOLEAN
      PROVE  WorldOK' /\ WorldGrows
  BY <1>1, <1>2, <1>3 DEF WorldOK, WorldGrows, HookIds, Positions
<1>4. ASSUME NEW letter \in Letters, thread' = Append(thread, letter), said' \in 0..Len(scenario.script),
             UNCHANGED <<scenario, hooks, retries, crashed>>
      PROVE  WorldOK' /\ WorldGrows
  <2>1. thread' \in Seq(Letters) /\ Len(thread') = Len(thread) + 1 /\ \A i \in Positions : thread'[i] = thread[i]
    BY <1>1, <1>4, LettersAppended
  <2>2. Positions \subseteq Positions'
    BY <1>2, <2>1 DEF Positions
  <2>3. HookIds' = HookIds
    BY <1>4 DEF HookIds
  <2>4. WorldOK'
    BY <1>1, <1>4, <2>1, <2>2, <2>3 DEF WorldOK
  <2>5. WorldGrows
    <3>1. Len(thread) <= Len(thread')
      BY <1>2, <2>1
    <3>2. \A k \in HookIds : hooks'[k].events = hooks[k].events
      BY <1>4
    <3> QED
      BY <1>4, <2>1, <2>3, <3>1, <3>2 DEF WorldGrows
  <2> QED
    BY <2>4, <2>5
<1>5. ASSUME NEW payload \in Payloads, Store(payload), retries' \in Nat PROVE WorldOK' /\ WorldGrows
  <2>1. UNCHANGED <<scenario, thread, said, crashed>>
    BY <1>5 DEF Store
  <2>2. /\ hooks' \in Seq(HookRecords) /\ Len(hooks') = Len(hooks) + 1 /\ Len(hooks) \in Nat
        /\ \A k \in HookIds : hooks'[k] = hooks[k]
        /\ \A k \in 1..Len(hooks') : Range(hooks'[k].events) \subseteq Positions
    BY <1>1, <1>5, StoreEffect
  <2>3. HookIds' = 1..Len(hooks') /\ HookIds \subseteq HookIds' /\ Positions' = Positions
    BY <2>1, <2>2 DEF HookIds, Positions
  <2>4. WorldOK'
    BY <1>1, <1>5, <2>1, <2>2, <2>3 DEF WorldOK
  <2>5. WorldGrows
    BY <1>2, <2>1, <2>2, <2>3 DEF WorldGrows
  <2> QED
    BY <2>4, <2>5
<1>6. CASE Write
  <2>1. UNCHANGED <<scenario, hooks, retries, crashed>>
    BY <1>6 DEF Write
  <2> QED
    BY <1>1, <1>4, <1>6, <2>1, WriteEffect
<1>7. ASSUME NEW i \in Positions, Deliver(i) PROVE WorldOK' /\ WorldGrows
  BY <1>1, <1>5, <1>7 DEF Deliver, WorldOK
<1>8. CASE Redeliver
  BY <1>1, <1>5, <1>8 DEF Redeliver, WorldOK
<1>9. ASSUME NEW r \in Runners, Drain(r) PROVE WorldOK' /\ WorldGrows
  <2>1. UNCHANGED <<scenario, thread, said, retries, crashed>>
        /\ hooks' = [k \in HookIds |-> [hooks[k] EXCEPT !.processed = TRUE]]
    BY <1>9 DEF Drain
  <2>2. hooks \in Seq(HookRecords) /\ Len(hooks) \in Nat
    BY <1>1 DEF WorldOK
  <2> DEFINE new(k) == [hooks[k] EXCEPT !.processed = TRUE]
  <2>3. \A k \in 1..Len(hooks) : new(k) \in HookRecords /\ new(k).events = hooks[k].events
    <3>1. \A k \in 1..Len(hooks) : hooks[k] \in HookRecords
      BY <2>2
    <3> QED
      BY <3>1 DEF HookRecords
  <2>4. hooks' = [k \in 1..Len(hooks) |-> new(k)]
    BY <2>1 DEF HookIds
  <2> HIDE DEF new
  <2>5. hooks' \in Seq(HookRecords) /\ Len(hooks') = Len(hooks)
    BY <2>2, <2>3, <2>4
  <2>6. \A k \in 1..Len(hooks) : hooks'[k].events = hooks[k].events
    BY <2>3, <2>4
  <2> QED
    BY <1>1, <1>2, <2>1, <2>2, <2>5, <2>6 DEF WorldOK, WorldGrows, HookIds, Positions
<1>10. ASSUME NEW r \in Runners, SendAnswer(r) PROVE WorldOK' /\ WorldGrows
  <2>1. [from |-> "automation", word |-> Answer] \in Letters
    BY DEF Letters, Authors, Texts
  <2>2. thread' = Append(thread, [from |-> "automation", word |-> Answer])
        /\ UNCHANGED <<scenario, said, hooks, retries, crashed>>
    BY <1>10 DEF SendAnswer
  <2> QED
    BY <1>1, <1>4, <2>1, <2>2 DEF WorldOK
<1>11. ASSUME NEW r \in Runners, Crash(r) PROVE WorldOK' /\ WorldGrows
  BY <1>3, <1>11 DEF Crash
<1>12. ASSUME NEW r \in Runners,
              ProcessEvent(r) \/ (\E sync \in BOOLEAN : Plan(r, sync)) \/ ActOnReply(r) \/ HandOff(r)
              \/ QueueAnswer(r) \/ Read(r) \/ HandleInbox(r) \/ Reconcile(r) \/ NothingToExecute(r)
       PROVE  WorldOK' /\ WorldGrows
  <2>1. UNCHANGED world
    BY <1>12 DEF ProcessEvent, Plan, ActOnReply, HandOff, QueueAnswer, Read, HandleInbox,
       Reconcile,
                 NothingToExecute
  <2> QED
    BY <1>1, <1>3, <2>1 DEF world, WorldOK
<1>13. CASE UNCHANGED vars
  BY <1>1, <1>3, <1>13 DEF vars, world, WorldOK
<1> QED
  BY <1>6, <1>7, <1>8, <1>9, <1>10, <1>11, <1>12, <1>13 DEF Next, Tick

(***************************************************************************)
(* A good table: each row agrees with the message it stores, and an id     *)
(* names one row.                                                          *)
(***************************************************************************)
\* A row with an id has the text and the direction of the message with that id.  A row of the
\* prospect has its id, unless the browser read it; the other rows ask for no answer.
RowOK(row, letters, troubles) ==
  /\ row \in RowRecords /\ row.mid \in {0} \cup 1..Len(letters) /\ row.copy \in 1..Len(letters)
  /\ row.mid # 0 => /\ row.word = letters[row.mid].word
                    /\ Direction(row.from) = Direction(letters[row.mid].from)
  /\ row.from = "prospect" =>
       /\ letters[row.copy].from = "prospect" /\ letters[row.copy].word = row.word
       /\ row.mid = row.copy \/ (row.mid = 0 /\ "BROWSER" \in troubles)
  /\ row.handled \/ row.from = "prospect"

MidsOnce(table) ==
  \A i, j \in 1..Len(table) : table[i].mid # 0 /\ table[i].mid = table[j].mid => i = j

Good(table, letters, troubles) ==
  /\ table \in Seq(RowRecords)
  /\ \A i \in 1..Len(table) : RowOK(table[i], letters, troubles)
  /\ MidsOnce(table)

\* What no step changes of a row: who wrote what; its id, unless it is one of ours that has none.
SameRow(old, new) ==
  /\ new.from = old.from /\ new.word = old.word /\ new.copy = old.copy
  /\ new.mid = old.mid \/ (old.mid = 0 /\ old.from = "automation")

\* What a step that neither queues nor sends an answer does to the answers: it cancels open ones.
SameAnswer(old, new) == new.answer = old.answer \/ (old.answer = "open" /\ new.answer = "cancelled")

Moves(table, next) ==
  /\ Len(table) <= Len(next)
  /\ \A i \in 1..Len(table) : SameRow(table[i], next[i]) /\ SameAnswer(table[i], next[i])
  /\ \A i \in 1..Len(next) : i \in 1..Len(table) \/ next[i].answer = "none"

LEMMA GoodIsOK ==
  ASSUME NEW table, NEW letters, NEW troubles, Good(table, letters, troubles)
  PROVE  TableOK(table, Len(letters)) /\ Len(table) \in Nat
BY DEF Good, TableOK, RowOK

LEMMA MovesTwice ==
  ASSUME NEW one, NEW two, NEW three, one \in Seq(RowRecords), two \in Seq(RowRecords), three \in Seq(RowRecords),
         Moves(one, two), Moves(two, three)
  PROVE  Moves(one, three)
<1>1. Len(one) \in Nat /\ Len(two) \in Nat /\ Len(three) \in Nat /\ Len(one) <= Len(two) /\ Len(two) <= Len(three)
  BY DEF Moves
<1>2. \A i \in 1..Len(one) : i \in 1..Len(two)
  BY <1>1
<1>3. \A i \in 1..Len(one) : SameRow(one[i], three[i])
  BY <1>2 DEF Moves, SameRow
<1>4. \A i \in 1..Len(one) : SameAnswer(one[i], three[i])
  BY <1>2 DEF Moves, SameAnswer
<1>5. \A i \in 1..Len(three) : i \in 1..Len(one) \/ three[i].answer = "none"
  BY DEF Moves, SameAnswer
<1> QED
  BY <1>1, <1>3, <1>4, <1>5 DEF Moves

\* RowOK asks nothing of what the handlers do with a row.
LEMMA RowOKKept ==
  ASSUME NEW old, NEW new, NEW letters, NEW troubles, RowOK(old, letters, troubles), new \in RowRecords,
         new.from = old.from, new.word = old.word, new.copy = old.copy, new.mid = old.mid,
         old.handled => new.handled
  PROVE  RowOK(new, letters, troubles)
BY DEF RowOK

LEMMA GoodCancelled ==
  ASSUME NEW table, NEW letters, Len(letters) \in Nat, NEW troubles, Good(table, letters, troubles)
  PROVE  /\ Good(Cancelled(table), letters, troubles) /\ Moves(table, Cancelled(table))
         /\ \A i \in 1..Len(Cancelled(table)) : Cancelled(table)[i].answer # "open"
<1> DEFINE next == Cancelled(table)
<1>1. TableOK(table, Len(letters)) /\ Len(table) \in Nat
  BY GoodIsOK
<1>2. /\ next \in Seq(RowRecords) /\ Len(next) = Len(table)
      /\ \A i \in 1..Len(table) :
           /\ next[i].from = table[i].from /\ next[i].word = table[i].word
           /\ next[i].mid = table[i].mid /\ next[i].copy = table[i].copy
           /\ next[i].handled = table[i].handled
           /\ next[i].answer = IF table[i].answer = "open" THEN "cancelled" ELSE table[i].answer
  <2>1. /\ TableOK(next, Len(letters)) /\ Len(next) = Len(table)
        /\ \A i \in 1..Len(table) :
             /\ next[i].from = table[i].from /\ next[i].word = table[i].word
             /\ next[i].mid = table[i].mid /\ next[i].copy = table[i].copy
             /\ next[i].handled = table[i].handled
             /\ next[i].answer = IF table[i].answer = "open" THEN "cancelled" ELSE table[i].answer
    BY <1>1, CancelledTable
  <2> HIDE DEF next
  <2>2. next \in Seq(RowRecords)
    BY <2>1 DEF TableOK
  <2> QED
    BY <2>1, <2>2
<1> HIDE DEF next
<1>3. \A i \in 1..Len(table) : next[i] \in RowRecords
  BY <1>1, <1>2
<1>4. \A i \in 1..Len(next) : RowOK(next[i], letters, troubles)
  BY <1>2, <1>3, RowOKKept DEF Good
<1>5. MidsOnce(next)
  BY <1>2 DEF Good, MidsOnce
<1>6. Moves(table, next)
  BY <1>1, <1>2 DEF Moves, SameRow, SameAnswer
<1>7. \A i \in 1..Len(next) : next[i].answer # "open"
  BY <1>2
<1> QED
  BY <1>2, <1>4, <1>5, <1>6, <1>7 DEF Good, next

LEMMA GoodAppended ==
  ASSUME NEW table, NEW letters, Len(letters) \in Nat, NEW troubles, Good(table, letters, troubles),
         NEW row, RowOK(row, letters, troubles), row.answer = "none",
         row.mid # 0 => \A i \in 1..Len(table) : table[i].mid # row.mid
  PROVE  Good(Append(table, row), letters, troubles) /\ Moves(table, Append(table, row))
<1> DEFINE next == Append(table, row)
<1>1. TableOK(table, Len(letters)) /\ Len(table) \in Nat
  BY GoodIsOK
<1>2. /\ next \in Seq(RowRecords) /\ Len(next) = Len(table) + 1
      /\ \A i \in 1..Len(table) : next[i] = table[i]
      /\ next[Len(table) + 1] = row
  BY <1>1, AppendedTable DEF TableOK, RowOK
<1> HIDE DEF next
<1>3. \A i \in 1..Len(next) : i \in 1..Len(table) \/ i = Len(table) + 1
  BY <1>1, <1>2
<1>4. \A i \in 1..Len(next) : RowOK(next[i], letters, troubles)
  BY <1>2, <1>3 DEF Good
<1>5. MidsOnce(next)
  BY <1>2, <1>3 DEF Good, MidsOnce
<1>6. Moves(table, next)
  BY <1>1, <1>2, <1>3 DEF Moves, SameRow, SameAnswer
<1> QED
  BY <1>2, <1>4, <1>5, <1>6 DEF Good, next

\* A row is written over: handled, queued, answered, or given its id.
LEMMA GoodChanged ==
  ASSUME NEW table, NEW letters, Len(letters) \in Nat, NEW troubles, Good(table, letters, troubles),
         NEW i \in 1..Len(table), NEW row, RowOK(row, letters, troubles), SameRow(table[i], row),
         row.mid # table[i].mid => \A j \in 1..Len(table) : table[j].mid # row.mid
  PROVE  /\ Good([table EXCEPT ![i] = row], letters, troubles)
         /\ Len([table EXCEPT ![i] = row]) = Len(table)
         /\ \A j \in 1..Len(table) : [table EXCEPT ![i] = row][j] = IF j = i THEN row ELSE table[j]
         /\ SameAnswer(table[i], row) => Moves(table, [table EXCEPT ![i] = row])
<1> DEFINE next == [table EXCEPT ![i] = row]
<1>1. TableOK(table, Len(letters)) /\ Len(table) \in Nat
  BY GoodIsOK
<1>2. /\ next \in Seq(RowRecords) /\ Len(next) = Len(table)
      /\ \A j \in 1..Len(table) : next[j] = IF j = i THEN row ELSE table[j]
  BY <1>1, ChangedTable DEF TableOK, RowOK
<1> HIDE DEF next
<1>3. \A j \in 1..Len(next) : RowOK(next[j], letters, troubles)
  BY <1>2 DEF Good
<1>4. MidsOnce(next)
  BY <1>2 DEF Good, MidsOnce
<1>5. SameAnswer(table[i], row) => Moves(table, next)
  BY <1>1, <1>2 DEF Moves, SameRow, SameAnswer
<1> QED
  BY <1>2, <1>3, <1>4, <1>5 DEF Good, next

\* The thread grows.
LEMMA GoodGrows ==
  ASSUME NEW table, NEW letters, NEW more, NEW troubles, Good(table, letters, troubles),
         Len(letters) \in Nat, Len(more) \in Nat, Len(letters) <= Len(more),
         \A i \in 1..Len(letters) : more[i] = letters[i]
  PROVE  Good(table, more, troubles)
<1>1. \A i \in 1..Len(letters) : i \in 1..Len(more)
  OBVIOUS
<1>2. ASSUME NEW row, RowOK(row, letters, troubles) PROVE RowOK(row, more, troubles)
  <2>1. row.mid # 0 => row.mid \in 1..Len(letters)
    BY <1>2 DEF RowOK
  <2> QED
    BY <1>1, <1>2, <2>1 DEF RowOK
<1> QED
  BY <1>2 DEF Good

LEMMA GoodJoined ==
  ASSUME NEW table, NEW letters, Len(letters) \in Nat, NEW troubles, Good(table, letters, troubles),
         NEW more, Good(more, letters, troubles),
         \A i \in 1..Len(more) : more[i].answer = "none",
         \A i \in 1..Len(table), j \in 1..Len(more) : more[j].mid # 0 => table[i].mid # more[j].mid
  PROVE  Good(table \o more, letters, troubles) /\ Moves(table, table \o more)
<1> DEFINE next == table \o more
<1>1. TableOK(table, Len(letters)) /\ TableOK(more, Len(letters)) /\ Len(table) \in Nat /\ Len(more) \in Nat
  BY GoodIsOK
<1>2. /\ TableOK(next, Len(letters)) /\ Len(next) = Len(table) + Len(more)
      /\ \A i \in 1..Len(table) : next[i] = table[i]
      /\ \A i \in 1..Len(more) : next[Len(table) + i] = more[i]
  BY <1>1, JoinedTable
<1> HIDE DEF next
<1>3. \A i \in 1..Len(next) : i \in 1..Len(table) \/ \E j \in 1..Len(more) : i = Len(table) + j
  <2>1. \A i \in 1..(Len(table) + Len(more)) : i \in 1..Len(table) \/ i - Len(table) \in 1..Len(more)
    BY <1>1
  <2>2. \A i \in 1..(Len(table) + Len(more)) : i = Len(table) + (i - Len(table))
    BY <1>1
  <2> QED
    BY <1>2, <2>1, <2>2
<1>4. \A i \in 1..Len(next) : \/ i \in 1..Len(table) /\ next[i] = table[i]
                              \/ \E j \in 1..Len(more) : i = Len(table) + j /\ next[i] = more[j]
  BY <1>2, <1>3
<1>5. \A i \in 1..Len(next) : RowOK(next[i], letters, troubles)
  BY <1>4 DEF Good
<1>6. MidsOnce(next)
  <2> SUFFICES ASSUME NEW i \in 1..Len(next), NEW j \in 1..Len(next),
                      next[i].mid # 0, next[i].mid = next[j].mid
               PROVE  i = j
    BY DEF MidsOnce
  <2>1. MidsOnce(table) /\ MidsOnce(more)
    BY DEF Good
  <2>2. CASE i \in 1..Len(table) /\ next[i] = table[i] /\ j \in 1..Len(table) /\ next[j] = table[j]
    BY <2>1, <2>2 DEF MidsOnce
  <2>3. ASSUME NEW k \in 1..Len(more), NEW l \in 1..Len(more),
               i = Len(table) + k, next[i] = more[k], j = Len(table) + l, next[j] = more[l]
        PROVE  i = j
    BY <2>1, <2>3 DEF MidsOnce
  <2>4. ASSUME NEW k \in 1..Len(table), NEW l \in 1..Len(more), more[l].mid # 0
        PROVE  table[k].mid # more[l].mid
    BY <2>4
  <2>5. /\ \/ i \in 1..Len(table) /\ next[i] = table[i]
           \/ \E k \in 1..Len(more) : i = Len(table) + k /\ next[i] = more[k]
        /\ \/ j \in 1..Len(table) /\ next[j] = table[j]
           \/ \E l \in 1..Len(more) : j = Len(table) + l /\ next[j] = more[l]
    BY <1>4
  <2>6. CASE i \in 1..Len(table) /\ next[i] = table[i]
    BY <2>2, <2>4, <2>5, <2>6
  <2>7. ASSUME NEW k \in 1..Len(more), i = Len(table) + k, next[i] = more[k] PROVE i = j
    BY <2>3, <2>4, <2>5, <2>7
  <2> QED
    BY <2>5, <2>6, <2>7
<1>7. Moves(table, next)
  <2>1. Len(table) <= Len(next)
    BY <1>1, <1>2
  <2>2. \A i \in 1..Len(table) : SameRow(table[i], next[i]) /\ SameAnswer(table[i], next[i])
    BY <1>2 DEF SameRow, SameAnswer
  <2>3. \A i \in 1..Len(next) : i \in 1..Len(table) \/ next[i].answer = "none"
    <3>1. \A j \in 1..Len(more) : more[j].answer = "none"
      OBVIOUS
    <3> SUFFICES ASSUME NEW i \in 1..Len(next), i \notin 1..Len(table) PROVE next[i].answer = "none"
      OBVIOUS
    <3>2. PICK j \in 1..Len(more) : next[i] = more[j]
      BY <1>4
    <3> QED
      BY <3>1, <3>2
  <2> QED
    BY <2>1, <2>2, <2>3 DEF Moves
<1>8. next \in Seq(RowRecords)
  BY <1>2 DEF TableOK
<1> QED
  BY <1>5, <1>6, <1>7, <1>8 DEF Good, next

(***************************************************************************)
(* The handlers of OwnershipService on a good table.                       *)
(***************************************************************************)
NothingOpen(table) == \A i \in 1..Len(table) : table[i].answer # "open"

\* What a step that neither queues nor sends an answer leaves behind it: whoever closes the
\* conversation cancels what is open.
DbStep ==
  /\ Good(rows', thread, Troubles) /\ Moves(rows, rows')
  /\ known' \in 0..Len(thread) /\ stage' \in Sends
  /\ linked' \in BOOLEAN /\ paused' \in BOOLEAN /\ suppressed' \in BOOLEAN
  /\ followUp' \in {FALSE, followUp}
  /\ (paused' = paused /\ suppressed' = suppressed) \/ (~followUp' /\ NothingOpen(rows'))

\* The database at rest.
GoodDb == WorldOK /\ DbOK /\ Good(rows, thread, Troubles)

LEMMA MovesNot == ASSUME NEW table PROVE Len(table) \in Nat => Moves(table, table)
BY DEF Moves, SameRow, SameAnswer

LEMMA DbStutters ==
  ASSUME GoodDb, UNCHANGED <<rows, paused, stage, suppressed>>, followUp' \in {FALSE, followUp},
         known' \in 0..Len(thread), linked' \in BOOLEAN
  PROVE  DbStep
<1>1. Len(rows) \in Nat
  BY GoodIsOK DEF GoodDb
<1>2. Moves(rows, rows)
  BY <1>1, MovesNot
<1> QED
  BY <1>2 DEF GoodDb, DbOK, DbStep

LEMMA TakeOverEffect ==
  ASSUME GoodDb, NEW table, Good(table, thread, Troubles), Moves(rows, table), TakeOver(table),
         known' \in 0..Len(thread), linked' \in BOOLEAN
  PROVE  DbStep
<1>1. Len(thread) \in Nat
  BY DEF GoodDb, WorldOK
<1>2. rows' = Cancelled(table) /\ paused' = TRUE /\ followUp' = FALSE /\ suppressed' = suppressed
  BY DEF TakeOver
<1>3. stage' \in Sends
  BY DEF TakeOver, GoodDb, DbOK, Sends
<1>4. Good(rows', thread, Troubles) /\ Moves(table, rows') /\ NothingOpen(rows')
  BY <1>1, <1>2, GoodCancelled DEF NothingOpen
<1>5. Moves(rows, rows')
  BY <1>4, MovesTwice DEF GoodDb, Good
<1> QED
  BY <1>2, <1>3, <1>4, <1>5 DEF DbStep, GoodDb, DbOK

LEMMA SuppressEffect ==
  ASSUME GoodDb, NEW table, Good(table, thread, Troubles), Moves(rows, table), Suppress(table)
  PROVE  DbStep
<1>1. Len(thread) \in Nat
  BY DEF GoodDb, WorldOK
<1>2. /\ rows' = Cancelled(table) /\ suppressed' = TRUE /\ followUp' = FALSE /\ stage' = "CLOSED"
      /\ UNCHANGED <<paused, known, linked>>
  BY DEF Suppress
<1>3. Good(rows', thread, Troubles) /\ Moves(table, rows') /\ NothingOpen(rows')
  BY <1>1, <1>2, GoodCancelled DEF NothingOpen
<1>4. Moves(rows, rows')
  BY <1>3, MovesTwice DEF GoodDb, Good
<1> QED
  BY <1>2, <1>3, <1>4 DEF DbStep, GoodDb, DbOK, Sends

LEMMA NewInboundEffect ==
  ASSUME GoodDb, NEW table, Good(table, thread, Troubles), Moves(rows, table), rows' = table, OnNewInbound,
         known' \in 0..Len(thread), linked' \in BOOLEAN
  PROVE  DbStep
<1>1. stage' \in Sends /\ followUp' = FALSE /\ UNCHANGED <<paused, suppressed>>
  BY DEF OnNewInbound, GoodDb, DbOK, Sends
<1> QED
  BY <1>1 DEF DbStep, GoodDb, DbOK

LEMMA MaxOfBound ==
  ASSUME NEW n \in Nat, NEW a \in 0..n, NEW b \in 0..n PROVE MaxOf(a, b) \in 0..n
BY DEF MaxOf

\* A message of the thread, as a row of its own with its id.
LEMMA OwnRow ==
  ASSUME GoodDb, NEW m \in Positions, NEW from \in Authors,
         Direction(from) = Direction(thread[m].from), from = "prospect" => thread[m].from = "prospect"
  PROVE  /\ RowOK(Row(from, thread[m].word, m, m), thread, Troubles)
         /\ Row(from, thread[m].word, m, m).answer = "none" /\ Row(from, thread[m].word, m, m).mid = m
<1>1. m \in 1..Len(thread) /\ m \in Nat /\ thread[m] \in Letters
  BY DEF GoodDb, WorldOK, Positions
<1>2. thread[m].word \in Texts
  BY <1>1 DEF Letters
<1> DEFINE row == Row(from, thread[m].word, m, m)
<1>3. /\ row \in RowRecords /\ row.from = from /\ row.word = thread[m].word
      /\ row.mid = m /\ row.copy = m /\ row.answer = "none" /\ row.handled = (Direction(from) = "OUT")
  BY <1>1, <1>2, RowTyped
<1> HIDE DEF row
<1>4. row.handled \/ row.from = "prospect"
  BY <1>3 DEF Direction, Outbound, Authors
<1>5. RowOK(row, thread, Troubles)
  BY <1>1, <1>3, <1>4 DEF RowOK
<1> QED
  BY <1>3, <1>5 DEF row

LEMMA RecordInboundEffect ==
  ASSUME GoodDb, NEW m \in Positions, thread[m].from = "prospect", RecordInbound(m), linked' \in BOOLEAN
  PROVE  DbStep
<1>1. m \in 1..Len(thread) /\ Len(thread) \in Nat /\ known \in 0..Len(thread)
  BY DEF GoodDb, WorldOK, DbOK, Positions
<1>2. CASE Named(m)
  <2>1. UNCHANGED <<rows, known, paused, stage, suppressed, followUp>>
    BY <1>2 DEF RecordInbound
  <2> QED
    BY <1>1, <2>1, DbStutters
<1>3. CASE ~Named(m)
  <2> DEFINE row == Row("prospect", thread[m].word, m, m)
  <2>1. rows' = Append(rows, row) /\ known' = MaxOf(known, m) /\ OnNewInbound
    BY <1>3 DEF RecordInbound
  <2>2. RowOK(row, thread, Troubles) /\ row.answer = "none" /\ row.mid = m
    BY OwnRow DEF Authors
  <2> HIDE DEF row
  <2>3. \A i \in 1..Len(rows) : rows[i].mid # m
    BY <1>3 DEF Named, RowIds
  <2>4. Good(rows', thread, Troubles) /\ Moves(rows, rows')
    BY <1>1, <2>1, <2>2, <2>3, GoodAppended DEF GoodDb
  <2>5. known' \in 0..Len(thread)
    BY <1>1, <2>1, MaxOfBound
  <2> QED
    BY <2>1, <2>4, <2>5, NewInboundEffect
<1> QED
  BY <1>2, <1>3

LEMMA RowChanged ==
  ASSUME NEW old \in RowRecords
  PROVE  /\ \A m \in Nat : LET new == [old EXCEPT !.mid = m]
                          IN /\ new \in RowRecords /\ new.from = old.from /\ new.word = old.word
                             /\ new.copy = old.copy /\ new.mid = m /\ new.answer = old.answer
                             /\ new.handled = old.handled
         /\ LET new == [old EXCEPT !.handled = TRUE]
            IN /\ new \in RowRecords /\ new.from = old.from /\ new.word = old.word
               /\ new.copy = old.copy /\ new.mid = old.mid /\ new.answer = old.answer
               /\ new.handled = TRUE
         /\ \A a \in Answers : LET new == [old EXCEPT !.answer = a]
                              IN /\ new \in RowRecords /\ new.from = old.from /\ new.word = old.word
                                 /\ new.copy = old.copy /\ new.mid = old.mid /\ new.answer = a
                                 /\ new.handled = old.handled
BY DEF RowRecords

\* One of our rows gets the id of its message, or the message is Rohit's.
LEMMA RecordEchoEffect ==
  ASSUME GoodDb, NEW m \in Positions, thread[m].from \in Outbound, RecordEcho(m), linked' \in BOOLEAN
  PROVE  DbStep
<1>1. m \in 1..Len(thread) /\ Len(thread) \in Nat /\ known \in 0..Len(thread) /\ rows \in Seq(RowRecords)
  BY DEF GoodDb, WorldOK, DbOK, Positions, Good
<1> DEFINE mine == Ours(thread[m].word)
<1>2. CASE Named(m)
  <2>1. UNCHANGED <<rows, known, paused, stage, suppressed, followUp>>
    BY <1>2 DEF RecordEcho
  <2> QED
    BY <1>1, <2>1, DbStutters
<1>3. CASE ~Named(m) /\ mine # {}
  <2> DEFINE i == Max(mine)
  <2> DEFINE row == [rows[i] EXCEPT !.mid = m]
  <2>1. UNCHANGED <<known, paused, stage, suppressed, followUp>> /\ rows' = [rows EXCEPT ![i] = row]
    BY <1>3 DEF RecordEcho
  <2>2. mine \in SUBSET (1..Len(rows)) /\ Len(rows) \in Nat
    BY <1>1 DEF Ours, RowIds
  <2>3. i \in mine
    <3> HIDE DEF mine
    <3> QED
      BY <1>3, <2>2, GreatestExists
  <2>4. i \in 1..Len(rows) /\ rows[i].from = "automation" /\ rows[i].word = thread[m].word /\ rows[i].mid = 0
    BY <2>2, <2>3 DEF Ours
  <2> HIDE DEF i
  <2>5. RowOK(rows[i], thread, Troubles) /\ rows[i] \in RowRecords
    BY <2>4 DEF GoodDb, Good, RowOK
  <2>6. /\ row \in RowRecords /\ row.from = "automation" /\ row.word = rows[i].word /\ row.copy = rows[i].copy
        /\ row.mid = m /\ row.answer = rows[i].answer /\ row.handled = rows[i].handled
    <3>1. m \in Nat /\ rows[i] \in RowRecords /\ rows[i].from = "automation"
      BY <1>1, <2>4, <2>5
    <3> QED
      BY <3>1, RowChanged DEF row
  <2> HIDE DEF row
  <2>7. RowOK(row, thread, Troubles)
    BY <1>1, <2>4, <2>5, <2>6 DEF RowOK, Direction, Outbound
  <2>8. SameRow(rows[i], row) /\ SameAnswer(rows[i], row)
    BY <2>4, <2>6 DEF SameRow, SameAnswer
  <2>9. \A j \in 1..Len(rows) : rows[j].mid # row.mid
    BY <1>3, <2>6 DEF Named, RowIds
  <2>10. Good(rows', thread, Troubles) /\ Moves(rows, rows')
    BY <1>1, <2>1, <2>4, <2>7, <2>8, <2>9, GoodChanged DEF GoodDb
  <2> QED
    BY <1>1, <2>1, <2>10 DEF DbStep, GoodDb, DbOK
<1>4. CASE ~Named(m) /\ mine = {}
  <2> DEFINE row == Row("rohit", thread[m].word, m, m)
  <2>1. known' = MaxOf(known, m) /\ TakeOver(Append(rows, row))
    BY <1>4 DEF RecordEcho
  <2>2. RowOK(row, thread, Troubles) /\ row.answer = "none" /\ row.mid = m
    BY OwnRow DEF Authors, Direction, Outbound
  <2> HIDE DEF row
  <2>3. \A i \in 1..Len(rows) : rows[i].mid # m
    BY <1>4 DEF Named, RowIds
  <2>4. Good(Append(rows, row), thread, Troubles) /\ Moves(rows, Append(rows, row))
    BY <1>1, <2>2, <2>3, GoodAppended DEF GoodDb
  <2>5. known' \in 0..Len(thread)
    BY <1>1, <2>1, MaxOfBound
  <2> QED
    BY <2>1, <2>4, <2>5, TakeOverEffect
<1> QED
  BY <1>2, <1>3, <1>4

(***************************************************************************)
(* The steps of a process, on the database.                                *)
(***************************************************************************)
\* Of some events there is a first one.
LEMMA NextEventExists ==
  ASSUME MemoryOK, NEW r \in Runners, events[r] # {}
  PROVE  NextEvent(r) \in events[r]
<1> DEFINE E == events[r]
           Payload == {e[1] : e \in E}
<1>1. \A e \in E : e[1] \in Nat /\ e[2] \in Nat
  BY DEF MemoryOK, HookIds
<1>2. Payload \in SUBSET Nat /\ Payload # {}
  BY <1>1
<1>3. Min(Payload) \in Payload /\ \A k \in Payload : Min(Payload) <= k
  <2> HIDE DEF Payload
  <2> QED
    BY <1>2, LeastExists
<1>4. PICK k : k \in Payload /\ \A l \in Payload : k <= l
  BY <1>3
<1> DEFINE Place == {e[2] : e \in {d \in E : d[1] = k}}
<1>5. Place \in SUBSET Nat /\ Place # {}
  BY <1>1, <1>4
<1>6. Min(Place) \in Place /\ \A p \in Place : Min(Place) <= p
  <2> HIDE DEF Place
  <2> QED
    BY <1>5, LeastExists
<1>7. PICK e \in E : e[1] = k /\ e[2] = Min(Place)
  BY <1>6
<1>8. \A d \in E : k <= d[1] /\ (d[1] = k => e[2] <= d[2])
  BY <1>4, <1>6, <1>7
<1>9. \A d \in E : e[1] < d[1] \/ (e[1] = d[1] /\ e[2] <= d[2])
  BY <1>1, <1>4, <1>7, <1>8
<1> QED
  BY <1>9 DEF NextEvent

LEMMA ProcessEventEffect ==
  ASSUME GoodDb, MemoryOK, PhasesOK, NEW r \in Runners, ProcessEvent(r)
  PROVE  DbStep
<1>1. events[r] # {}
  BY DEF ProcessEvent, PhasesOK
<1>2. PICK e : e = NextEvent(r)
  OBVIOUS
<1>3. e \in events[r]
  BY <1>1, <1>2, NextEventExists
<1>4. e[1] \in HookIds /\ e[2] \in DOMAIN hooks[e[1]].events
  BY <1>3 DEF MemoryOK, PlacesOK
<1>5. hooks[e[1]].events[e[2]] \in Range(hooks[e[1]].events)
  BY <1>4 DEF Range
<1>6. hooks[e[1]].events[e[2]] \in Positions
  BY <1>4, <1>5 DEF GoodDb, WorldOK
<1>7. PICK m \in Positions : m = hooks[e[1]].events[e[2]]
  BY <1>6
<1>8. thread[m].from \in Authors
  <2>1. thread \in Seq(Letters) /\ m \in 1..Len(thread)
    BY DEF GoodDb, WorldOK, Positions
  <2>2. thread[m] \in Letters
    BY <2>1
  <2> QED
    BY <2>2 DEF Letters
<1>9. \/ linked' = TRUE /\ thread[m].from \in Outbound /\ RecordEcho(m)
      \/ linked' = TRUE /\ thread[m].from \notin Outbound /\ RecordInbound(m)
      \/ UNCHANGED db
  BY <1>2, <1>7 DEF ProcessEvent
<1>10. thread[m].from \notin Outbound => thread[m].from = "prospect"
  BY <1>8 DEF Authors, Outbound
<1>11. CASE UNCHANGED db
  BY <1>11, DbStutters DEF db, GoodDb, DbOK
<1> QED
  BY <1>9, <1>10, <1>11, RecordEchoEffect, RecordInboundEffect

\* What a process is about to answer is in the table.
LEMMA ReplyExists ==
  ASSUME GoodDb, MemoryOK, PhasesOK, NEW r \in Runners, pc[r] \in {"replies", "composing"}
  PROVE  Reply(r) \in todo[r] /\ Reply(r) \in 1..Len(rows) /\ todo[r] \subseteq 1..Len(rows)
<1>1. todo[r] # {}
  BY DEF PhasesOK
<1>2. todo[r] \subseteq 1..Len(rows) /\ todo[r] \in SUBSET Nat
  BY DEF MemoryOK, RowIds
<1> QED
  BY <1>1, <1>2, LeastExists DEF Reply

LEMMA ActOnReplyEffect ==
  ASSUME GoodDb, MemoryOK, PhasesOK, NEW r \in Runners, ActOnReply(r)
  PROVE  DbStep
<1>1. pc[r] \in {"replies", "composing"}
  BY DEF ActOnReply
<1>2. PICK i : i = Reply(r)
  OBVIOUS
<1>3. i \in 1..Len(rows) /\ rows \in Seq(RowRecords) /\ Len(thread) \in Nat
  BY <1>1, <1>2, ReplyExists DEF GoodDb, Good, WorldOK
<1> DEFINE row == [rows[i] EXCEPT !.handled = TRUE]
           table == [rows EXCEPT ![i] = row]
<1>4. rows[i] \in RowRecords /\ RowOK(rows[i], thread, Troubles)
  BY <1>3 DEF GoodDb, Good
<1>5. /\ row \in RowRecords /\ row.from = rows[i].from /\ row.word = rows[i].word
      /\ row.copy = rows[i].copy /\ row.mid = rows[i].mid /\ row.answer = rows[i].answer
      /\ row.handled = TRUE
  BY <1>4, RowChanged
<1>6. [rows EXCEPT ![i].handled = TRUE] = table
  OBVIOUS
<1> HIDE DEF row
<1>7. RowOK(row, thread, Troubles) /\ SameRow(rows[i], row) /\ SameAnswer(rows[i], row)
  BY <1>4, <1>5, RowOKKept DEF SameRow, SameAnswer
<1>8. Good(table, thread, Troubles) /\ Moves(rows, table)
  BY <1>3, <1>5, <1>7, GoodChanged DEF GoodDb
<1> HIDE DEF table
<1>9. \/ Suppress(table)
      \/ rows' = table /\ UNCHANGED <<known, linked, paused, stage, suppressed, followUp>>
  BY <1>2, <1>6 DEF ActOnReply
<1>10. CASE Suppress(table)
  BY <1>8, <1>10, SuppressEffect
<1>11. CASE rows' = table /\ UNCHANGED <<known, linked, paused, stage, suppressed, followUp>>
  BY <1>8, <1>11 DEF DbStep, GoodDb, DbOK
<1> QED
  BY <1>9, <1>10, <1>11

LEMMA HandOffEffect ==
  ASSUME GoodDb, NEW r \in Runners, HandOff(r)
  PROVE  DbStep
<1>1. TakeOver(rows) /\ UNCHANGED <<known, linked>>
  BY DEF HandOff
<1>2. Len(rows) \in Nat /\ Good(rows, thread, Troubles)
  BY GoodIsOK DEF GoodDb
<1>3. known' \in 0..Len(thread) /\ linked' \in BOOLEAN
  BY <1>1 DEF GoodDb, DbOK
<1> QED
  BY <1>1, <1>2, <1>3, MovesNot, TakeOverEffect

\* The rows that a thread read adds.
Missing(r) == {k \in 1..saw[r] : Unmatched(r, k)}
Found(r) == [i \in 1..Cardinality(Missing(r)) |-> NewRow(r, Nth(Missing(r), i))]

\* The process knows by which channel it reads.
ChannelsOK == \A r \in Runners : channel[r] # "none" => channel[r] \in Troubles

LEMMA FoundRows ==
  ASSUME GoodDb, MemoryOK, NEW r \in Runners
  PROVE  /\ Cardinality(Missing(r)) \in Nat /\ Len(Found(r)) = Cardinality(Missing(r))
         /\ Missing(r) \in SUBSET (1..saw[r]) /\ saw[r] \in Nat /\ saw[r] <= Len(thread)
         /\ \A i \in 1..Len(Found(r)) : /\ Nth(Missing(r), i) \in Missing(r)
                                        /\ Cardinality({l \in Missing(r) : l <= Nth(Missing(r), i)}) = i
                                        /\ Found(r)[i] = NewRow(r, Nth(Missing(r), i))
<1>1. saw[r] \in Nat /\ saw[r] <= Len(thread)
  BY DEF MemoryOK, GoodDb, WorldOK
<1>2. Missing(r) \in SUBSET (1..saw[r])
  BY DEF Missing
<1>3. Cardinality(Missing(r)) \in Nat
  <2>1. IsFiniteSet(1..saw[r])
    BY <1>1, FS_Interval
  <2> QED
    BY <1>2, <2>1, FS_Subset, FS_CardinalityType
<1>4. /\ Len(Found(r)) = Cardinality(Missing(r))
      /\ \A i \in 1..Len(Found(r)) : Found(r)[i] = NewRow(r, Nth(Missing(r), i))
  BY <1>3 DEF Found
<1> QED
  BY <1>1, <1>2, <1>3, <1>4, NthExists

LEMMA NewRowEffect ==
  ASSUME GoodDb, MemoryOK, PhasesOK, ChannelsOK, NEW r \in Runners, pc[r] = "reading", NEW k \in 1..saw[r]
  PROVE  /\ RowOK(NewRow(r, k), thread, Troubles) /\ NewRow(r, k).answer = "none"
         /\ NewRow(r, k).word = thread[k].word
         /\ Direction(NewRow(r, k).from) = Direction(thread[k].from)
         /\ NewRow(r, k).mid = IF channel[r] = "API" THEN k ELSE 0
<1>1. k \in 1..Len(thread) /\ k \in Nat /\ thread \in Seq(Letters)
  BY DEF MemoryOK, GoodDb, WorldOK
<1>2. thread[k] \in Letters
  BY <1>1
<1>3. thread[k].word \in Texts /\ thread[k].from \in Authors
  BY <1>2 DEF Letters
<1>4. channel[r] = "API" \/ (channel[r] = "BROWSER" /\ "BROWSER" \in Troubles)
  BY DEF MemoryOK, PhasesOK, ChannelsOK, Channels
<1>5. PICK from \in Authors : /\ from = IF thread[k].from = "prospect" THEN "prospect" ELSE "rohit"
                              /\ Direction(from) = Direction(thread[k].from)
                              /\ from = "prospect" => thread[k].from = "prospect"
  BY <1>3 DEF Authors, Direction, Outbound
<1>6. PICK mid \in Nat : mid = (IF channel[r] = "API" THEN k ELSE 0)
  BY <1>1
<1> DEFINE row == Row(from, thread[k].word, mid, k)
<1>7. NewRow(r, k) = row
  BY <1>5, <1>6 DEF NewRow
<1>8. /\ row \in RowRecords /\ row.from = from /\ row.word = thread[k].word
      /\ row.mid = mid /\ row.copy = k /\ row.answer = "none"
      /\ from \in Outbound => row.handled
  <2>1. PICK word \in Texts : word = thread[k].word
    BY <1>3
  <2>2. k \in Nat
    BY <1>1
  <2> QED
    BY <2>1, <2>2, RowTyped
<1> HIDE DEF row
<1>9. row.handled \/ row.from = "prospect"
  BY <1>8 DEF Outbound, Authors
<1>10. mid = k \/ (mid = 0 /\ "BROWSER" \in Troubles)
  BY <1>4, <1>6
<1>11. RowOK(row, thread, Troubles)
  BY <1>1, <1>5, <1>8, <1>9, <1>10 DEF RowOK
<1> QED
  BY <1>5, <1>6, <1>7, <1>8, <1>11

\* What a read adds is good: a message whose id is stored is not added, nor is one added twice.
LEMMA FoundGood ==
  ASSUME GoodDb, MemoryOK, PhasesOK, ChannelsOK, NEW r \in Runners, pc[r] = "reading"
  PROVE  Good(rows \o Found(r), thread, Troubles) /\ Moves(rows, rows \o Found(r))
<1>1. /\ Cardinality(Missing(r)) \in Nat /\ Len(Found(r)) = Cardinality(Missing(r))
      /\ Missing(r) \in SUBSET (1..saw[r])
      /\ \A i \in 1..Len(Found(r)) : /\ Nth(Missing(r), i) \in Missing(r)
                                     /\ Cardinality({l \in Missing(r) : l <= Nth(Missing(r), i)}) = i
                                     /\ Found(r)[i] = NewRow(r, Nth(Missing(r), i))
  BY FoundRows
<1>2. \A i \in 1..Len(Found(r)) :
        /\ RowOK(Found(r)[i], thread, Troubles) /\ Found(r)[i].answer = "none"
        /\ Found(r)[i].mid = IF channel[r] = "API" THEN Nth(Missing(r), i) ELSE 0
  <2> SUFFICES ASSUME NEW i \in 1..Len(Found(r))
               PROVE  /\ RowOK(Found(r)[i], thread, Troubles) /\ Found(r)[i].answer = "none"
                      /\ Found(r)[i].mid = IF channel[r] = "API" THEN Nth(Missing(r), i) ELSE 0
    OBVIOUS
  <2>1. Nth(Missing(r), i) \in 1..saw[r] /\ Found(r)[i] = NewRow(r, Nth(Missing(r), i))
    BY <1>1
  <2> QED
    BY <2>1, NewRowEffect
<1>3. Found(r) \in Seq(RowRecords)
  <2>1. \A i \in 1..Cardinality(Missing(r)) : NewRow(r, Nth(Missing(r), i)) \in RowRecords
    BY <1>1, <1>2 DEF RowOK
  <2> QED
    BY <1>1, <2>1 DEF Found
<1>4. MidsOnce(Found(r))
  <2> SUFFICES ASSUME NEW i \in 1..Len(Found(r)), NEW j \in 1..Len(Found(r)),
                      Found(r)[i].mid # 0, Found(r)[i].mid = Found(r)[j].mid
               PROVE  i = j
    BY DEF MidsOnce
  <2>1. Nth(Missing(r), i) = Nth(Missing(r), j)
    BY <1>2
  <2> QED
    BY <1>1, <2>1
<1>5. Good(Found(r), thread, Troubles)
  BY <1>2, <1>3, <1>4 DEF Good
<1>6. \A i \in 1..Len(rows), j \in 1..Len(Found(r)) : Found(r)[j].mid # 0 => rows[i].mid # Found(r)[j].mid
  <2> SUFFICES ASSUME NEW i \in 1..Len(rows), NEW j \in 1..Len(Found(r)), Found(r)[j].mid # 0
               PROVE  rows[i].mid # Found(r)[j].mid
    OBVIOUS
  <2>1. channel[r] = "API" /\ Found(r)[j].mid = Nth(Missing(r), j) /\ Nth(Missing(r), j) \in Missing(r)
    BY <1>1, <1>2
  <2>2. ~Named(Nth(Missing(r), j))
    BY <2>1 DEF Missing, Unmatched, ById
  <2> QED
    BY <2>1, <2>2 DEF Named, RowIds
<1>7. Len(thread) \in Nat
  BY DEF GoodDb, WorldOK
<1> QED
  BY <1>2, <1>5, <1>6, <1>7, GoodJoined DEF GoodDb

LEMMA ReconcileEffect ==
  ASSUME GoodDb, MemoryOK, PhasesOK, ChannelsOK, NEW r \in Runners, Reconcile(r)
  PROVE  DbStep /\ (Missing(r) # {} => rows' = rows \o Found(r) \/ rows' = Cancelled(rows \o Found(r)))
<1> DEFINE table == rows \o Found(r)
           authors == {thread[k].from : k \in Missing(r)}
<1>1. Good(table, thread, Troubles) /\ Moves(rows, table)
  BY FoundGood DEF Reconcile
<1>2. known' \in 0..Len(thread) /\ linked' \in BOOLEAN
  BY DEF Reconcile, GoodDb, WorldOK, DbOK
<1>3. authors \subseteq Authors
  <2>1. \A k \in Missing(r) : k \in 1..Len(thread)
    BY DEF Missing, MemoryOK, GoodDb, WorldOK
  <2>2. \A k \in Missing(r) : thread[k] \in Letters
    BY <2>1 DEF GoodDb, WorldOK
  <2> QED
    BY <2>2 DEF Letters
<1>4. /\ authors \cap Outbound # {} => TakeOver(table)
      /\ authors = {"prospect"} => rows' = table /\ OnNewInbound
      /\ authors = {} => UNCHANGED <<rows, paused, stage, suppressed, followUp>>
  BY DEF Reconcile, Missing, Found, Outbound
<1>5. authors \cap Outbound # {} \/ authors = {"prospect"} \/ authors = {}
  BY <1>3 DEF Authors, Outbound
<1>6. authors = {} <=> Missing(r) = {}
  OBVIOUS
<1> HIDE DEF table, authors
<1>7. CASE authors \cap Outbound # {}
  <2>1. rows' = Cancelled(table)
    BY <1>4, <1>7 DEF TakeOver
  <2> QED
    BY <1>1, <1>2, <1>4, <1>7, <2>1, TakeOverEffect DEF table
<1>8. CASE authors = {"prospect"}
  BY <1>1, <1>2, <1>4, <1>8, NewInboundEffect DEF table
<1>9. CASE authors = {}
  BY <1>2, <1>4, <1>6, <1>9, DbStutters
<1> QED
  BY <1>5, <1>7, <1>8, <1>9

\* An answer is queued: the action hangs on the row it answers.
LEMMA QueueAnswerEffect ==
  ASSUME GoodDb, MemoryOK, PhasesOK, NEW r \in Runners, QueueAnswer(r)
  PROVE  /\ Good(rows', thread, Troubles) /\ Len(rows') = Len(rows) /\ Reply(r) \in 1..Len(rows)
         /\ \A j \in 1..Len(rows) : SameRow(rows[j], rows'[j])
         /\ \A j \in 1..Len(rows) : rows'[j].answer = rows[j].answer
                                    \/ (j = Reply(r) /\ rows[j].answer = "none" /\ rows'[j].answer = Preview)
         /\ UNCHANGED <<known, linked, paused, stage, suppressed, followUp>>
<1>1. pc[r] \in {"replies", "composing"}
  BY DEF QueueAnswer
<1>2. PICK i : i = Reply(r)
  OBVIOUS
<1>3. i \in 1..Len(rows) /\ rows \in Seq(RowRecords) /\ Len(thread) \in Nat
  BY <1>1, <1>2, ReplyExists DEF GoodDb, Good, WorldOK
<1>4. rows[i] \in RowRecords /\ RowOK(rows[i], thread, Troubles)
  BY <1>3 DEF GoodDb, Good
<1>5. PICK a : a = (IF rows[i].answer = "none" THEN Preview ELSE rows[i].answer)
  OBVIOUS
<1>6. a \in Answers
  BY <1>4, <1>5 DEF RowRecords, Preview, Answers
<1> DEFINE row == [rows[i] EXCEPT !.answer = a]
<1>7. rows' = [rows EXCEPT ![i] = row] /\ UNCHANGED <<known, linked, paused, stage, suppressed, followUp>>
  BY <1>2, <1>5 DEF QueueAnswer
<1>8. /\ row \in RowRecords /\ row.from = rows[i].from /\ row.word = rows[i].word
      /\ row.copy = rows[i].copy /\ row.mid = rows[i].mid /\ row.answer = a
      /\ row.handled = rows[i].handled
  BY <1>4, <1>6, RowChanged
<1> HIDE DEF row
<1>9. RowOK(row, thread, Troubles) /\ SameRow(rows[i], row)
  BY <1>4, <1>8, RowOKKept DEF SameRow
<1>10. /\ Good(rows', thread, Troubles) /\ Len(rows') = Len(rows)
       /\ \A j \in 1..Len(rows) : rows'[j] = IF j = i THEN row ELSE rows[j]
  <2> DEFINE table == [rows EXCEPT ![i] = row]
  <2>1. /\ Good(table, thread, Troubles) /\ Len(table) = Len(rows)
        /\ \A j \in 1..Len(rows) : table[j] = IF j = i THEN row ELSE rows[j]
    BY <1>3, <1>8, <1>9, GoodChanged DEF GoodDb
  <2>2. rows' = table
    BY <1>7
  <2> HIDE DEF table
  <2> QED
    BY <2>1, <2>2
<1>11. \A j \in 1..Len(rows) : SameRow(rows[j], rows'[j])
  BY <1>9, <1>10 DEF SameRow
<1> QED
  BY <1>2, <1>3, <1>5, <1>7, <1>8, <1>10, <1>11

\* An answer is sent: its row is marked, and the message and a row for it are added.
LEMMA SendAnswerEffect ==
  ASSUME GoodDb, NEW r \in Runners, SendAnswer(r)
  PROVE  /\ Good(rows', thread', Troubles) /\ Len(rows') = Len(rows) + 1 /\ Len(rows) \in Nat
         /\ \A j \in 1..Len(rows) : SameRow(rows[j], rows'[j])
         /\ \E i \in 1..Len(rows) :
              /\ rows[i].answer = "open" /\ rows'[i].answer = "sent"
              /\ \A j \in 1..Len(rows) : j # i => rows'[j].answer = rows[j].answer
         /\ rows'[Len(rows) + 1].answer = "none" /\ rows'[Len(rows) + 1].from = "automation"
         /\ ~suppressed /\ ~paused /\ known' = Len(thread')
         /\ UNCHANGED <<linked, paused, stage, suppressed, followUp>>
<1> DEFINE letter == [from |-> "automation", word |-> Answer]
<1>1. Len(thread) \in Nat /\ rows \in Seq(RowRecords) /\ Len(rows) \in Nat
  BY DEF GoodDb, WorldOK, Good
<1>2. letter \in Letters /\ letter.from = "automation" /\ letter.word = Answer
  BY DEF Letters, Authors, Texts
<1>3. thread' = Append(thread, letter)
  BY DEF SendAnswer
<1> HIDE DEF letter
<1>4. Len(thread') = Len(thread) + 1 /\ (\A i \in 1..Len(thread) : thread'[i] = thread[i])
      /\ thread'[Len(thread')] = letter
  BY <1>2, <1>3, LettersAppended DEF GoodDb, Positions
<1>5. PICK i \in 1..Len(rows), mid \in {0} \cup {Len(thread')} :
        /\ rows[i].answer = "open" /\ ~suppressed /\ ~paused
        /\ rows' = Append([rows EXCEPT ![i].answer = "sent"], Row("automation", Answer, mid, Len(thread')))
  BY DEF SendAnswer, RowIds
<1> DEFINE row == [rows[i] EXCEPT !.answer = "sent"]
           table == [rows EXCEPT ![i] = row]
           new == Row("automation", Answer, mid, Len(thread'))
<1>6. rows[i] \in RowRecords /\ RowOK(rows[i], thread, Troubles)
  BY <1>1 DEF GoodDb, Good
<1>7. /\ row \in RowRecords /\ row.from = rows[i].from /\ row.word = rows[i].word
      /\ row.copy = rows[i].copy /\ row.mid = rows[i].mid /\ row.answer = "sent"
      /\ row.handled = rows[i].handled
  BY <1>6, RowChanged DEF Answers
<1>8. rows' = Append(table, new)
  BY <1>5
<1>9. /\ new \in RowRecords /\ new.from = "automation" /\ new.word = Answer /\ new.mid = mid
      /\ new.copy = Len(thread') /\ new.answer = "none" /\ new.handled
  <2>1. "automation" \in Authors /\ Answer \in Texts /\ mid \in Nat /\ Len(thread') \in Nat
    BY <1>1, <1>4 DEF Authors, Texts
  <2>2. "automation" \in Outbound
    BY DEF Outbound
  <2> QED
    BY <2>1, <2>2, RowTyped
<1> HIDE DEF row, new
<1>10. RowOK(row, thread, Troubles) /\ SameRow(rows[i], row)
  BY <1>6, <1>7, RowOKKept DEF SameRow
<1>11. /\ Good(table, thread, Troubles) /\ Len(table) = Len(rows)
       /\ \A j \in 1..Len(rows) : table[j] = IF j = i THEN row ELSE rows[j]
  BY <1>1, <1>7, <1>10, GoodChanged DEF GoodDb
<1> HIDE DEF table
<1>12. Good(table, thread', Troubles)
  BY <1>1, <1>4, <1>11, GoodGrows
<1>13. RowOK(new, thread', Troubles)
  BY <1>1, <1>2, <1>4, <1>9 DEF RowOK, Direction
<1>14. new.mid # 0 => \A j \in 1..Len(table) : table[j].mid # new.mid
  <2>1. \A j \in 1..Len(table) : table[j].mid \in {0} \cup 1..Len(thread)
    BY <1>11 DEF Good, RowOK
  <2> QED
    BY <1>1, <1>4, <1>9, <2>1
<1>15. Good(rows', thread', Troubles)
  <2>1. Len(thread') \in Nat
    BY <1>1, <1>4
  <2> QED
    BY <1>8, <1>9, <1>12, <1>13, <1>14, <2>1, GoodAppended
<1>16. /\ Len(rows') = Len(rows) + 1 /\ rows'[Len(rows) + 1] = new
       /\ \A j \in 1..Len(rows) : rows'[j] = table[j]
  <2>1. table \in Seq(RowRecords) /\ new \in RowRecords /\ Len(table) = Len(rows)
    BY <1>9, <1>11 DEF Good
  <2> QED
    BY <1>8, <2>1, AppendProperties
<1>17. \A j \in 1..Len(rows) : SameRow(rows[j], rows'[j])
  BY <1>10, <1>11, <1>16 DEF SameRow
<1>18. \E k \in 1..Len(rows) : /\ rows[k].answer = "open" /\ rows'[k].answer = "sent"
                               /\ \A j \in 1..Len(rows) : j # k => rows'[j].answer = rows[j].answer
  BY <1>5, <1>7, <1>11, <1>16
<1>19. known' = Len(thread') /\ UNCHANGED <<linked, paused, stage, suppressed, followUp>>
  BY DEF SendAnswer
<1> QED
  BY <1>1, <1>5, <1>9, <1>15, <1>16, <1>17, <1>18, <1>19

(***************************************************************************)
(* Every step, on the database.                                            *)
(***************************************************************************)
Stored == GoodDb /\ MemoryOK /\ PhasesOK /\ ChannelsOK

LEMMA StoredTypes == Stored => TypeOK
BY TypeParts DEF Stored, GoodDb

LEMMA StepsOfDb ==
  ASSUME Stored, [Next]_vars
  PROVE  \/ DbStep /\ thread' = thread
         \/ Write /\ UNCHANGED db
         \/ \E r \in Runners : QueueAnswer(r)
         \/ \E r \in Runners : SendAnswer(r)
<1>1. GoodDb /\ MemoryOK /\ PhasesOK /\ ChannelsOK
  BY DEF Stored
<1>2. known \in 0..Len(thread) /\ linked \in BOOLEAN
  BY <1>1 DEF GoodDb, DbOK
<1>3. ASSUME UNCHANGED <<db, thread>> PROVE DbStep /\ thread' = thread
  BY <1>1, <1>2, <1>3, DbStutters DEF db
<1>4. CASE Write
  BY <1>4 DEF Write
<1>5. ASSUME NEW i \in Positions, Deliver(i) PROVE UNCHANGED <<db, thread>>
  BY <1>5 DEF Deliver, Store
<1>6. CASE Redeliver
  <2>1. UNCHANGED <<db, thread>>
    BY <1>6 DEF Redeliver, Store
  <2> QED
    BY <1>3, <2>1
<1>7. ASSUME NEW r \in Runners, Crash(r) PROVE UNCHANGED <<db, thread>>
  BY <1>7 DEF Crash
<1>8. ASSUME NEW r \in Runners,
             Drain(r) \/ (\E sync \in BOOLEAN : Plan(r, sync)) \/ Read(r) \/ NothingToExecute(r)
      PROVE  UNCHANGED <<db, thread>>
  BY <1>8 DEF Drain, Plan, Read, NothingToExecute, world
<1>9. ASSUME NEW r \in Runners, HandleInbox(r) PROVE DbStep /\ thread' = thread
  <2>1. UNCHANGED <<thread, rows, known, paused, stage, suppressed, followUp>> /\ linked' \in BOOLEAN
    BY <1>2, <1>9 DEF HandleInbox, world
  <2> QED
    BY <1>1, <1>2, <2>1, DbStutters
<1>10. ASSUME NEW r \in Runners, ProcessEvent(r) \/ ActOnReply(r) \/ HandOff(r) \/ Reconcile(r)
       PROVE  DbStep /\ thread' = thread
  <2>1. thread' = thread
    BY <1>10 DEF ProcessEvent, ActOnReply, HandOff, Reconcile, world
  <2> QED
    BY <1>1, <1>10, <2>1, ProcessEventEffect, ActOnReplyEffect, HandOffEffect, ReconcileEffect
<1>11. CASE UNCHANGED vars
  BY <1>3, <1>11 DEF vars, world
<1> QED
  BY <1>3, <1>4, <1>5, <1>6, <1>7, <1>8, <1>9, <1>10, <1>11 DEF Next, Tick

LEMMA JobsNext ==
  ASSUME Stored, [Next]_vars
  PROVE  jobs' \subseteq {"inbox", "thread"}
<1>1. jobs \subseteq {"inbox", "thread"}
  BY DEF Stored, GoodDb, DbOK
<1>2. CASE Write \/ (\E i \in Positions : Deliver(i)) \/ Redeliver
  BY <1>1, <1>2 DEF Write, Deliver, Redeliver, Store
<1>3. ASSUME NEW r \in Runners,
             \/ Drain(r) \/ ProcessEvent(r) \/ ActOnReply(r) \/ HandOff(r) \/ QueueAnswer(r) \/ SendAnswer(r)
             \/ Reconcile(r) \/ NothingToExecute(r)
      PROVE  jobs' = jobs
  BY <1>3 DEF Drain, ProcessEvent, ActOnReply, HandOff, QueueAnswer, SendAnswer, Reconcile,
     NothingToExecute
<1>4. ASSUME NEW r \in Runners,
             (\E sync \in BOOLEAN : Plan(r, sync)) \/ Read(r) \/ HandleInbox(r) \/ Crash(r)
      PROVE  jobs' \subseteq jobs \cup {"inbox", "thread"}
  BY <1>4 DEF Plan, Read, HandleInbox, Crash
<1>5. CASE UNCHANGED vars
  BY <1>1, <1>5 DEF vars
<1> QED
  BY <1>1, <1>2, <1>3, <1>4, <1>5 DEF Next, Tick

\* The tables stay good, and no row goes or changes its author, its text or its id.
LEMMA GoodDbNext ==
  ASSUME Stored, [Next]_vars
  PROVE  /\ GoodDb' /\ WorldGrows /\ Len(rows) \in Nat /\ Len(rows') \in Nat /\ Len(rows) <= Len(rows')
         /\ \A i \in 1..Len(rows) : SameRow(rows[i], rows'[i])
<1>1. GoodDb
  BY DEF Stored
<1>2. WorldOK' /\ WorldGrows /\ jobs' \subseteq {"inbox", "thread"} /\ Troubles' = Troubles
  BY WorldNext, StoredTypes, JobsNext DEF WorldGrows, Troubles
<1>3. Len(rows) \in Nat /\ rows \in Seq(RowRecords) /\ Len(thread) \in Nat /\ Len(thread') \in Nat
  BY <1>1, <1>2 DEF GoodDb, Good, WorldOK
<1>4. /\ known \in 0..Len(thread) /\ stage \in Sends
      /\ linked \in BOOLEAN /\ paused \in BOOLEAN /\ suppressed \in BOOLEAN /\ followUp \in BOOLEAN
  BY <1>1 DEF GoodDb, DbOK
<1>5. ASSUME Good(rows', thread', Troubles), known' \in 0..Len(thread'), stage' \in Sends,
             linked' \in BOOLEAN, paused' \in BOOLEAN, suppressed' \in BOOLEAN, followUp' \in BOOLEAN
      PROVE  GoodDb' /\ Len(rows') \in Nat
  <2>1. TableOK(rows', Len(thread')) /\ Len(rows') \in Nat
    BY <1>5, GoodIsOK
  <2>2. DbOK'
    BY <1>2, <1>5, <2>1 DEF DbOK
  <2> QED
    BY <1>2, <1>5, <2>1, <2>2 DEF GoodDb
<1>6. CASE DbStep /\ thread' = thread
  <2>1. GoodDb' /\ Len(rows') \in Nat
    BY <1>4, <1>5, <1>6 DEF DbStep
  <2> QED
    BY <1>2, <1>3, <1>6, <2>1 DEF DbStep, Moves
<1>7. CASE Write /\ UNCHANGED db
  <2>1. UNCHANGED db /\ Len(thread) <= Len(thread') /\ \A i \in 1..Len(thread) : thread'[i] = thread[i]
    BY <1>2, <1>7 DEF WorldGrows, Positions
  <2>2. Good(rows', thread', Troubles)
    BY <1>1, <1>3, <2>1, GoodGrows DEF GoodDb, db
  <2>3. known' \in 0..Len(thread')
    BY <1>3, <1>4, <2>1 DEF db
  <2>4. GoodDb'
    BY <1>4, <1>5, <2>1, <2>2, <2>3 DEF db
  <2> QED
    BY <1>2, <1>3, <2>1, <2>4 DEF SameRow, db
<1>8. ASSUME NEW r \in Runners, QueueAnswer(r)
      PROVE  GoodDb' /\ Len(rows') = Len(rows) /\ \A i \in 1..Len(rows) : SameRow(rows[i], rows'[i])
  <2>1. /\ Good(rows', thread, Troubles) /\ Len(rows') = Len(rows)
        /\ \A j \in 1..Len(rows) : SameRow(rows[j], rows'[j])
        /\ UNCHANGED <<known, linked, paused, stage, suppressed, followUp>>
    BY <1>8, QueueAnswerEffect DEF Stored
  <2>2. thread' = thread
    BY <1>8 DEF QueueAnswer, world
  <2>3. GoodDb'
    BY <1>4, <1>5, <2>1, <2>2
  <2> QED
    BY <2>1, <2>3
<1>9. ASSUME NEW r \in Runners, SendAnswer(r)
      PROVE  GoodDb' /\ Len(rows') = Len(rows) + 1 /\ \A i \in 1..Len(rows) : SameRow(rows[i], rows'[i])
  <2>1. /\ Good(rows', thread', Troubles) /\ Len(rows') = Len(rows) + 1
        /\ \A j \in 1..Len(rows) : SameRow(rows[j], rows'[j])
        /\ known' = Len(thread') /\ UNCHANGED <<linked, paused, stage, suppressed, followUp>>
    BY <1>9, SendAnswerEffect DEF Stored
  <2>2. known' \in 0..Len(thread')
    BY <1>3, <2>1
  <2>3. GoodDb'
    BY <1>4, <1>5, <2>1, <2>2
  <2> QED
    BY <2>1, <2>3
<1>10. CASE \E r \in Runners : QueueAnswer(r)
  BY <1>2, <1>3, <1>8, <1>10
<1>11. CASE \E r \in Runners : SendAnswer(r)
  BY <1>2, <1>3, <1>9, <1>11
<1> QED
  BY <1>6, <1>7, <1>10, <1>11, StepsOfDb

(***************************************************************************)
(* Every step, on the processes.                                           *)
(***************************************************************************)
\* What one process holds.
Holds(r) ==
  /\ pc[r] \in Phases
  /\ events[r] \subseteq HookIds \X {1, 2} /\ PlacesOK(events[r])
  /\ todo[r] \subseteq RowIds /\ pending[r] \subseteq RowIds
  /\ job[r] \in {"none", "inbox", "thread"}
  /\ saw[r] \in 0..Len(thread)
  /\ channel[r] \in {"none"} \cup (Troubles \cap Channels)
  /\ events[r] # {} <=> pc[r] = "events"
  /\ todo[r] # {} <=> pc[r] \in {"replies", "composing"}
  /\ job[r] # "none" <=> pc[r] = "reading"
  /\ channel[r] # "none" <=> pc[r] = "reading"

Domains ==
  /\ pc = [r \in Runners |-> pc[r]] /\ events = [r \in Runners |-> events[r]]
  /\ todo = [r \in Runners |-> todo[r]] /\ pending = [r \in Runners |-> pending[r]]
  /\ job = [r \in Runners |-> job[r]] /\ saw = [r \in Runners |-> saw[r]]
  /\ channel = [r \in Runners |-> channel[r]]

\* A process whose memory the step leaves alone.
Still(q) == <<pc[q], events[q], todo[q], pending[q], job[q], saw[q], channel[q]>>' =
            <<pc[q], events[q], todo[q], pending[q], job[q], saw[q], channel[q]>>

LEMMA MemoryParts ==
  MemoryOK /\ PhasesOK /\ ChannelsOK <=> Domains /\ told \subseteq RowIds /\ \A r \in Runners : Holds(r)
<1>1. ASSUME MemoryOK, PhasesOK, ChannelsOK
      PROVE  Domains /\ told \subseteq RowIds /\ \A r \in Runners : Holds(r)
  <2>1. Domains /\ told \subseteq RowIds
    BY <1>1 DEF MemoryOK, Domains
  <2>2. ASSUME NEW r \in Runners PROVE Holds(r)
    <3>1. /\ pc[r] \in Phases /\ events[r] \subseteq HookIds \X {1, 2} /\ PlacesOK(events[r])
          /\ todo[r] \subseteq RowIds /\ pending[r] \subseteq RowIds
          /\ job[r] \in {"none", "inbox", "thread"} /\ saw[r] \in 0..Len(thread)
          /\ channel[r] \in Channels \cup {"none"}
      BY <1>1 DEF MemoryOK
    <3>2. channel[r] \in {"none"} \cup (Troubles \cap Channels)
      BY <1>1, <3>1 DEF ChannelsOK
    <3> QED
      BY <1>1, <3>1, <3>2 DEF PhasesOK, Holds
  <2> QED
    BY <2>1, <2>2
<1>2. ASSUME Domains, told \subseteq RowIds, \A r \in Runners : Holds(r)
      PROVE  MemoryOK /\ PhasesOK /\ ChannelsOK
  <2>1. PhasesOK
    BY <1>2 DEF PhasesOK, Holds
  <2>2. ChannelsOK
    BY <1>2 DEF ChannelsOK, Holds
  <2>3. /\ pc \in [Runners -> Phases] /\ job \in [Runners -> {"none", "inbox", "thread"}]
        /\ channel \in [Runners -> Channels \cup {"none"}]
    BY <1>2 DEF Domains, Holds
  <2>4. events \in [Runners -> SUBSET (HookIds \X {1, 2})] /\ \A r \in Runners : PlacesOK(events[r])
    BY <1>2 DEF Domains, Holds
  <2>5. todo \in [Runners -> SUBSET RowIds] /\ pending \in [Runners -> SUBSET RowIds]
    BY <1>2 DEF Domains, Holds
  <2>6. saw \in [Runners -> 0..Len(thread)]
    BY <1>2 DEF Domains, Holds
  <2> QED
    BY <1>2, <2>1, <2>2, <2>3, <2>4, <2>5, <2>6 DEF MemoryOK
<1> QED
  BY <1>1, <1>2

\* What the tables and the thread do under a process at rest does not disturb it.
LEMMA HoldsStill ==
  ASSUME NEW r \in Runners, Holds(r), Still(r), WorldGrows, RowIds \subseteq RowIds',
         Len(thread) \in Nat, Len(thread') \in Nat
  PROVE  Holds(r)'
<1>1. /\ pc'[r] = pc[r] /\ events'[r] = events[r] /\ todo'[r] = todo[r] /\ pending'[r] = pending[r]
      /\ job'[r] = job[r] /\ saw'[r] = saw[r] /\ channel'[r] = channel[r]
  BY DEF Still
<1>2. HookIds \subseteq HookIds' /\ \A k \in HookIds : hooks'[k].events = hooks[k].events
  BY DEF WorldGrows
<1>3. events'[r] \subseteq HookIds' \X {1, 2}
  BY <1>1, <1>2 DEF Holds
<1>4. PlacesOK(events[r])'
  <2>1. \A e \in events[r] : e[1] \in HookIds
    BY DEF Holds
  <2> QED
    BY <1>1, <1>2, <2>1 DEF Holds, PlacesOK
<1>5. todo'[r] \subseteq RowIds' /\ pending'[r] \subseteq RowIds'
  BY <1>1 DEF Holds
<1>6. saw'[r] \in 0..Len(thread')
  BY <1>1 DEF Holds, WorldGrows
<1>7. Troubles' = Troubles
  BY DEF WorldGrows, Troubles
<1> QED
  BY <1>1, <1>3, <1>4, <1>5, <1>6, <1>7 DEF Holds

\* A step of a process leaves the others alone.
LEMMA OthersStill ==
  ASSUME Domains, NEW r \in Runners, Tick(r) \/ Crash(r)
  PROVE  Domains' /\ \A q \in Runners : q # r => Still(q)
<1>1. ASSUME EndTick(r), UNCHANGED <<events, todo>>
      PROVE  Domains' /\ \A q \in Runners : q # r => Still(q)
  BY <1>1 DEF EndTick, Domains, Still
<1>2. ASSUME NextReply(r), UNCHANGED <<events, job, saw, channel>>,
             pending' = pending \/ pending' = [pending EXCEPT ![r] = @ \cup {Reply(r)}]
      PROVE  Domains' /\ \A q \in Runners : q # r => Still(q)
  BY <1>2 DEF NextReply, Domains, Still
<1>3. CASE Drain(r)
  BY <1>3 DEF Drain, Domains, Still
<1>4. CASE ProcessEvent(r)
  BY <1>4 DEF ProcessEvent, Domains, Still
<1>5. ASSUME NEW sync \in BOOLEAN, Plan(r, sync) PROVE Domains' /\ \A q \in Runners : q # r => Still(q)
  BY <1>5 DEF Plan, Domains, Still
<1>6. CASE ActOnReply(r)
  <2>1. UNCHANGED <<events, job, saw, channel, pending>>
    BY <1>6 DEF ActOnReply
  <2>2. NextReply(r) \/ (todo' = todo /\ pc' = [pc EXCEPT ![r] = "composing"])
    BY <1>6 DEF ActOnReply
  <2>3. CASE NextReply(r)
    BY <1>2, <2>1, <2>3
  <2>4. CASE todo' = todo /\ pc' = [pc EXCEPT ![r] = "composing"]
    BY <2>1, <2>4 DEF Domains, Still
  <2> QED
    BY <2>2, <2>3, <2>4
<1>7. CASE HandOff(r)
  BY <1>2, <1>7 DEF HandOff
<1>8. CASE QueueAnswer(r)
  BY <1>2, <1>8 DEF QueueAnswer
<1>9. CASE SendAnswer(r)
  BY <1>1, <1>9 DEF SendAnswer
<1>10. CASE Read(r)
  <2>1. /\ \E j, c : job' = [job EXCEPT ![r] = j] /\ channel' = [channel EXCEPT ![r] = c]
        /\ saw' = [saw EXCEPT ![r] = Len(thread)] /\ pc' = [pc EXCEPT ![r] = "reading"]
        /\ UNCHANGED <<events, todo, pending>>
    BY <1>10 DEF Read
  <2> QED
    BY <2>1 DEF Domains, Still
<1>11. CASE HandleInbox(r)
  BY <1>1, <1>11 DEF HandleInbox
<1>12. CASE Reconcile(r)
  BY <1>1, <1>12 DEF Reconcile
<1>13. CASE NothingToExecute(r)
  BY <1>1, <1>13 DEF NothingToExecute
<1>14. CASE Crash(r)
  BY <1>14 DEF Crash, Domains, Still
<1> QED
  BY <1>3, <1>4, <1>5, <1>6, <1>7, <1>8, <1>9, <1>10, <1>11, <1>12, <1>13, <1>14 DEF Tick

\* At the end of a tick a process holds nothing.
LEMMA HoldsNothing ==
  ASSUME NEW r \in Runners, pc'[r] = "idle", events'[r] = {}, todo'[r] = {}, pending'[r] = {},
         job'[r] = "none", saw'[r] = 0, channel'[r] = "none", Len(thread') \in Nat
  PROVE  Holds(r)'
BY DEF Holds, PlacesOK, Phases

LEMMA EndTickHolds ==
  ASSUME NEW r \in Runners, Domains, Holds(r), pc[r] \in {"work", "reading"}, EndTick(r), UNCHANGED <<events, todo>>,
         Len(thread') \in Nat, told \subseteq RowIds, RowIds \subseteq RowIds'
  PROVE  Holds(r)' /\ told' \subseteq RowIds'
<1>1. events[r] = {} /\ todo[r] = {}
  BY DEF Holds
<1>2. /\ pc'[r] = "idle" /\ events'[r] = {} /\ todo'[r] = {} /\ pending'[r] = {}
      /\ job'[r] = "none" /\ saw'[r] = 0 /\ channel'[r] = "none"
  BY <1>1 DEF EndTick, Domains
<1>3. Holds(r)'
  BY <1>2, HoldsNothing
<1>4. told' \subseteq RowIds'
  BY DEF EndTick, Holds
<1> QED
  BY <1>3, <1>4

\* After a reply the process has the others, or goes on to the execution.
LEMMA NextReplyHolds ==
  ASSUME NEW r \in Runners, Domains, Holds(r), pc[r] \in {"replies", "composing"}, NextReply(r),
         UNCHANGED <<events, job, saw, channel>>, pending'[r] \subseteq RowIds',
         RowIds \subseteq RowIds', UNCHANGED <<scenario, thread, hooks>>
  PROVE  Holds(r)'
<1>1. /\ events[r] = {} /\ job[r] = "none" /\ channel[r] = "none" /\ saw[r] \in 0..Len(thread)
      /\ todo[r] \subseteq RowIds
  BY DEF Holds
<1>2. /\ events'[r] = {} /\ job'[r] = "none" /\ channel'[r] = "none" /\ saw'[r] \in 0..Len(thread')
  BY <1>1
<1>3. PICK rest : rest = todo[r] \ {Reply(r)}
  OBVIOUS
<1>4. todo'[r] = rest /\ pc'[r] = IF rest = {} THEN "work" ELSE "replies"
  BY <1>3 DEF NextReply, Domains
<1>5. todo'[r] \subseteq RowIds'
  BY <1>1, <1>3, <1>4
<1> QED
  BY <1>2, <1>4, <1>5 DEF Holds, PlacesOK, Phases

LEMMA DrainHolds ==
  ASSUME Stored, Domains, NEW r \in Runners, Holds(r), Drain(r), WorldGrows, RowIds \subseteq RowIds'
  PROVE  Holds(r)'
<1> DEFINE fresh == {e \in HookIds \X {1, 2} : ~hooks[e[1]].processed /\ e[2] \in DOMAIN hooks[e[1]].events}
<1>1. /\ pc[r] = "idle" /\ events' = [events EXCEPT ![r] = fresh]
      /\ pc' = [pc EXCEPT ![r] = IF fresh = {} THEN "planning" ELSE "events"]
      /\ UNCHANGED <<scenario, thread, todo, job, saw, channel, pending>>
  BY DEF Drain
<1>2. fresh \subseteq HookIds \X {1, 2} /\ \A e \in fresh : e[1] \in HookIds /\ e[2] \in DOMAIN hooks[e[1]].events
  OBVIOUS
<1> HIDE DEF fresh
<1>3. events'[r] = fresh /\ pc'[r] = IF fresh = {} THEN "planning" ELSE "events"
  BY <1>1 DEF Domains
<1>4. events'[r] \subseteq HookIds' \X {1, 2}
  BY <1>2, <1>3 DEF WorldGrows
<1>5. PlacesOK(events[r])'
  BY <1>2, <1>3 DEF PlacesOK, WorldGrows
<1>6. todo'[r] \subseteq RowIds' /\ pending'[r] \subseteq RowIds'
  BY <1>1 DEF Holds
<1>7. /\ todo'[r] = {} /\ job'[r] = "none" /\ channel'[r] = "none" /\ saw'[r] \in 0..Len(thread')
  BY <1>1 DEF Holds
<1> QED
  BY <1>3, <1>4, <1>5, <1>6, <1>7 DEF Holds, Phases

LEMMA ProcessEventHolds ==
  ASSUME Domains, NEW r \in Runners, Holds(r), ProcessEvent(r), RowIds \subseteq RowIds'
  PROVE  Holds(r)'
<1>1. PICK rest : rest = events[r] \ {NextEvent(r)}
  OBVIOUS
<1>2. /\ pc[r] = "events" /\ events' = [events EXCEPT ![r] = rest]
      /\ pc' = [pc EXCEPT ![r] = IF rest = {} THEN "planning" ELSE "events"]
      /\ UNCHANGED <<scenario, thread, hooks, todo, job, saw, channel, pending>>
  BY <1>1 DEF ProcessEvent, world
<1>3. events'[r] = rest /\ pc'[r] = IF rest = {} THEN "planning" ELSE "events"
  BY <1>2 DEF Domains
<1>4. rest \subseteq HookIds \X {1, 2} /\ \A e \in rest : e[2] \in DOMAIN hooks[e[1]].events
  BY <1>1 DEF Holds, PlacesOK
<1>5. events'[r] \subseteq HookIds' \X {1, 2} /\ PlacesOK(events[r])'
  BY <1>2, <1>3, <1>4 DEF HookIds, PlacesOK
<1>6. /\ todo'[r] = {} /\ job'[r] = "none" /\ channel'[r] = "none" /\ saw'[r] \in 0..Len(thread')
      /\ pending'[r] \subseteq RowIds'
  BY <1>2 DEF Holds
<1> QED
  BY <1>3, <1>5, <1>6 DEF Holds, Phases

LEMMA PlanHolds ==
  ASSUME Domains, NEW r \in Runners, Holds(r), NEW sync \in BOOLEAN, Plan(r, sync)
  PROVE  Holds(r)'
<1>1. /\ pc[r] = "planning" /\ todo' = [todo EXCEPT ![r] = Unhandled]
      /\ pc' = [pc EXCEPT ![r] = IF Unhandled = {} THEN "work" ELSE "replies"]
      /\ UNCHANGED <<scenario, thread, hooks, rows, events, job, saw, channel, pending>>
  BY DEF Plan, world, db
<1>2. Unhandled \subseteq RowIds /\ RowIds' = RowIds
  BY <1>1 DEF Unhandled, RowIds
<1> HIDE DEF Unhandled
<1>3. todo'[r] = Unhandled /\ pc'[r] = IF Unhandled = {} THEN "work" ELSE "replies"
  BY <1>1 DEF Domains
<1>4. /\ events'[r] = {} /\ job'[r] = "none" /\ channel'[r] = "none" /\ saw'[r] \in 0..Len(thread')
      /\ todo'[r] \subseteq RowIds' /\ pending'[r] \subseteq RowIds'
  BY <1>1, <1>2, <1>3 DEF Holds
<1> QED
  BY <1>3, <1>4 DEF Holds, Phases, PlacesOK

LEMMA ActOnReplyHolds ==
  ASSUME Domains, NEW r \in Runners, Holds(r), ActOnReply(r), RowIds \subseteq RowIds'
  PROVE  Holds(r)'
<1>1. pc[r] = "replies" /\ UNCHANGED <<scenario, thread, hooks, events, job, saw, channel, pending>>
  BY DEF ActOnReply, world
<1>2. pending'[r] \subseteq RowIds'
  BY <1>1 DEF Holds
<1>3. NextReply(r) \/ (todo' = todo /\ pc' = [pc EXCEPT ![r] = "composing"])
  BY DEF ActOnReply
<1>4. CASE NextReply(r)
  BY <1>1, <1>2, <1>4, NextReplyHolds
<1>5. CASE todo' = todo /\ pc' = [pc EXCEPT ![r] = "composing"]
  <2>1. pc'[r] = "composing" /\ todo'[r] # {} /\ todo'[r] \subseteq RowIds'
    BY <1>1, <1>5 DEF Domains, Holds
  <2>2. /\ events'[r] = {} /\ job'[r] = "none" /\ channel'[r] = "none" /\ saw'[r] \in 0..Len(thread')
    BY <1>1 DEF Holds
  <2> QED
    BY <1>2, <2>1, <2>2 DEF Holds, Phases, PlacesOK
<1> QED
  BY <1>3, <1>4, <1>5

LEMMA ReadHolds ==
  ASSUME Domains, NEW r \in Runners, Holds(r), Read(r), Len(thread) \in Nat
  PROVE  Holds(r)'
<1>1. /\ pc[r] = "work" /\ UNCHANGED <<scenario, thread, hooks, rows, events, todo, pending>>
      /\ saw' = [saw EXCEPT ![r] = Len(thread)] /\ pc' = [pc EXCEPT ![r] = "reading"]
  BY DEF Read, world, db
<1>2. PICK j \in {"inbox", "thread"}, c \in Troubles \cap Channels :
        job' = [job EXCEPT ![r] = j] /\ channel' = [channel EXCEPT ![r] = c]
  BY DEF Read
<1>3. pc'[r] = "reading" /\ saw'[r] = Len(thread) /\ job'[r] = j /\ channel'[r] = c
  BY <1>1, <1>2 DEF Domains
<1>4. c # "none" /\ c \in Troubles' \cap Channels
  BY <1>1 DEF Channels, Troubles
<1>5. /\ events'[r] = {} /\ todo'[r] = {} /\ pending'[r] \subseteq RowIds' /\ saw'[r] \in 0..Len(thread')
  BY <1>1, <1>3 DEF Holds, RowIds
<1> QED
  BY <1>3, <1>4, <1>5 DEF Holds, Phases, PlacesOK

LEMMA TickHolds ==
  ASSUME Stored, Domains, told \subseteq RowIds, NEW r \in Runners, Holds(r), Tick(r) \/ Crash(r),
         GoodDb', WorldGrows, Len(rows) \in Nat, Len(rows') \in Nat, Len(rows) <= Len(rows')
  PROVE  Holds(r)' /\ told' \subseteq RowIds'
<1>1. Len(thread) \in Nat /\ Len(thread') \in Nat
  BY DEF Stored, GoodDb, WorldOK
<1>2. RowIds \subseteq RowIds'
  BY DEF RowIds
<1>3. CASE Drain(r)
  BY <1>2, <1>3, DrainHolds DEF Drain
<1>4. CASE ProcessEvent(r)
  BY <1>2, <1>4, ProcessEventHolds DEF ProcessEvent
<1>5. ASSUME NEW sync \in BOOLEAN, Plan(r, sync) PROVE Holds(r)' /\ told' \subseteq RowIds'
  BY <1>2, <1>5, PlanHolds DEF Plan
<1>6. CASE ActOnReply(r)
  BY <1>2, <1>6, ActOnReplyHolds DEF ActOnReply
<1>7. CASE HandOff(r) \/ QueueAnswer(r)
  <2>1. /\ pc[r] = "composing" /\ NextReply(r) /\ told' = told
        /\ UNCHANGED <<scenario, thread, hooks, events, job, saw, channel>>
        /\ pending' = pending \/ pending' = [pending EXCEPT ![r] = @ \cup {Reply(r)}]
    BY <1>7 DEF HandOff, QueueAnswer, world
  <2>2. Reply(r) \in RowIds
    BY <2>1, ReplyExists DEF Stored, RowIds
  <2>3. pending'[r] \subseteq RowIds'
    BY <1>2, <2>1, <2>2 DEF Holds, Domains
  <2> QED
    BY <1>2, <2>1, <2>3, NextReplyHolds
<1>8. CASE Read(r)
  BY <1>1, <1>2, <1>8, ReadHolds DEF Read
<1>9. CASE SendAnswer(r) \/ HandleInbox(r) \/ Reconcile(r) \/ NothingToExecute(r)
  <2>1. pc[r] \in {"work", "reading"} /\ EndTick(r) /\ UNCHANGED <<events, todo>>
    BY <1>9 DEF SendAnswer, HandleInbox, Reconcile, NothingToExecute
  <2> QED
    BY <1>1, <1>2, <2>1, EndTickHolds
<1>10. CASE Crash(r)
  <2>1. /\ pc'[r] = "idle" /\ events'[r] = {} /\ todo'[r] = {} /\ pending'[r] = {}
        /\ job'[r] = "none" /\ saw'[r] = 0 /\ channel'[r] = "none" /\ told' = told
    BY <1>10 DEF Crash, Domains
  <2> QED
    BY <1>1, <1>2, <2>1, HoldsNothing
<1> QED
  BY <1>3, <1>4, <1>5, <1>6, <1>7, <1>8, <1>9, <1>10 DEF Tick

LEMMA StoredNext == Stored /\ [Next]_vars => Stored'
<1> SUFFICES ASSUME Stored, [Next]_vars PROVE Stored'
  OBVIOUS
<1>1. GoodDb' /\ WorldGrows /\ Len(rows) \in Nat /\ Len(rows') \in Nat /\ Len(rows) <= Len(rows')
  BY GoodDbNext
<1>2. RowIds \subseteq RowIds' /\ Len(thread) \in Nat /\ Len(thread') \in Nat
  BY <1>1 DEF RowIds, Stored, GoodDb, WorldOK
<1>3. Domains /\ told \subseteq RowIds /\ \A r \in Runners : Holds(r)
  BY MemoryParts DEF Stored
<1>4. ASSUME Domains', told' \subseteq RowIds', \A r \in Runners : Holds(r)' PROVE Stored'
  <2>1. (Domains /\ told \subseteq RowIds /\ \A r \in Runners : Holds(r))'
    BY <1>4
  <2>2. (MemoryOK /\ PhasesOK /\ ChannelsOK)'
    BY <2>1, MemoryParts, PTL
  <2> QED
    BY <1>1, <2>2 DEF Stored
<1>5. CASE Write \/ (\E i \in Positions : Deliver(i)) \/ Redeliver \/ UNCHANGED vars
  <2>1. UNCHANGED <<memory, pending, told>>
    BY <1>5 DEF Write, Deliver, Redeliver, Store, vars
  <2>2. Domains' /\ told' \subseteq RowIds'
    BY <1>2, <1>3, <2>1 DEF memory, Domains
  <2>3. \A r \in Runners : Still(r)
    BY <2>1 DEF memory, Still
  <2> QED
    BY <1>1, <1>2, <1>3, <1>4, <2>2, <2>3, HoldsStill
<1>6. ASSUME NEW r \in Runners, Tick(r) \/ Crash(r) PROVE Stored'
  <2>1. Domains' /\ \A q \in Runners : q # r => Still(q)
    BY <1>3, <1>6, OthersStill
  <2>2. Holds(r)' /\ told' \subseteq RowIds'
    BY <1>1, <1>3, <1>6, TickHolds
  <2>3. \A q \in Runners : q # r => Holds(q)'
    BY <1>1, <1>2, <1>3, <2>1, HoldsStill
  <2> QED
    BY <1>4, <2>1, <2>2, <2>3
<1> QED
  BY <1>5, <1>6 DEF Next

LEMMA StoredInit == Init => Stored
<1> SUFFICES ASSUME Init PROVE Stored
  OBVIOUS
<1>1. WorldOK /\ DbOK /\ MemoryOK /\ PhasesOK
  BY TypesInit, TypeParts
<1>2. thread = <<[from |-> "automation", word |-> Pitch]>> /\ rows = <<Row("automation", Pitch, 0, 1)>>
  BY DEF Init
<1>3. /\ Row("automation", Pitch, 0, 1) \in RowRecords /\ Row("automation", Pitch, 0, 1).mid = 0
      /\ Row("automation", Pitch, 0, 1).copy = 1 /\ Row("automation", Pitch, 0, 1).from = "automation"
      /\ Row("automation", Pitch, 0, 1).handled
  <2>1. "automation" \in Authors /\ Pitch \in Texts /\ 0 \in Nat /\ 1 \in Nat
    BY DEF Authors, Texts
  <2>2. "automation" \in Outbound
    BY DEF Outbound
  <2> QED
    BY <2>1, <2>2, RowTyped
<1>4. Len(thread) = 1
  BY <1>2
<1>5. RowOK(Row("automation", Pitch, 0, 1), thread, Troubles)
  BY <1>3, <1>4 DEF RowOK
<1>6. Good(rows, thread, Troubles)
  BY <1>2, <1>3, <1>5 DEF Good, MidsOnce
<1>7. ChannelsOK
  BY DEF Init, ChannelsOK
<1> QED
  BY <1>1, <1>6, <1>7 DEF Stored, GoodDb

LEMMA StoredAlways == Spec => []Stored
BY StoredInit, StoredNext, PTL DEF Spec

\* However often Meta delivers an event, in whatever batches, and whatever a read of the thread
\* stored before, the message is one row of the messages table under its id.
THEOREM MessagesStoredOnce == Spec => []Consistent
<1>1. Stored => Consistent
  <2> SUFFICES ASSUME Stored PROVE Consistent
    OBVIOUS
  <2>1. TypeOK
    BY StoredTypes
  <2>2. NamedOnce
    BY DEF Stored, GoodDb, Good, MidsOnce, NamedOnce, RowIds
  <2> QED
    BY <2>1, <2>2 DEF Consistent
<1> QED
  BY <1>1, StoredAlways, PTL

(***************************************************************************)
(* Nothing is open once the conversation is closed to automation.          *)
(***************************************************************************)
LEMMA ClosedNext == Stored /\ NothingOpenOnceClosed /\ [Next]_vars => NothingOpenOnceClosed'
<1> SUFFICES ASSUME Stored, NothingOpenOnceClosed, [Next]_vars PROVE NothingOpenOnceClosed'
  OBVIOUS
<1>1. /\ paused \in BOOLEAN /\ suppressed \in BOOLEAN /\ followUp \in BOOLEAN /\ Len(rows) \in Nat
  BY GoodIsOK DEF Stored, GoodDb, DbOK
<1>2. CASE DbStep
  <2>1. CASE ~followUp' /\ NothingOpen(rows')
    BY <2>1 DEF NothingOpenOnceClosed, NothingOpen, RowIds
  <2>2. CASE paused' = paused /\ suppressed' = suppressed
    <3> SUFFICES ASSUME suppressed \/ paused PROVE ~followUp' /\ \A i \in 1..Len(rows') : rows'[i].answer # "open"
      BY <2>2 DEF NothingOpenOnceClosed, RowIds
    <3>1. ~followUp /\ \A i \in 1..Len(rows) : rows[i].answer # "open"
      BY DEF NothingOpenOnceClosed, RowIds
    <3>2. ~followUp'
      BY <1>2, <3>1 DEF DbStep
    <3>3. Moves(rows, rows')
      BY <1>2 DEF DbStep
    <3>4. \A i \in 1..Len(rows') : rows'[i].answer # "open"
      BY <3>1, <3>3 DEF Moves, SameAnswer
    <3> QED
      BY <3>2, <3>4
  <2> QED
    BY <1>2, <2>1, <2>2 DEF DbStep
<1>3. CASE Write /\ UNCHANGED db
  BY <1>3 DEF db, NothingOpenOnceClosed, RowIds
<1>4. ASSUME NEW r \in Runners, QueueAnswer(r) PROVE NothingOpenOnceClosed'
  <2>1. /\ Len(rows') = Len(rows) /\ UNCHANGED <<paused, suppressed, followUp>>
        /\ \A j \in 1..Len(rows) : rows'[j].answer = rows[j].answer \/ rows'[j].answer = Preview
    BY <1>4, QueueAnswerEffect DEF Stored
  <2>2. suppressed \/ paused => Preview # "open"
    BY DEF Preview
  <2> QED
    BY <2>1, <2>2 DEF NothingOpenOnceClosed, RowIds
<1>5. ASSUME NEW r \in Runners, SendAnswer(r) PROVE NothingOpenOnceClosed'
  <2>1. ~suppressed /\ ~paused /\ UNCHANGED <<paused, suppressed>>
    BY <1>5, SendAnswerEffect DEF Stored
  <2> QED
    BY <2>1 DEF NothingOpenOnceClosed
<1> QED
  BY <1>2, <1>3, <1>4, <1>5, StepsOfDb

\* Once the prospect has opted out, or Rohit has the conversation, no answer and no follow-up is
\* open: take_over_by_human() and the suppression cancel what is open, and an answer composed in
\* the meantime by another process is blocked by the preview of the gate.
THEOREM ClosedMeansCancelled == Spec => []NothingOpenOnceClosed
<1>1. Init => NothingOpenOnceClosed
  BY DEF Init, NothingOpenOnceClosed
<1> QED
  BY <1>1, StoredAlways, ClosedNext, PTL DEF Spec

(***************************************************************************)
(* One answer at most for a message of the prospect.                       *)
(***************************************************************************)
Warm(row) == row.from = "prospect" /\ Intent[row.word] = "INTERESTED"
AnswerLetter == [from |-> "automation", word |-> Answer]
SentRows == {i \in RowIds : rows[i].answer = "sent"}
SentLetters == {i \in Positions : thread[i] = AnswerLetter}

\* Only warm rows are answered: what is being composed is for one; and there are as many rows
\* answered as answers in the thread.
AnswersForWarm == \A i \in RowIds : rows[i].answer # "none" => Warm(rows[i])
RepliesInbound == \A r \in Runners : \A i \in todo[r] : rows[i].from = "prospect"
ComposesWarm == \A r \in Runners : pc[r] = "composing" => Warm(rows[Reply(r)])
AsManySent == Cardinality(SentRows) = Cardinality(SentLetters)

\* An answer goes to a message of the prospect, and to another one each time.
LEMMA SentBound ==
  ASSUME Stored, AnswersForWarm, AsManySent
  PROVE  OneAnswerEach
<1> SUFFICES ASSUME "BROWSER" \notin Troubles PROVE AnswersSent <= WarmMessages
  BY DEF OneAnswerEach
<1> DEFINE W == {i \in Positions : thread[i].from = "prospect" /\ Intent[thread[i].word] = "INTERESTED"}
           idOf == [i \in SentRows |-> rows[i].mid]
<1>1. GoodDb /\ Len(rows) \in Nat /\ Len(thread) \in Nat
  BY GoodIsOK DEF Stored, GoodDb, WorldOK
<1>2. IsFiniteSet(SentRows) /\ IsFiniteSet(W)
  <2>1. IsFiniteSet(1..Len(rows)) /\ IsFiniteSet(1..Len(thread))
    BY <1>1, FS_Interval
  <2>2. SentRows \subseteq 1..Len(rows) /\ W \subseteq 1..Len(thread)
    BY DEF SentRows, RowIds, Positions
  <2> HIDE DEF W
  <2> QED
    BY <2>1, <2>2, FS_Subset
<1>3. ASSUME NEW i \in SentRows PROVE rows[i].mid \in W /\ rows[i].mid # 0
  <2>1. i \in 1..Len(rows) /\ Warm(rows[i]) /\ RowOK(rows[i], thread, Troubles)
    BY <1>1 DEF SentRows, RowIds, AnswersForWarm, GoodDb, Good
  <2>2. rows[i].mid = rows[i].copy /\ rows[i].copy \in 1..Len(thread)
        /\ thread[rows[i].copy].from = "prospect" /\ thread[rows[i].copy].word = rows[i].word
    BY <2>1 DEF RowOK, Warm
  <2> QED
    BY <1>1, <2>1, <2>2 DEF Warm, Positions
<1>4. \A i, j \in SentRows : idOf[i] = idOf[j] => i = j
  BY <1>1, <1>3 DEF GoodDb, Good, MidsOnce, SentRows, RowIds
<1>5. idOf \in Injection(SentRows, W)
  BY <1>3, <1>4 DEF Injection, IsInjective
<1>6. Cardinality(SentRows) <= Cardinality(W)
  <2> HIDE DEF W, idOf
  <2> QED
    BY <1>2, <1>5, FS_Injection
<1> QED
  BY <1>6 DEF AsManySent, SentLetters, AnswerLetter, AnswersSent, WarmMessages

LEMMA WarmKept == ASSUME NEW old, NEW new, SameRow(old, new) PROVE Warm(new) <=> Warm(old)
BY DEF SameRow, Warm

\* Who waits for an answer: the rows stay, and a process reads only rows not handled yet.
LEMMA RepliesNext ==
  ASSUME Stored, RepliesInbound, [Next]_vars
  PROVE  RepliesInbound'
<1>1. \A i \in 1..Len(rows) : SameRow(rows[i], rows'[i])
  BY GoodDbNext
<1>2. Domains /\ \A r \in Runners : Holds(r)
  BY MemoryParts DEF Stored
<1>3. \A i \in 1..Len(rows) : rows[i].from = "prospect" => rows'[i].from = "prospect"
  BY <1>1 DEF SameRow
<1>4. \A r \in Runners : \A i \in todo[r] : i \in 1..Len(rows) /\ rows'[i].from = "prospect"
  BY <1>2, <1>3 DEF RepliesInbound, Holds, RowIds
<1>5. CASE todo' = todo
  BY <1>4, <1>5 DEF RepliesInbound
<1>6. ASSUME NEW r \in Runners, NEW S, todo' = [todo EXCEPT ![r] = S], \A i \in S : rows'[i].from = "prospect"
      PROVE  RepliesInbound'
  <2>1. \A q \in Runners : todo'[q] = IF q = r THEN S ELSE todo[q]
    BY <1>2, <1>6 DEF Domains
  <2> QED
    BY <1>4, <1>6, <2>1 DEF RepliesInbound
<1>7. ASSUME NEW r \in Runners, NextReply(r) PROVE RepliesInbound'
  <2>1. PICK S : S = todo[r] \ {Reply(r)}
    OBVIOUS
  <2>2. todo' = [todo EXCEPT ![r] = S]
    BY <1>7, <2>1 DEF NextReply
  <2>3. \A i \in S : rows'[i].from = "prospect"
    BY <1>4, <2>1
  <2> QED
    BY <1>6, <2>2, <2>3
<1>8. ASSUME NEW r \in Runners, NEW sync \in BOOLEAN, Plan(r, sync) PROVE RepliesInbound'
  <2>1. todo' = [todo EXCEPT ![r] = Unhandled] /\ rows' = rows
    BY <1>8 DEF Plan, db
  <2>2. \A i \in 1..Len(rows) : rows[i].handled \/ rows[i].from = "prospect"
    BY DEF Stored, GoodDb, Good, RowOK
  <2>3. \A i \in Unhandled : rows'[i].from = "prospect"
    BY <2>1, <2>2 DEF Unhandled, RowIds
  <2> QED
    BY <1>6, <2>1, <2>3
<1>9. ASSUME NEW r \in Runners, ActOnReply(r) \/ HandOff(r) \/ QueueAnswer(r) PROVE RepliesInbound'
  <2>1. NextReply(r) \/ todo' = todo
    BY <1>9 DEF ActOnReply, HandOff, QueueAnswer
  <2> QED
    BY <1>5, <1>7, <2>1
<1>10. ASSUME NEW r \in Runners, Crash(r) PROVE RepliesInbound'
  BY <1>6, <1>10 DEF Crash
<1>11. CASE Write \/ (\E i \in Positions : Deliver(i)) \/ Redeliver \/ UNCHANGED vars
  <2>1. todo' = todo
    BY <1>11 DEF Write, Deliver, Redeliver, Store, memory, vars
  <2> QED
    BY <1>5, <2>1
<1>12. ASSUME NEW r \in Runners,
              \/ Drain(r) \/ ProcessEvent(r) \/ SendAnswer(r) \/ Read(r) \/ HandleInbox(r)
              \/ Reconcile(r) \/ NothingToExecute(r)
       PROVE  RepliesInbound'
  <2>1. todo' = todo
    BY <1>12 DEF Drain, ProcessEvent, SendAnswer, Read, HandleInbox, Reconcile, NothingToExecute
  <2> QED
    BY <1>5, <2>1
<1> QED
  BY <1>8, <1>9, <1>10, <1>11, <1>12 DEF Next, Tick

\* A process composes for the row that it found warm, whatever the others do meanwhile.
LEMMA ComposesNext ==
  ASSUME Stored, RepliesInbound, ComposesWarm, [Next]_vars
  PROVE  ComposesWarm'
<1>1. \A i \in 1..Len(rows) : SameRow(rows[i], rows'[i])
  BY GoodDbNext
<1>2. Domains /\ \A r \in Runners : Holds(r)
  BY MemoryParts DEF Stored
<1>3. ASSUME NEW r \in Runners, pc[r] \in {"replies", "composing"}, todo'[r] = todo[r]
      PROVE  Reply(r)' = Reply(r) /\ Reply(r) \in 1..Len(rows) /\ Reply(r) \in todo[r]
  BY <1>3, ReplyExists DEF Stored, Reply
<1>4. ASSUME NEW q \in Runners, pc'[q] = pc[q], todo'[q] = todo[q], pc'[q] = "composing"
      PROVE  Warm(rows[Reply(q)])'
  <2>1. Warm(rows[Reply(q)]) /\ Reply(q)' = Reply(q) /\ Reply(q) \in 1..Len(rows)
    BY <1>3, <1>4 DEF ComposesWarm
  <2>2. SameRow(rows[Reply(q)], rows'[Reply(q)])
    BY <1>1, <2>1
  <2> QED
    BY <2>1, <2>2, WarmKept
<1>5. CASE Write \/ (\E i \in Positions : Deliver(i)) \/ Redeliver \/ UNCHANGED vars
  <2>1. UNCHANGED <<pc, todo>>
    BY <1>5 DEF Write, Deliver, Redeliver, Store, memory, vars
  <2> QED
    BY <1>4, <2>1 DEF ComposesWarm
<1>6. ASSUME NEW r \in Runners, Tick(r) \/ Crash(r) PROVE ComposesWarm'
  <2>1. \A q \in Runners : q # r => pc'[q] = pc[q] /\ todo'[q] = todo[q]
    BY <1>2, <1>6, OthersStill DEF Still
  <2>2. ASSUME pc'[r] = "composing" PROVE Warm(rows[Reply(r)])'
    <3>1. ActOnReply(r) /\ Intent[rows[Reply(r)].word] = "INTERESTED" /\ todo'[r] = todo[r] /\ pc[r] = "replies"
      <4>1. CASE ActOnReply(r)
        <5>1. NextReply(r) => pc'[r] # "composing"
          BY <1>2 DEF NextReply, Domains
        <5> QED
          BY <2>2, <4>1, <5>1 DEF ActOnReply
      <4>2. CASE EndTick(r) \/ NextReply(r) \/ Crash(r)
        BY <1>2, <2>2, <4>2 DEF EndTick, NextReply, Crash, Domains
      <4>3. CASE Drain(r) \/ ProcessEvent(r) \/ (\E sync \in BOOLEAN : Plan(r, sync)) \/ Read(r)
        BY <1>2, <2>2, <4>3 DEF Drain, ProcessEvent, Plan, Read, Domains
      <4> QED
        BY <1>6, <4>1, <4>2, <4>3
           DEF Tick, HandOff, QueueAnswer, SendAnswer, HandleInbox, Reconcile, NothingToExecute
    <3>2. Reply(r)' = Reply(r) /\ Reply(r) \in 1..Len(rows) /\ Reply(r) \in todo[r]
      BY <1>3, <3>1
    <3>3. Warm(rows[Reply(r)])
      BY <3>1, <3>2 DEF RepliesInbound, Warm
    <3>4. SameRow(rows[Reply(r)], rows'[Reply(r)])
      BY <1>1, <3>2
    <3> QED
      BY <3>2, <3>3, <3>4, WarmKept
  <2> QED
    BY <1>4, <2>1, <2>2 DEF ComposesWarm
<1> QED
  BY <1>5, <1>6 DEF Next

LEMMA AnswersNext ==
  ASSUME Stored, AnswersForWarm, ComposesWarm, [Next]_vars
  PROVE  AnswersForWarm'
<1>1. \A i \in 1..Len(rows) : SameRow(rows[i], rows'[i])
  BY GoodDbNext
<1>2. \A i \in 1..Len(rows) : Warm(rows[i]) => Warm(rows'[i])
  BY <1>1, WarmKept
<1>3. CASE DbStep
  <2>1. Moves(rows, rows')
    BY <1>3 DEF DbStep
  <2>2. \A i \in 1..Len(rows') : rows'[i].answer # "none" => i \in 1..Len(rows) /\ rows[i].answer # "none"
    BY <2>1 DEF Moves, SameAnswer
  <2> QED
    BY <1>2, <2>2 DEF AnswersForWarm, RowIds
<1>4. CASE Write /\ UNCHANGED db
  BY <1>4 DEF db, AnswersForWarm, RowIds
<1>5. ASSUME NEW r \in Runners, QueueAnswer(r) PROVE AnswersForWarm'
  <2>1. /\ Len(rows') = Len(rows) /\ Reply(r) \in 1..Len(rows)
        /\ \A j \in 1..Len(rows) : rows'[j].answer = rows[j].answer \/ j = Reply(r)
    BY <1>5, QueueAnswerEffect DEF Stored
  <2>2. Warm(rows[Reply(r)])
    BY <1>5 DEF QueueAnswer, ComposesWarm
  <2> QED
    BY <1>2, <2>1, <2>2 DEF AnswersForWarm, RowIds
<1>6. ASSUME NEW r \in Runners, SendAnswer(r) PROVE AnswersForWarm'
  <2>1. /\ Len(rows') = Len(rows) + 1 /\ Len(rows) \in Nat /\ rows'[Len(rows) + 1].answer = "none"
        /\ \E i \in 1..Len(rows) :
             rows[i].answer = "open" /\ \A j \in 1..Len(rows) : j # i => rows'[j].answer = rows[j].answer
    BY <1>6, SendAnswerEffect DEF Stored
  <2>2. \A j \in 1..Len(rows') : j \in 1..Len(rows) \/ j = Len(rows) + 1
    BY <2>1
  <2>3. \A j \in 1..Len(rows) : rows'[j].answer # "none" => rows[j].answer # "none"
    BY <2>1
  <2> QED
    BY <1>2, <2>1, <2>2, <2>3 DEF AnswersForWarm, RowIds
<1> QED
  BY <1>3, <1>4, <1>5, <1>6, StepsOfDb

\* Each answer sent is one more row answered and one more message.
LEMMA SentNext ==
  ASSUME Stored, AsManySent, [Next]_vars
  PROVE  AsManySent'
<1>1. Len(rows) \in Nat /\ Len(thread) \in Nat /\ thread \in Seq(Letters)
  BY GoodIsOK DEF Stored, GoodDb, WorldOK
<1>2. IsFiniteSet(SentRows) /\ IsFiniteSet(SentLetters)
  <2>1. IsFiniteSet(1..Len(rows)) /\ IsFiniteSet(1..Len(thread))
    BY <1>1, FS_Interval
  <2>2. SentRows \subseteq 1..Len(rows) /\ SentLetters \subseteq 1..Len(thread)
    BY DEF SentRows, SentLetters, RowIds, Positions
  <2> QED
    BY <2>1, <2>2, FS_Subset
<1>3. CASE DbStep /\ thread' = thread
  <2>1. Moves(rows, rows')
    BY <1>3 DEF DbStep
  <2>2. \A i \in 1..Len(rows') : rows'[i].answer = "sent" => i \in 1..Len(rows) /\ rows[i].answer = "sent"
    BY <2>1 DEF Moves, SameAnswer
  <2>3. \A i \in 1..Len(rows) : rows[i].answer = "sent" => i \in 1..Len(rows') /\ rows'[i].answer = "sent"
    <3>1. Len(rows) <= Len(rows') /\ Len(rows') \in Nat
      BY GoodDbNext
    <3> QED
      BY <1>1, <2>1, <3>1 DEF Moves, SameAnswer
  <2>4. SentRows' = SentRows
    BY <2>2, <2>3 DEF SentRows, RowIds
  <2>5. SentLetters' = SentLetters
    BY <1>3 DEF SentLetters, Positions
  <2> QED
    BY <2>4, <2>5 DEF AsManySent
<1>4. CASE Write /\ UNCHANGED db
  <2>1. PICK letter \in Letters : letter.from # "automation" /\ thread' = Append(thread, letter)
    BY <1>4, WriteEffect DEF Stored, GoodDb
  <2>2. Len(thread') = Len(thread) + 1 /\ thread'[Len(thread) + 1] = letter
        /\ \A i \in 1..Len(thread) : thread'[i] = thread[i]
    BY <1>1, <2>1, AppendProperties
  <2>3. letter # AnswerLetter
    BY <2>1 DEF AnswerLetter
  <2>4. \A i \in 1..Len(thread') : i \in 1..Len(thread) \/ i = Len(thread) + 1
    BY <1>1, <2>2
  <2>5. \A i \in 1..Len(thread) : i \in 1..Len(thread')
    BY <1>1, <2>2
  <2>6. SentLetters' = SentLetters
    BY <2>2, <2>3, <2>4, <2>5 DEF SentLetters, Positions
  <2>7. SentRows' = SentRows
    BY <1>4 DEF SentRows, RowIds, db
  <2> QED
    BY <2>6, <2>7 DEF AsManySent
<1>5. ASSUME NEW r \in Runners, QueueAnswer(r) PROVE AsManySent'
  <2>1. /\ Len(rows') = Len(rows)
        /\ \A j \in 1..Len(rows) : rows'[j].answer = rows[j].answer
                                   \/ (rows[j].answer = "none" /\ rows'[j].answer = Preview)
    BY <1>5, QueueAnswerEffect DEF Stored
  <2>2. SentRows' = SentRows
    BY <2>1 DEF SentRows, RowIds, Preview
  <2>3. SentLetters' = SentLetters
    BY <1>5 DEF QueueAnswer, world, SentLetters, Positions
  <2> QED
    BY <2>2, <2>3 DEF AsManySent
<1>6. ASSUME NEW r \in Runners, SendAnswer(r) PROVE AsManySent'
  <2>1. /\ Len(rows') = Len(rows) + 1 /\ rows'[Len(rows) + 1].answer = "none"
        /\ \E i \in 1..Len(rows) :
             /\ rows[i].answer = "open" /\ rows'[i].answer = "sent"
             /\ \A j \in 1..Len(rows) : j # i => rows'[j].answer = rows[j].answer
    BY <1>6, SendAnswerEffect DEF Stored
  <2>2. PICK i \in 1..Len(rows) :
             /\ rows[i].answer = "open" /\ rows'[i].answer = "sent"
             /\ \A j \in 1..Len(rows) : j # i => rows'[j].answer = rows[j].answer
    BY <2>1
  <2>3. Len(rows') = Len(rows) + 1 /\ Len(rows) \in Nat
    BY <1>1, <2>1
  <2>4. /\ \A j \in 1..Len(rows') : j \in 1..Len(rows) \/ j = Len(rows) + 1
        /\ \A j \in 1..Len(rows) : j \in 1..Len(rows')
    BY <2>3
  <2>5. SentRows' = SentRows \cup {i} /\ i \notin SentRows
    BY <2>1, <2>2, <2>4 DEF SentRows, RowIds
  <2>6. thread' = Append(thread, AnswerLetter)
    BY <1>6 DEF SendAnswer, AnswerLetter
  <2>7. Len(thread') = Len(thread) + 1 /\ thread'[Len(thread) + 1] = AnswerLetter
        /\ \A k \in 1..Len(thread) : thread'[k] = thread[k]
    BY <1>1, <2>6
  <2>8. \A k \in 1..Len(thread') : k \in 1..Len(thread) \/ k = Len(thread) + 1
    BY <1>1, <2>7
  <2>9. Len(thread) + 1 \in 1..Len(thread') /\ Len(thread) + 1 \notin 1..Len(thread)
        /\ \A k \in 1..Len(thread) : k \in 1..Len(thread')
    BY <1>1, <2>7
  <2>10. SentLetters' = SentLetters \cup {Len(thread) + 1} /\ Len(thread) + 1 \notin SentLetters
    BY <2>7, <2>8, <2>9 DEF SentLetters, Positions
  <2>11. Cardinality(SentRows') = Cardinality(SentRows) + 1
    BY <1>2, <2>5, FS_AddElement
  <2>12. Cardinality(SentLetters') = Cardinality(SentLetters) + 1
    BY <1>2, <2>10, FS_AddElement
  <2> QED
    BY <2>11, <2>12 DEF AsManySent
<1> QED
  BY <1>3, <1>4, <1>5, <1>6, StepsOfDb

AnswersInv == AnswersForWarm /\ RepliesInbound /\ ComposesWarm /\ AsManySent

LEMMA AnswersInit == Init => AnswersInv
<1> SUFFICES ASSUME Init PROVE AnswersInv
  OBVIOUS
<1>1. /\ thread = <<[from |-> "automation", word |-> Pitch]>> /\ rows = <<Row("automation", Pitch, 0, 1)>>
      /\ \A r \in Runners : todo[r] = {} /\ pc[r] = "idle"
  BY DEF Init
<1>2. Row("automation", Pitch, 0, 1).answer = "none"
  BY DEF Row
<1>3. SentRows = {}
  BY <1>1, <1>2 DEF SentRows, RowIds
<1>4. SentLetters = {}
  <2>1. [from |-> "automation", word |-> Pitch] # AnswerLetter
    BY DEF AnswerLetter, Pitch, Answer
  <2> QED
    BY <1>1, <2>1 DEF SentLetters, Positions
<1>5. AnswersForWarm
  BY <1>1, <1>2 DEF AnswersForWarm, RowIds
<1>6. RepliesInbound /\ ComposesWarm
  BY <1>1 DEF RepliesInbound, ComposesWarm
<1> QED
  BY <1>3, <1>4, <1>5, <1>6 DEF AnswersInv, AsManySent

\* No message of the prospect is answered twice by automation: two processes may compose for the
\* same row, Meta may deliver it again, and a read through the API may show it again; the answer
\* hangs on the row, and the row has its id.
THEOREM OneAnswerPerMessage == Spec => []OneAnswerEach
<1>1. Stored /\ AnswersInv /\ [Next]_vars => AnswersInv'
  BY AnswersNext, RepliesNext, ComposesNext, SentNext DEF AnswersInv
<1>2. Stored /\ AnswersInv => OneAnswerEach
  BY SentBound DEF AnswersInv
<1> QED
  BY <1>1, <1>2, AnswersInit, StoredAlways, PTL DEF Spec

(***************************************************************************)
(* What a read of the thread showed is stored.                             *)
(***************************************************************************)
PlaceIn(S, l) == Cardinality({m \in S : m <= l})

LEMMA PlaceInverse ==
  ASSUME NEW n \in Nat, NEW S \in SUBSET (1..n), NEW l \in S
  PROVE  PlaceIn(S, l) \in 1..Cardinality(S) /\ Nth(S, PlaceIn(S, l)) = l
<1>1. PICK i : i = PlaceIn(S, l)
  OBVIOUS
<1>2. i \in 1..Cardinality(S)
  BY <1>1, Downward DEF PlaceIn
<1>3. PICK m : m = Nth(S, i)
  OBVIOUS
<1>4. m \in S /\ PlaceIn(S, m) = i
  BY <1>2, <1>3, NthExists DEF PlaceIn
<1>5. PlaceIn(S, m) \in Nat /\ m \in Nat /\ l \in Nat
  BY <1>2, <1>4
<1>6. ~(m < l) /\ ~(l < m)
  <2>1. m < l => PlaceIn(S, m) < PlaceIn(S, l)
    BY <1>4, PlacesDiffer DEF PlaceIn
  <2>2. l < m => PlaceIn(S, l) < PlaceIn(S, m)
    BY <1>4, PlacesDiffer DEF PlaceIn
  <2>3. PlaceIn(S, l) = PlaceIn(S, m)
    BY <1>1, <1>4
  <2> QED
    BY <1>5, <2>1, <2>2, <2>3
<1> QED
  BY <1>1, <1>2, <1>3, <1>5, <1>6

\* All but a few numbers have a place after the first few.
LEMMA LaterPlaces ==
  ASSUME NEW n \in Nat, NEW S \in SUBSET (1..n), NEW a \in Nat
  PROVE  Cardinality({l \in S : PlaceIn(S, l) > a}) + a >= Cardinality(S)
<1> DEFINE U == {l \in S : PlaceIn(S, l) > a}
           V == {l \in S : ~(PlaceIn(S, l) > a)}
           place == [l \in V |-> PlaceIn(S, l)]
<1>1. IsFiniteSet(S) /\ Cardinality(S) \in Nat
  <2>1. IsFiniteSet(1..n)
    BY FS_Interval
  <2> QED
    BY <2>1, FS_Subset, FS_CardinalityType
<1>2. U \subseteq S /\ V \subseteq S /\ U \cup V = S /\ U \cap V = {}
  OBVIOUS
<1>3. \A l \in S : PlaceIn(S, l) \in Nat /\ PlaceIn(S, l) >= 1 /\ l \in Nat
  <2> SUFFICES ASSUME NEW l \in S PROVE PlaceIn(S, l) \in Nat /\ PlaceIn(S, l) >= 1 /\ l \in Nat
    OBVIOUS
  <2>1. PlaceIn(S, l) \in 1..Cardinality(S)
    BY PlaceInverse
  <2> QED
    BY <1>1, <2>1
<1>4. place \in [V -> 1..a]
  <2>1. \A l \in V : PlaceIn(S, l) \in 1..a
    BY <1>3
  <2> HIDE DEF V
  <2> QED
    BY <2>1
<1>5. \A l, m \in V : place[l] = place[m] => l = m
  <2> SUFFICES ASSUME NEW l \in V, NEW m \in V, PlaceIn(S, l) = PlaceIn(S, m) PROVE l = m
    OBVIOUS
  <2>1. Nth(S, PlaceIn(S, l)) = l /\ Nth(S, PlaceIn(S, m)) = m
    BY PlaceInverse
  <2> QED
    BY <2>1
<1>6. place \in Injection(V, 1..a)
  BY <1>4, <1>5 DEF Injection, IsInjective
<1> HIDE DEF U, V, place
<1>7. IsFiniteSet(U) /\ IsFiniteSet(V)
  BY <1>1, <1>2, FS_Subset
<1>8. Cardinality(U) \in Nat /\ Cardinality(V) \in Nat
  BY <1>7, FS_CardinalityType
<1>9. Cardinality(V) <= a
  <2>1. IsFiniteSet(1..a) /\ Cardinality(1..a) = a
    BY FS_Interval
  <2> QED
    BY <1>6, <1>7, <2>1, FS_Injection
<1>10. Cardinality(S) = Cardinality(U) + Cardinality(V)
  <2>1. Cardinality(U \cup V) = Cardinality(U) + Cardinality(V) - Cardinality(U \cap V)
    BY <1>7, FS_Union
  <2>2. Cardinality(S) = Cardinality(U) + Cardinality(V) - Cardinality({})
    BY <1>2, <2>1
  <2>3. Cardinality({}) = 0
    BY FS_EmptySet
  <2> QED
    BY <1>8, <2>2, <2>3
<1> QED
  BY <1>1, <1>8, <1>9, <1>10 DEF U

\* The row of a message the read found missing.
FoundAt(r, l) == Len(rows) + PlaceIn(Missing(r), l)

LEMMA FoundIsStored ==
  ASSUME Stored, NEW r \in Runners, Reconcile(r), NEW l \in Missing(r)
  PROVE  /\ FoundAt(r, l) \in 1..Len(rows') /\ FoundAt(r, l) \notin 1..Len(rows)
         /\ rows'[FoundAt(r, l)].word = thread[l].word
         /\ Direction(rows'[FoundAt(r, l)].from) = Direction(thread[l].from)
<1> DEFINE table == rows \o Found(r)
<1>1. GoodDb /\ MemoryOK /\ PhasesOK /\ ChannelsOK /\ pc[r] = "reading" /\ Len(thread) \in Nat
  BY DEF Stored, Reconcile, GoodDb, WorldOK
<1>2. /\ Cardinality(Missing(r)) \in Nat /\ Len(Found(r)) = Cardinality(Missing(r))
      /\ Missing(r) \in SUBSET (1..saw[r]) /\ saw[r] \in Nat
      /\ \A i \in 1..Len(Found(r)) : Found(r)[i] = NewRow(r, Nth(Missing(r), i))
  BY <1>1, FoundRows
<1>3. PICK p : p = PlaceIn(Missing(r), l)
  OBVIOUS
<1>4. p \in 1..Len(Found(r)) /\ Nth(Missing(r), p) = l
  BY <1>2, <1>3, PlaceInverse
<1>5. Found(r)[p] = NewRow(r, l)
  BY <1>2, <1>4
<1>6. /\ NewRow(r, l).word = thread[l].word
      /\ Direction(NewRow(r, l).from) = Direction(thread[l].from)
  <2>1. l \in 1..saw[r]
    BY <1>2
  <2> QED
    BY <1>1, <2>1, NewRowEffect
<1>7. Good(rows, thread, Troubles) /\ Good(table, thread, Troubles)
  BY <1>1, FoundGood DEF GoodDb
<1>8. /\ rows \in Seq(RowRecords) /\ Found(r) \in Seq(RowRecords) /\ Len(rows) \in Nat
  <2>1. \A i \in 1..Len(Found(r)) : Nth(Missing(r), i) \in 1..saw[r]
    BY <1>1, <1>2, FoundRows
  <2>2. \A i \in 1..Len(Found(r)) : NewRow(r, Nth(Missing(r), i)) \in RowRecords
    BY <1>1, <2>1, NewRowEffect DEF RowOK
  <2> QED
    BY <1>2, <1>7, <2>2 DEF Good, Found
<1>9. Len(table) = Len(rows) + Len(Found(r)) /\ table[Len(rows) + p] = Found(r)[p]
  <2>1. Len(rows) + p \in 1..(Len(rows) + Len(Found(r))) /\ ~(Len(rows) + p <= Len(rows))
        /\ (Len(rows) + p) - Len(rows) = p
    BY <1>4, <1>8
  <2> QED
    BY <1>8, <2>1, ConcatProperties
<1>10. rows' = table \/ rows' = Cancelled(table)
  BY <1>1, ReconcileEffect DEF Stored
<1> HIDE DEF table
<1>11. /\ Len(rows') = Len(table)
       /\ \A i \in 1..Len(table) : rows'[i].word = table[i].word /\ rows'[i].from = table[i].from
  <2>1. TableOK(table, Len(thread))
    BY <1>7, GoodIsOK
  <2> QED
    BY <1>1, <1>10, <2>1, CancelledTable
<1>12. Len(rows) + p \in 1..Len(table) /\ Len(rows) + p \notin 1..Len(rows)
  BY <1>2, <1>4, <1>8, <1>9
<1> QED
  BY <1>3, <1>5, <1>6, <1>9, <1>11, <1>12 DEF FoundAt

\* What was stored of a message still is, and what was found of it is stored besides.
LEMMA StoredGrows ==
  ASSUME Stored, [Next]_vars, NEW r \in Runners, Reconcile(r), NEW k \in 1..saw[r]
  PROVE  /\ IsFiniteSet(StoredAs(k)) /\ IsFiniteSet(StoredAs(k)')
         /\ Cardinality(StoredAs(k)) \in Nat /\ Cardinality(StoredAs(k)') \in Nat
         /\ Cardinality(StoredAs(k)') >=
              Cardinality(StoredAs(k)) + Cardinality({l \in Missing(r) : Same(k, l)})
<1> DEFINE A == StoredAs(k)
           B == StoredAs(k)'
           U == {l \in Missing(r) : Same(k, l)}
           at == [l \in U |-> FoundAt(r, l)]
<1>1. /\ Len(rows) \in Nat /\ Len(rows') \in Nat /\ Len(rows) <= Len(rows') /\ thread' = thread
      /\ \A i \in 1..Len(rows) : SameRow(rows[i], rows'[i])
  <2>1. thread' = thread
    BY DEF Reconcile, world
  <2> QED
    BY <2>1, GoodDbNext
<1>2. A \subseteq 1..Len(rows) /\ B \subseteq 1..Len(rows')
  BY DEF StoredAs, RowIds
<1>3. A \subseteq B
  BY <1>1 DEF StoredAs, RowIds, SameRow
<1>4. \A l \in U : FoundAt(r, l) \in B \ A
  <2> SUFFICES ASSUME NEW l \in U PROVE FoundAt(r, l) \in B \ A
    OBVIOUS
  <2>1. /\ FoundAt(r, l) \in 1..Len(rows') /\ FoundAt(r, l) \notin 1..Len(rows)
        /\ rows'[FoundAt(r, l)].word = thread[l].word
        /\ Direction(rows'[FoundAt(r, l)].from) = Direction(thread[l].from)
    BY FoundIsStored
  <2>2. thread[k].word = thread[l].word /\ Direction(thread[k].from) = Direction(thread[l].from)
    BY DEF Same
  <2> QED
    BY <1>1, <1>2, <2>1, <2>2 DEF StoredAs, RowIds
<1>5. \A l, m \in U : FoundAt(r, l) = FoundAt(r, m) => l = m
  <2> SUFFICES ASSUME NEW l \in U, NEW m \in U, FoundAt(r, l) = FoundAt(r, m) PROVE l = m
    OBVIOUS
  <2>1. Missing(r) \in SUBSET (1..saw[r]) /\ saw[r] \in Nat /\ Cardinality(Missing(r)) \in Nat
    BY FoundRows DEF Stored
  <2>2. /\ PlaceIn(Missing(r), l) \in Nat /\ PlaceIn(Missing(r), m) \in Nat
        /\ Nth(Missing(r), PlaceIn(Missing(r), l)) = l /\ Nth(Missing(r), PlaceIn(Missing(r), m)) = m
    <3>1. l \in Missing(r) /\ m \in Missing(r)
      OBVIOUS
    <3>2. /\ PlaceIn(Missing(r), l) \in 1..Cardinality(Missing(r)) /\ Nth(Missing(r), PlaceIn(Missing(r), l)) = l
      BY <2>1, <3>1, PlaceInverse
    <3>3. /\ PlaceIn(Missing(r), m) \in 1..Cardinality(Missing(r)) /\ Nth(Missing(r), PlaceIn(Missing(r), m)) = m
      BY <2>1, <3>1, PlaceInverse
    <3> QED
      BY <2>1, <3>2, <3>3
  <2>4. PlaceIn(Missing(r), l) = PlaceIn(Missing(r), m)
    BY <1>1, <2>2 DEF FoundAt
  <2> QED
    BY <2>2, <2>4
<1>6. IsFiniteSet(A) /\ IsFiniteSet(B) /\ IsFiniteSet(B \ A) /\ IsFiniteSet(U)
  <2>1. IsFiniteSet(1..Len(rows)) /\ IsFiniteSet(1..Len(rows'))
    BY <1>1, FS_Interval
  <2>2. saw[r] \in Nat /\ Missing(r) \in SUBSET (1..saw[r])
    BY FoundRows DEF Stored
  <2>3. IsFiniteSet(1..saw[r])
    BY <2>2, FS_Interval
  <2>4. U \subseteq 1..saw[r] /\ B \ A \subseteq B
    BY <2>2
  <2> HIDE DEF A, B, U
  <2> QED
    BY <1>2, <2>1, <2>3, <2>4, FS_Subset
<1>7. at \in Injection(U, B \ A)
  BY <1>4, <1>5 DEF Injection, IsInjective
<1> HIDE DEF A, B, U, at
<1>8. Cardinality(U) <= Cardinality(B \ A)
  BY <1>6, <1>7, FS_Injection
<1>9. Cardinality(A) \in Nat /\ Cardinality(B) \in Nat /\ Cardinality(U) \in Nat /\ Cardinality(B \ A) \in Nat
  BY <1>6, FS_CardinalityType
<1>10. Cardinality(B) = Cardinality(A) + Cardinality(B \ A)
  <2>1. Cardinality(A \cup (B \ A)) = Cardinality(A) + Cardinality(B \ A) - Cardinality(A \cap (B \ A))
    BY <1>6, FS_Union
  <2>2. A \cup (B \ A) = B /\ A \cap (B \ A) = {}
    BY <1>3
  <2>3. Cardinality(B) = Cardinality(A) + Cardinality(B \ A) - Cardinality({})
    BY <2>1, <2>2
  <2>4. Cardinality({}) = 0
    BY FS_EmptySet
  <2> QED
    BY <1>9, <2>3, <2>4
<1> QED
  BY <1>6, <1>8, <1>9, <1>10 DEF A, B, U

\* A read through the browser counts each text; one through the API counts it right when the
\* thread shows it once, because a message whose id is stored is stored with its text.
LEMMA ReconcileStores ==
  ASSUME Stored, [Next]_vars, NEW r \in Runners, Reconcile(r), NEW k \in 1..saw[r],
         channel[r] = "BROWSER" \/ Shown(r, k) = 1
  PROVE  Cardinality(StoredAs(k)') >= Shown(r, k)
<1> DEFINE S == {l \in 1..saw[r] : Same(k, l)}
           U == {l \in Missing(r) : Same(k, l)}
           a == Cardinality(StoredAs(k))
<1>1. /\ saw[r] \in Nat /\ Missing(r) \in SUBSET (1..saw[r]) /\ k \in Nat /\ k \in 1..Len(thread)
  BY FoundRows DEF Stored, MemoryOK
<1>2. /\ IsFiniteSet(StoredAs(k)) /\ a \in Nat /\ Cardinality(StoredAs(k)') \in Nat
      /\ Cardinality(StoredAs(k)') >= a + Cardinality(U)
  BY StoredGrows
<1>3. S \in SUBSET (1..saw[r]) /\ k \in S
  BY DEF Same
<1>4. IsFiniteSet(S) /\ Cardinality(S) \in Nat /\ IsFiniteSet(U) /\ Cardinality(U) \in Nat
  <2>1. IsFiniteSet(1..saw[r])
    BY <1>1, FS_Interval
  <2>2. U \subseteq 1..saw[r]
    BY <1>1
  <2> HIDE DEF S, U
  <2> QED
    BY <1>3, <2>1, <2>2, FS_Subset, FS_CardinalityType
<1>5. Shown(r, k) = Cardinality(S)
  BY DEF Shown
<1>6. CASE channel[r] = "BROWSER"
  <2>1. \A l \in 1..saw[r] : ~ById(r, l)
    BY <1>6 DEF ById
  <2>2. ASSUME NEW l \in S PROVE Unmatched(r, l) <=> PlaceIn(S, l) > a
    <3>1. l \in 1..saw[r] /\ Same(k, l) /\ l \in Nat /\ \A m \in 1..l : m \in 1..saw[r]
      BY <1>1
    <3>2. StoredAs(l) = StoredAs(k)
      BY <3>1 DEF Same, StoredAs
    <3>3. {m \in 1..l : ~ById(r, m) /\ Same(l, m)} = {m \in S : m <= l}
      <4>1. \A m \in 1..saw[r] : Same(l, m) <=> Same(k, m)
        BY <3>1 DEF Same
      <4>2. \A m \in 1..saw[r] : m \in 1..l <=> m <= l
        BY <1>1, <3>1
      <4> QED
        BY <2>1, <3>1, <4>1, <4>2
    <3> QED
      BY <2>1, <3>1, <3>2, <3>3 DEF Unmatched, PlaceIn
  <2>3. U = {l \in S : PlaceIn(S, l) > a}
    <3>1. \A l \in 1..saw[r] : l \in Missing(r) <=> Unmatched(r, l)
      BY DEF Missing
    <3>2. U = {l \in S : Unmatched(r, l)}
      BY <1>1, <3>1
    <3> HIDE DEF S, U, a
    <3> QED
      BY <2>2, <3>2
  <2>4. Cardinality(U) + a >= Cardinality(S)
    <3> HIDE DEF S, U, a
    <3> QED
      BY <1>1, <1>2, <1>3, <2>3, LaterPlaces
  <2> HIDE DEF S, U, a
  <2> QED
    BY <1>2, <1>4, <1>5, <2>4
<1>7. CASE channel[r] # "BROWSER" /\ Shown(r, k) = 1
  <2>1. CASE a # 0
    BY <1>2, <1>4, <1>7, <2>1
  <2>2. CASE a = 0
    <3>1. StoredAs(k) = {}
      BY <1>2, <2>2, FS_EmptySet
    <3>2. ~ById(r, k)
      <4> SUFFICES ASSUME Named(k) PROVE FALSE
        BY DEF ById
      <4>1. PICK i \in 1..Len(rows) : rows[i].mid = k
        BY DEF Named, RowIds
      <4>2. RowOK(rows[i], thread, Troubles) /\ k # 0
        BY <1>1 DEF Stored, GoodDb, Good
      <4>3. rows[i].word = thread[k].word /\ Direction(rows[i].from) = Direction(thread[k].from)
        BY <4>1, <4>2 DEF RowOK
      <4> QED
        BY <3>1, <4>1, <4>3 DEF StoredAs, RowIds
    <3>3. Unmatched(r, k)
      <4> DEFINE T == {l \in 1..k : ~ById(r, l) /\ Same(k, l)}
      <4>1. k \in T /\ T \subseteq 1..k
        BY <1>1, <3>2 DEF Same
      <4>2. IsFiniteSet(1..k)
        BY <1>1, FS_Interval
      <4> HIDE DEF T
      <4>3. IsFiniteSet(T) /\ Cardinality(T) \in Nat
        BY <4>1, <4>2, FS_Subset, FS_CardinalityType
      <4>4. Cardinality(T) # 0
        BY <4>1, <4>3, FS_EmptySet
      <4> QED
        BY <2>2, <3>2, <4>3, <4>4 DEF Unmatched, T
    <3>4. k \in U
      BY <3>3 DEF Missing, Same
    <3>5. Cardinality(U) # 0
      <4> HIDE DEF U
      <4> QED
        BY <1>4, <3>4, FS_EmptySet
    <3> HIDE DEF U, a
    <3> QED
      BY <1>2, <1>4, <1>7, <2>2, <3>5
  <2> QED
    BY <2>1, <2>2
<1> QED
  BY <1>6, <1>7

ReadStored ==
  \A r \in Runners :
    pc[r] = "reading" /\ job[r] = "thread" /\ pc'[r] = "idle" /\ crashed' = crashed
      => \A k \in 1..saw[r] : channel[r] = "BROWSER" \/ Shown(r, k) = 1
                              => Cardinality(StoredAs(k)') >= Shown(r, k)

\* After a thread read is recorded the table has every message it showed, repeated texts as often
\* as they were shown (through the API: texts shown once), whatever webhooks and reads by the
\* other processes stored meanwhile.
THEOREM ReadsStored == Spec => ReadIsStored
<1>1. Stored /\ [Next]_vars => [ReadStored]_vars
  <2> SUFFICES ASSUME Stored, [Next]_vars PROVE ReadStored
    OBVIOUS
  <2> SUFFICES ASSUME NEW r \in Runners, pc[r] = "reading", job[r] = "thread", pc'[r] = "idle",
                      crashed' = crashed, NEW k \in 1..saw[r],
                      channel[r] = "BROWSER" \/ Shown(r, k) = 1
               PROVE  Cardinality(StoredAs(k)') >= Shown(r, k)
    BY DEF ReadStored
  <2>1. Domains
    BY MemoryParts DEF Stored
  <2>2. ~UNCHANGED pc
    OBVIOUS
  <2>3. PICK q \in Runners : Tick(q) \/ Crash(q)
    BY <2>2 DEF Next, vars, Write, Deliver, Redeliver, Store, memory
  <2>4. q = r
    BY <2>1, <2>3, OthersStill DEF Still
  <2>5. ~Crash(r)
    BY DEF Crash
  <2>6. Tick(r) => Reconcile(r)
    BY DEF Tick, Drain, ProcessEvent, Plan, ActOnReply, HandOff, QueueAnswer, SendAnswer, Read,
           HandleInbox, NothingToExecute
  <2> QED
    BY <2>3, <2>4, <2>5, <2>6, ReconcileStores
<1> QED
  BY <1>1, StoredAlways, PTL DEF Spec, ReadIsStored, ReadStored
=============================================================================
