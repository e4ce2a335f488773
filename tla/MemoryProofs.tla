----------------------------- MODULE MemoryProofs -----------------------------
(***************************************************************************)
(* Theorems about the memory of a thread, for every number of messages,    *)
(* bodies of history, handlers and faults, and every window and portion.   *)
(***************************************************************************)
EXTENDS Memory, FiniteSetTheorems, WellFoundedInduction, TLAPS

-----------------------------------------------------------------------------
(* First and last of a set of places. *)

Bounded == 0 .. Places

(* There are finitely many places, so that there is a last one. *)
LEMMA NumbersAreFinite == All \subseteq Bounded /\ IsFiniteSet(Bounded) /\ IsFiniteSet(All)
  BY ConstantsAssumption, FS_Interval DEF Bounded, All

(* A set of places has a first one. *)
LEMMA MinIsFirst ==
  ASSUME NEW S \in SUBSET Bounded, S # {}
  PROVE  Min(S) \in S /\ \A j \in S : Min(S) <= j
<1>1. S \subseteq Nat
  BY ConstantsAssumption DEF Bounded
<1>2. PICK x \in S : \A y \in S : ~(<<y, x>> \in OpToRel(<, Nat))
  BY <1>1, WFMin, NatLessThanWellFounded
<1>3. \A y \in S : x <= y
  <2> SUFFICES ASSUME NEW y \in S, ~(x <= y) PROVE FALSE
    OBVIOUS
  <2>1. x \in Nat /\ y \in Nat /\ y < x
    BY <1>1
  <2>2. <<y, x>> \in OpToRel(<, Nat)
    BY <2>1 DEF OpToRel
  <2> QED
    BY <1>2, <2>2
<1> QED
  BY <1>3 DEF Min

(* And a last one. *)
LEMMA MaxIsLast ==
  ASSUME NEW S \in SUBSET Bounded, S # {}
  PROVE  Max(S) \in S /\ \A j \in S : j <= Max(S)
<1> DEFINE T == {Places - i : i \in S}
<1>1. \A i \in S : i \in Bounded /\ Places - i \in Bounded
  BY ConstantsAssumption DEF Bounded
<1>2. T \in SUBSET Bounded /\ T # {}
  BY <1>1
<1>3. Min(T) \in T /\ \A j \in T : Min(T) <= j
  <2> HIDE DEF T
  <2> QED
    BY <1>2, MinIsFirst
<1>4. PICK i \in S : Min(T) = Places - i
  BY <1>3
<1>5. \A j \in S : i >= j
  <2> SUFFICES ASSUME NEW j \in S PROVE i >= j
    OBVIOUS
  <2>1. Places - i <= Places - j
    BY <1>3, <1>4
  <2> QED
    BY <2>1, <1>1, ConstantsAssumption DEF Bounded
<1>6. Max(S) \in S /\ \A j \in S : Max(S) >= j
  BY <1>5 DEF Max
<1> QED
  BY <1>1, <1>6, ConstantsAssumption DEF Bounded

(* The next place of the thread lies behind all that is stored. *)
LEMMA NextPlaceIsNew ==
  ASSUME NextPlace \in All
  PROVE  NextPlace \notin Stored /\ \A p \in Stored : p < NextPlace
<1>1. Stored \cup {Past} \in SUBSET Bounded
  BY ConstantsAssumption DEF Stored, All, Bounded
<1>2. Max(Stored \cup {Past}) \in Bounded /\ \A p \in Stored : p <= Max(Stored \cup {Past})
  BY <1>1, MaxIsLast
<1>3. \A p \in Stored : p \in Int
  BY DEF Stored, All
<1>4. Max(Stored \cup {Past}) \in Int
  BY <1>2, ConstantsAssumption DEF Bounded
<1> QED
  BY <1>2, <1>3, <1>4 DEF NextPlace

Before(G, p) == {q \in G : q < p}
After(G, p) == {q \in G : q > p}
First(G, n) == {p \in G : Cardinality(Before(G, p)) < n}

(* A window begins with a place. *)
LEMMA StartIsAPlace ==
  ASSUME NEW k \in 1 .. Window, Eligible # {}
  PROVE  Start(k) \in All
<1>1. Eligible \in SUBSET Bounded /\ Eligible \subseteq All
  BY NumbersAreFinite DEF Eligible
<1>2. PICK last \in Eligible : \A q \in Eligible : q <= last
  BY <1>1, MaxIsLast
<1>3. After(Eligible, last) = {}
  <2>1. \A q \in Eligible : ~(q > last)
    BY <1>1, <1>2 DEF All
  <2> QED
    BY <2>1 DEF After
<1>4. Cardinality(After(Eligible, last)) < k
  BY <1>3, FS_EmptySet
<1>5. Newest(k, Eligible) # {} /\ Newest(k, Eligible) \in SUBSET Bounded
  BY <1>1, <1>2, <1>4 DEF Newest, After
<1>6. Min(Newest(k, Eligible)) \in Newest(k, Eligible)
  BY <1>5, MinIsFirst
<1> QED
  BY <1>1, <1>6 DEF Start, Newest

(* The first n of a set of places are a stretch of it. *)
LEMMA FirstIsAStretch ==
  ASSUME NEW G \in SUBSET All, G # {}, NEW n \in Nat \ {0}
  PROVE  /\ Max(First(G, n)) \in First(G, n)
         /\ \A p \in First(G, n) : p <= Max(First(G, n))
         /\ \A p \in G : p <= Max(First(G, n)) => p \in First(G, n)
<1>1. G \in SUBSET Bounded /\ IsFiniteSet(G)
  BY NumbersAreFinite, FS_Subset
<1>2. PICK least \in G : \A j \in G : least <= j
  BY <1>1, MinIsFirst
<1>3. Before(G, least) = {}
  <2>1. \A q \in G : ~(q < least)
    BY <1>1, <1>2 DEF All
  <2> QED
    BY <2>1 DEF Before
<1>4. Cardinality(Before(G, least)) < n
  BY <1>3, FS_EmptySet
<1>5. First(G, n) # {} /\ First(G, n) \in SUBSET Bounded
  BY <1>1, <1>2, <1>4 DEF First
<1>6. PICK last \in First(G, n) : last = Max(First(G, n)) /\ \A j \in First(G, n) : j <= last
  BY <1>5, MaxIsLast
<1>7. ASSUME NEW p \in G, p <= last PROVE p \in First(G, n)
  <2>1. last \in G /\ Cardinality(Before(G, last)) < n
    BY DEF First
  <2>2. Before(G, p) \subseteq Before(G, last)
    <3>1. \A q \in G : q < p => q < last
      BY <1>7, <2>1 DEF All
    <3> QED
      BY <3>1 DEF Before
  <2>3. IsFiniteSet(Before(G, last)) /\ IsFiniteSet(Before(G, p))
    BY <1>1, FS_Subset DEF Before
  <2>4. Cardinality(Before(G, p)) <= Cardinality(Before(G, last))
    BY <2>2, <2>3, FS_Subset
  <2>5. Cardinality(Before(G, p)) \in Nat /\ Cardinality(Before(G, last)) \in Nat
    BY <2>3, FS_CardinalityType
  <2> QED
    BY <2>1, <2>4, <2>5 DEF First
<1> QED
  BY <1>6, <1>7

-----------------------------------------------------------------------------
(* Types. *)

(* An import at work has a body in hand. *)
Working == step # "idle" => job \in Chunks

(* What a run has in hand is in the memory of the runs. *)
LEMMA RunsHold == \A s \in Slots : base[s] \subseteq InRuns /\ text[s] \subseteq InRuns
<1>1. \A s \in Slots : base[s] \cup text[s] \in {base[o] \cup text[o] : o \in Slots}
  OBVIOUS
<1> QED
  BY <1>1 DEF InRuns

(* What the runs and the import have in hand is a set of places. *)
LEMMA InRunsIsAll == ASSUME TypeOK PROVE InRuns \subseteq All /\ todo \subseteq All
<1>1. \A s \in Slots : base[s] \cup text[s] \subseteq All
  BY DEF TypeOK
<1> QED
  BY <1>1 DEF InRuns, TypeOK

(* The reply of a turn is a row like any other. *)
LEMMA OutboundKinds == "queued" \in Kinds \ {"none"} /\ "none" \notin Statuses
  BY DEF Kinds, Statuses, Above

(* Every step keeps the types. *)
LEMMA TypeStep ==
  ASSUME TypeOK, Working, [Next]_vars
  PROVE  TypeOK'
<1> USE ConstantsAssumption DEF TypeOK, All, threadVars, memoryVars, runVars, importVars
<1>1. CASE GuestWrites
  BY <1>1 DEF GuestWrites, Write, Kinds
<1>2. ASSUME NEW k \in 1 .. Window, NEW wake \in BOOLEAN, Turn(k, wake)
      PROVE  TypeOK'
  <2>1. {p \in All : row[p] = "in"} # {} /\ {p \in All : row[p] = "in"} \in SUBSET Bounded
    BY <1>2, NumbersAreFinite DEF Turn
  <2>2. processed' \in Bounded
    BY <2>1, <1>2, MaxIsLast DEF Turn
  <2> QED
    BY <2>2, <1>2, OutboundKinds DEF Turn, Write, Bounded
<1>3. CASE SaveFactRow
  BY <1>3 DEF SaveFactRow, Write, Kinds
<1>4. ASSUME NEW p \in All, NEW status \in Statuses, SendSettles(p, status)
      PROVE  TypeOK'
  <2>1. row' = [row EXCEPT ![p] = status] /\ faults' \in 0 .. MaxFaults
    BY <1>4 DEF SendSettles, Fault
  <2>2. late' \subseteq late \cup {p} /\ soured' \subseteq soured \cup {p}
    BY <1>4 DEF SendSettles
  <2>3. UNCHANGED <<blank, erased, held, memoryVars, processed, queued, runVars, importVars>>
    BY <1>4 DEF SendSettles
  <2>4. row' \in [All -> Kinds]
    BY <2>1 DEF Kinds
  <2> QED
    BY <2>1, <2>2, <2>3, <2>4
<1>5. CASE Nightly
  BY <1>5 DEF Nightly
<1>6. ASSUME NEW s \in Slots, BeginRun(s) PROVE TypeOK'
  BY <1>6 DEF BeginRun
<1>7. ASSUME NEW s \in Slots, ReadNothing(s) PROVE TypeOK'
  BY <1>7 DEF ReadNothing, EndRun
<1>8. ASSUME NEW s \in Slots, NEW k \in 1 .. Window, NEW n \in 1 .. MaxRun, ReadRange(s, k, n)
      PROVE  TypeOK'
  <2>1. Gap(s, k) \in SUBSET All /\ Gap(s, k) # {} /\ Portion(s, k, n) = First(Gap(s, k), n)
    BY <1>8 DEF ReadRange, Gap, Readable, Eligible, Portion, First, Before
  <2>2. Max(Portion(s, k, n)) \in Portion(s, k, n) /\ Portion(s, k, n) \in SUBSET All
    <3>1. First(Gap(s, k), n) \subseteq Gap(s, k)
      BY DEF First
    <3>2. n \in Nat \ {0}
      OBVIOUS
    <3> HIDE DEF All, TypeOK
    <3>3. Max(First(Gap(s, k), n)) \in First(Gap(s, k), n)
      BY <2>1, <3>2, FirstIsAStretch
    <3> QED
      BY <2>1, <3>1, <3>3
  <2>3. /\ top' = [top EXCEPT ![s] = Max(Portion(s, k, n))]
        /\ text' = [text EXCEPT ![s] = (Portion(s, k, n) \cap Spoken) \ blank]
        /\ \E next \in {"model", "apply"} : pc' = [pc EXCEPT ![s] = next]
        /\ UNCHANGED <<threadVars, memoryVars, processed, queued, seen, base, overrun, importVars,
                      late, faults>>
    BY <1>8 DEF ReadRange
  <2>4. /\ Max(Portion(s, k, n)) \in 0 .. Places
        /\ (Portion(s, k, n) \cap Spoken) \ blank \subseteq All
    BY <2>2
  <2> QED
    BY <2>3, <2>4
<1>9. ASSUME NEW s \in Slots, Apply(s) PROVE TypeOK'
  <2>1. notes' \subseteq All /\ late' \subseteq All
    BY <1>9 DEF Apply
  <2> QED
    BY <2>1, <1>9 DEF Apply, EndRun
<1>10. ASSUME NEW s \in Slots, Lose(s) PROVE TypeOK'
  BY <1>10 DEF Lose, EndRun
<1>11. ASSUME NEW c \in Chunks, BeginImport(c) PROVE TypeOK'
  BY <1>11 DEF BeginImport, Fault
<1>12. ASSUME NEW p \in 1 .. Past, InsertRow(p) PROVE TypeOK'
  <2>1. p \in All
    OBVIOUS
  <2>2. row' = row \/ row' = [row EXCEPT ![p] = "in"]
    BY <1>12 DEF InsertRow
  <2>3. blank' \subseteq blank /\ fresh' \subseteq fresh \cup {p} /\ late' \subseteq late \cup {p}
    BY <1>12 DEF InsertRow
  <2>4. /\ todo' = todo \ {p}
        /\ UNCHANGED <<erased, held, soured, memoryVars, processed, queued, runVars, job, step,
                      attempts, done, orphans, faults>>
    BY <1>12 DEF InsertRow
  <2>5. row' \in [All -> Kinds]
    BY <2>1, <2>2 DEF Kinds
  <2> QED
    BY <2>1, <2>3, <2>4, <2>5
<1>13. CASE MarkProcessed
  <2> DEFINE S == {processed} \cup {p \in Stored : p <= Max(PlacesOf[job])}
  <2>1. S # {} /\ S \in SUBSET Bounded
    BY NumbersAreFinite DEF Stored, Bounded
  <2>2. Max(S) \in Bounded
    <3> HIDE DEF S
    <3> QED
      BY <2>1, MaxIsLast
  <2> QED
    BY <2>2, <1>13 DEF MarkProcessed, Bounded
<1>14. CASE Backfill
  <2>1. \/ pointer' = 0 /\ notes' = {}
        \/ pointer' = pointer /\ notes' = notes
    BY <1>14 DEF Backfill
  <2>2. /\ step' = "idle" /\ job' = NoChunk /\ todo' = {} /\ fresh' = {} /\ done' \subseteq Chunks
        /\ queued' \in BOOLEAN /\ soured' \subseteq soured
        /\ UNCHANGED <<attempts, row, blank, erased, held, processed, runVars, orphans, late,
                      faults>>
    BY <1>14 DEF Backfill, EndImport, Working
  <2>3. notes' \subseteq All
    BY <2>1
  <2>4. pointer' \in 0 .. Places
    BY <2>1
  <2> QED
    BY <2>2, <2>3, <2>4
<1>15. CASE Erase
  <2>1. held' = InRuns \cup todo /\ soured' \subseteq soured
    BY <1>15 DEF Erase
  <2>2. held' \subseteq All
    BY <2>1, InRunsIsAll
  <2>3. /\ erased' = TRUE /\ blank' = Stored /\ notes' = {} /\ faults' \in 0 .. MaxFaults
        /\ UNCHANGED <<row, pointer, processed, queued, runVars, importVars, late>>
    BY <1>15 DEF Erase, Fault
  <2> QED
    BY <2>1, <2>2, <2>3 DEF Stored
<1>16. ASSUME NEW s \in Slots, ModelFails(s) PROVE TypeOK'
  BY <1>16 DEF ModelFails, EndRun, Fault
<1>17. ASSUME NEW s \in Slots, Overrun(s) PROVE TypeOK'
  BY <1>17 DEF Overrun, Fault
<1>18. CASE BackfillFails
  BY <1>18 DEF BackfillFails, EndImport, Fault, Working
<1>19. ASSUME NEW again \in BOOLEAN, Crash(again) PROVE TypeOK'
  BY <1>19 DEF Crash, EndImport, Fault
<1>20. CASE UNCHANGED vars
  BY <1>20 DEF vars
<1> HIDE DEF TypeOK, All, threadVars, memoryVars, runVars, importVars
<1> QED
  BY <1>1, <1>2, <1>3, <1>4, <1>5, <1>6, <1>7, <1>8, <1>9, <1>10, <1>11, <1>12, <1>13,
     <1>14, <1>15, <1>16, <1>17, <1>18, <1>19, <1>20
     DEF Next, ThreadStep, RunStep, ImportStep, FaultStep

(***************************************************************************)
(* What a step may do to the rows: there are more of them, and what a run  *)
(* has in hand, or the notes hold, has been sent still or is known to have *)
(* failed.                                                                 *)
(***************************************************************************)
RowsStay == Stored \subseteq Stored'
Said == Eligible \cup soured
HandsStay == RowsStay /\ InRuns \cap Said \subseteq Said'
NotesStay == RowsStay /\ notes \cap Said \subseteq Said'

(* A new row is the last of the thread. *)
LEMMA WriteIsLast ==
  ASSUME TypeOK, NEW kind \in Kinds \ {"none"}, Write(kind), UNCHANGED soured
  PROVE  /\ RowsStay /\ HandsStay /\ NotesStay
         /\ \A p \in Eligible' : p \in Eligible \/ \A q \in Stored : q < p
<1>1. NextPlace \in All /\ row' = [row EXCEPT ![NextPlace] = kind]
  BY DEF Write
<1>2. NextPlace \notin Stored /\ \A q \in Stored : q < NextPlace
  BY <1>1, NextPlaceIsNew
<1>3. \A p \in All : p # NextPlace => row'[p] = row[p]
  BY <1>1 DEF TypeOK
<1>4. row[NextPlace] = "none"
  BY <1>1, <1>2 DEF Stored
<1>5. RowsStay /\ Eligible \subseteq Eligible'
  BY <1>1, <1>3, <1>4 DEF RowsStay, Stored, Eligible, TypeOK, Kinds
<1>6. \A p \in Eligible' : p \in Eligible \/ p = NextPlace
  BY <1>3 DEF Eligible
<1>7. Said \subseteq Said'
  BY <1>5 DEF Said
<1> QED
  BY <1>2, <1>5, <1>6, <1>7 DEF HandsStay, NotesStay

(* A send that climbs to "sent" or "delivered" is late if it had been       *)
(* passed; one that fails is soured if anyone had it in hand.               *)
LEMMA SettledRow ==
  ASSUME TypeOK, NEW p \in All, NEW status \in Statuses, SendSettles(p, status)
  PROVE  /\ RowsStay /\ HandsStay /\ NotesStay /\ late \subseteq late'
         /\ \A q \in Eligible' \ Eligible : q = p /\ (p <= pointer \/ ReadPast(p) => p \in late')
<1>1. row' = [row EXCEPT ![p] = status] /\ row[p] \in Statuses
  BY DEF SendSettles
<1>2. row'[p] = status /\ \A q \in All : q # p => row'[q] = row[q]
  BY <1>1 DEF TypeOK
<1>3. status # "none" /\ Statuses = {"queued", "sent", "failed", "delivered"}
  BY DEF Statuses, Above
<1>4. RowsStay
  BY <1>2, <1>3 DEF RowsStay, Stored
<1>5. /\ late' = IF status # "failed" /\ p \notin Eligible /\ (p <= pointer \/ ReadPast(p))
                 THEN late \cup {p} ELSE late
      /\ soured' = IF status = "failed" /\ p \in notes \cup InRuns THEN soured \cup {p}
                   ELSE soured
  BY DEF SendSettles
<1>6. ASSUME NEW q \in Said, q \in notes \cup InRuns PROVE q \in Said'
  <2>1. CASE q \in soured
    BY <1>5, <2>1 DEF Said
  <2>2. CASE q \in Eligible /\ q # p
    BY <1>2, <2>2 DEF Said, Eligible
  <2>3. CASE q = p /\ status = "failed"
    BY <1>5, <1>6, <2>3 DEF Said
  <2>4. CASE q = p /\ q \in Eligible /\ status # "failed"
    <3>1. status # "queued"
      BY DEF SendSettles, Statuses, Above
    <3>2. status \in {"sent", "delivered"}
      BY <1>3, <2>4, <3>1
    <3> QED
      BY <1>2, <2>4, <3>2 DEF Said, Eligible
  <2> QED
    BY <2>1, <2>2, <2>3, <2>4 DEF Said
<1>7. ASSUME NEW q \in Eligible' \ Eligible
      PROVE  q = p /\ (p <= pointer \/ ReadPast(p) => p \in late')
  <2>1. q = p
    BY <1>2 DEF Eligible
  <2>2. status # "failed"
    BY <1>2, <2>1 DEF Eligible
  <2> QED
    BY <1>5, <2>1, <2>2
<1> QED
  BY <1>4, <1>5, <1>6, <1>7 DEF HandsStay, NotesStay

(* An imported row is new, or takes the place of an erased one, or is there. *)
LEMMA ImportedRow ==
  ASSUME TypeOK, NEW p \in 1 .. Past, InsertRow(p)
  PROVE  /\ RowsStay /\ HandsStay /\ NotesStay /\ p \in Stored'
         /\ \A q \in Eligible' : q \in Eligible \/ q = p
         /\ ~(row[p] = "none" \/ p \in blank) => UNCHANGED <<row, blank, fresh, late>>
         /\ row[p] = "none" \/ p \in blank =>
              /\ blank' = blank \ {p} /\ fresh' = fresh \cup {p}
              /\ late' = IF ReadPast(p) THEN late \cup {p} ELSE late
<1>1. p \in All
  BY ConstantsAssumption DEF All
<1>2. \/ row[p] # "none" /\ row' = row
      \/ row' = [row EXCEPT ![p] = "in"]
  BY DEF InsertRow
<1>3. RowsStay /\ p \in Stored' /\ \A q \in Eligible' : q \in Eligible \/ q = p
  BY <1>1, <1>2 DEF RowsStay, Stored, Eligible, TypeOK, Kinds
<1>4. Eligible \subseteq Eligible' /\ UNCHANGED soured
  BY <1>1, <1>2 DEF Eligible, TypeOK, InsertRow
<1>5. Said \subseteq Said'
  BY <1>4 DEF Said
<1> QED
  BY <1>3, <1>5 DEF InsertRow, HandsStay, NotesStay

(* Where no row changes. *)
LEMMA SameRows == UNCHANGED row => RowsStay /\ UNCHANGED <<Stored, Eligible, Readable, Spoken>>
  BY DEF RowsStay, Stored, Eligible, Readable, Spoken

(* And what had failed in the hands of a run is remembered. *)
LEMMA SameHands == ASSUME UNCHANGED row, soured \cap InRuns \subseteq soured' PROVE HandsStay
<1>1. RowsStay /\ UNCHANGED Eligible
  BY SameRows
<1> QED
  BY <1>1 DEF HandsStay, Said

(* Or in the notes. *)
LEMMA SameNotes == ASSUME UNCHANGED <<row, soured>> PROVE NotesStay
<1>1. RowsStay /\ UNCHANGED Eligible
  BY SameRows
<1> QED
  BY <1>1 DEF NotesStay, Said

-----------------------------------------------------------------------------
(***************************************************************************)
(* The import.  What is left of a body is either stored or yet to be       *)
(* inserted, and a body that is marked lies behind the processed pointer.  *)
(***************************************************************************)
Importing ==
  /\ Working
  /\ step = "idle" => fresh = {}
  /\ step = "insert" => PlacesOf[job] \subseteq Stored \cup todo
  /\ step = "backfill" => \A p \in PlacesOf[job] : p <= processed
  /\ HistoryIsSettled

BodiesType == \A c \in Chunks : PlacesOf[c] \subseteq All /\ PlacesOf[c] # {}

(* The places of a body are places of the history. *)
LEMMA BodiesAreHistory == BodiesType
  BY ConstantsAssumption DEF BodiesType, All

(* The processed pointer only moves forward. *)
LEMMA ImportingKept ==
  ASSUME TypeOK, TypeOK', Importing, UNCHANGED importVars, RowsStay, processed <= processed'
  PROVE  Importing'
<1>1. \A c \in Chunks : \A p \in PlacesOf[c] : p <= processed => p <= processed'
  BY BodiesAreHistory DEF BodiesType, TypeOK, All
<1>2. UNCHANGED <<job, step, todo, fresh, done>> /\ Stored \subseteq Stored'
  BY DEF importVars, RowsStay
<1> QED
  BY <1>1, <1>2 DEF Importing, Working, HistoryIsSettled, TypeOK

(* What does not move the processed pointer keeps it in order. *)
LEMMA SameProcessed == ASSUME TypeOK, UNCHANGED processed PROVE processed <= processed'
  BY DEF TypeOK

(* Marking a body as processed never moves it back. *)
LEMMA MarkIsForward ==
  ASSUME TypeOK, Working, MarkProcessed
  PROVE  processed <= processed' /\ \A p \in PlacesOf[job] \cap Stored : p <= processed'
<1> DEFINE S == {processed} \cup {p \in Stored : p <= Max(PlacesOf[job])}
<1>1. S # {} /\ S \in SUBSET Bounded /\ processed \in S
  BY NumbersAreFinite DEF Stored, Bounded, TypeOK
<1>2. \A p \in S : p <= Max(S)
  <2> HIDE DEF S
  <2> QED
    BY <1>1, MaxIsLast
<1>3. PlacesOf[job] # {} /\ PlacesOf[job] \in SUBSET Bounded
  BY BodiesAreHistory, NumbersAreFinite DEF BodiesType, Working, MarkProcessed
<1>4. \A p \in PlacesOf[job] : p <= Max(PlacesOf[job])
  BY <1>3, MaxIsLast
<1>5. \A p \in PlacesOf[job] \cap Stored : p \in S
  BY <1>4
<1>6. processed' = Max(S)
  BY DEF MarkProcessed
<1> QED
  BY <1>1, <1>2, <1>5, <1>6

(* Nor does a turn. *)
LEMMA TurnIsForward ==
  ASSUME TypeOK, NEW k, NEW wake, Turn(k, wake)
  PROVE  processed <= processed'
<1> DEFINE S == {p \in All : row[p] = "in"}
<1>1. PICK p \in S : p > processed
  BY DEF Turn
<1>2. S \in SUBSET Bounded /\ S # {}
  BY <1>1, NumbersAreFinite
<1>3. processed' = Max(S)
  BY DEF Turn
<1>4. Max(S) \in S /\ \A q \in S : q <= Max(S)
  <2> HIDE DEF S
  <2> QED
    BY <1>2, MaxIsLast
<1>5. p \in Int /\ processed \in Int /\ processed' \in Int
  BY <1>3, <1>4 DEF All, TypeOK
<1>6. p <= processed'
  <2> HIDE DEF S
  <2> QED
    BY <1>3, <1>4
<1> QED
  BY <1>1, <1>5, <1>6

(* Every step keeps it. *)
LEMMA ImportStepInv ==
  ASSUME TypeOK, Importing, TypeOK', [Next]_vars
  PROVE  Importing'
<1>1. CASE GuestWrites
  <2>1. RowsStay /\ UNCHANGED <<importVars, processed>>
    BY <1>1, WriteIsLast DEF GuestWrites, Kinds
  <2> QED
    BY <2>1, SameProcessed, ImportingKept
<1>2. ASSUME NEW k \in 1 .. Window, NEW wake \in BOOLEAN, Turn(k, wake)
      PROVE  Importing'
  <2>1. RowsStay /\ UNCHANGED <<importVars>>
    BY <1>2, WriteIsLast, OutboundKinds DEF Turn
  <2> QED
    BY <1>2, <2>1, TurnIsForward, ImportingKept
<1>3. CASE SaveFactRow
  <2>1. RowsStay /\ UNCHANGED <<importVars, processed>>
    BY <1>3, WriteIsLast DEF SaveFactRow, Kinds
  <2> QED
    BY <2>1, SameProcessed, ImportingKept
<1>4. ASSUME NEW p \in All, NEW status \in Statuses, SendSettles(p, status)
      PROVE  Importing'
  BY <1>4, SettledRow, SameProcessed, ImportingKept DEF SendSettles
<1>5. CASE Nightly
  BY <1>5, SameRows, SameProcessed, ImportingKept DEF Nightly, threadVars, memoryVars, runVars,
       importVars
<1>6. ASSUME NEW s \in Slots, BeginRun(s) PROVE Importing'
  BY <1>6, SameRows, SameProcessed, ImportingKept DEF BeginRun, threadVars, memoryVars, runVars,
       importVars
<1>7. ASSUME NEW s \in Slots, ReadNothing(s) PROVE Importing'
  BY <1>7, SameRows, SameProcessed, ImportingKept DEF ReadNothing, EndRun, threadVars,
       memoryVars, runVars, importVars
<1>8. ASSUME NEW s \in Slots, NEW k \in 1 .. Window, NEW n \in 1 .. MaxRun, ReadRange(s, k, n)
      PROVE  Importing'
  BY <1>8, SameRows, SameProcessed, ImportingKept DEF ReadRange, threadVars, memoryVars, runVars,
       importVars
<1>9. ASSUME NEW s \in Slots, Apply(s) PROVE Importing'
  BY <1>9, SameRows, SameProcessed, ImportingKept DEF Apply, EndRun, threadVars, memoryVars,
       runVars, importVars
<1>10. ASSUME NEW s \in Slots, Lose(s) PROVE Importing'
  BY <1>10, SameRows, SameProcessed, ImportingKept DEF Lose, EndRun, threadVars, memoryVars,
       runVars, importVars
<1>11. ASSUME NEW c \in Chunks, BeginImport(c) PROVE Importing'
  BY <1>11 DEF BeginImport, Importing, Working, HistoryIsSettled, Stored, threadVars
<1>12. ASSUME NEW p \in 1 .. Past, InsertRow(p) PROVE Importing'
  <2>1. RowsStay /\ p \in Stored' /\ todo' = todo \ {p} /\ UNCHANGED <<job, step, processed, done>>
    BY <1>12, ImportedRow DEF InsertRow
  <2>2. step = "insert"
    BY <1>12 DEF InsertRow
  <2> QED
    BY <2>1, <2>2 DEF Importing, Working, HistoryIsSettled, RowsStay
<1>13. CASE MarkProcessed
  <2>1. step = "insert" /\ todo = {} /\ step' = "backfill" /\ UNCHANGED <<job, done>>
    BY <1>13 DEF MarkProcessed
  <2>2. PlacesOf[job] \subseteq Stored
    BY <2>1 DEF Importing
  <2>3. processed <= processed' /\ \A p \in PlacesOf[job] : p <= processed'
    BY <1>13, <2>2, MarkIsForward DEF Importing
  <2>4. \A c \in done : \A p \in PlacesOf[c] : p <= processed'
    BY <2>3, BodiesAreHistory DEF BodiesType, Importing, HistoryIsSettled, TypeOK, All
  <2> QED
    BY <2>1, <2>3, <2>4 DEF Importing, Working, HistoryIsSettled
<1>14. CASE Backfill
  BY <1>14 DEF Backfill, EndImport, Importing, Working, HistoryIsSettled
<1>15. CASE Erase
  BY <1>15, SameRows, SameProcessed, ImportingKept DEF Erase, Fault, threadVars, memoryVars,
       runVars, importVars
<1>16. ASSUME NEW s \in Slots, ModelFails(s) PROVE Importing'
  BY <1>16, SameRows, SameProcessed, ImportingKept DEF ModelFails, EndRun, Fault, threadVars,
       memoryVars, runVars, importVars
<1>17. ASSUME NEW s \in Slots, Overrun(s) PROVE Importing'
  BY <1>17, SameRows, SameProcessed, ImportingKept DEF Overrun, Fault, threadVars, memoryVars,
       runVars, importVars
<1>18. CASE BackfillFails
  BY <1>18 DEF BackfillFails, EndImport, Importing, Working, HistoryIsSettled
<1>19. ASSUME NEW again \in BOOLEAN, Crash(again) PROVE Importing'
  BY <1>19 DEF Crash, EndImport, Importing, Working, HistoryIsSettled
<1>20. CASE UNCHANGED vars
  BY <1>20, SameRows, SameProcessed, ImportingKept DEF vars, threadVars, memoryVars, runVars,
       importVars
<1> QED
  BY <1>1, <1>2, <1>3, <1>4, <1>5, <1>6, <1>7, <1>8, <1>9, <1>10, <1>11, <1>12, <1>13,
     <1>14, <1>15, <1>16, <1>17, <1>18, <1>19, <1>20
     DEF Next, ThreadStep, RunStep, ImportStep, FaultStep

-----------------------------------------------------------------------------
(***************************************************************************)
(* A run.  Its notes are those it has read, up to the pointer it has read. *)
(* What lies from there to the place it has chosen is in its text, but for *)
(* what was erased or has come late.                                       *)
(***************************************************************************)
Live(s) == pc[s] \in {"model", "apply"}

Between(s) == {p \in Eligible : seen[s] < p /\ p <= top[s]}

ReadInv(s) ==
  /\ base[s] \subseteq Said /\ \A p \in base[s] : p <= seen[s]
  /\ Live(s) =>
       /\ seen[s] < top[s] /\ top[s] \in Stored
       /\ text[s] \subseteq Said /\ \A p \in text[s] : p <= top[s]
       /\ Between(s) \subseteq text[s] \cup blank \cup late

Reading == \A s \in Slots : ReadInv(s)

(* Runs that a step leaves alone, when all that it lets in is late. *)
LEMMA ReadingKept ==
  ASSUME Reading, UNCHANGED runVars, HandsStay, late \subseteq late',
         \A s \in Slots, p \in (Eligible' \ Eligible) \cup (blank \ blank') :
           Live(s) /\ seen[s] < p /\ p <= top[s] => p \in late'
  PROVE  Reading'
<1> SUFFICES ASSUME NEW s \in Slots PROVE ReadInv(s)'
  BY DEF Reading
<1>1. ReadInv(s) /\ UNCHANGED <<pc, seen, base, text, top>>
  BY DEF Reading, runVars
<1>2. /\ Stored \subseteq Stored'
      /\ base[s] \subseteq Said => base[s] \subseteq Said'
      /\ text[s] \subseteq Said => text[s] \subseteq Said'
  BY RunsHold DEF HandsStay, RowsStay
<1>3. Live(s)' => Between(s)' \subseteq text[s] \cup blank' \cup late'
  <2> SUFFICES ASSUME Live(s)', NEW p \in Between(s)' PROVE p \in text[s] \cup blank' \cup late'
    OBVIOUS
  <2>1. Live(s) /\ p \in Eligible' /\ seen[s] < p /\ p <= top[s]
    BY <1>1 DEF Live, Between
  <2>2. CASE p \in Eligible /\ ~(p \in blank /\ p \notin blank')
    BY <1>1, <2>1, <2>2 DEF ReadInv, Between
  <2>3. CASE p \notin Eligible \/ (p \in blank /\ p \notin blank')
    BY <2>1, <2>3
  <2> QED
    BY <2>2, <2>3
<1> QED
  BY <1>1, <1>2, <1>3 DEF ReadInv, Live

(* A step that leaves the rows alone keeps what a run has read. *)
LEMMA SameRowsReading ==
  ASSUME Reading, UNCHANGED <<row, blank, runVars>>, late \subseteq late',
         soured \cap InRuns \subseteq soured'
  PROVE  Reading'
  BY ReadingKept, SameRows, SameHands

(* A run ends, or several do; the others are left alone. *)
LEMMA ReadingEnds ==
  ASSUME Reading, UNCHANGED <<row, blank, soured>>, late \subseteq late',
         \A s \in Slots :
           \/ pc'[s] = "idle" /\ base'[s] = {}
           \/ pc'[s] = pc[s] /\ seen'[s] = seen[s] /\ top'[s] = top[s] /\ base'[s] = base[s]
              /\ text'[s] = text[s]
  PROVE  Reading'
<1> SUFFICES ASSUME NEW s \in Slots PROVE ReadInv(s)'
  BY DEF Reading
<1>1. ReadInv(s) /\ UNCHANGED <<Eligible, Stored, Said>>
  BY SameRows DEF Reading, Said
<1> QED
  BY <1>1 DEF ReadInv, Live, Between

(* A run that ends holds nothing. *)
LEMMA EndRunEnds ==
  ASSUME TypeOK, NEW s \in Slots, EndRun(s)
  PROVE  \A o \in Slots :
           \/ pc'[o] = "idle" /\ base'[o] = {}
           \/ pc'[o] = pc[o] /\ seen'[o] = seen[o] /\ top'[o] = top[o] /\ base'[o] = base[o]
              /\ text'[o] = text[o]
  BY DEF EndRun, TypeOK

(***************************************************************************)
(* The notes: the pointer is null or at a row, and what lies behind it is  *)
(* in the notes or excused.                                                *)
(***************************************************************************)
Remembered ==
  /\ pointer = 0 \/ pointer \in Stored
  /\ NothingForgotten /\ NothingElse

(* A step that leaves notes and pointer alone, when all that it lets in     *)
(* behind the pointer is excused.                                           *)
LEMMA RememberedKept ==
  ASSUME Remembered, UNCHANGED memoryVars, NotesStay, late \subseteq late',
         blank \subseteq blank' \cup fresh', orphans \cup fresh \subseteq orphans' \cup fresh',
         \A p \in Eligible' \ Eligible : p <= pointer => p \in late' \cup fresh'
  PROVE  Remembered'
<1>1. UNCHANGED <<notes, pointer>> /\ Stored \subseteq Stored'
  BY DEF memoryVars, NotesStay, RowsStay
<1>3. \A p \in notes : p \in Eligible' \cup soured'
  BY DEF Remembered, NothingElse, NotesStay, Said
<1>2. ASSUME NEW p \in Eligible', p <= pointer'
      PROVE  p \in notes \cup blank' \cup late' \cup orphans' \cup fresh'
  <2>1. CASE p \in Eligible
    BY <1>1, <1>2, <2>1 DEF Remembered, NothingForgotten, NothingElse
  <2>2. CASE p \notin Eligible
    BY <1>1, <1>2, <2>2
  <2> QED
    BY <2>1, <2>2
<1> QED
  BY <1>1, <1>2, <1>3 DEF Remembered, NothingForgotten, NothingElse

(* A step that leaves rows and notes alone keeps what is remembered. *)
LEMMA SameRowsRemembered ==
  ASSUME Remembered, UNCHANGED <<row, blank, soured, memoryVars>>, late \subseteq late',
         orphans \cup fresh \subseteq orphans' \cup fresh'
  PROVE  Remembered'
  BY RememberedKept, SameRows, SameNotes

(* A text is erased only of a guest who is. *)
Untouched == ~erased => blank = {}

(* Every step keeps it. *)
LEMMA UntouchedStep ==
  ASSUME Untouched, [Next]_vars
  PROVE  Untouched'
<1> USE DEF Untouched, threadVars, memoryVars, runVars, importVars
<1>1. CASE GuestWrites
  BY <1>1 DEF GuestWrites, Write
<1>2. ASSUME NEW k \in 1 .. Window, NEW wake \in BOOLEAN, Turn(k, wake)
      PROVE  Untouched'
  BY <1>2 DEF Turn, Write
<1>3. CASE SaveFactRow
  BY <1>3 DEF SaveFactRow, Write
<1>4. ASSUME NEW p \in All, NEW status \in Statuses, SendSettles(p, status)
      PROVE  Untouched'
  BY <1>4 DEF SendSettles
<1>5. CASE Nightly
  BY <1>5 DEF Nightly
<1>6. ASSUME NEW s \in Slots, BeginRun(s) PROVE Untouched'
  BY <1>6 DEF BeginRun
<1>7. ASSUME NEW s \in Slots, ReadNothing(s) PROVE Untouched'
  BY <1>7 DEF ReadNothing, EndRun
<1>8. ASSUME NEW s \in Slots, NEW k \in 1 .. Window, NEW n \in 1 .. MaxRun, ReadRange(s, k, n)
      PROVE  Untouched'
  BY <1>8 DEF ReadRange
<1>9. ASSUME NEW s \in Slots, Apply(s) PROVE Untouched'
  BY <1>9 DEF Apply, EndRun
<1>10. ASSUME NEW s \in Slots, Lose(s) PROVE Untouched'
  BY <1>10 DEF Lose, EndRun
<1>11. ASSUME NEW c \in Chunks, BeginImport(c) PROVE Untouched'
  BY <1>11 DEF BeginImport, Fault
<1>12. ASSUME NEW p \in 1 .. Past, InsertRow(p) PROVE Untouched'
  BY <1>12 DEF InsertRow
<1>13. CASE MarkProcessed
  BY <1>13 DEF MarkProcessed
<1>14. CASE Backfill
  BY <1>14 DEF Backfill, EndImport
<1>15. CASE Erase
  BY <1>15 DEF Erase, Fault
<1>16. ASSUME NEW s \in Slots, ModelFails(s) PROVE Untouched'
  BY <1>16 DEF ModelFails, EndRun, Fault
<1>17. ASSUME NEW s \in Slots, Overrun(s) PROVE Untouched'
  BY <1>17 DEF Overrun, Fault
<1>18. CASE BackfillFails
  BY <1>18 DEF BackfillFails, EndImport, Fault
<1>19. ASSUME NEW again \in BOOLEAN, Crash(again) PROVE Untouched'
  BY <1>19 DEF Crash, EndImport, Fault
<1>20. CASE UNCHANGED vars
  BY <1>20 DEF vars
<1> QED
  BY <1>1, <1>2, <1>3, <1>4, <1>5, <1>6, <1>7, <1>8, <1>9, <1>10, <1>11, <1>12, <1>13,
     <1>14, <1>15, <1>16, <1>17, <1>18, <1>19, <1>20
     DEF Next, ThreadStep, RunStep, ImportStep, FaultStep

(* Every step keeps what the runs have read. *)
LEMMA ReadingStep ==
  ASSUME TypeOK, Untouched, Importing, Reading, Remembered, TypeOK', [Next]_vars
  PROVE  Reading'
<1>1. CASE GuestWrites
  <2>1. HandsStay /\ NotesStay /\ \A p \in Eligible' \ Eligible : \A q \in Stored : q < p
    BY <1>1, WriteIsLast DEF GuestWrites, Kinds
  <2>2. \A s \in Slots : Live(s) => top[s] \in Stored
    BY DEF Reading, ReadInv
  <2>3. \A s \in Slots, p \in Eligible' \ Eligible : Live(s) => ~(p <= top[s])
    BY <2>1, <2>2 DEF Stored, Eligible, All
  <2> QED
    BY <1>1, <2>1, <2>3, ReadingKept DEF GuestWrites, threadVars, Write
<1>2. ASSUME NEW k \in 1 .. Window, NEW wake \in BOOLEAN, Turn(k, wake)
      PROVE  Reading'
  <2>1. HandsStay /\ NotesStay /\ \A p \in Eligible' \ Eligible : \A q \in Stored : q < p
    BY <1>2, WriteIsLast, OutboundKinds DEF Turn
  <2>2. \A s \in Slots : Live(s) => top[s] \in Stored
    BY DEF Reading, ReadInv
  <2>3. \A s \in Slots, p \in Eligible' \ Eligible : Live(s) => ~(p <= top[s])
    BY <2>1, <2>2 DEF Stored, Eligible, All
  <2> QED
    BY <1>2, <2>1, <2>3, ReadingKept DEF Turn, threadVars, Write
<1>3. CASE SaveFactRow
  <2>1. HandsStay /\ NotesStay /\ \A p \in Eligible' \ Eligible : \A q \in Stored : q < p
    BY <1>3, WriteIsLast DEF SaveFactRow, Kinds
  <2>2. \A s \in Slots : Live(s) => top[s] \in Stored
    BY DEF Reading, ReadInv
  <2>3. \A s \in Slots, p \in Eligible' \ Eligible : Live(s) => ~(p <= top[s])
    BY <2>1, <2>2 DEF Stored, Eligible, All
  <2> QED
    BY <1>3, <2>1, <2>3, ReadingKept DEF SaveFactRow, threadVars, Write
<1>4. ASSUME NEW p \in All, NEW status \in Statuses, SendSettles(p, status)
      PROVE  Reading'
  <2>1. /\ HandsStay /\ late \subseteq late'
        /\ \A q \in Eligible' \ Eligible : q = p /\ (ReadPast(p) => p \in late')
    BY <1>4, SettledRow
  <2>2. UNCHANGED <<blank, runVars>>
    BY <1>4 DEF SendSettles
  <2>3. ASSUME NEW s \in Slots, Live(s), seen[s] < p, p <= top[s] PROVE ReadPast(p)
    BY <2>3 DEF ReadPast, Live
  <2> QED
    BY <2>1, <2>2, <2>3, ReadingKept
<1>5. CASE Nightly
  BY <1>5, SameRowsReading DEF Nightly, threadVars
<1>6. ASSUME NEW s \in Slots, BeginRun(s) PROVE Reading'
  <2>1. notes \subseteq Said /\ \A p \in notes : p <= pointer
    BY DEF Remembered, NothingElse, Said
  <2>2. UNCHANGED <<row, blank, soured, text, top, late>>
    BY <1>6 DEF BeginRun, threadVars
  <2>3. UNCHANGED <<Eligible, Stored, Said>>
    BY <2>2, SameRows DEF Said
  <2>4. ASSUME NEW o \in Slots PROVE ReadInv(o)'
    <3>1. ReadInv(o)
      BY DEF Reading
    <3>2. CASE o = s
      <4>1. pc'[s] = "read" /\ seen'[s] = pointer /\ base'[s] = notes
        BY <1>6 DEF BeginRun, TypeOK
      <4> QED
        BY <2>1, <2>3, <3>2, <4>1 DEF ReadInv, Live
    <3>3. CASE o # s
      <4>1. pc'[o] = pc[o] /\ seen'[o] = seen[o] /\ base'[o] = base[o]
        BY <1>6, <3>3 DEF BeginRun, TypeOK
      <4> QED
        BY <2>2, <2>3, <3>1, <4>1 DEF ReadInv, Live, Between
    <3> QED
      BY <3>2, <3>3
  <2> QED
    BY <2>4 DEF Reading
<1>7. ASSUME NEW s \in Slots, ReadNothing(s) PROVE Reading'
  BY <1>7, EndRunEnds, ReadingEnds DEF ReadNothing, threadVars
<1>8. ASSUME NEW s \in Slots, NEW k \in 1 .. Window, NEW n \in 1 .. MaxRun, ReadRange(s, k, n)
      PROVE  Reading'
  <2> DEFINE some == Portion(s, k, n)
  <2>1. Gap(s, k) \in SUBSET All /\ Gap(s, k) # {} /\ some = First(Gap(s, k), n)
    BY <1>8 DEF ReadRange, Gap, Readable, Eligible, Portion, First, Before
  <2>2. n \in Nat \ {0}
    BY ConstantsAssumption
  <2>3. /\ Max(some) \in some /\ some \subseteq Gap(s, k)
        /\ \A p \in some : p <= Max(some)
        /\ \A p \in Gap(s, k) : p <= Max(some) => p \in some
    <3>1. some \subseteq Gap(s, k)
      BY <2>1 DEF First
    <3> HIDE DEF some
    <3> QED
      BY <2>1, <2>2, <3>1, FirstIsAStretch
  <2>4. Start(k) \in All
    BY <1>8, StartIsAPlace DEF ReadRange
  <2>5. Gap(s, k) = {p \in Readable : p > seen[s] /\ p < Start(k)}
    BY DEF Gap
  <2>6. \A p \in Eligible : seen[s] < p /\ p <= Max(some) => p \in some \cap Spoken
    <3> SUFFICES ASSUME NEW p \in Eligible, seen[s] < p, p <= Max(some) PROVE p \in some \cap Spoken
      OBVIOUS
    <3> HIDE DEF some
    <3>1. Max(some) \in All /\ Max(some) < Start(k)
      BY <2>1, <2>3, <2>5
    <3>2. p \in All /\ p < Start(k)
      BY <2>4, <3>1 DEF All, Eligible
    <3>3. p \in Readable /\ p \in Spoken
      BY DEF Eligible, Readable, Spoken, Stored
    <3>4. p > seen[s]
      BY <3>2 DEF All, TypeOK
    <3> QED
      BY <2>3, <2>5, <3>2, <3>3, <3>4
  <2>7. some \cap Spoken \subseteq Eligible
    <3>1. some \subseteq Readable
      BY <2>3, <2>5
    <3> QED
      BY <3>1 DEF Readable, Eligible, Spoken
  <2>8. UNCHANGED <<row, blank, soured, late, seen, base>>
    BY <1>8 DEF ReadRange, threadVars
  <2>9. UNCHANGED <<Eligible, Stored, Said>> /\ Eligible \subseteq Said /\ Readable \subseteq Stored
    BY <2>8, SameRows DEF Said, Readable, Eligible, Stored
  <2>10. ASSUME NEW o \in Slots PROVE ReadInv(o)'
    <3>1. ReadInv(o)
      BY DEF Reading
    <3>2. CASE o = s
      <4>1. top'[s] = Max(some) /\ text'[s] = (some \cap Spoken) \ blank
        BY <1>8 DEF ReadRange, TypeOK
      <4> HIDE DEF some
      <4>2. seen[s] < Max(some) /\ Max(some) \in Stored
        <5>1. Max(some) \in Readable /\ Max(some) > seen[s]
          BY <2>3, <2>5
        <5>2. Max(some) \in All
          BY <5>1 DEF Readable, Eligible
        <5> QED
          BY <2>9, <5>1, <5>2 DEF TypeOK, All
      <4>3. Between(s)' \subseteq text'[s] \cup blank
        BY <2>6, <2>8, <2>9, <4>1 DEF Between
      <4>4. text'[s] \subseteq Said /\ \A p \in text'[s] : p <= Max(some)
        BY <2>3, <2>7, <2>9, <4>1
      <4> QED
        BY <2>8, <2>9, <3>1, <3>2, <4>1, <4>2, <4>3, <4>4 DEF ReadInv
    <3>3. CASE o # s
      <4>1. pc'[o] = pc[o] /\ top'[o] = top[o] /\ text'[o] = text[o]
        BY <1>8, <3>3 DEF ReadRange, TypeOK
      <4> QED
        BY <2>8, <2>9, <3>1, <4>1 DEF ReadInv, Live, Between
    <3> QED
      BY <3>2, <3>3
  <2> QED
    BY <2>10 DEF Reading
<1>9. ASSUME NEW s \in Slots, Apply(s) PROVE Reading'
  BY <1>9, EndRunEnds, ReadingEnds DEF Apply, threadVars
<1>10. ASSUME NEW s \in Slots, Lose(s) PROVE Reading'
  BY <1>10, EndRunEnds, ReadingEnds DEF Lose, threadVars
<1>11. ASSUME NEW c \in Chunks, BeginImport(c) PROVE Reading'
  BY <1>11, SameRowsReading DEF BeginImport, Fault, threadVars
<1>12. ASSUME NEW p \in 1 .. Past, InsertRow(p) PROVE Reading'
  <2>1. HandsStay /\ NotesStay /\ (\A q \in Eligible' : q \in Eligible \/ q = p)
    BY <1>12, ImportedRow
  <2>2. CASE ~(row[p] = "none" \/ p \in blank)
    BY <1>12, <2>2, ImportedRow, SameRowsReading DEF InsertRow
  <2>3. CASE row[p] = "none" \/ p \in blank
    <3>1. blank' = blank \ {p} /\ late' = IF ReadPast(p) THEN late \cup {p} ELSE late
      BY <1>12, <2>3, ImportedRow
    <3>2. ASSUME NEW s \in Slots, Live(s), seen[s] < p, p <= top[s] PROVE ReadPast(p)
      BY <3>2 DEF ReadPast, Live
    <3> QED
      BY <1>12, <2>1, <3>1, <3>2, ReadingKept DEF InsertRow
  <2> QED
    BY <2>2, <2>3
<1>13. CASE MarkProcessed
  BY <1>13, SameRowsReading DEF MarkProcessed, threadVars
<1>14. CASE Backfill
  BY <1>14, SameRowsReading DEF Backfill, EndImport, threadVars
<1>15. CASE Erase
  <2>1. UNCHANGED <<row, runVars, late>> /\ blank \subseteq blank' /\ soured' = soured \cap InRuns
    BY <1>15 DEF Erase, Untouched
  <2> QED
    BY <2>1, SameRows, SameHands, ReadingKept
<1>16. ASSUME NEW s \in Slots, ModelFails(s) PROVE Reading'
  BY <1>16, EndRunEnds, ReadingEnds DEF ModelFails, threadVars
<1>17. ASSUME NEW s \in Slots, Overrun(s) PROVE Reading'
  BY <1>17, ReadingEnds DEF Overrun, threadVars
<1>18. CASE BackfillFails
  BY <1>18, SameRowsReading DEF BackfillFails, EndImport, Fault, threadVars
<1>19. ASSUME NEW again \in BOOLEAN, Crash(again) PROVE Reading'
  BY <1>19, ReadingEnds DEF Crash, threadVars
<1>20. CASE UNCHANGED vars
  BY <1>20, SameRowsReading DEF vars, threadVars
<1> QED
  BY <1>1, <1>2, <1>3, <1>4, <1>5, <1>6, <1>7, <1>8, <1>9, <1>10, <1>11, <1>12, <1>13,
     <1>14, <1>15, <1>16, <1>17, <1>18, <1>19, <1>20
     DEF Next, ThreadStep, RunStep, ImportStep, FaultStep

(* Every step keeps what is in the notes. *)
LEMMA RememberedStep ==
  ASSUME TypeOK, Untouched, Importing, Reading, Remembered, TypeOK', [Next]_vars
  PROVE  Remembered'
<1>1. CASE GuestWrites
  <2>1. HandsStay /\ NotesStay /\ \A p \in Eligible' \ Eligible : \A q \in Stored : q < p
    BY <1>1, WriteIsLast DEF GuestWrites, Kinds
  <2>2. pointer = 0 \/ pointer \in Stored
    BY DEF Remembered
  <2>3. \A p \in Eligible' \ Eligible : ~(p <= pointer)
    BY <2>1, <2>2 DEF Stored, Eligible, All
  <2> QED
    BY <1>1, <2>1, <2>3, RememberedKept DEF GuestWrites, Write, importVars
<1>2. ASSUME NEW k \in 1 .. Window, NEW wake \in BOOLEAN, Turn(k, wake)
      PROVE  Remembered'
  <2>1. HandsStay /\ NotesStay /\ \A p \in Eligible' \ Eligible : \A q \in Stored : q < p
    BY <1>2, WriteIsLast, OutboundKinds DEF Turn
  <2>2. pointer = 0 \/ pointer \in Stored
    BY DEF Remembered
  <2>3. \A p \in Eligible' \ Eligible : ~(p <= pointer)
    BY <2>1, <2>2 DEF Stored, Eligible, All
  <2> QED
    BY <1>2, <2>1, <2>3, RememberedKept DEF Turn, Write, importVars
<1>3. CASE SaveFactRow
  <2>1. HandsStay /\ NotesStay /\ \A p \in Eligible' \ Eligible : \A q \in Stored : q < p
    BY <1>3, WriteIsLast DEF SaveFactRow, Kinds
  <2>2. pointer = 0 \/ pointer \in Stored
    BY DEF Remembered
  <2>3. \A p \in Eligible' \ Eligible : ~(p <= pointer)
    BY <2>1, <2>2 DEF Stored, Eligible, All
  <2> QED
    BY <1>3, <2>1, <2>3, RememberedKept DEF SaveFactRow, Write, importVars
<1>4. ASSUME NEW p \in All, NEW status \in Statuses, SendSettles(p, status)
      PROVE  Remembered'
  <2>1. /\ NotesStay /\ late \subseteq late'
        /\ \A q \in Eligible' \ Eligible : q = p /\ (p <= pointer => p \in late')
    BY <1>4, SettledRow
  <2>2. UNCHANGED <<memoryVars, blank, orphans, fresh>>
    BY <1>4 DEF SendSettles, importVars
  <2> QED
    BY <2>1, <2>2, RememberedKept
<1>5. CASE Nightly
  BY <1>5, SameRowsRemembered DEF Nightly, threadVars, importVars
<1>6. ASSUME NEW s \in Slots, BeginRun(s) PROVE Remembered'
  BY <1>6, SameRowsRemembered DEF BeginRun, threadVars, importVars
<1>7. ASSUME NEW s \in Slots, ReadNothing(s) PROVE Remembered'
  BY <1>7, SameRowsRemembered DEF ReadNothing, EndRun, threadVars, importVars
<1>8. ASSUME NEW s \in Slots, NEW k \in 1 .. Window, NEW n \in 1 .. MaxRun, ReadRange(s, k, n)
      PROVE  Remembered'
  BY <1>8, SameRowsRemembered DEF ReadRange, threadVars, importVars
<1>9. ASSUME NEW s \in Slots, Apply(s) PROVE Remembered'
  <2>1. /\ pc[s] \in {"model", "apply"} /\ pointer = seen[s]
        /\ pointer' = top[s] /\ notes' = base[s] \cup text[s] /\ late' = late \cup (notes \ notes')
        /\ UNCHANGED <<row, blank, soured, orphans, fresh>>
    BY <1>9 DEF Apply, threadVars, importVars
  <2>2. ReadInv(s) /\ Live(s) /\ seen[s] = pointer
    BY <2>1 DEF Reading, Live
  <2>3. UNCHANGED <<Eligible, Stored>>
    BY <2>1, SameRows
  <2>4. \A p \in notes' : p <= pointer' /\ p \in Said
    <3>1. \A p \in base[s] : p \in All /\ p <= top[s]
      BY <2>2 DEF ReadInv, Stored, All, TypeOK
    <3> QED
      BY <2>1, <2>2, <3>1 DEF ReadInv
  <2>5. ASSUME NEW p \in Eligible, p <= pointer'
        PROVE  p \in notes' \cup blank \cup late' \cup orphans \cup fresh
    <3>1. CASE p <= pointer
      BY <2>1, <2>5, <3>1 DEF Remembered, NothingForgotten, NothingElse
    <3>2. CASE ~(p <= pointer)
      <4>1. seen[s] < p /\ p <= top[s]
        BY <2>1, <2>2, <2>5, <3>2 DEF TypeOK, Eligible, All
      <4> QED
        BY <2>1, <2>2, <2>5, <4>1 DEF ReadInv, Between
    <3> QED
      BY <3>1, <3>2
  <2>6. pointer' \in Stored
    BY <2>1, <2>2 DEF ReadInv
  <2> QED
    BY <2>1, <2>3, <2>4, <2>5, <2>6 DEF Remembered, NothingForgotten, NothingElse, Said
<1>10. ASSUME NEW s \in Slots, Lose(s) PROVE Remembered'
  BY <1>10, SameRowsRemembered DEF Lose, EndRun, threadVars, importVars
<1>11. ASSUME NEW c \in Chunks, BeginImport(c) PROVE Remembered'
  BY <1>11, SameRowsRemembered DEF BeginImport, Importing, threadVars
<1>12. ASSUME NEW p \in 1 .. Past, InsertRow(p) PROVE Remembered'
  <2>1. HandsStay /\ NotesStay /\ (\A q \in Eligible' : q \in Eligible \/ q = p)
    BY <1>12, ImportedRow
  <2>2. CASE ~(row[p] = "none" \/ p \in blank)
    BY <1>12, <2>2, ImportedRow, SameRowsRemembered DEF InsertRow
  <2>3. CASE row[p] = "none" \/ p \in blank
    <3>1. /\ blank' = blank \ {p} /\ fresh' = fresh \cup {p} /\ late \subseteq late'
      BY <1>12, <2>3, ImportedRow
    <3> QED
      BY <1>12, <2>1, <3>1, RememberedKept DEF InsertRow
  <2> QED
    BY <2>2, <2>3
<1>13. CASE MarkProcessed
  BY <1>13, SameRowsRemembered DEF MarkProcessed, threadVars, importVars
<1>14. CASE Backfill
  <2>1. UNCHANGED <<row, blank, late, orphans>> /\ fresh' = {}
    BY <1>14 DEF Backfill, EndImport, threadVars
  <2>2. UNCHANGED <<Eligible, Stored>>
    BY <2>1, SameRows
  <2>3. CASE fresh # {} /\ pointer # 0 /\ pointer >= Min(fresh)
    <3>1. pointer' = 0 /\ notes' = {}
      BY <1>14, <2>3 DEF Backfill
    <3>2. \A p \in Eligible : ~(p <= 0)
      BY DEF Eligible, All
    <3> QED
      BY <2>2, <3>1, <3>2 DEF Remembered, NothingForgotten, NothingElse
  <2>4. CASE ~(fresh # {} /\ pointer # 0 /\ pointer >= Min(fresh))
    <3>1. UNCHANGED <<memoryVars, soured>>
      BY <1>14, <2>4 DEF Backfill
    <3>2. fresh \in SUBSET Bounded /\ fresh \subseteq All
      BY NumbersAreFinite DEF TypeOK
    <3>3. ASSUME NEW p \in fresh, p <= pointer PROVE FALSE
      <4>1. Min(fresh) \in fresh /\ Min(fresh) <= p
        BY <3>2, MinIsFirst
      <4>2. p \in 1 .. Places /\ Min(fresh) \in 1 .. Places /\ pointer \in 0 .. Places
        BY <3>2, <4>1 DEF All, TypeOK
      <4>3. pointer >= Min(fresh) /\ pointer # 0
        BY <3>3, <4>1, <4>2
      <4> QED
        BY <2>4, <3>3, <4>3
    <3> QED
      BY <2>1, <2>2, <3>1, <3>3 DEF Remembered, NothingForgotten, NothingElse, memoryVars
  <2> QED
    BY <2>3, <2>4
<1>15. CASE Erase
  <2>1. notes' = {} /\ blank' = Stored /\ UNCHANGED <<row, pointer>>
    BY <1>15 DEF Erase
  <2>2. UNCHANGED <<Eligible, Stored>> /\ Eligible \subseteq Stored
    BY <2>1, SameRows DEF Eligible, Stored
  <2> QED
    BY <2>1, <2>2 DEF Remembered, NothingForgotten, NothingElse
<1>16. ASSUME NEW s \in Slots, ModelFails(s) PROVE Remembered'
  BY <1>16, SameRowsRemembered DEF ModelFails, EndRun, Fault, threadVars, importVars
<1>17. ASSUME NEW s \in Slots, Overrun(s) PROVE Remembered'
  BY <1>17, SameRowsRemembered DEF Overrun, Fault, threadVars, importVars
<1>18. CASE BackfillFails
  BY <1>18, SameRowsRemembered DEF BackfillFails, threadVars
<1>19. ASSUME NEW again \in BOOLEAN, Crash(again) PROVE Remembered'
  BY <1>19, SameRowsRemembered DEF Crash, EndImport, threadVars
<1>20. CASE UNCHANGED vars
  BY <1>20, SameRowsRemembered DEF vars, threadVars, importVars
<1> QED
  BY <1>1, <1>2, <1>3, <1>4, <1>5, <1>6, <1>7, <1>8, <1>9, <1>10, <1>11, <1>12, <1>13,
     <1>14, <1>15, <1>16, <1>17, <1>18, <1>19, <1>20
     DEF Next, ThreadStep, RunStep, ImportStep, FaultStep

-----------------------------------------------------------------------------
(***************************************************************************)
(* The erasure.  A text that may still come into the notes of an erased     *)
(* guest was in hand at the erasure: it is in the notes already, in the     *)
(* memory of a run, in the thread again, or has yet to be inserted.         *)
(***************************************************************************)
Held ==
  erased =>
    /\ notes \subseteq held
    /\ \A s \in Slots : base[s] \subseteq held /\ text[s] \subseteq held
    /\ Stored \ blank \subseteq held
    /\ todo \subseteq held

(* A step of an erased guest's thread brings nothing new. *)
LEMMA HeldKept ==
  ASSUME Held, UNCHANGED <<erased, held, blank>>, Stored' \subseteq Stored,
         notes' \subseteq notes, todo' \subseteq todo,
         \A s \in Slots : base'[s] \subseteq base[s] /\ text'[s] \subseteq text[s]
  PROVE  Held'
  BY DEF Held

(* A run that ends forgets what it had in hand. *)
LEMMA EndRunForgets ==
  ASSUME TypeOK, NEW s \in Slots, EndRun(s)
  PROVE  \A o \in Slots : base'[o] \subseteq base[o] /\ text'[o] \subseteq text[o]
  BY DEF EndRun, TypeOK

(* Nothing comes into the hands of anyone after the erasure. *)
LEMMA HeldStep ==
  ASSUME TypeOK, TypeOK', Held, [Next]_vars
  PROVE  Held'
<1> USE DEF threadVars, memoryVars, runVars, importVars
<1>1. ASSUME NEW kind, Write(kind), UNCHANGED erased PROVE Held'
  BY <1>1 DEF Write, Held
<1>2. CASE GuestWrites
  BY <1>1, <1>2 DEF GuestWrites
<1>3. ASSUME NEW k \in 1 .. Window, NEW wake \in BOOLEAN, Turn(k, wake) PROVE Held'
  BY <1>1, <1>3 DEF Turn
<1>4. CASE SaveFactRow
  BY <1>1, <1>4 DEF SaveFactRow
<1>5. ASSUME NEW p \in All, NEW status \in Statuses, SendSettles(p, status) PROVE Held'
  <2>1. Stored' \subseteq Stored
    BY <1>5, OutboundKinds DEF SendSettles, Stored, TypeOK
  <2> QED
    BY <1>5, <2>1, HeldKept DEF SendSettles
<1>6. CASE Nightly
  BY <1>6, SameRows, HeldKept DEF Nightly
<1>7. ASSUME NEW s \in Slots, BeginRun(s) PROVE Held'
  <2>1. \A o \in Slots : base'[o] = base[o] \/ base'[o] = notes
    BY <1>7 DEF BeginRun, TypeOK
  <2>2. UNCHANGED <<Stored, blank, erased, held, notes, todo, text>>
    BY <1>7, SameRows DEF BeginRun
  <2> QED
    BY <2>1, <2>2 DEF Held
<1>8. ASSUME NEW s \in Slots, ReadNothing(s) PROVE Held'
  BY <1>8, SameRows, EndRunForgets, HeldKept DEF ReadNothing
<1>9. ASSUME NEW s \in Slots, NEW k \in 1 .. Window, NEW n \in 1 .. MaxRun, ReadRange(s, k, n)
      PROVE  Held'
  <2>1. \A o \in Slots : text'[o] = text[o] \/ text'[o] \subseteq Stored \ blank
    <3>1. (Portion(s, k, n) \cap Spoken) \ blank \subseteq Stored \ blank
      BY DEF Spoken
    <3>2. text' = [text EXCEPT ![s] = (Portion(s, k, n) \cap Spoken) \ blank]
      BY <1>9 DEF ReadRange
    <3> QED
      BY <3>1, <3>2 DEF TypeOK
  <2>2. UNCHANGED <<Stored, blank, erased, held, notes, todo, base>>
    BY <1>9, SameRows DEF ReadRange
  <2> QED
    BY <2>1, <2>2 DEF Held
<1>10. ASSUME NEW s \in Slots, Apply(s) PROVE Held'
  <2>1. notes' = base[s] \cup text[s] /\ UNCHANGED <<Stored, blank, erased, held, todo>>
    BY <1>10, SameRows DEF Apply
  <2>2. \A o \in Slots : base'[o] \subseteq base[o] /\ text'[o] \subseteq text[o]
    BY <1>10, EndRunForgets DEF Apply
  <2> QED
    BY <2>1, <2>2 DEF Held
<1>11. ASSUME NEW s \in Slots, Lose(s) PROVE Held'
  BY <1>11, SameRows, EndRunForgets, HeldKept DEF Lose
<1>12. ASSUME NEW c \in Chunks, BeginImport(c) PROVE Held'
  BY <1>12 DEF BeginImport, Held
<1>13. ASSUME NEW p \in 1 .. Past, InsertRow(p) PROVE Held'
  <2>1. p \in todo /\ todo' = todo \ {p} /\ UNCHANGED <<erased, held, notes, base, text>>
    BY <1>13 DEF InsertRow
  <2>2. Stored' \ blank' \subseteq (Stored \ blank) \cup {p}
    <3>1. \/ UNCHANGED <<row, blank>>
          \/ row' = [row EXCEPT ![p] = "in"] /\ blank' = blank \ {p}
      BY <1>13 DEF InsertRow
    <3> QED
      BY <3>1 DEF Stored, TypeOK
  <2> QED
    BY <2>1, <2>2 DEF Held
<1>14. CASE MarkProcessed
  BY <1>14, SameRows, HeldKept DEF MarkProcessed
<1>15. CASE Backfill
  <2>1. notes' \subseteq notes /\ todo' = {} /\ UNCHANGED <<row, blank, erased, held, base, text>>
    BY <1>15 DEF Backfill, EndImport
  <2> QED
    BY <2>1, SameRows, HeldKept
<1>16. CASE Erase
  <2>1. /\ blank' = Stored /\ notes' = {} /\ UNCHANGED <<row, base, text, todo>>
        /\ held' = InRuns \cup todo
    BY <1>16 DEF Erase
  <2>2. UNCHANGED Stored
    BY <2>1, SameRows
  <2> QED
    BY <2>1, <2>2, RunsHold DEF Held
<1>17. ASSUME NEW s \in Slots, ModelFails(s) PROVE Held'
  BY <1>17, SameRows, EndRunForgets, HeldKept DEF ModelFails
<1>18. ASSUME NEW s \in Slots, Overrun(s) PROVE Held'
  BY <1>18, SameRows, HeldKept DEF Overrun
<1>19. CASE BackfillFails
  BY <1>19, SameRows, HeldKept DEF BackfillFails, EndImport
<1>20. ASSUME NEW again \in BOOLEAN, Crash(again) PROVE Held'
  BY <1>20, SameRows, HeldKept DEF Crash, EndImport
<1>21. CASE UNCHANGED vars
  BY <1>21, SameRows, HeldKept DEF vars
<1> QED
  BY <1>2, <1>3, <1>4, <1>5, <1>6, <1>7, <1>8, <1>9, <1>10, <1>11, <1>12, <1>13,
     <1>14, <1>15, <1>16, <1>17, <1>18, <1>19, <1>20, <1>21
     DEF Next, ThreadStep, RunStep, ImportStep, FaultStep

-----------------------------------------------------------------------------
Inv == TypeOK /\ Untouched /\ Importing /\ Reading /\ Remembered /\ Held

(* An empty thread is as Inv says. *)
LEMMA InitInv == Init => Inv
<1> SUFFICES ASSUME Init PROVE Inv
  OBVIOUS
<1>1. TypeOK
  <2>1. 0 \in 0 .. Places /\ 0 \in 0 .. MaxFaults /\ 0 \in 0 .. MaxAttempts /\ "none" \in Kinds
    BY ConstantsAssumption DEF Kinds
  <2> QED
    BY <2>1 DEF Init, TypeOK
<1>2. Untouched /\ Importing /\ Held
  BY DEF Init, Untouched, Importing, Working, HistoryIsSettled, Held
<1>3. Reading
  BY DEF Init, Reading, ReadInv, Live
<1>4. Remembered
  BY DEF Init, Remembered, NothingForgotten, NothingElse, Eligible
<1> QED
  BY <1>1, <1>2, <1>3, <1>4 DEF Inv

(* Every step keeps the invariant. *)
LEMMA NextInv == Inv /\ [Next]_vars => Inv'
<1> SUFFICES ASSUME Inv, [Next]_vars PROVE Inv'
  OBVIOUS
<1>1. TypeOK'
  BY TypeStep DEF Inv, Importing
<1> QED
  BY <1>1, UntouchedStep, ImportStepInv, ReadingStep, RememberedStep, HeldStep DEF Inv

(* The inductive invariant: the notes, what the runs have read and what the *)
(* import has in hand, for both are written to the thread later.            *)
THEOREM Inductive == Spec => []Inv
<1> QED
  BY InitInv, NextInv, PTL DEF Spec

(* Every variable of the memory keeps to its type. *)
THEOREM TypeCorrect == Spec => []TypeOK
<1>1. Inv => TypeOK
  BY DEF Inv
<1> QED
  BY <1>1, Inductive, PTL

(* Nothing that the guest has read is lost between the window and the notes *)
(* but for what came late, was erased or was left by an import that died,   *)
(* and no run brings back what an erasure took but what was in hand at it:  *)
(* db/summaries.ts, applyConversationSummary; db/erasure.ts.                *)
THEOREM NotesAreTrueSafe == Spec => []NotesAreTrue
<1>1. Inv => NotesAreTrue
  BY DEF Inv, Remembered, Held, NotesAreTrue, NothingComesBack
<1> QED
  BY <1>1, Inductive, PTL

(* No message of a body of history is answered once its import is complete: *)
(* db/repos.ts, markConversationHistoryProcessed.                           *)
THEOREM HistoryIsSettledSafe == Spec => []HistoryIsSettled
<1>1. Inv => HistoryIsSettled
  BY DEF Inv, Importing
<1> QED
  BY <1>1, Inductive, PTL

=============================================================================
