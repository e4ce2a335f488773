-------------------------------- MODULE Memory --------------------------------
(***************************************************************************)
(* What the assistant remembers of one thread: the window of its last      *)
(* messages (brain/contextBuilder.ts), and the notes that the summariser   *)
(* makes of what is older (brain/summariser.ts, db/summaries.ts), while    *)
(* the history of the number is imported out of order (wa/history.ts) and  *)
(* the guest may be erased (db/erasure.ts).                                *)
(*                                                                         *)
(* A message is its place in the order of (created_at, id): the import     *)
(* fills the places 1 .. Past, the live thread those after them.  Places   *)
(* below a message may thus be filled after it.                            *)
(***************************************************************************)
EXTENDS Integers, FiniteSets, FiniteSetsExt

CONSTANTS
  Past,             (* Places of the history. *)
  Places,           (* How many places there are. *)
  Chunks,           (* Webhook bodies with history. *)
  PlacesOf,         (* The messages of a body. *)
  NoChunk,
  Slots,            (* Handlers of conversation.summarise. *)
  Window,           (* TRANSCRIPT_MAX_MESSAGES: 30. *)
  MinUnsummarised,  (* 20. *)
  MaxRun,           (* What one run compacts at most: 200 messages. *)
  MaxAttempts,      (* Deliveries and retries of a history job. *)
  MaxFaults         (* Bounds failures, also of sends, overruns, repeats and erasure. *)

ASSUME ConstantsAssumption ==
  /\ Past \in Nat /\ Places \in Nat /\ Past <= Places
  /\ PlacesOf \in [Chunks -> (SUBSET (1 .. Past)) \ {{}}]
  /\ NoChunk \notin Chunks
  /\ Window \in Nat \ {0} /\ MinUnsummarised \in Nat \ {0} /\ MaxRun \in Nat \ {0}
  /\ MaxAttempts \in Nat /\ MaxFaults \in Nat

VARIABLES
  (* The database. *)
  row,              (* What is at a place. *)
  blank,            (* Messages whose text is erased. *)
  notes,            (* conversations.summary: the messages it tells of. *)
  pointer,          (* summary_upto_message_id; 0 is null. *)
  processed,        (* last_processed_message_id; 0 is null. *)
  queued,           (* A summarise job waits for the thread. *)
  erased,           (* The guest is. *)
  (* The handlers of the summariser. *)
  pc,               (* "idle", "read", "model" or "apply". *)
  seen, base,       (* The pointer and the notes that the run has read. *)
  text, top,        (* What the model is told; the pointer to store. *)
  overrun,          (* Handlers whose job has expired under them. *)
  (* The import. *)
  job, step,        (* The body in hand; "idle", "insert" or "backfill". *)
  todo, fresh,      (* Its rows to insert; those that were new. *)
  attempts,         (* Of a history job. *)
  (* History. *)
  done,             (* Bodies of which an import has completed. *)
  late,             (* Messages that turned up behind a run, or that it overwrote. *)
  orphans,          (* New rows of an import that never came to its rewind. *)
  soured,           (* Sends that failed when they were in the notes or in a run's hands. *)
  held,             (* What runs and imports had in hand when the guest was erased. *)
  faults

threadVars == <<row, blank, erased, held, soured>>
memoryVars == <<notes, pointer>>
runVars == <<pc, seen, base, text, top, overrun>>
importVars == <<job, step, todo, fresh, attempts, done, orphans>>
vars == <<threadVars, memoryVars, processed, queued, runVars, importVars, late, faults>>

All == 1 .. Places

(* The lattice of an outbound row.  A row in "sent" may yet fail; that it   *)
(* has been delivered is told apart only where it follows a failure.        *)
Above == [queued |-> {"sent", "failed"}, sent |-> {"failed"}, failed |-> {"delivered"},
          delivered |-> {}]
Statuses == DOMAIN Above
Kinds == {"none", "in", "system"} \cup Statuses

TypeOK ==
  /\ row \in [All -> Kinds]
  /\ blank \subseteq All /\ notes \subseteq All
  /\ late \subseteq All /\ orphans \subseteq All
  /\ soured \subseteq All /\ held \subseteq All
  /\ pointer \in 0 .. Places /\ processed \in 0 .. Places
  /\ queued \in BOOLEAN /\ erased \in BOOLEAN
  /\ pc \in [Slots -> {"idle", "read", "model", "apply"}]
  /\ seen \in [Slots -> 0 .. Places] /\ top \in [Slots -> 0 .. Places]
  /\ base \in [Slots -> SUBSET All] /\ text \in [Slots -> SUBSET All]
  /\ overrun \subseteq Slots
  /\ job \in Chunks \cup {NoChunk}
  /\ step \in {"idle", "insert", "backfill"}
  /\ todo \subseteq All /\ fresh \subseteq All
  /\ attempts \in [Chunks -> 0 .. MaxAttempts]
  /\ done \subseteq Chunks
  /\ faults \in 0 .. MaxFaults

Init ==
  /\ row = [p \in All |-> "none"]
  /\ blank = {} /\ notes = {} /\ late = {} /\ orphans = {} /\ soured = {} /\ held = {}
  /\ pointer = 0 /\ processed = 0
  /\ queued = FALSE /\ erased = FALSE
  /\ pc = [s \in Slots |-> "idle"]
  /\ seen = [s \in Slots |-> 0] /\ top = [s \in Slots |-> 0]
  /\ base = [s \in Slots |-> {}] /\ text = [s \in Slots |-> {}]
  /\ overrun = {}
  /\ job = NoChunk /\ step = "idle" /\ todo = {} /\ fresh = {}
  /\ attempts = [c \in Chunks |-> 0]
  /\ done = {}
  /\ faults = 0

Fault == faults < MaxFaults /\ faults' = faults + 1

-----------------------------------------------------------------------------
(* Reading the thread. *)

Stored == {p \in All : row[p] # "none"}

(* Rows that are not the system's own; those of them that the guest has     *)
(* written or has been sent, which are the ones a window may hold.          *)
Spoken == {p \in Stored : row[p] # "system"}
Eligible == {p \in All : row[p] \in {"in", "sent", "delivered"}}

(* Mutant: the notes are made of every row. *)
MutantReadable == Stored

Readable == Eligible \cup {p \in All : row[p] = "system"}

(* The k newest of a set of places, and the oldest of those. *)
Newest(k, set) == {p \in set : Cardinality({q \in set : q > p}) < k}
Start(k) == Min(Newest(k, Eligible))

(* Neither in a window of k messages nor covered by the notes. *)
Uncovered(k) == {p \in Spoken : p < Start(k) /\ p > pointer}

Trimmed(k) == k < Window /\ Cardinality(Eligible) > k
TrimFloor == Max({1, MinUnsummarised \div 4})

(* A turn's window holds k messages, fewer than 30 when they are long.      *)
Overflows(k) ==
  \/ Cardinality(Uncovered(k)) >= MinUnsummarised
  \/ Trimmed(k) /\ Cardinality(Uncovered(k)) >= TrimFloor

(* The next place of the live thread. *)
NextPlace == Max(Stored \cup {Past}) + 1

(* A run at work has read past a place. *)
ReadPast(p) == \E s \in Slots : pc[s] \in {"model", "apply"} /\ seen[s] < p /\ p <= top[s]

(* What the runs have in memory. *)
InRuns == UNION {base[s] \cup text[s] : s \in Slots}

-----------------------------------------------------------------------------
(* The live thread. *)

Write(kind) ==
  /\ ~erased /\ NextPlace \in All
  /\ row' = [row EXCEPT ![NextPlace] = kind]

GuestWrites ==
  /\ Write("in")
  /\ UNCHANGED <<blank, erased, held, soured, memoryVars, processed, queued, runVars, importVars,
                 late, faults>>

(* A turn claims all that is unprocessed and commits the row of its reply;  *)
(* if its window has left too much out it asks for a run, best effort.      *)
Turn(k, wake) ==
  /\ \E p \in All : row[p] = "in" /\ p > processed
  /\ processed' = Max({p \in All : row[p] = "in"})
  /\ wake => Overflows(k)
  /\ queued' = (queued \/ wake)
  /\ Write("queued")
  /\ UNCHANGED <<blank, erased, held, soured, memoryVars, runVars, importVars, late, faults>>

(* The evidence row of a turn that has saved a fact. *)
SaveFactRow ==
  /\ \E p \in All : row[p] = "in" /\ p <= processed
  /\ Write("system")
  /\ UNCHANGED <<blank, erased, held, soured, memoryVars, processed, queued, runVars, importVars,
                 late, faults>>

(* A send is settled or given up, or a status webhook climbs the lattice:   *)
(* what was sent may fail, and what had failed may turn out delivered.      *)
SendSettles(p, status) ==
  /\ row[p] \in Statuses /\ status \in Above[row[p]]
  /\ IF row[p] = "sent" THEN Fault ELSE UNCHANGED faults
  /\ row' = [row EXCEPT ![p] = status]
  /\ late' = IF status # "failed" /\ p \notin Eligible /\ (p <= pointer \/ ReadPast(p))
             THEN late \cup {p} ELSE late
  /\ soured' = IF status = "failed" /\ p \in notes \cup InRuns THEN soured \cup {p} ELSE soured
  /\ UNCHANGED <<blank, erased, held, memoryVars, processed, queued, runVars, importVars>>

-----------------------------------------------------------------------------
(* The summariser.  Its queue is stately: one job waits and one is active.  *)

(* The thread has more past its pointer than it should keep. *)
Candidate == Cardinality({p \in Spoken : p > pointer}) > MinUnsummarised

(* Mutant: a thread without a pointer is no candidate. *)
MutantNightly ==
  /\ pointer # 0
  /\ \A p \in All : row[p] # "queued"
  /\ Candidate
  /\ ~queued
  /\ queued' = TRUE
  /\ UNCHANGED <<threadVars, memoryVars, processed, runVars, importVars, late, faults>>

(* An idle thread with enough past its pointer is asked for at night.       *)
Nightly ==
  /\ \A p \in All : row[p] # "queued"
  /\ Candidate
  /\ ~queued
  /\ queued' = TRUE
  /\ UNCHANGED <<threadVars, memoryVars, processed, runVars, importVars, late, faults>>

BeginRun(s) ==
  /\ queued /\ pc[s] = "idle"
  /\ \A o \in Slots : pc[o] # "idle" => o \in overrun
  /\ queued' = FALSE
  /\ pc' = [pc EXCEPT ![s] = "read"]
  /\ seen' = [seen EXCEPT ![s] = pointer]
  /\ base' = [base EXCEPT ![s] = notes]
  /\ UNCHANGED <<threadVars, memoryVars, processed, text, top, overrun, importVars, late, faults>>

EndRun(s) ==
  /\ pc' = [pc EXCEPT ![s] = "idle"]
  /\ seen' = [seen EXCEPT ![s] = 0] /\ top' = [top EXCEPT ![s] = 0]
  /\ base' = [base EXCEPT ![s] = {}] /\ text' = [text EXCEPT ![s] = {}]
  /\ overrun' = overrun \ {s}

(* What lies between the notes and a window of k messages. *)
Gap(s, k) == {p \in Readable : p > seen[s] /\ p < Start(k)}

(* The first n of it: as many as the limits of count and tokens allow.      *)
Portion(s, k, n) == {p \in Gap(s, k) : Cardinality({q \in Gap(s, k) : q < p}) < n}

ReadNothing(s) ==
  /\ pc[s] = "read"
  /\ Eligible # {} => \E k \in 1 .. Window : Gap(s, k) = {}
  /\ EndRun(s)
  /\ UNCHANGED <<threadVars, memoryVars, processed, queued, importVars, late, faults>>

(* A stretch of system rows is passed over without a call of the model. *)
ReadRange(s, k, n) ==
  /\ pc[s] = "read" /\ Eligible # {} /\ Gap(s, k) # {}
  /\ LET some == Portion(s, k, n) IN
       /\ top' = [top EXCEPT ![s] = Max(some)]
       /\ text' = [text EXCEPT ![s] = (some \cap Spoken) \ blank]
       /\ pc' = [pc EXCEPT ![s] = IF some \cap Spoken = {} THEN "apply" ELSE "model"]
  /\ UNCHANGED <<threadVars, memoryVars, processed, queued, seen, base, overrun, importVars, late,
                 faults>>

(* The call fails or answers nothing, or the day's budget is spent. *)
ModelFails(s) ==
  /\ Fault
  /\ pc[s] = "model"
  /\ EndRun(s)
  /\ UNCHANGED <<threadVars, memoryVars, processed, queued, importVars, late>>

(* The model answers, and the write, which the pointer that the run has     *)
(* read guards, is followed by another job.                                 *)
Apply(s) ==
  /\ pc[s] \in {"model", "apply"} /\ pointer = seen[s]
  /\ pointer' = top[s]
  /\ notes' = base[s] \cup text[s]
  /\ queued' = TRUE
  /\ late' = late \cup (notes \ notes')
  /\ EndRun(s)
  /\ UNCHANGED <<threadVars, processed, importVars, faults>>

Lose(s) ==
  /\ pc[s] \in {"model", "apply"} /\ pointer # seen[s]
  /\ EndRun(s)
  /\ UNCHANGED <<threadVars, memoryVars, processed, queued, importVars, late, faults>>

(* The job expires and is retried while its handler is still at work. *)
Overrun(s) ==
  /\ Fault
  /\ pc[s] # "idle" /\ s \notin overrun
  /\ overrun' = overrun \cup {s}
  /\ queued' = TRUE
  /\ UNCHANGED <<threadVars, memoryVars, processed, pc, seen, base, text, top, importVars, late>>

-----------------------------------------------------------------------------
(* The import. *)

(* Mutant: a body is retried for ever. *)
MutantBeginImport(c) ==
  /\ step = "idle" /\ ~erased
  /\ job' = c /\ step' = "insert" /\ todo' = PlacesOf[c] /\ fresh' = {}
  /\ attempts' = [attempts EXCEPT ![c] = @ + 1]
  /\ UNCHANGED <<threadVars, memoryVars, processed, queued, runVars, done, orphans, late, faults>>

(* A body comes, is retried after a failure, or comes again.               *)
BeginImport(c) ==
  /\ step = "idle" /\ attempts[c] < MaxAttempts
  /\ ~erased
  /\ IF c \in done THEN Fault ELSE UNCHANGED faults
  /\ job' = c /\ step' = "insert" /\ todo' = PlacesOf[c] /\ fresh' = {}
  /\ attempts' = [attempts EXCEPT ![c] = @ + 1]
  /\ UNCHANGED <<threadVars, memoryVars, processed, queued, runVars, done, orphans, late>>

(* A row that is there already, by its wa_message_id, is a duplicate.  The  *)
(* erasure takes these ids too: what an import at work inserts after it is  *)
(* new, and takes the place of the erased row.                              *)
InsertRow(p) ==
  /\ step = "insert" /\ p \in todo
  /\ todo' = todo \ {p}
  /\ IF row[p] = "none" \/ p \in blank
     THEN /\ row' = [row EXCEPT ![p] = "in"]
          /\ blank' = blank \ {p}
          /\ fresh' = fresh \cup {p}
          /\ late' = IF ReadPast(p) THEN late \cup {p} ELSE late
     ELSE UNCHANGED <<row, blank, fresh, late>>
  /\ UNCHANGED <<erased, held, soured, memoryVars, processed, queued, runVars, job, step, attempts,
                 done, orphans, faults>>

(* Mutant: only a body that has brought something new moves the pointer. *)
MutantMarkProcessed ==
  /\ step = "insert" /\ todo = {}
  /\ processed' = IF fresh = {} THEN processed
                  ELSE Max({processed} \cup {p \in Stored : p <= Max(PlacesOf[job])})
  /\ step' = "backfill"
  /\ UNCHANGED <<threadVars, memoryVars, queued, runVars, job, todo, fresh, attempts, done,
                 orphans, late, faults>>

(* markConversationHistoryProcessed: to the newest row that is not newer    *)
(* than the newest of the body, new or not, and only forward.               *)
MarkProcessed ==
  /\ step = "insert" /\ todo = {}
  /\ processed' = Max({processed} \cup {p \in Stored : p <= Max(PlacesOf[job])})
  /\ step' = "backfill"
  /\ UNCHANGED <<threadVars, memoryVars, queued, runVars, job, todo, fresh, attempts, done,
                 orphans, late, faults>>

EndImport ==
  /\ step' = "idle" /\ job' = NoChunk /\ todo' = {} /\ fresh' = {}
  /\ UNCHANGED attempts

(* resetSummaryIfBackfilledBehind, and a run for a thread that has gained   *)
(* messages.                                                                *)
Backfill ==
  /\ step = "backfill"
  /\ IF fresh # {} /\ pointer # 0 /\ pointer >= Min(fresh)
     THEN pointer' = 0 /\ notes' = {} /\ soured' = soured \cap InRuns
     ELSE UNCHANGED <<memoryVars, soured>>
  /\ queued' = (queued \/ fresh # {})
  /\ done' = done \cup {job}
  /\ EndImport
  /\ UNCHANGED <<row, blank, erased, held, processed, runVars, orphans, late, faults>>

(* The reset or the enqueue fails: it is logged, and the job is complete.   *)
BackfillFails ==
  /\ Fault
  /\ step = "backfill" /\ fresh # {}
  /\ orphans' = orphans \cup fresh
  /\ done' = done \cup {job}
  /\ EndImport
  /\ UNCHANGED <<threadVars, memoryVars, processed, queued, runVars, late>>

-----------------------------------------------------------------------------
(* eraseGuestByPhone: the texts and the notes go, the pointer stays, and so *)
(* does what the runs and the import have in memory.                        *)
Erase ==
  /\ Fault
  /\ ~erased
  /\ erased' = TRUE
  /\ blank' = Stored
  /\ notes' = {}
  /\ soured' = soured \cap InRuns
  /\ held' = InRuns \cup todo
  /\ UNCHANGED <<row, pointer, processed, queued, runVars, importVars, late>>

(* The process dies.  What an import had inserted is a duplicate to its     *)
(* retry.  The active summarise job expires, and is retried if it can be.   *)
Crash(again) ==
  /\ Fault
  /\ again => \E s \in Slots : pc[s] # "idle" /\ s \notin overrun
  /\ queued' = (queued \/ again)
  /\ pc' = [s \in Slots |-> "idle"]
  /\ seen' = [s \in Slots |-> 0] /\ top' = [s \in Slots |-> 0]
  /\ base' = [s \in Slots |-> {}] /\ text' = [s \in Slots |-> {}]
  /\ overrun' = {}
  /\ orphans' = orphans \cup fresh
  /\ EndImport
  /\ UNCHANGED <<threadVars, memoryVars, processed, done, late>>

-----------------------------------------------------------------------------
ThreadStep ==
  \/ GuestWrites
  \/ \E k \in 1 .. Window, wake \in BOOLEAN : Turn(k, wake)
  \/ SaveFactRow
  \/ \E p \in All, status \in Statuses : SendSettles(p, status)

RunStep(s) ==
  \/ BeginRun(s)
  \/ ReadNothing(s)
  \/ \E k \in 1 .. Window, n \in 1 .. MaxRun : ReadRange(s, k, n)
  \/ Apply(s)
  \/ Lose(s)

ImportStep ==
  \/ \E p \in 1 .. Past : InsertRow(p)
  \/ MarkProcessed
  \/ Backfill

FaultStep ==
  \/ \E s \in Slots : ModelFails(s) \/ Overrun(s)
  \/ BackfillFails
  \/ \E again \in BOOLEAN : Crash(again)

Next ==
  \/ ThreadStep
  \/ Nightly
  \/ \E s \in Slots : RunStep(s)
  \/ \E c \in Chunks : BeginImport(c)
  \/ ImportStep
  \/ Erase
  \/ FaultStep

Spec == Init /\ [][Next]_vars

Settled == \E p \in All, status \in Statuses : row[p] = "queued" /\ SendSettles(p, status)

(* The cron of 04:00, the worker of each queue, and the sends, which settle *)
(* or are failed by their sweep.  Nothing makes a guest write or a chunk    *)
(* arrive.                                                                  *)
FairSpec ==
  /\ Spec
  /\ WF_vars(Nightly)
  /\ WF_vars(\E s \in Slots : RunStep(s))
  /\ WF_vars(Settled)

-----------------------------------------------------------------------------
(* What lies behind the pointer is in the notes (summariser.ts, the         *)
(* coverage invariant), unless its text is erased, or one of four things    *)
(* has happened that the code does not guard against: it turned up behind   *)
(* what a run at work had read; it was sent after its place had been        *)
(* passed; its import died before the rewind; or, when two runs overlap,    *)
(* one wrote over younger notes, since a rewind had brought the pointer     *)
(* back to where it had read it.                                            *)
NothingForgotten ==
  \A p \in Eligible : p <= pointer => p \in notes \cup blank \cup late \cup orphans \cup fresh

(* The notes tell of nothing beyond the pointer, which the window would     *)
(* show again, and of nothing that had not been sent when a run read it     *)
(* (summaries.ts): a send that fails after that stays in them until they    *)
(* are made anew.                                                           *)
NothingElse == \A p \in notes : p <= pointer /\ p \in Eligible \cup soured

(* Once the guest is erased, no note tells of anything but what a run or an *)
(* import had in its memory at that moment, whatever the runs after it read *)
(* (erasure.ts, eraseGuestByPhone).                                         *)
NothingComesBack == erased => notes \subseteq held

(* The notes are true to the thread, whatever is imported, compacted, sent, *)
(* retried and erased at the same time: what they leave out, what they must *)
(* not hold, and what the erasure takes from them.                          *)
NotesAreTrue ==
  /\ NothingForgotten
  /\ NothingElse
  /\ NothingComesBack

(* Once its import is complete no message of a body is one to answer,      *)
(* whatever was a duplicate and however often it was retried (repos.ts).   *)
HistoryIsSettled == \A c \in done : \A p \in PlacesOf[c] : p <= processed

(* A thread that rests does not keep more than the window and a few        *)
(* messages outside its notes: the night catches up with it.               *)
CaughtUp ==
  \/ ~Candidate
  \/ {p \in Eligible : p > pointer} \subseteq Newest(Window, Eligible)

EveryThreadIsCaughtUp == []<>CaughtUp

(* Once its import is complete the messages of a body are in the notes if  *)
(* they lie behind the pointer, however often the job was retried, except  *)
(* for what turned up behind a run at work (history.ts).                   *)
RetriesRewind ==
  \A c \in done : \A p \in PlacesOf[c] \cap Eligible :
    p <= pointer => p \in notes \cup blank \cup late \cup fresh
=============================================================================
