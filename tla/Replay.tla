------------------------------- MODULE Replay -------------------------------
(***************************************************************************)
(* The benchmark harness (crates/eval) against a running server.  A unit is *)
(* a LoCoMo conversation or a PersonaMem shared context; it has a bucket of *)
(* the server and questions.  ingest writes a conversation, recall and qa   *)
(* question it one unit after the other, and pm-run replays contexts beside *)
(* each other: up to each checkpoint it writes the messages that became     *)
(* visible, may wait for the consolidation queue, and asks the checkpoint's *)
(* questions.                                                              *)
(*                                                                         *)
(* In the background the server consolidates, absorbs one memory into       *)
(* another and invalidates, or fails to; requests fail.                    *)
(***************************************************************************)
EXTENDS Integers, Sequences, FiniteSets, SequencesExt

CONSTANTS
    Commands,       \* those that may be run
    Units,
    Position,       \* Position[u]: the unit's place in the run
    Messages,       \* Messages[u]: how many the unit has, from 0
    System,         \* System[u]: the indices of its system messages
    Loaded,         \* the units the contexts file has
    Bucket,         \* Bucket[u]: "pm-" and 16 characters of the id
    Questions,
    UnitOf, EndOf,  \* of a question: its unit, its end_index
    NoGolden,       \* questions without a golden answer
    NoEvidence,     \* questions without evidence
    BatchSize, UnitJobs, Jobs,
    Attempts,       \* three in the code
    Drain,          \* --drain-consolidation
    Budget,         \* polls a drain may wait for
    ServerBatch     \* rows a tick of the server lists

ASSUME ReplayAssumption ==
    /\ Commands \subseteq {"ingest", "recall", "qa", "pm"}
    /\ IsFiniteSet(Units) /\ IsFiniteSet(Questions)
    /\ Messages \in [Units -> Nat] /\ System \in [Units -> SUBSET Nat]
    /\ Loaded \subseteq Units
    /\ UnitOf \in [Questions -> Units] /\ EndOf \in [Questions -> Nat]
    /\ NoGolden \subseteq Questions /\ NoEvidence \subseteq Questions
    /\ Position \in [Units -> Nat]
    /\ {BatchSize, UnitJobs, Jobs, Attempts, Budget, ServerBatch} \subseteq Nat \ {0}
    /\ Drain \in BOOLEAN

\* The replay starts on buckets of its own: the ids differ in what the name of
\* the bucket keeps of them.
ASSUME BucketsDiffer == \A u, v \in Units : Bucket[u] = Bucket[v] => u = v

Buckets == {Bucket[u] : u \in Units}

VARIABLES
    command,    \* the one that was given
    stored,     \* stored[b]: the rows of the bucket that are valid
    batch,      \* the memories the server's tick has yet to adjudicate
    phase,      \* phase[u]: where the unit stands
    ends,       \* ends[u]: the checkpoints to come
    prev,       \* prev[u]: the last checkpoint, -1 before the first
    queue,      \* queue[u]: the items to write before its questions
    sent,       \* sent[u]: every item written so far, in order
    waited,     \* waited[u]: polls of the checkpoint's drain
    asked,      \* asked[q]: where the question stands
    tries,      \* tries[q]: failed attempts of its running call
    records,    \* records[u]: the questions of the unit's run
    errors, skipped \* the same, for its other two counters

server   == <<stored, batch>>
progress == <<command, phase, ends, prev, queue, sent, waited>>
answers  == <<asked, tries>>
results  == <<records, errors, skipped>>
vars     == <<command, stored, batch, phase, ends, prev, queue, sent, waited,
              asked, tries, records, errors, skipped>>

\* A row has the index of the message it was written for, that of the message
\* its content is now, whether it has an abstract, and pending_consolidation.
Rows == [id : Nat, text : Nat, abstract : BOOLEAN, pending : BOOLEAN]

Texts(b) == {r.text : r \in stored[b]}

Of(u) == {q \in Questions : UnitOf[q] = u}

Over    == {"done", "failed", "missing"}
Running == {u \in Units : phase[u] \notin Over \cup {"idle"}}

Become(u, where) == phase' = [phase EXCEPT ![u] = where]

-----------------------------------------------------------------------------
(* Units.                                                                  *)

\* The elements of a set of numbers, in ascending order, each once.
Ascending(S) == CHOOSE s \in [1..Cardinality(S) -> S] :
                    \A i, j \in DOMAIN s : i < j => s[i] < s[j]

\* Mutant of Checkpoints: sorted, the dedup forgotten.
CheckpointsTwice(u) ==
    SortSeq([i \in 1..Cardinality(Of(u)) |-> EndOf[SetToSeq(Of(u))[i]]], <)

\* The unique end_index values, ascending.
Checkpoints(u) == Ascending({EndOf[q] : q \in Of(u)})

\* recall and qa ask everything at once, on the whole conversation.
Final(u) == Messages[u] - 1

\* insert_memory: without an abstract, pending.
New(i) == [id |-> i, text |-> i, abstract |-> FALSE, pending |-> TRUE]

\* buffer_unordered(context_jobs) starts the next context; the other commands go
\* through the conversations in turn.
Start(u) ==
    /\ phase[u] = "idle"
    /\ \A v \in Units : phase[v] = "idle" => Position[u] <= Position[v]
    /\ Cardinality(Running) < (IF command = "pm" THEN UnitJobs ELSE 1)
    /\ IF command = "pm" /\ u \notin Loaded
       THEN Become(u, "missing") /\ UNCHANGED <<ends, stored>>
       ELSE /\ Become(u, "next")
            /\ ends' = [ends EXCEPT ![u] = IF command = "pm" THEN Checkpoints(u)
                                           ELSE <<Final(u)>>]
            \* recall and qa find what an earlier ingest stored, consolidated
            /\ IF command \in {"recall", "qa"}
               THEN stored' = [stored EXCEPT ![Bucket[u]] =
                                  {[New(i) EXCEPT !.abstract = TRUE, !.pending = FALSE] :
                                       i \in 0..Final(u)}]
               ELSE UNCHANGED stored
    /\ UNCHANGED <<command, batch, prev, queue, sent, waited, answers, results>>

\* The messages that are system boilerplate; a conversation has none.
Boilerplate(u) == IF command = "pm" THEN System[u] ELSE {}

\* Mutant of Visible: the previous checkpoint's message again.
VisibleAgain(u, end) ==
    {i \in prev[u]..end : i >= 0 /\ i < Messages[u] /\ i \notin Boilerplate(u)}

\* The messages (prev, end] without the boilerplate.
Visible(u, end) ==
    {i \in (prev[u] + 1)..end : i < Messages[u] /\ i \notin Boilerplate(u)}

Checkpoint(u) ==
    /\ phase[u] = "next" /\ ends[u] # <<>>
    /\ queue' = [queue EXCEPT ![u] = IF command \in {"pm", "ingest"}
                                     THEN Ascending(Visible(u, Head(ends[u])))
                                     ELSE <<>>]
    /\ Become(u, "write")
    /\ UNCHANGED <<command, server, ends, prev, sent, waited, answers, results>>

Complete(u) ==
    /\ phase[u] = "next" /\ ends[u] = <<>>
    /\ Become(u, "done")
    /\ UNCHANGED <<command, server, ends, prev, queue, sent, waited, answers, results>>

-----------------------------------------------------------------------------
(* Writing.                                                                *)

Chunk(u) == SubSeq(queue[u], 1, Min({BatchSize, Len(queue[u])}))

\* The server's write_batch: items whose content is refused, whose embedding
\* or insert fails are errors in the response and no failure of the request,
\* and a near duplicate stores nothing.
Handle(u, kept) ==
    /\ stored' = [stored EXCEPT ![Bucket[u]] = @ \cup {New(i) : i \in kept}]
    /\ UNCHANGED batch

\* client.write_batch(chunk): the response's errors are not looked at.
WriteChunk(u) ==
    /\ phase[u] = "write" /\ queue[u] # <<>>
    /\ \E kept \in SUBSET Range(Chunk(u)) : Handle(u, kept)
    /\ sent' = [sent EXCEPT ![u] = @ \o Chunk(u)]
    /\ queue' = [queue EXCEPT ![u] = SubSeq(@, Len(Chunk(u)) + 1, Len(@))]
    /\ UNCHANGED <<command, phase, ends, prev, waited, answers, results>>

\* The request fails, whatever the server made of it: `?` ends the replay of
\* the context, and what its run has counted goes with it; an ingest ends as a
\* whole.
WriteFails(u) ==
    /\ phase[u] = "write" /\ queue[u] # <<>>
    /\ \E kept \in SUBSET Range(Chunk(u)) : Handle(u, kept)
    /\ phase' = [v \in Units |->
                     IF v = u \/ (command = "ingest" /\ phase[v] \notin Over)
                     THEN "failed" ELSE phase[v]]
    /\ queue' = [queue EXCEPT ![u] = <<>>]
    /\ UNCHANGED <<command, ends, prev, sent, waited, answers, results>>

\* Everything visible is written.
Written(u) ==
    /\ phase[u] = "write" /\ queue[u] = <<>>
    /\ Become(u, IF command = "pm" /\ Drain THEN "drain" ELSE "ask")
    /\ UNCHANGED <<command, server, ends, prev, queue, sent, waited, answers, results>>

\* list_pending: the pending rows, each with its bucket.
Pending == UNION {{b} \X {r \in stored[b] : r.pending} : b \in Buckets}

\* Mutant of Drained: one is as good as none.
DrainedNearly == Cardinality(Pending) <= 1

\* /v1/status counts the pending rows of all buckets.
Drained == Pending = {}

\* drain_consolidation polls the status; a failed poll is a poll.
DrainEnds(u) ==
    /\ phase[u] = "drain"
    /\ Drained
    /\ Become(u, "ask")
    /\ UNCHANGED <<command, server, ends, prev, queue, sent, waited, answers, results>>

\* Mutant of Exhausted: waits for the queue alone.
ExhaustedNever(u) == FALSE

Exhausted(u) == waited[u] >= Budget

GiveUpDrain(u) ==
    /\ phase[u] = "drain"
    /\ Exhausted(u)
    /\ Become(u, "ask")
    /\ UNCHANGED <<command, server, ends, prev, queue, sent, waited, answers, results>>

Poll(u) ==
    /\ phase[u] = "drain"
    /\ waited[u] < Budget
    /\ waited' = [waited EXCEPT ![u] = @ + 1]
    /\ UNCHANGED <<command, server, phase, ends, prev, queue, sent, answers, results>>

-----------------------------------------------------------------------------
(* The server's consolidation: one tick at a time, for pm-run posts none.   *)

\* A tick lists rows, saves the abstracts it got for them, and marks those it
\* saved, or fails to; the rows it listed are still to be adjudicated.
Consolidate ==
    /\ batch = {} /\ Pending # {}
    /\ \E listed \in kSubset(Min({ServerBatch, Cardinality(Pending)}), Pending) :
       \E saved \in SUBSET listed :
       \E marked \in {saved, {}} :
           /\ stored' = [b \in Buckets |->
                  {[r EXCEPT !.abstract = @ \/ <<b, r>> \in saved,
                             !.pending = @ /\ <<b, r>> \notin marked] :
                       r \in stored[b]}]
           /\ batch' = {[bucket |-> m[1], id |-> m[2].id, text |-> m[2].text] :
                            m \in listed}
    /\ UNCHANGED <<progress, answers, results>>

\* The verdict on m is executed, or skipped.
Adjudicated(m, rows) ==
    /\ stored' = [stored EXCEPT ![m.bucket] = rows]
    /\ batch' = batch \ {m}
    /\ UNCHANGED <<progress, answers, results>>

\* ADD or NOOP, no candidate above the floor, a call that fails, or a server
\* that is restarted: nothing is written.
Keep(m) == Adjudicated(m, stored[m.bucket])

\* UPDATE: update_memory gives the target the content the memory had when it
\* was listed and makes it pending again; invalidate_memory may fail.
Absorb(m, target) ==
    /\ target # m.id
    /\ \E gone \in {{}, {m.id}} :
           Adjudicated(m, {IF r.id = target THEN [r EXCEPT !.text = m.text, !.pending = TRUE]
                           ELSE r : r \in {s \in stored[m.bucket] : s.id \notin gone}})

\* DELETE: the target goes, the memory itself or a candidate.  So does a memory
\* that was absorbed into a row no longer valid.
Invalidate(m, target) ==
    Adjudicated(m, {r \in stored[m.bucket] : r.id # target})

Tick ==
    \/ Consolidate
    \/ \E m \in batch : \/ Keep(m)
                        \/ \E r \in stored[m.bucket] : Absorb(m, r.id) \/ Invalidate(m, r.id)

-----------------------------------------------------------------------------
(* Questions.                                                              *)

\* The calls of a question, in order.
Stages == CASE command = "qa" -> <<"search", "answer", "judge">>
            [] command = "pm" -> <<"search", "answer">>
            [] OTHER          -> <<"search">>

Answered == {"ok", "error", "skipped"}

\* The questions of the unit's current checkpoint.
Due(u) == IF command = "pm" THEN {q \in Of(u) : EndOf[q] = Head(ends[u])}
          ELSE IF command = "ingest" THEN {} ELSE Of(u)

InFlight(u) == {q \in Of(u) : asked[q] \notin Answered \cup {"new"}}

\* buffer_unordered(jobs); jobs = 1 is the serial loop.  A question of qa
\* without a golden answer returns at once.
Ask(q) ==
    LET u == UnitOf[q]
    IN  /\ phase[u] = "ask" /\ q \in Due(u)
        /\ asked[q] = "new"
        /\ Cardinality(InFlight(u)) < Jobs
        /\ asked' = [asked EXCEPT ![q] =
                         IF command = "qa" /\ q \in NoGolden THEN "skipped"
                         ELSE "search"]
        /\ UNCHANGED <<server, progress, tries, results>>

Following(stage) ==
    LET i == CHOOSE i \in DOMAIN Stages : Stages[i] = stage
    IN  IF i = Len(Stages) THEN "ok" ELSE Stages[i + 1]

\* The running call succeeds; a search finds the bucket as it is now.
Succeeds(q) ==
    /\ asked[q] \in Range(Stages)
    /\ asked' = [asked EXCEPT ![q] = Following(@)]
    /\ tries' = [tries EXCEPT ![q] = 0]
    /\ UNCHANGED <<server, progress, results>>

\* search_with_retry, chat_with_retry: the last attempt's error ends the
\* question.
Fails(q) ==
    /\ asked[q] \in Range(Stages)
    /\ IF tries[q] + 1 < Attempts
       THEN tries' = [tries EXCEPT ![q] = @ + 1] /\ UNCHANGED asked
       ELSE /\ asked' = [asked EXCEPT ![q] = "error"]
            /\ tries' = [tries EXCEPT ![q] = 0]
    /\ UNCHANGED <<server, progress, results>>

\* Mutant of Collected: goes on with questions still in flight.
CollectedEarly(u) == \A q \in Due(u) : asked[q] # "new"

\* collect().await
Collected(u) == \A q \in Due(u) : asked[q] \in Answered

Ended(u, how) == SetToSeq({q \in Due(u) : asked[q] = how})

\* The results of the checkpoint go into the run.
Collect(u) ==
    /\ phase[u] = "ask"
    /\ Collected(u)
    /\ records' = [records EXCEPT ![u] = @ \o Ended(u, "ok")]
    /\ errors' = [errors EXCEPT ![u] = @ + Len(Ended(u, "error"))]
    /\ skipped' = [skipped EXCEPT ![u] = @ + Len(Ended(u, "skipped"))]
    /\ prev' = [prev EXCEPT ![u] = Head(ends[u])]
    /\ ends' = [ends EXCEPT ![u] = Tail(@)]
    /\ waited' = [waited EXCEPT ![u] = 0]
    /\ Become(u, "next")
    \* a checkpoint that were listed again would ask its questions again
    /\ asked' = [q \in Questions |->
                     IF q \in Due(u) /\ Head(ends[u]) \in Range(Tail(ends[u]))
                     THEN "new" ELSE asked[q]]
    /\ UNCHANGED <<command, server, queue, sent, tries>>

-----------------------------------------------------------------------------
Init ==
    /\ command \in Commands
    /\ stored = [b \in Buckets |-> {}]
    /\ batch = {}
    /\ phase = [u \in Units |-> "idle"]
    /\ ends = [u \in Units |-> <<>>]
    /\ prev = [u \in Units |-> -1]
    /\ queue = [u \in Units |-> <<>>]
    /\ sent = [u \in Units |-> <<>>]
    /\ waited = [u \in Units |-> 0]
    /\ asked = [q \in Questions |-> "new"]
    /\ tries = [q \in Questions |-> 0]
    /\ records = [u \in Units |-> <<>>]
    /\ errors = [u \in Units |-> 0]
    /\ skipped = [u \in Units |-> 0]

Walk(u) ==
    \/ Start(u) \/ Checkpoint(u) \/ Complete(u)
    \/ WriteChunk(u) \/ WriteFails(u) \/ Written(u)
    \/ DrainEnds(u) \/ GiveUpDrain(u) \/ Poll(u)
    \/ Collect(u)

Answer(q) == Ask(q) \/ Succeeds(q) \/ Fails(q)

Next ==
    \/ \E u \in Units : Walk(u)
    \/ \E q \in Questions : Answer(q)
    \/ Tick

Spec == Init /\ [][Next]_vars

\* Each step of the harness changes one of these.
harness == <<phase, queue, waited, asked, tries>>

\* The runtime polls some future that can go on, and requests time out; nothing
\* is assumed of the server's consolidation.
FairSpec ==
    Spec /\ WF_harness((\E u \in Units : Walk(u)) \/ \E q \in Questions : Answer(q))
-----------------------------------------------------------------------------
(* The report.                                                             *)

Done == {u \in Units : phase[u] = "done"}

Sum(f) == FoldFunction(+, 0, f)

\* score_recall leaves out the questions without evidence; score_qa and
\* score_pm count every record.
Scored(rs) == {i \in DOMAIN rs : ~(command = "recall" /\ rs[i] \in NoEvidence)}

\* The totals main prints, over the runs that came back.
Report ==
    [questions |-> Sum([u \in Done |-> Cardinality(Scored(records[u]))]),
     unscored  |-> Sum([u \in Done |->
                           Cardinality(DOMAIN records[u] \ Scored(records[u]))]),
     errors    |-> Sum([u \in Done |-> errors[u]]),
     skipped   |-> Sum([u \in Done |-> skipped[u]])]

-----------------------------------------------------------------------------
\* The variables keep their types.
TypeOK ==
    /\ command \in Commands
    /\ stored \in [Buckets -> SUBSET Rows]
    /\ batch \subseteq [bucket : Buckets, id : Nat, text : Nat]
    /\ phase \in [Units -> Over \cup {"idle", "next", "write", "drain", "ask"}]
    /\ prev \in [Units -> Nat \cup {-1}]
    /\ asked \in [Questions -> Answered \cup {"new"} \cup Range(Stages)]
    /\ tries \in [Questions -> 0..(Attempts - 1)]
    /\ waited \in [Units -> 0..Budget]

\* "No future leakage": for as long as a question of pm-run may be searching,
\* its bucket holds nothing of a message past its checkpoint, though its context
\* keeps filling up beside it and the server copies content between rows.
NoFutureLeakage ==
    command = "pm" =>
        \A q \in Questions :
            asked[q] = "search" => Texts(Bucket[UnitOf[q]]) \subseteq 0..EndOf[q]

\* "Minimal writes": no message is written twice, and when the questions of a
\* checkpoint are asked, all that it lets them see has been written.
WrittenOnce ==
    \A u \in Units :
        /\ IsInjective(sent[u])
        /\ phase[u] = "ask" /\ command = "pm" =>
            Range(sent[u]) = {i \in 0..Head(ends[u]) : i < Messages[u]
                                                     /\ i \notin Boilerplate(u)}

\* With a drain, the questions of a checkpoint meet no memory of their bucket
\* that was never consolidated, unless the budget ran out: whatever the other
\* contexts write and the server absorbs meanwhile, each has an abstract.
AbstractedOrLate ==
    \A u \in Units :
        phase[u] = "ask" /\ command = "pm" /\ Drain /\ waited[u] < Budget =>
            \A r \in stored[Bucket[u]] : r.abstract

\* What the comment on drain_consolidation has of it, that extraction and
\* adjudication settle together, is false: the rows are marked first, and an
\* absorption makes its target pending again.
SettledOrLate ==
    \A u \in Units :
        phase[u] = "ask" /\ command = "pm" /\ Drain /\ waited[u] < Budget =>
            \A r \in stored[Bucket[u]] : ~r.pending

\* Every question is in the report exactly once, scored, left out, skipped or
\* an error, when its unit's run came back.
AccountsAddUp ==
    (\A u \in Units : phase[u] \in Over) /\ command # "ingest" =>
        Report.questions + Report.unscored + Report.errors + Report.skipped
            = Cardinality({q \in Questions : UnitOf[q] \in Done})

\* A run ends whatever the server and the chat provider do: the drain has its
\* budget, a call its attempts.
RunEnds == <>(\A u \in Units : phase[u] \in Over)
=============================================================================
