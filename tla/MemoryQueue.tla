---------------------------- MODULE MemoryQueue -----------------------------
(***************************************************************************)
(* The in-memory job queue (core-kernel/source/services/queue/drivers/     *)
(* memory.ts), as operators on a record:                                   *)
(*   jobs     the waiting jobs, in order           (#jobs)                 *)
(*   started  whether the loop may take a job      (#started)              *)
(*   busy     whether the loop is running          (#running)              *)
(*   current  the job the loop runs; the last one it ran when not busy     *)
(*   awaited  someone awaits the end of the loop   (#onProcessedCallbacks) *)
(* The loop of #processJobs only suspends while a job runs, so entering it *)
(* and moving on to the next job are each a single operator.               *)
(***************************************************************************)
EXTENDS Sequences

EmptyQueue == [jobs |-> <<>>, started |-> FALSE, busy |-> FALSE,
               current |-> <<>>, awaited |-> FALSE]

\* Faulty variant: leaving the loop resolves nobody.
ProcessJobsUnresolved(q) ==
  IF ~q.busy /\ q.started /\ q.jobs # <<>>
  THEN [q EXCEPT !.busy = TRUE, !.current = Head(q.jobs), !.jobs = Tail(q.jobs)]
  ELSE q

\* The head of the loop: take a job if started and not already running one;
\* leaving the loop resolves whoever awaits its end.
ProcessJobs(q) ==
  IF q.busy THEN q
  ELSE IF q.started /\ q.jobs # <<>>
       THEN [q EXCEPT !.busy = TRUE, !.current = Head(q.jobs), !.jobs = Tail(q.jobs)]
       ELSE [q EXCEPT !.awaited = FALSE]

Push(q, job) == ProcessJobs([q EXCEPT !.jobs = Append(q.jobs, job)])

Resume(q) == ProcessJobs([q EXCEPT !.started = TRUE])

Clear(q) == [q EXCEPT !.jobs = <<>>]

\* pause() and stop() wait for the loop to end only if it is running.
Pause(q) == [q EXCEPT !.started = FALSE, !.awaited = q.awaited \/ q.busy]

Stop(q) == Clear(Pause(q))

\* The running job has been handled and reported: the loop goes round.
JobDone(q) == ProcessJobs([q EXCEPT !.busy = FALSE])

\* Faulty variant: looks at the queue once the last job is taken, not done.
DrainsOnTake(q) == q.busy /\ q.jobs = <<>>

\* Leaving the loop with no job left emits "drain".
Drains(q) == ~q.busy /\ q.jobs = <<>>
=============================================================================
