# A verified model of the chatbot

This directory holds TLA+ models of `src/app/personal_wechat_bot`, the
configurations with which TLC checks them on small instances, and proofs that TLAPS
checks for every instance.  The program is a WeChat assistant: a collector writes what a
hooked client receives to a file, an agent reads it and writes replies, a human stands in
front of every send, and a bridge that survives crashes delivers.  Around that chain there
are processes that must not run together, a reset that deletes everything, and budgets
shared by all processes.

Commands, run in this directory:

    tlasany SendBridge.tla
    tlc -config MCBridge.cfg MCSendBridge.tla
    tlapm SendPipeline_proofs.tla

## The system

| part | state it keeps | operations | what must hold |
|---|---|---|---|
| event sources (`wechat_driver/hook_*.py`, `backend_events.py`, `jsonl_bus.py`) | import offsets, the bus, read cursors | import, replay, read | no line is lost or imported twice |
| intake and processing (`router/`, `processor/`, `normalizer/`) | seen messages, cooldown stamps | dedupe, route, record, answer, gate | a message is answered once, also after a crash |
| conversation scheduling (`runtime/conversation_scheduler.py`, runners) | cursors of every scope | batch, defer, process | a cursor never passes what was not processed |
| conversation, ledger, sessions | SQLite and workspace files | messages, replies, echoes, recalls, reset of a session | one reply per message; history is never answered; the echo of a reply is no message |
| reply gate (`reply_gate/gate.py`) | none | dry run, to the operator, to the bridge | the ledger learns what became of the reply |
| confirm queue (`reply_gate/confirm_queue.py`) | one row per reply: status, send claim, bridge references, acknowledgements | enqueue, approve, reject, remove, claim, release, mark, acknowledge, requeue | one approval causes one send at most; a rejected reply is not sent |
| send commands (`control/send_commands.py`, `reply_gate/send_executor.py`) | none of its own | drain an approved reply, project an acknowledgement, retry a record | queue, ledger and tasks end up with what really happened |
| tasks (`tasks/`) | task rows in SQLite, a projected file | create, transition, patch, repair at every read | a task shows what its reply shows |
| bridge outbox (`wechat_driver/bridge_send.py`) | `outbox.jsonl`, `acks.jsonl` | stage, activate, acknowledge, stop, retry, quarantine, compact, archive | a retry chain has one live record; a decided record is not sent again |
| bridge worker (`runtime/send_bridge_worker.py`) | the synced marker | tick: quarantine, reconcile, verify, snapshot, deliver, compact | a message with unknown outcome is never sent again; everything is decided in the end |
| send backends (`wechat_driver/send_backends.py`) | sessions | send text and file, read back | an answer says no more than is known |
| process locks (`runtime/process_lock.py`) | lock files with pid and start marker | acquire, heartbeat, take over, release | one holder; a dead one does not block for ever |
| history fence (`runtime/history_fence.py`) | fence, writer leases, startup handoffs | register, close, wait, clear | nobody writes history while it is reset |
| history reset (`scripts/sidebar_history_reset_shutdown.py`, `scripts/start_sidebar_frontend.py`) | a lock and a status file | request, authorize, stop, clear, start again | one reset at a time, with everything stopped; the page is told the truth |
| worker queue (`agent/worker_queue.py`) | queued and running workers | start, hand off, time out, collect | every task ends |
| resource gate (`runtime/resource_*.py`) | semaphores, slot files | acquire, time out, release | budgets hold across processes; nothing leaks |
| keys and models (`llm/`) | key pool, cooldowns | fail over, cool down, limit | calls do not wait for each other for ever |
| channels, memory, workspace, tools, prompts, media | SQLite and workspace files | admission, maintenance, conversion | (not modelled) |
| sidebar, command line, user interface | caches | start and stop workers, handlers | a stale answer does not overwrite a newer one |

The parts interact through files and SQLite rows, under cross-process locks, never in
memory only: sidebar, command line, agent, bridge worker and tool workers are different
processes.  Hence each section under a lock is one action here, and everything between two
sections is a place where other processes act, or where this one dies.

The list `components` of `PROJECT.json` names every part and says which are modelled;
`hazards` lists what is hard to test, at the line where it bites.

## The modules

Sending:

* `SendStatus` - the vocabularies and pure rules everybody shares: the transition table of
  the queue, the status that summarises the parts of a reply (`Aggregate`), the rank of
  acknowledgements.
* `RetryLineage` - ancestors and descendants in the chains that `retry_of` forms.
* `ConfirmQueue` - the queue and the invocations of `send_approved_confirm_item` that drain
  it.  A method of `ConfirmQueue` is one action, because it holds `_queue_lock` from its
  first read to its last write.  A sender is a small program (`pc`) that claims, calls the
  driver, and records or releases; in between the operator reviews, acknowledgements
  arrive, other senders try and processes crash and are started again under a new start
  marker.  `effects` is a history variable: driver calls that may have left the machine.
* `SendBridge` - outbox, acknowledgements, producers, operators and the worker.
  `stage`, `contract` and `owner` are the fields `ready_for_delivery`,
  `expected_projections` and the liveness of `staging_owner`; `ack`, `why` and `retries`
  are what `resolve_bridge_ack_state` and `_retry_count` compute from the lines of
  `acks.jsonl`, each reason reduced to the class that the marker tables of the code put it
  in.  The worker's `pc` follows `run_once` and `_deliver`; each locked section and each
  look at the configuration is a step of its own.  Three history variables record what the
  outside world saw and what people did.
* `SendTask` - the send task as a value, and each transaction on it as an operator: creation
  (which replaces the metadata of a task that exists), transition, the end of a send, the
  projection of an acknowledgement, the move to a retry, and `_repair_bridge_send_tasks`,
  which runs before every write and in every list.  Which records a task waits for is spread
  over its metadata, its external id and its texts, and the code looks in all of them; so does
  the model, with the misreading of a text that summarises acknowledgements (`Misread`).
* `SendPipeline` - EXTENDS `ConfirmQueue` and `SendTask` and puts the real bridge in the
  place of the stand-alone one: an acknowledgement is written first (`outcome`), projected
  by a job to the queue (`SyncQueue`) and then to the task (`SyncTask`), proved by a marker,
  repeated by the reconciliation of a later tick, while retries move reply and task, one
  after the other, to other records, compaction drops records, the operator asks again or settles
  a record by hand and the command center lists the tasks.  Every write of the queue is a
  step of its own, and whoever made it still has to tell the task (`telling`), in the two
  transactions of `_update_send_task_from_reply`; in between everybody else acts.
  `_repair_obsolete_sidebar_test_confirm_items` lists under one lock and marks under another
  one, so `RetireObsolete` takes any reply from any state that may fail.  Of `SendBridge` it
  keeps the outcome of a record.

Reading and answering:

* `WeflowSource` - from WeFlow's database to the collector's file: pulls of the sidebar and
  of the command line, backfills, the bootstrap of an empty conversation, the listener of
  pushed events and the history reset.  The session list, the state with the pages, each
  appended line and the merge of the state are steps of their own, because messages arrive
  and are deleted, and the listener, which takes no lock, appends its lines and writes its state in between,
  in two steps.  The index of
  known raw ids beside the file is a second copy that a death can leave behind.  `skipped`
  and `calm` record which messages a pull was told to leave out, and which arrived while
  nobody read history.
* `DialogAgent` - one conversation from the collector's file to the reply: the import to
  the bus with its offset, ticks of several scopes with their cursors,
  `MessageProcessor.process` in the order of its writes (ledger, reply, gate, result,
  mark), the pending turns that `_agent_generate_proactive_replies` answers, the gate in
  its three modes, the echo of a delivered reply, recalls, filled in history and the reset
  of a session.  The process may stop between any two writes, and handlers, generations
  and appends may fail.

Exclusion:

* `Mutex` - what a lock promises.
* `ProcessLock` - both lock files on one path: creation with O_EXCL, the judgement of a
  stale file, heartbeats, release with and without the mutation guard, failing deletions
  and writes, death of the owner, reuse of its pid.  It implements `Mutex`
  (`ImplementsMutex`, an INSTANCE with a refinement mapping).
* `HistoryFence` - writers, leases, the fence, the worker queue with its handoffs and
  deadline, and resets in several processes that may die.  A worker that cannot be reaped
  ends the run by an exception, with its task open (`broken`).  The lock file is a mutex here,
  which is what `ProcessLock` implements.
* `ResetShutdown` - a reset asked for in the sidebar: the request, the detached helper that
  stops sidebar, browser and WeFlow and clears, and the start of the next sidebar.  The
  parties agree through a lock and a status file; pids are used again, so a process is its
  start marker.

Resources:

* `ModelCalls` - threads of several processes that call the model: the failover over the
  keys, and the three gates of an attempt (total, workload, key), each a semaphore of the
  process and slot files of all processes, with limits that the operator changes
  between one and `MaxLimit`, time-outs and rejected keys.

Proofs: for each module above but the helpers, a module of the same name with `_proofs`; the
theorems about `ConfirmQueue` are in `SendPipeline_proofs`, which continues them.  Values for
TLC: the `MC` modules.

Definitions marked "mutant" are plausible bugs of a single definition.  Substituted for the
definition they precede, each makes one property of one run fail; `PROJECT.json` pairs them.

## The runs

| run | instance | shows |
|---|---|---|
| `confirm_queue` | one reply, three senders in two processes, each process started twice, three bridge records | at most one send per reply; a claim is never taken over; nothing is sent after a rejection |
| `bridge` | two parts and a retry, or a part and its retries; all answers except a garbled one; two attempts, one retry across ticks, one crash, one lost acknowledgement | at most one delivery per part over all retries; what may have arrived stays on record; a chain never forks and never has two live records |
| `bridge_switches` | two records, the four states of configuration and registry, command line acknowledgements, one crash, fair worker | what is reported as not attempted was not; activated records are decided, abandoned ones failed |
| `pipeline` | one reply, three records, ten budgets (below), compaction that keeps nothing | no part is delivered twice; the queue never shows "sent" for a part that was not, and ends, unless something was retried or marked late, with what happened to every part; the task ends as the queue, unless a write that belongs before the send is made after it; acknowledgements whose projection failed are projected in the end |
| `process_lock` | three threads in two processes, five tokens, both kinds, two starts, two failed file operations | a holder's file stays; the lock is a mutex; a dead owner's lock is taken over |
| `history_fence` | a fenced and leased writer, the queue with one child, two resets, three processes started twice | a reset clears alone; a child works only when approved; a run ends, with nothing left |
| `reset_shutdown` | four processes, two requests, one crash or failed operation | clearing happens with everything stopped; the working helper owns its lock and the page knows; only the parent is terminated; what is left can be started from |
| `weflow_source` | one conversation, three messages, two pullers, a page of two, three seconds, ten plans of unusual events (below) | a message or recall is recorded once; no cursor passes an unrecorded message; only deleted messages are recalled; old messages are never new, also after a reset, and new ones are |
| `dialog_agent` | two lines of any kind, one pending turn, one decision of the operator, one fault, three send modes, fair loops | nothing is lost, imported twice, answered twice or recorded twice; everything is processed |
| `model_calls` | three calls, two clients in two processes, two keys with limits of one or two, one event | budgets hold across processes; nothing leaks; calls end |
| `bridge_garbled`, `pipeline_stale_parent` | violations | see findings |

Bounds.  Two crossing senders suffice for every race over one claim; the third shares a
process with the first, so that a live process can hold two invocations.  A process is
started twice, because the only thing that distinguishes incarnations is the equality of
their start markers.  Replies in the queue share nothing but the lock, so one is checked;
the theorems hold for any number.  In the bridge three records give both shapes in which
records of one reply depend on each other: parts that are activated together, and a chain
long enough to have an ancestor, a parent and a leaf.  One retry across ticks and two
attempts reach both "budget left" and "budget gone".  `KeepResolved = 0` stands for the
state after so many younger records that those of interest are no longer kept (200 in
production).

`Budgets` of the pipeline is a set of records: a behaviour stays within one of them.  They
are one part retried twice; two parts, one of them retried; two parts and a second request
to send; one part, a retry and the removal of the reply; a record settled by hand with a
retry, or beside a second part, each with one failed write; and two parts with a record
settled by hand and a late mark of the repair.  In these one write to the task is under way
at a time, which may come as late as it likes but not beside another one.  Three more
budgets let two of them cross (`owed`): two parts and a failed write, a part settled by hand
with a failed write, and two parts with two transactions that come after the result they
should precede (`overtaken`).  All combinations at once exceed the time of a run; a larger
instance with three writes under way found no error either (500 thousand states).
Two lines of the dialog give every order of two messages, of a message and its echo, recall
or history, and a reset between them; a third adds only a longer wait.  The keys of
`model_calls` are alike, so one of the calls always begins with the first.  Four processes in
the reset are a sidebar, its helper, a second sidebar and a stranger with a used pid.

`Budgets` of `WeflowSource` works the same way; a plan names the unusual events that may
happen, once each: a pull by the command line, a listener, a backfill, a deletion, a reset, a
failure or death.  With any three of them and two messages, and with any two of them and
three messages, larger instances found no error either (4.3 and 3.8 million states); they
exceed the time of a run.  Overlap, lag and lookback are one second each: what matters is that
a message may be as late as the overlap allows and that a page (two messages) may be
too small.  One conversation is enough because two meet only in the state file, where the
listener does to a pull all that another conversation's merge does, and more.

Deadlock is not checked where a model stops when its bounds are used up or waits for
people or for a budget; it is checked in `dialog_agent`.

Fairness.
`SendBridge`: weak fairness of the worker as a whole; the loop of `run_bridge_worker` goes
on to its next statement, and the supervisor of the sidebar starts it again when it is gone
and sending is on.  `Settled` is conditional on the gate: a worker that is switched off for
ever decides nothing.
`SendPipeline`: the same of the one thread that ticks and projects; nothing of operators.
`DialogAgent`: the loop of the importer and the loop of the agent.
`ProcessLock`: a thread that began an operation goes on, some waiter gets the guard (an
operating system lock), and time passes.
`HistoryFence`: every live thread goes on, and the queue notices its deadline.
`ModelCalls`: some thread goes on as long as one can; time-outs may happen and are not relied
upon.
No process is assumed to be started again except the bridge worker; failing writes are
bounded, not fair.  `ResetShutdown` has no liveness property: every sequence of its steps is
finite, so what must be true in the end is an invariant of the states in which nothing is
left to do (`ReopensAtRest`).

## Findings

1. `bridge_garbled` - a success whose body cannot be parsed is classified as neither unknown
   nor permanent.  The message is sent again within the tick, and the failure can be
   retried by the operator.
2. `pipeline_stale_parent` - a failed record that is projected after its retry (because the
   first projection failed, or was late) becomes a part of the reply again.  The reply
   stays "failed" after the retry was delivered, while its task is "completed".

What else the models show, without a run of its own (constants in brackets make it one):

* `_repair_obsolete_sidebar_test_confirm_items` lists the approved items and marks them failed
  later, without a token (`send_commands.py:132` and `141`).  A reply that was queued to the
  bridge or accepted meanwhile fails, and then differs from what happened.  Of two parts each
  "sent" gives `queued_to_bridge`, which a failed reply may not enter: both acknowledgements
  are refused at every tick for ever, although queue and task know the records, and although
  the docstring at `send_bridge_worker.py:924` says that the reconciliation is there so that
  the queue does not stay unflipped for ever [`AlwaysProjected` of `SendPipeline` as a
  property, budgets `MCLate`].
* A sender that gives its claim back writes its "blocked" to the task later, over the task of
  the next sender, whose records are waiting in the bridge; the comment at
  `send_commands.py:308` says that a loser must not do that [`WinnerOwnsTask` as an
  invariant, budgets `MCOvertaken`].  The writes of approvals come late in the same way; the
  creation in front of them replaces the metadata that names the records
  (`tasks/manager.py:444`), and a failed reply can stay "queued" in the command center
  [`TaskAgrees` without `spent.overtaken`].
* A quarantine of an interrupted send that cannot be written does not stop the tick from
  sending the record again [`FaultyAcks` with "quarantine"].
* Compaction keeps the ancestors of what it keeps, not the descendants: after failed
  projections an old failed record can be retried although its retry was delivered and
  dropped.  The queue then moves to the new record, but no task names the old one any more,
  so the new one is failed instead of sent.  It is the tasks alone that prevent a second
  delivery here (`DeliversOnce`).
* A retry removes every trace of the old record from the task.  If its acknowledgement was
  not projected before, no later tick can mark it, so it is projected at every tick and
  never compacted (`EventuallyProjected` says: those queue and task still know).
* A second `send_approved_confirm_item` for a reply that is sent already is not a claim
  conflict, so it overwrites the winner's task with "blocked", which the comment at
  `send_commands.py:308` wants to avoid; unless the records are decided and the next repair
  finds them, the task no longer follows the reply (hence `again` in `TaskAgrees`).
* A failed generation blocks nothing: the message may be answered as a pending turn and,
  read again, once more.  `OneReplyPerAnswer` is about replies with the same key.
* A reply that the operator sends before the gate's own result reaches the ledger is shown
  as waiting again, and its echo is taken for a message of the owner (`early`).
* A sidebar that dies between creating the reset lock and naming the helper leaves files no
  start gets past (`Unnamed`); tests show that this is wanted.  A helper whose request is
  slower than its delay gives up silently.
* A lock whose creator dies before writing its contents is never reclaimed if it is a long
  one; the docstring of `blocking_process_lock` says it goes stale.
* A background call holds a slot of the total budget while it waits, up to 30 minutes, for
  the background slot.  With a total of two and one background slot, two background calls
  hold everything and an interactive call waits, which the docstring at
  `resource_gate.py:73` promises not to happen [`BackgroundLeavesRoom` of `ModelCalls` as
  an invariant, `MaxLimit = 1`, `MaxEvents = 0`].
* The limit of a key holds within one client only: every tick builds its own, and a changed
  limit starts a new semaphore.

* WeFlow (`WeflowSource` leaves these cases out through `skipped` and `calm`):
  - A page is found by its offset.  If a message is deleted between two pages of a backfill,
    one older message falls between them and is not recorded.  Of messages that exceed the
    page limit the oldest are lost, since the newest come first and the cursor moves on.
  - After a first start or a reset the second pull takes a cursor ahead of the session list
    for a lost one, as long as nothing was ever seen.  A message that arrives between the
    list and the fetch is then recorded as history and never answered, although the name of
    `test_history_reset_epoch_keeps_old_pull_context_only_and_allows_new_messages` says
    otherwise.  The bootstrap of an empty conversation has the same gap, and a listener that
    puts back a state in which nothing was seen opens it again.
  - A backfill that finds nothing stores the cursor 0; if no reset ever happened, the next
    pull takes everything that is visible since as new.

The passing runs state the conditions under which the properties hold without the flaw:
every answer but the garbled one, every lost write but that of the quarantine, no retry and
no late mark of the repair for `ConvergedUnlessRetried`, no late mark for
`EventuallyProjected`, for `TaskAgrees` neither of them, no second request and no overtaken
task write, and the messages of `skipped` and not of `calm` as above.

## What is proved

All of it for any sets of items, records, threads, calls, messages and processes, any
assignment of threads to processes, and any bounds.

* `SendPipeline_proofs`, the queue on its own: `TypeCorrect`; `SendsAtMostOnce`
  (`AtMostOneSend`), `StaysClosed`, `KeepsClaim` (a running sender keeps its claim on an
  approved item); and the action properties `ClaimSafe` (`ClaimNeverStolen`: a claim is given
  up by its sender or retired after the sender's process died) and `StaysRejected` (nothing
  reopens or sends a rejected or removed reply).
* `SendPipeline_proofs`, queue, records and tasks together: `PipelineInvariance`,
  `PipelineTypes`, `DeliversOnce` (`DeliveredOnce`), `NeverOverstates` (`NeverOverstated`),
  `PipelineSendsOnce` (`AtMostOneSend` again, now with the real bridge), `PlainInvariance`,
  `Converges` (`ConvergedUnlessRetried`), `TasksAgree` (`TaskAgrees`).
* `SendBridge_proofs`: `TypeCorrect` and `ChainsStay` (`OneLiveSuccessor`) whatever the backend
  answers and whichever writes fail; `SentAtMostOnce` (`AtMostOnce`), `RiskStays`
  (`RiskOnRecord`) and `UnattemptedStays` (`NeverAttempted`) when `Dependable` holds: no
  answer is garbled and every quarantine is written.  Those are the two flaws listed under
  the findings; with either of them the invariants fail.
* `DialogAgent_proofs`: `TypeCorrect`, `ImportedOnce` (`ImportedInOrder`), `PassedDone`
  (`PassedIsProcessed`), `AnsweredOnce` (`OneReplyPerAnswer`), `EchoesRecognized`
  (`EchoConfirmsReply`), `HistoryLeft` (`HistoryNeverAnswered`).
* `WeflowSource_proofs`: `AppendedOnce` (`RecordedOnce`), `CursorsMissNothing`
  (`NothingMissed`), `RecallsAreTrue` (`OnlyDeletedRecalled`), `OldStaysContext`
  (`OldNeverLive`), `NewGoesLive` (`NewIsLive`).
* `ProcessLock_proofs`: `TypeCorrect`, `OneHolder`, `FileStays`, and `Refinement`: every
  behaviour of the lock file is, for its callers, one of `Mutex`.
* `HistoryFence_proofs`: `TypeCorrect`, `ClearedAlone` (`ClearsAlone`), `WorkApproved`
  (`WorkIsApproved`), `NothingLeft` (`RunLeavesNothing`).
* `ResetShutdown_proofs`: `TypeCorrect`, `OwnsReset`, `ResetsExclude`, `KillsParent`,
  `ClearedStopped` (`ClearsStopped`), `PageTold` (`PageIsTold`), `ReopensInTheEnd`
  (`ReopensAtRest`).
* `ModelCalls_proofs`: `Invariance`, `BudgetKept` (`WithinBudget`), `AllGivenBack`
  (`NothingLeaks`).

Confirm queue.  `AtMostOneSend` is not inductive: nothing in it says that an item with an
effect cannot be claimed again.  `IInv` adds three things.  A running sender's item is
approved and carries exactly its token (`SenderOK`); hence two senders never share an item
(`OneSenderPerItem`), and the claim of a dead process belongs to no running sender, because
a restart changes the start marker.  An item that is pending, or a sender that has claimed
and not called, has no effect yet (`UntouchedOK`).  And a claimed item is approved
(`ClaimOK`).  The decisive lemmas are `SafeExecute` (a call is made once per claim),
`SafeRelease` (an item is reopened only after a result without effect) and `SafeRetire` (a
dead claim leads to "failed").  That acknowledgements and retries reopen nothing follows from
`AggregateResult`: a summary is never "approved".  The action properties need the
invariant only in the state the step starts in.

Pipeline.  The first layer, `PInv`, holds for any retries and failures.  A record that nobody
published has one holder, a call or a retry (`StagedOK`).  What a record retries has failed
(`LineageOK`).  The tasks name at most one record of a part, with no activated one
after it (`NamesOK`), because a retry moves the queue and the tasks before it activates, or gives up its
record.  So of two activated records of a part one is in the chain of the other (`ReadyOK`),
has been retried and has failed, and `DeliveredOnce` follows.  That what lies on a chain keeps
its place when compaction drops records is shown from the least counterexample, because the
prover has no induction.  `NeverOverstated` rests on `SentOK`: no acknowledgement says "sent"
of a record that was not.  The second layer, `PlainInv`, holds while nothing is retried or marked late: a
reply is at every moment the summary of what reached it, an acknowledgement has a marker only
after it reached the queue, and compaction drops only what has one.  At rest everything has a
marker, so the summary is that of what happened.  `TaskInv` says the same of a task that is
asked for once and whose writes are not overtaken: either it follows nothing yet, and nothing
has a marker, or it names the records of its reply and its state is the summary of what it
was told, which no repair changes.  What is still to be written to
a task cannot disturb that: a write that ends it belongs to a reply that is closed
(`TellOK`), and any other counts as overtaken once the result is posted.

Bridge.  There are two layers.  The first holds always: the file is ordered, a successor is
made of the newest record of its chain only, and so a chain has one end.  The second says what
is known of a record at each place of the worker: it works at one record, and takes up only a
record that reached nobody; what it does not know is on record before it lets go; and a
marker of an unknown outcome is overruled by nobody but the command line.  `AtMostOnce` is
about whole chains: that no ancestor of a record at risk is at risk follows from a set of
linked records having a least one (`LeastNatural`), because the prover has no induction.

Conversation.  The bus is always the beginning of the source file (`BusInv`); that a run of
the importer extends it by the missing lines only, wherever the offset was left, is
`ImportedLines` about the recursive function `BusAfter`, proved by a least counterexample.
What was read is in the batch or done (`PassInv`).  For replies `StoreInv` says what each entry
of the ledger comes from, and `HandInv` what is known of the reply in hand: its message had no
reply before, and until its result is projected the ledger has it as a candidate and nobody
outside has it alive, unless the operator sent it early.  Hence every reply that can be echoed
is one that the ledger takes for sent.

Event source.  Three layers.  `BaseInv`: the lines of the file, the second copy of their ids,
what each pull has read; a line is appended under the lock that its index is written in, or
its id is read again from the file.  `OpenInv`: a message that a cursor has not passed is still
among what a pull will find, page by page (`Place`).  `CalmInv`: of messages that arrive while
nobody reads history.

Process lock.  Mutual exclusion follows from "a holder's file stays", since tokens are
unique.  The file of a holder stays because it cannot be judged stale while its process
lives (`OwnerOK`), the guard is where the program counters say (`GuardOK`), and while a
thread is about to remove a stale file nobody owns the lock (`StaleOK`).  The last is the
reason why judging and removing must be one section of the guard.  In the refinement the
owner is the thread in a critical state; every step maps to a step of `Mutex` or a stutter.

History fence.  The invariant follows a writer from the lease it registers to the lease it
returns, and a child from its handoff: whoever may write has a lease of its own or one of its
parent's, and a reset that clears has closed the fence and seen the leases empty.  It needs
that the three kinds of processes are apart (`KindsAssumption`).

Reset.  A helper loses its lock only to somebody who takes it for stale.  The lookup of a
process by pid and start marker finds the helper as long as live pids differ (`PidsDiffer`);
a new request creates or removes the lock only when there is no owner, because what the
lock contains follows from the progress of the one sidebar that schedules (`LockFollows`,
`OneFrontend`).  The second layer says that the parent of a helper is the sidebar that made it
until that one ends, that every other sidebar is turned away at its check because the lock is
in use, and that past the terminations the parent has ended.  Status and lock never name
anybody but helpers, hence what is left at rest cannot keep a sidebar closed, but for the
unnamed lock of a sidebar that died.

Model calls.  The number of permits in use is the number of calls that hold one (`PermitInv`),
a locked slot file has one holder (`SlotInv`), a semaphore of a key is used by the requests on
it (`KeyInv`).  Calls that are through a gate under limits of at most n hold different files
below n, so there are at most n of them.

Assumptions: those named in the modules (`ProcOfAssumption`, `NoTokenAssumption`, bounds are
naturals ...).  TLC evaluates them in every run.

Some theorems are about invariants that no run lists: the `TypeCorrect` of each module and the
`Invariance` of some, which the others rest on; `StaysClosed`, without which a second sender
would break `AtMostOneSend`; `OneHolder`, which follows from `HolderKeepsFile`; and
`ResetsExclude`.

Only model-checked is what the prover does not do, liveness: `Settled` and `AbandonedIsFailed`
of the bridge, `EventuallyProjected`, `EverythingProcessed`, `CallsEnd`, `Recovers` of the
locks and `RunEndsInTheEnd` of the fence.  `Converged`, `AlwaysProjected` and
`WinnerOwnsTask` have no theorem, because they are false.

## What the models leave out

* Texts and their formatting, digests, the audit and event logs, and every file nobody reads
  back to decide something.
* Sending: torn lines of the bridge files, the projection of an acknowledgement to the
  ledger (the ledger of `DialogAgent` sees only the result of the gate), the archive of the
  bridge files in a history reset, HTTP and readback of the backends (an answer is a choice
  over what it says about delivery).
* Tasks: those of replies and workers, the preview of the dispatch, and the SQLite store,
  which makes each change in one transaction.  Of the repairs that run at every read only
  that of the bridge records is modelled.  `_repair_obsolete_send_backend_blockers` also ends
  or requeues send tasks: those whose texts name a blocker of a backend or a configuration
  that is no longer set, and those of the sidebar's own test messages; so `TaskAgrees` is
  about replies whose task it leaves alone.  `_repair_dry_run_send_task_phases` changes texts.
* Reading: normalisation of native events (a message keeps its identity), the watcher of a
  plain file, explicit positive `since`, the caps of 50000 seen ids, 500 recent ids and 50
  recalls at a time, an index rebuilt while its file cannot be read.
* Agent: what a worker or a model answers, prompts, summaries, the cooldown of the router
  (routing is a choice), which files a reset clears.
* Resources: the share of interactive calls is a constant function of the total (`ShareOf`):
  the ratio of the audit file, which the code rounds as a float, does not change within a
  behaviour (the governor always writes 0.7; the theorems hold for any function).  The GPU gate (the same code with one gate), adding and removing keys, routing
  of a request by capability.
* Channels, memory, workspace and attachments, tools, prompts, persona, vision, voice, the
  configuration pages and snapshots of the sidebar, and the browser: data conversion, or
  input and output without a protocol between processes, except the admission of channels.

What one model assumes and another shows: `SendBridge`, `DialogAgent` and `SendPipeline` have
one worker or one importer at a time, and every locked section is one step, because
`ProcessLock` implements `Mutex`; `WeflowSource` lets a reset wait for everybody with a lease,
which is `ClearsAlone` of `HistoryFence`.

## Plan

1. The projection of acknowledgements to the ledger, as a third projection of
   `SendPipeline`.
2. Admission and revocation of channels, as a module beside `DialogAgent`.
3. The dispatch of tasks (`claim_next`) and the tasks of workers.
