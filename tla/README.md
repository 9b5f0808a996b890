# OurAgent: specifications, model checking and proofs

OurAgent is a Go server for question answering over private documents. Users
upload files or connect a Notion or Feishu source; documents are split, embedded
and written to Qdrant (vectors), Bluge (keywords) and MySQL (chunk rows) by
RabbitMQ consumers; an agent answers questions from what retrieval returns,
with a short term conversation memory and an optional long term memory.

This directory holds TLA+ modules of the parts of the server whose correctness
rests on concurrency and failure, the TLC runs that check them, and TLAPS proofs.
`PROJECT.json` lists components, runs, hazards, theorems, and the source lines
that every definition stands for.

    tlc -workers 2 -config doc_upload.cfg MCDocumentPipeline.tla    # a run
    tlapm DocumentStatus_proofs.tla                                  # a proof

## 1. The system

| Component | State | Operations | Meets |
|---|---|---|---|
| Documents (`service/document_service.go`, `repository/document_repository.go`) | row of `documents`: status, `index_task_id`, `index_attempt`, `index_lease_until` | Upload, Delete, Reindex | publishes to the index and delete queues |
| Index consumer (`tasks/consumers.go`, `document/indexer.go`) | none of its own; the row's token and lease | claim, clean, write chunks, complete, fail, retry | row, chunk rows, Qdrant, Bluge, MinIO, mapping row |
| Delete consumer (`tasks/consumers.go`) | none | delete, deindex, retry | the same |
| Task queues (`queue/rabbitmq.go`, `tasks/producer.go`) | for each task a main, a `.retry` (TTL) and a `.dlq` queue | publish, consume, ack, nack | all consumers |
| Source sync (`source/sync_service.go`, `consumer.go`, `scheduler.go`) | row of `knowledge_sources`: status, `sync_task_id`, lease; rows of `external_documents`: status, missing count | trigger, schedule, recover, sync, retry | documents, queues |
| Conversations (`repository/conversation_repository.go`, `service/conversation_compactor.go`) | row of `conversations`: processing lease, summary, summary task | acquire, append, compact | chat logs, compaction queue |
| Long term memory (`repository/long_term_memory_repository.go`, `service/memory_*.go`, `tasks/memory_*.go`) | memories, versions, evidence, signals, jobs with leases, tombstones, vectors | remember, confirm, update, forget; batch, consolidate, index, delete, expire; recall | its three queues, Qdrant, chat logs |
| Retrieval (`rag/`) | one request's `chainState` and the pipe of its stream | rewrite, vector and keyword search, fusion, rerank, context, model | chunk rows, documents, Qdrant, Bluge |
| Agent, chat (`service/agent_service.go`, `chat_service.go`, `agent/`) | one request: its structs, the planner's decision, a goroutine and a channel; the chat log it stores | resolve the conversation, plan, call tools, search, fall back to the web, stream, save | retrieval, conversations, memory |
| Chunking, parsing, connectors, HTTP API, configuration | none or a single row | pure functions, I/O, CRUD | |

What is hard in it:

- No transaction spans a database row, a queue and a store. Every operation is a
  sequence of statements, calls and publishes, and anything may happen between
  two of them: a crash, a second delivery, another request.
- The only lock is a conditional `UPDATE` with a token and a lease. An execution
  that outlives its lease goes on running.
- RabbitMQ delivers at least once, retries wait in a queue with a time to live,
  and the number of attempts travels in the message and in the row.
- Several statements do not compare the state they were decided on
  (`UpdateStatus`, `UpdateSyncedDocument`, `MarkExternalDocumentSynced`,
  `UpdateOwned` of a memory).
- A memory, its evidence, its vector and its jobs change at different times, and
  what is asked to be forgotten may be in the middle of being learnt.
- A question takes one of a dozen paths through planner, tools, chain and web, and
  what is known of it is copied from struct to struct until the turn is saved.

What makes each component correct:

- Documents: a completed document holds exactly one build; no task is lost; at
  most one execution writes at a time; a withdrawn document stays withdrawn; a
  deletion ends and leaves nothing.
- Queues: a message is waiting, dead, or held by a consumer that will put it back.
- Source sync: one sync per source, a sync that died is taken over, `failed` is
  left only by hand, and only two complete syncs in a row delete a page.
- Conversations: a log is appended only under the lease, the summary covers a
  prefix of the logs and every log is either in it or counted as unsummarised.
- Long term memory: a forgotten memory is not recalled, is not brought back by
  older work, and its vector goes away; the index follows the newest version.
- Retrieval and answering: the model sees only what fits the budget, an answer has
  a ground, what the client was shown is what is stored, a turn is stored at most
  once with the memory operation and in the conversation it was asked for, and no
  goroutine of a request stays behind.

## 2. Modules

| Module | Models |
|---|---|
| `DocumentPipeline` | one document row from upload to removal: clients, queues, consumers, stores, lease, mapping row; its properties |
| `SearchableDocument` | what the owner of an uploaded document is promised: no queues, tokens or consumers |
| `MCDocumentPipeline` | symmetry for TLC; every `doc_*.cfg` instantiates it |
| `DocumentPipeline_proofs` | the inductive invariant; type correctness; bounded retries; no index task is lost |
| `DocumentStatus_proofs` | what consumers never do to the status; mutual exclusion of executions; exact completion; the refinement of `SearchableDocument`; closed mappings |
| `SourceSync` | the sync task of one knowledge source: triggers, schedulers, queue, consumers, lease, missing count of a page; its properties |
| `MCSourceSync` | the failure kinds of its instance; `sync_task.cfg` instantiates it |
| `SourceSync_proofs` | the inductive invariants; types, retries, `failed`, late results, one sync at a time, the two tasks before a deletion |
| `ConversationCompaction` | one conversation: agent requests under the processing lease, plain chats, the compaction task; its properties |
| `MCConversationCompaction` | symmetry for TLC; both `conv_*.cfg` instantiate it |
| `ConversationCompaction_proofs` | the inductive invariants; types, the lease and the cursor, summary, token counter and contexts |
| `LongTermMemory` | one memory: rows, evidence, vector, signals, jobs, the scheduler, three kinds of consumers, the user's calls; its properties |
| `MCLongTermMemory` | symmetry for TLC; every `ltm_*.cfg` instantiates it |
| `LongTermMemory_proofs` | the inductive invariants; types, promotion, new evidence, recall, what a deletion leaves, vectors |
| `RagChain` | the nodes of the retrieval chain, whole or streamed, while documents come and go |
| `Answering` | one request by `/agent/chat`, `/chat` or the stream, extending `RagChain`; its properties |
| `AnsweredTurn` | what answering promises for one question: no planner, retrieval, model or goroutine |
| `MCAnswering` | chunks, parents and server configurations for TLC; `ans_request.cfg` |
| `RagChain_proofs` | lemmas about fusion, ranking, reranking, context and trimming, and about the steps of the chain and its writer |
| `Answering_proofs` | `Answering` implements the safety of `AnsweredTurn`; no answer without a ground; types; the context; what a stream shows |
| `FoldTheorems` | least elements, maxima, sums over finite sets, folds over sequences: lemmas for the two modules that need them |

### DocumentPipeline

The state is one row of `documents` (`doc`), the MinIO object, the chunk rows
and the vectors, the messages of the index and delete queues with their
multiplicity (`main`, `retry`, `dlq`), the control state of each consumer
goroutine (`worker`) and of each API call or sync (`client`), and the
`external_documents` row that maps a remote page to the document (`ext`). A
chunk is the pair of the execution that wrote it and its number, so that chunks
of different builds can be told apart. A token is the number of the execution it
was made for.

Each step is one SQL statement, one store call, one publish or one
acknowledgement. `worker[w].pc` says which comes next:

    FindForIndex -> Claim -> CheckToken -> CleanVectors -> CleanRows
                 -> (WriteRow -> WriteVector)* -> Complete -> [MarkExternalDone] -> Ack
    error        -> FailIndex -> RetryIndex -> [MarkExternalFailed] -> Publish -> Ack
    FindForDelete -> [MarkDeindexing] -> CleanVectors -> CleanRows
                 -> DeleteObject -> RemoveDocument | FinishDeindex -> ...
    error        -> [MarkExternalFailed] -> RetryDelete -> Publish -> Ack

A client call is the read with its checks (`Upload`, `Delete`, `Reindex`,
`Upsert`, `Missing`, ...), the statement that takes the row over
(`UpdateStatus`, which compares the status again only where the code does), for a
source document the mapping row (`SaveMapping`), and the publish.

Abstractions. Qdrant and Bluge are written and cleaned together, and so are
parent and child rows; the texts are left out; a retry's delay and the lease are
nondeterministic deadlines. The lease of an execution that is dead may expire at
any time; that of a running one only as the failure `late`. The model ends when
the row is removed: a page that reappears afterwards gets a new row, which is a
new instance. The knowledge base check of `IndexConsumer.handle` is left out
(no call changes the knowledge base of a document).

### SourceSync

The state is one row of `knowledge_sources` (`src`: status, task id, attempt,
lease; `due`: `next_sync_at`), the messages of the sync queues, the control state
of each consumer (`worker`) and of each `TriggerSync` call and scheduler
(`caller`), and one page's mapping (`page`: missing count, the task that counted
last, whether its deletion has begun). `worker[w].local` is the mapping as `Sync` has
read it. `seen` is a history variable that only properties read: the tasks that
missed the page since a sync has stored it and completed. `disturbed` is another: whether
an execution has outlived its lease or a copy of a message has failed before its claim.

    Trigger | ScheduleDue            -> PublishTask -> [UndoPublish]
    FindExpired -> Recover           -> PublishTask -> [UndoPublish]
    Receive -> Claim -> List -> Present | Absent -> Complete -> Ack
                             -> FetchFails | SyncFails -> Retry -> Publish -> Ack

A scheduler's scan for expired rows and its takeover are two steps, since the
row may change in between; the scan for due rows and its claim are one, since the
claim compares again everything the scan selected by. The listing with the reading of
all mappings is a step of its own (`List`), since what `Sync` writes later rests on it:
`FetchFails` saves the whole row as it was read, `Absent` counts on the row as it is.

Abstractions. Sync may fail at any point, without a bound of its own: the retries
bound it. Of the remote pages one is followed; what happens to its document is
`DocumentPipeline`'s subject. The main and the retry queue are one bag. A lease
whose task nobody has any more (no message, no consumer, no publisher) expires
freely, any other only as the failure `late`. `enabled` is left out (nothing in
the code clears it), and the source is one with a sync interval.

### ConversationCompaction

The state is one row of `conversations` (`conv`: processing token and lease;
cursor, summary, `unsummarized_tokens`, version; summary status, task, lease),
its `chat_logs` by id, the control state of each agent request (`request`), plain
chat (`plain`) and consumer (`worker`), of the goroutine that starts a compaction
after each saved log and after each consumer's ack (`starter`), and the messages.
All messages of a task carry the same snapshot and base version, which `job`
keeps. A log's `saw` is the context its turn was answered from.

    Acquire -> ReadSummary -> ReadLogs -> Insert -> Commit
    error   -> RequestFails -> Release
    PlainInsert -> PlainCommit
    TryQueue -> PublishTask -> [UndoStart]
    Receive -> Claim -> ReadRow -> ListRange -> Complete -> Ack -> TryQueue
    not claimed -> Look -> Resend | Ack -> TryQueue
    error       -> Retry -> Resend -> Ack

An append is two steps, since the id is taken at the `INSERT` and the row is
compared at the `UPDATE`: ids may become visible out of order.
`AppendLogAndRefresh`, `AppendLogRefreshAndSignal` and the append in
`SaveTurnWithExplicitMemory` have the same fence and are one action; the signals
and memories they also write belong to the long term memory.

Abstractions. A summary is the set of logs it was made of, so a summary that the
model wrote badly counts as one. A context is taken before the token budget cuts
its oldest logs (the code marks it degraded then), and `ParseConversationSummary`
accepts what it has accepted before. `summary_attempt` is left out: nothing reads
it. Requests that could not save because the ids of the instance are used up are
left out. Only the failure `ttl` lets the conversation expire while work goes on.

`lost` is a history variable: a start was given up without a record (`StartLost`,
a consumer dying in `queueNext`), a message was dropped after a failed `SELECT`
(`Look`), or the last failure went unrecorded (`Retry`). The next successful
start clears it.

### LongTermMemory

The state is what the database and the vector store keep of one
`identity_hash`: the rows by id (`row`: status, version, value, `ready`, whether
its time has passed), the chat logs each rests on (`evidence`), the version whose
vector the store has (`vector`), the logs with their signals (`log`), the
barrier (`tombstone`), the job rows with status and lease (`job`), and the messages
of each job (`queue`). `worker` is the control state of each consumer, `client` of
each request of the user, `todo` and `published` of the scheduler's round. A row
made after a removed one has a new id, while jobs and a vector of the old id may
still be about.

    Turn, Remember, Forget, Confirm    one transaction each
    UpdateReads -> UpdateWrites
    DeleteReads -> MarkDeleting | MarkDeletingByScope
    Recall -> RecallLooksUp -> RecallEnds
    ScheduleBatch, ExpireDue, Scan -> (PublishJob -> MarkPublished)*
    Claim -> ReadBatch  -> (Merge | MergeFails) -> CompleteSignals -> Finish
          -> LoadMemory -> UpsertVector -> CheckIndex -> [CleanIndex] | MarkIndexed -> Finish
          -> [StillExpired] -> RemoveVector -> CompleteDelete -> Finish
    error -> Fail

`revived` and `explicit` are history variables that only properties read: rows
that came back after they had expired or were being forgotten, and rows that the
user stated or confirmed.

Abstractions. What the extraction model makes of a log is any of `Values` or
nothing, and what passes the gates of `memory_gates.go` is one of these choices.
A job's slot in the table is used again when nothing can touch its row any more.
The main and retry queues are one count per job, and the message of a job that
failed goes back or to the dead letter queue, whatever its attempt: the scheduler
publishes every failed job again, so the attempts decide nothing. Conflicts between memories of one kind, the ranking of
recalled memories and their token budget are left out.

### RagChain, Answering, AnsweredTurn

`state` is the `chainState` of a request: node, results with their scores and
ranks, context, answer. `docs` are the parents whose document is completed and
active; it changes at any time. A store may return any ranking of distinct chunks,
of any scores, deleted documents included; the reranker any answer, out of range
or twice the same index included. A node is one step, a retriever's query and
`loadRetrievedChunks` are one step of it. In a stream `writer` is the goroutine of
`streamChatModelNode` and `pipe` the schema.Pipe it writes to.

    Rewrite -> RecallVector -> [RecallKeyword -> Fuse] -> [Rerank] -> BuildContext
            -> RenderPrompt -> CallModel | OpenStream -> (writer) -> result

`Answering` puts the request around it. `at` is the place of the handler, `asked`
the request as it came, `resolved` and `chatReq` what the structs carry of it
(memory operation, lease token, whether the conversation is new), `prepared` the
result and `turn` the chat log, `memory` the goroutine that retrieves long term
memory and its buffered channel, `withheld` and `shown` what `Stream` has of the
answer.

    agent:  Authorize -> NewConversation | AcquireLease -> AssembleContext | ResolveConversation
            -> ProcessDirective -> AwaitMemory -> Plan -> [LookUp -> PlanInContext]
            -> [Probe -> PlanAfterProbe] -> AsksBack | DirectAnswer | ConversationAnswer
               | WebSearchDirect | Search -> chain -> [PlanAfterRAG -> WebSearch] -> SaveTurn -> Release
    chat:   Validate -> chain -> [ApplyWebFallback] -> SaveTurn
    stream: Validate -> chain -> (ReceivePiece)* -> ReceiveResult -> ReceiveEnd
            -> [ApplyWebFallback] -> Flush -> SaveTurn -> Show

What a planner says is any decision that `llm_planner.go` lets through after its
normalisation; what other requests do to rows this one reads is a choice of the
step that reads them. A text is the sequence of the pieces it was made of: words,
blanks, or the refusal. Prompts, traces and the word lists that judge the evidence
of a probe are left out.

`AnsweredTurn` knows of a question only what it asked to have remembered, which
conversation it belongs to, and the turn. `Answering!Promise` maps `at`, `resolved` and
`turn` to it.

### Failures

In all modules but `Answering`, where anything that is called may fail, failures are chosen by `FaultKinds` and counted by `MaxFaults`: `store`, `db`,
`lookup`, `publish`, `conn` (a consumer's channel is lost while its handler
runs; the code's consumer then never consumes again, `queue/rabbitmq.go:127`, while the
models go on to deliver to it, which adds behaviours), `crash` (a consumer dies), `late` (a lease is outrun) and `client` or
`caller` (a call or a scheduler stops half way). `ConversationCompaction` has
`start`, `model` (the model's call), `server` (a request dies) and `ttl` besides.
`LongTermMemory` has `ignored` (an error that the code drops), `embed`, `upsert`
and `vector` (the store refuses a vector, or a deletion). A property that needs the absence of a kind is checked without
that kind, and section 5 says which and why.

## 3. Runs

All bounds are constants: clients, consumers, `MaxCalls`, `MaxRetries`,
`NumChunks`, `MaxFaults`. Consumers are interchangeable, and so are clients;
symmetry is used in the runs without liveness. `CHECK_DEADLOCK FALSE` is set
because the system rests once its calls are used up.

| Run | Instance | Shows |
|---|---|---|
| `doc_upload` | 2 index consumers, 1 upload, 2 chunks, 1 retry, 3 failures of all kinds but `late` | `TypeOK`, `CompletedExact`, `OneExecution`, `AttemptsBounded` |
| `doc_races` | 2 clients, 3 calls out of upload, reindex, delete; 2 index consumers, 1 delete consumer, 2 failures (`store`, `late`) | `IndexingHasTask`, `ConsumersKeepCompleted`, `WithdrawnStays` |
| `doc_promise` | upload and delete, 2 chunks, 2 index consumers, 2 failures (`store`, `db`, `publish`, `crash`), fairness | `KeepsPromise` (refinement of `SearchableDocument`), `DeleteEnds` |
| `doc_sync` | 3 syncs of a page (present or missing), 1 consumer each, 1 failure (`store`, `publish`, `client`), fairness | `DeindexEnds` |
| `sync_task` | 1 user, 1 scheduler, 2 consumers, 2 starts, 3 task ids, 1 retry, deletion after 2, 1 failure of any kind beside failing syncs, fairness | `TypeOK`, `RetriesLeft`, `OneSync`, `NoTaskDeletesAlone`, `FailedStays`, `LateResultDropped`, `SyncEnds` |
| `conv_compaction` | 2 agent requests, 1 plain chat, 2 consumers, 3 logs of 1 or 2 tokens, threshold 2, 1 kept, 4 tasks, 1 retry, 1 failure of any kind | `TypeOK`, `SummaryExact`, `TokensExact`, `TurnSawAll`, `LeaseProtects`, `CursorForward` |
| `conv_backlog` | 1 agent request, 2 consumers, 2 logs, 4 tasks, 1 retry, 2 failures of all kinds but `conn`, `server` and `ttl`, fairness | `BacklogWorkedOff` |
| `ltm_lifecycle` | 2 requests, 3 calls out of turn, remember, update, delete, delete by scope, recall; 2 values, 2 conversations, promotion after 2; 2 logs, 2 rows, 2 versions, 3 jobs; 1 consumer of each kind; no failures | `TypeOK`, `PromotedByConversations`, `RestsOnNewEvidence`, `ForgottenLeavesNothing`, `ReadyMeansVector`, `ForgottenNotRecalled` |
| `ltm_recovery` | 1 request, 2 calls out of turn, remember, confirm, forget, delete, and expiry; 1 value, 1 conversation; 2 logs, 2 rows, 2 versions, 3 jobs; 1 failure (`db`, `embed`, `vector`, `publish`, `crash`, `late`), fairness | `OnlyFailuresOrphan`, `ForgetEnds`, `IndexEnds`, `SignalsWorkedOff` |
| `ans_request` | 1 request by each entry point, 3 chunks of 2 parents (one longer than the budget of 3), scores 1 and 2 with threshold 2, 2 rewritten queries, pipe of 2, 2 pieces, 2 earlier turns, 5 server configurations, fairness | `TypeOK`, `ContextFits`, `AnswerHasGround`, `ShownIsStored`, `KeepsPromise` (refinement of `AnsweredTurn`), `EndsClean` |

Why the bounds are enough: two consumers are what a duplicate delivery needs;
one retry reaches every branch of the attempt arithmetic (first, retried, dead);
two chunks make a partial build; two failures give a failure during the
recovery from another; with three syncs a page is indexed, goes missing once and
twice, or reappears. In `sync_task` two starts and one failure allow three
tasks, so `MaxTasks` is never what stops a takeover; one failure gives the second
copy of a message, the zombie or the dead task, and the failing syncs, which are
not counted, supply the rest. Three task ids, shared by starts and takeovers, let a
page be missed, stored by the takeover and missed again, or missed by a task and by its
takeover. Three logs are compacted whole (one alone), in part
(the newest kept), and in two tasks of which the first is late; with 1 or 2 tokens
against a threshold of 2 the threshold is met by one log or by two. In
`conv_backlog` two failures let a task use up its retry, a fifth task is
never wanted, and the second log arrives during the first one's compaction.
In `ltm_lifecycle` three calls by two requests reach a promotion from two
conversations, an update over a running index job, and a row that is forgotten
while its batch waits and learnt again; three slots hold an index, a deletion and a
consolidation at once, and a finished job's slot is used again. In `ltm_recovery` one failure is enough because a failed job is
taken up like a new one: each failure brings the job back to where it was.
`ans_request` has a chunk on each side of the score threshold, two children of one
parent, a first parent that alone is over the budget, a ranking that both
retrievers share and one they do not, and a writer that can fill its pipe while
nobody reads; each of the five configurations lacks another part of the server.

Runs that find a property of the repository's own text violated:

| Run | Text | What happens |
|---|---|---|
| `doc_delete_race` | `document_service.go:126`: Delete removes the document and its index data | `Delete` reads `failed`; the retry requeues and an execution claims the row; `Delete` overwrites the status without comparing it; the cleanup and the execution run side by side; the row is removed, later chunks stay |
| `ltm_forget_undone` | `docs/long-term-memory-implementation.md:674`: from the deletion on a memory is not recalled | no failure needed: an update reads the active row, a deletion begins, and the update saves the whole row it has read, status included (`UpdateOwned` compares only the owner); the delete job finds the row no longer `deleting` and leaves it active |

More that the models show and no run is spent on. `README.md:351` says that after
the lease has expired a new consumer cleans and rebuilds completely; `Index`
compares the token once, so an old execution that is delayed past its lease, and
has lost its channel, cleans what the new one has written, which completes with
vectors missing (`CompletedExact` fails with the kinds `conn` and `late`).
`README.md:393` says that a page that reappears is indexed again, and is deleted
after two complete syncs without it. A consumer that dies after `MarkDeindexing`
leaves a row that the redelivered message, which expects `inactive`, does not
match, and every later sync refuses the page. A sync that marks a page missing
between the index consumer's two last statements is undone by the second, which
marks the page synced with count 0. A task that marks the page and dies is taken
over under a new id, which counts again: the deletion begins before any sync has
completed. `NoTaskDeletesAlone` speaks of tasks, not of outages, and allows that. And
although `README.md:363` excludes it, a source can be synced twice at once: a
redelivered copy of a running task that fails at its `SELECT` or its claim is requeued
by `retry`, since the row matches in status and id. `SourceSync` keeps in the history
variable `disturbed` whether that has happened (`lookup`) or a lease was outrun
(`late`), and `OneSync` and `NoTaskDeletesAlone` except the rest of such a behaviour.
Without the exception both fail, and against `README.md:393` a page is deleted although
only one complete sync has missed it since it was last stored: an execution outlives its
lease after it has listed the pages without this one; its takeover lists, finds and
stores it, and completes; the late execution counts the page under its old task id
(`sync_service.go:384`; no write of a mapping compares the task of the source), and the
next sync that misses it begins the deletion. A late execution whose `Fetch` fails
(`sync_service.go:228`) does it too: it saves the whole row it has read, and with it the
count that the takeover has reset.
`Reindex` races a retry as
`Delete` does: it overwrites `processing` with `pending`, and a second execution
starts beside the first (`OneExecution` fails with `Ops = {"upload",
"reindex"}` and one store failure). Two deliveries of one failed execution
both take its token from the row (`consumers.go:209`), so the slower one can
requeue a document whose final failure the other has just recorded.

A plain `/chat` request that names an agent's conversation writes to it without
the lease (`chat_service.go`, `saveTurn`). `SummaryExact`, `TokensExact` and
`TurnSawAll` are therefore stated while no plain chat has written (`Mixed`), and
without that condition TLC refutes each with no failure: its tokens are never
counted but are taken off by the compaction, so the counter is too small and the
next compaction late; an agent's turn may be answered without having seen it; and
a log that commits after a later id was compacted is behind the cursor but not in
the summary. Between agent turns the fence on the token excludes this: a turn that
has taken an id and lost its lease is rolled back.

Long term memory. The `err` that `EnsureCollection` and `Upsert` set is declared in
the `if` statement (`memory_consumers.go:130`), so the test behind it sees another
one: a refused vector goes on to `MarkIndexed`, and the row is ready without a
vector for good (`ReadyMeansVector` fails in five steps with the kind `upsert`,
which no run has). It fails too with two index consumers, of which one finds its
version outdated and deletes the vector that the other has just stored;
`memory_index_workers` is 1 by default. An index consumer that finds its row outdated
drops the error of the `Delete` with which it takes its vector back, so a forgotten
memory's vector may stay (`ForgottenLeavesNothing` fails with the kind `vector`). A
consumer that dies between its `Upsert` and `IsMemoryIndexCurrent`, on a row that
was forgotten meanwhile, leaves the vector for good: its job is redelivered, but
`LoadMemory` finds no active row and only finishes it (the kind `crash`). A `SELECT`
of `IsMemoryIndexCurrent` that fails is taken for a no, and the consumer takes back
the current vector of a row that is ready already (the kind `ignored`). Remembering a row that is `deleting` or `expired` makes it
active, but its delete or expire job goes on and takes vector and evidence from
it: such rows are in `revived`, and five properties except them. Deleting a memory
cancels single signals of a batch that is queued; the batch can then never be read
whole, fails for ever, and its other signals are lost (`InBrokenBatch`, excepted by
`SignalsWorkedOff`). `docs/long-term-memory-implementation.md:1019` sends a job to
the dead letter queue when its retries are used up, while the scheduler publishes
every failed job again, whatever its attempts. The error of `CompleteSignals` is
dropped, and the scheduler's `FailJob` compares nothing, so it can fail a job a
consumer has just completed.

Answering. `FallbackReranker`, which the chain takes when it is given none (the
server always gives one), scores every chunk 0, so any positive threshold refuses
all of them. Strict mode changes nothing: the chain refuses without
context in either mode (`chain.go:320`). A reranker that answers with indexes none of
which can be used empties the results, and the question is refused, while one that
fails leaves the recalled order. The threshold meant for cosine similarity is
compared with BM25 scores when only the keyword store found a chunk. Chunks of the
same fused score are sorted in the order a Go map gives them. A stream of nothing
but blanks is shown as it comes and stored as the refusal: the one case in which
`ShownIsStored` lets what was shown and what is stored differ by more than the blanks
around the answer. A request whose turn was saved but whose answer did not arrive stores a second
turn when it is sent again: there is no request id.

## 4. Fairness

`DocumentPipeline!FairSpec` assumes that a consumer goroutine runs its handler to the end, that
the retry queue's TTL and the lease of a dead execution pass, that a call once
started ends, and, by strong fairness for each kind of message, that a message
waiting in a FIFO queue is delivered while consumers keep coming back for
messages. Nothing is assumed of clients starting calls. Failures are bounded in
number, so what is shown is that the system recovers once they stop.
`SearchableDocument!Settles` (indexing ends) is the liveness part of the promise.

`SourceSync!FairSpec` assumes that consumers and calls run to their end, that the
queue delivers, that a lease runs out when its task is gone, and, by strong
fairness, that a scheduler which is again and again free while an expired row is
there finds it: its ticker scans for ever. With one failure and two consumers one
consumer keeps its channel. No source has to become due and nobody
has to trigger.

`ConversationCompaction!FairSpec` assumes that the goroutines that start a
compaction and the consumers run to their end, that the queue delivers, and that a
summary lease nobody works under runs out. Nobody has to ask a question, and no
request has to end.

`LongTermMemory!FairSpec` assumes that consumers and calls run to their end, that an
idle consumer gets a message of each job that has one, that the scheduler's ticker
goes on, each of its steps being reached in every round, and that a lease nobody
uses runs out. Weak fairness is enough, since no consumer takes away what another
waits for: there is one of each kind. The expiry of rows is no one's duty
(`ExpireDue` is not fair), and nobody has to call anything.

`Answering!FairSpec` assumes that the handler, the chain with its writer, and the
memory goroutine go on, and that what they call returns: the handlers put a
deadline on the context of all calls.

No liveness is claimed where every consumer of a queue may lose its channel: the
goroutine of `Consume` ends with its deliveries, and nothing starts another
(`conv_backlog`, `ltm_recovery`, `doc_promise` and `doc_sync` have no `conn`).

## 5. Proofs

Every invariant and action property of the passing runs, and the safety part of
both refinements, is proved for every value of the constants: any number of
consumers, clients, calls, retries, chunks, logs, pieces and failures. Where a
theorem has a hypothesis it is named with it below, with the counterexample that
TLC finds, or the line of the code that the counterexample rests on, without it.

- `AttemptsInv` (`DocumentPipeline_proofs`) is the inductive invariant, one named
  part per variable group: `DocInv`, `StoreInv`, `QueueInv`, `WorkerInv`,
  `ClientInv`, `RestInv`. `AttemptsBounded` alone is not inductive: that what is
  published has attempts left depends on the attempt a worker carries at each
  program counter and on the attempt in the row when it was read, so `WorkerInv`
  says what `attempt` may be at each step and `DocInv` what it may be at each
  status. `TypeCorrect` and `RetriesAreBounded` follow.
- `NoTaskLost`: the strengthening `TaskInv` says, of
  every pending or processing row, which message, consumer or client it can be
  traced to, and that a worker's token in the row means the worker has its
  message. It assumes that the kinds `lookup`, `conn` and `client` do not happen.
  The assumption is necessary: with each of them TLC finds a lost task. A lookup
  failure is retried with an empty token and dies while the row is pending
  (`consumers.go:186`); a copy of a message whose channel is lost can be
  acknowledged on rereading `pending` (`consumers.go:240`); a process that
  dies between the row and the publish leaves a pending row, which nothing scans
  for.
- `CompletedIsKept` and `WithdrawnIsFinal` (`DocumentStatus_proofs`) are action
  properties under `AttemptsInv`, with no assumption on failures.
- `ExecutionsExclude` and `CompletedIsExact` assume a document that is submitted
  once (`SubmittedOnce`: no reindex, no sync) and that no execution outlives its
  lease (no kind `late`); every other failure may happen. `OnceInv` says what is
  left of the system then, `FreshInv` that nothing has happened to the document
  while its upload is still under way (which is why `Upload` may write `failed`
  without comparing), `TokenInv` that tokens are fresh, that one execution has the
  row's token, and that its lease is live as long as it builds or the document is on
  its way out. `BuildInv` counts: what the holder of the token has written is the
  beginning of one build, and nothing else is in the stores. Both assumptions are
  necessary. `Reindex` reads `failed`; the retry requeues and a second execution
  claims the row; `Reindex` writes `pending` over its token; a third claims it. With
  `late` the outrun execution goes on writing beside its successor.
- `PipelineImplementsPromise` is the safety of the refinement of
  `SearchableDocument`, under the same assumptions: the initial states map to initial
  states, and by the invariants above every step is a step of the abstract
  specification or a stutter. The instant at which a document becomes searchable is
  `Complete`; that all of its chunks are there at that instant is `BuildInv`.
- `ClosedMeansGone` (a mapping that says `deleted` belongs to a row that is gone) has no
  assumption, and no run repeats it. `GoneInv` says which consumers have removed
  the row or seen it removed when they come to `MarkExternalDone`, and that a row
  which is gone does not come back.

For `SourceSync` the inductive invariant is `SyncInv`, again one part per variable
group. It has to say at which program counters a consumer's attempt leaves a
retry, that only `dead` has none, and that what a scheduler has read of a row or
is about to publish has some: only then is what reaches the queue bounded.
`TypeCorrect` and `RetriesAreBounded` are its consequences.
`FailedIsLeftByHand` and `LateResultsAreDropped` are action properties proved step
by step from it, with every failure allowed: the first speaks of the source's status, the
second of the source row, whatever a consumer whose task was taken over does at any
place. `OneSyncAtATime` and `NoTaskAlone` have no hypothesis either; their invariants
hold as long as not `disturbed`, and what disturbs is never forgotten (`Forgotten`).
Until then a consumer that runs `Sync` has the row, in `syncing` and under its task, and
no other has the same (`HoldInv`). So what it has read of the mapping is still there when
it saves it back, and `PageInv` is inductive: the missing count is worth what `seen` says
of it, one task or several, and a count of one belongs to the task that
`missing_task_id` names.

For `ConversationCompaction` the inductive invariant is `IInv`, with every failure
allowed. `LeaseProtects` needs that the row's lease is live under a request that was not
outrun (`Holds`): only then does a second acquisition, which wants a lease that is
not live, prove that the first holder was outrun. `CursorForward` needs to know what
an execution has read (`Reading`): its cursor and summary are the row's as long as
the version in the row is the one its task started from, because only
`CompleteCompaction` writes them and it raises the version; and that no task has a
version the row has not reached (`TaskSound`), or that raise could make an old
reading current. `LeaseIsKept` and `CursorNeverBack` follow.

`HistoryInv` builds on it for `TypesKept`, `SummaryIsExact`, `TokensAreExact` and
`TurnsSeeAll`, which are one invariant: the summary is what is saved and not behind
the cursor, the counter is the sum of the tokens behind it (`CursorSound`); the
request that has the row has seen everything that is saved, at each of its two reads
and up to its own id (`Sees`); an execution that is about to complete has cut a gapless
piece behind the cursor it has read (`Cuts`), which by `IInv` is the row's if the
completion is let through. A turn that is appended meanwhile is in the sum before and
after, which takes the additivity of the sum (`FoldTheorems`). Nothing is assumed but that
no plain chat writes, which is part of the properties.

For `LongTermMemory` there are two invariants, with every failure allowed. `BaseInv`
is what a consumer knows of its job: the type of the job fits the
program counter, and its row and signals exist. `MemoryInv` has the properties and
what they rest on. The step that could break most is a late one: a job, a batch or
an update that was decided on before a deletion. `DeletionsLost` therefore says
that every job which removes evidence is about a row that was forgotten or revived
(`Lost`, which nothing ends), `BarrierKnown` that a barrier is never a log of the
future, and `PromotionEarned` speaks also of the copy of a row that an update holds.
`EvidenceIsNew`, `PromotionIsEarned`, `ForgottenStaysOut` and `TypeCorrect` follow.

`EvidenceIsNew` says that at least one log of a live memory is younger than the last
forgetting; the barrier is asked for a memory and not for each log, so older logs may be
merged beside it.

What is outside the database. `PlacesInv` says which consumer may be at which place with
which job. `OrphansAreAbandoned` has no assumption: a removed memory has no vector, or a
consumer stands before the check that will take it back (`Cleared`), and a step that
ends this is one in which that consumer dies or its deletion of the vector is refused,
whose error the code drops (`Abandoned`). `EvidenceGoesWithRow` has none either. With
these two failures excluded (the kinds `crash` and `vector`, both of which the code can
meet) `NothingIsLeft` follows; it speaks of rows that are gone, since an expired one
keeps its evidence. `ReadyInv` says what an index consumer holds at each place: the
version it has loaded, and, while that version is current, its vector. `ReadyHasVector`
assumes one index consumer (`OneIndexer`; `memory_index_workers` is 1 by default), a
store that does not refuse vectors (`upsert`, whose error the code drops at
`memory_consumers.go:130`) and a `SELECT` that does not fail (`ignored`): section 3 says
how each breaks it. Rows in `revived` are excepted from both.

`AnsweringImplementsPromise` is the safety of the refinement of `AnsweredTurn`: the
initial states map to initial states, and every step to a step or a stutter. Its
invariant `AnswerInv` says what the request structs carry (`KnownInv`, `CarryInv`)
and where a request stands once its turn is stored (`StoredInv`).
`AnswersAreGrounded` adds to it `GroundInv`: what the chain says when it has no
context (`ChainInv`), that every result prepared has its ground (`ResultInv`), and
which turns and which searches a decision may name (`DecisionInv`). Stores,
reranker, planner and model are arbitrary in both, and in what follows.

`TypedInv` adds the types of all that chain and handler hold (`ChainTyped`,
`HandlerTyped`). Types are not for free here: they say that products and sums of
ranks are numbers, that sorting, fusing and whatever the reranker answers leave a
sequence of hits, and that an answer that was trimmed is not empty.
`ContextIsFit` is proved by an invariant of the fold over the results that
`BuildContext` makes: of the results looked at so far, the parents taken are different,
their sum is the token count, and whatever was left out was a second child, below
the threshold, or would not have fitted; the budget only gets fuller, so it would not
fit at the end either. `TypesAreKept` and `ContextIsFit` are its theorems.

`StreamsShowWhatIsStored` takes `ShownInv`, which follows the pieces. While the model
writes, what it has said is what was received with what is in the pipe
(`WritingInv`); when the goroutine has ended, the pipe holds the rest and then an
error or the result (`EndedInv`), and that rest tells the whole answer or a
refusal of which nothing is shown (`Tells`). That is why the web may replace it, and why
`Flush` shows what is withheld, or an answer nobody has seen, and nothing twice
(`ToldInv`, with `Faithful`, which something shown must meet before a refusal may stand
for blanks). Where no stream is written
nothing is shown before the end (`QuietInv`).

Induction. The sums, folds, maxima and recursive functions of the community modules
are reasoned about by the least counterexample: of the finite sets, or of the positions
of a sequence, for which a claim fails, one is smallest (`FoldTheorems`,
`RagChain_proofs`). Each such argument is written out for the definition it is about, since a
theorem that takes an operator as a parameter cannot be instantiated by the provers.
`RagChain` uses folds, and no recursive operator, for this.

Only model-checked is everything with liveness (`EndsClean`, `ForgetEnds`, `IndexEnds`,
`SignalsWorkedOff`, `BacklogWorkedOff`, `SyncEnds`, `DeleteEnds`, `DeindexEnds`, and
`Settles`, the liveness of `SearchableDocument`), since TLAPS reaches neither fairness
nor `ENABLED`. The theorems with hypotheses leave to TLC, on the instances of section 3,
nothing that the hypotheses exclude: the runs keep to them, too (`doc_upload` and
`doc_promise` submit once and have no `late`; both `ltm` runs have one index consumer
and neither `upsert` nor `ignored`; `ltm_lifecycle` has no failures).

## 6. Not modelled

- HTTP handlers, users, knowledge bases and configuration: single rows and I/O.
- Connectors (Notion, Feishu), web search, OAuth, the clients of the models: requests
  to external services and decoding. That a call may fail or answer anything is in
  the modules that make it.
- Chunking and parsing, prompts, traces, the gates' and the probe's word lists, the
  ranking of recalled memories: functions of texts, without state.
- The loop of `Sync` over a listing: one page is followed through it.
- Conflicts between several memories of one kind, and two users: rows of different
  identities meet only in the ranking.
- Publishing is taken to be either done or reported as failed, although the client
  uses no publisher confirms. The retry queues of syncs, compactions and memories
  are not told apart from their main queues.
- Several rows at once: rows do not share state, except that a page whose row was
  removed and created anew keeps its object key, so that a second delivery of the
  old deletion may remove the new row's object.

## 7. Plan

1. Done: the document pipeline, its abstract specification and first theorems.
2. Done: `SourceSync` with its proofs.
3. Done: `ConversationCompaction` with the proofs of its lease, cursor and history.
   Left: an abstract specification of a log of which a prefix is summarised.
4. Done: `LongTermMemory` with its proofs. Left: several memories of one kind, their
   conflicts and the ranking under a budget.
5. Done: `RagChain` and `Answering`, the refinement of `AnsweredTurn` and its proof.
   Left: fusion and context against reference definitions over all small rankings,
   which now are checked through `ContextFits` only.
6. Proofs done: all invariants, action properties and the safety of both
   refinements. Left: an abstract specification of what the owner of a memory is
   promised (remembered, recalled, forgotten) and of a sync, with their refinements;
   `ExecutionsExclude` for documents that are submitted again once they have come to rest.
