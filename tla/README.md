# Verification of ngx_http_monitoring_module

TLA+ models of the nginx module under `src/src/`, the TLC runs that check small
instances of them, and proofs, for every instance, of all the safety properties that the
runs find to hold: of the collector, the history ring, the sampling, the kernel tables and
gauges, the request counters and their response, the top tables and their lists, the rate
limiter, the streams, the access gate and the response writer. `PROJECT.json` relates every
definition to the lines it models, and lists the runs, mutants, findings, hazards and
theorems.

## The system

nginx runs one master and several single-threaded worker processes. The module
keeps its state in one shared-memory zone (`shctx`), created or adopted by the
master in `init_shm`, and everything interesting happens between workers that
read and write the zone concurrently.

| component | state | operations | hard part |
|---|---|---|---|
| collection pass (`collectors.c`, `module.c` exit) | `collector_lock`, `generation`, tables, worker rows; per worker a timer and `collector_active` | `init_collector`, the timer handler `collect`, `exit_process` | lock by compare-and-set; a worker may die anywhere; lost timers |
| history ring (`collectors.c`, `json.c`, `shm.c`) | `history[]`, `history_write`, `history_count`, `history_capacity` | append, read for `/monitor/api`, capacity change on reload | three processes, no lock |
| sampling (`collectors.c`) | `prev_*`, `ewma_*` | pacing test, rates, averages | cached clocks, unsigned differences |
| kernel tables (`collectors.c`, `json.c`) | `ifaces[]` and count, disks, filesystems | overwrite from `/proc`, sum, walk | a response walks a table while it is rewritten |
| request accounting (`shm.c`) | counters and histograms | `account_request` from the log phase, `percentile` | a list of separate atomic additions |
| top tables (`shm.c`) | `urls[]`, `user_agents[]`, `upstreams[]` | `update_top`, `update_upstream_slot` | search without the mutex, insert with it, count after it |
| rate limiter (`module.c`) | `rate_limit_window`, `rate_limit_count` | `check_rate_limit` | two words reset one after the other |
| SSE stream (`sse.c`) | per client two buffers, a timer, `closed`; gauge `sse_clients` | `send_sse`, timer, `sse_write`, cleanup | slow and vanishing peers, memory of the request |
| response writer (`json.c`) | position, `failed` | `json_append`, `json_printf`, `json_string`, `send_*` | a buffer of fixed size |
| top view (`json.c`) | the copies of a response | copy and insertion sort | rows change while they are copied |
| dispatch and access gate (`module.c`) | location configuration, merged from the block around it | `content_handler`, `authorize`, `match_access`, `check_*`, `plain_response` | order of the decisions; a return value with two meanings |
| scalar gauges (`collectors.c`, `json.c`) | `usage_milli`, `prev_cpu_*`, sizes and free space of memory and swap | read `/proc`, store word by word, divide | counters that go back; two words that belong together |
| other `/proc` text, parsing of directives, packaging | - | - | - |

Components interact through the zone only: the log handler writes counters that
the pass samples into the history; the pass writes tables that JSON, Prometheus
and SSE responses read; the limiter and the tables share the slab mutex; every
worker's timer competes for the collector lock.

## Modules

Each module models what a worker does between two accesses to shared memory as
one action, and lets the actions of different workers interleave. `pc`-like
variables say where a worker stands inside its handler. A definition named
`X_Something` under the comment "Mutation:" is a plausible bug of `X`, used to
show that a property can fail; the specifications do not use it.

* **Collector** - processes fork, store their pid (`InitProcess`) and then the flag of
  their row (`InitActive`); their timers fire, and the handler again stores the pid (`Fire`)
  and the flag (`StoreActive`), tries the lock (`Acquire`, `LockBusy`), goes through the
  sections (`Collect*`), increments `generation` in two steps, and goes on with `Unlock`
  and `Rearm`. Between timers the log phase of a request stores the pid once more
  (`LogPhase`). Workers are told to quit (`Quit`, then `Drained`), terminated, and crash
  anywhere; the master respawns them with a pid that may have been used before. Which
  slots of nginx's process table they have is chosen once (`processSlot`, one of
  `Layouts`). What a section holds is abstracted to the generation in which it was last
  collected in full; a pass may leave any section alone, because a collector returned
  early or is off in the configuration of this worker, and `missed` remembers which ones
  the last pass did.
* **CollectorProofs**, **HistoryProofs** (HistoryRing and Sampling), **AccountingProofs**
  (Accounting and RequestsView), **TopTableProofs** (TopTable and TopView), **AnswerProofs**
  (RateLimit and Response), **SseProofs** (SseStream), **CollectedProofs** (KernelTables and
  SystemGauges, composed by MCCollected) - the theorems.
* **Sums** - what a sum over a finite set is: the lemmas that these share.
* **HistoryRing** - the writer (`LoadCapacity` .. `AddCount`), the master that
  reloads (`StoreCapacity`, `ClampTest`, `ClampStore`) and a reader (`ReadCount` ..
  `ReadDone`). A sample is its number, a blank row is 0. **HistoryLog** is what the
  ring promises: a log that forgets its oldest entries; `ImplementsLog` is the
  refinement.
* **Sampling** - the pass in time: each worker sees a clock that may lag
  (`ngx_timeofday` is cached per worker), paces by `prev_history_msec`, measures one
  counter and smooths its rate. The real counter wraps at 2^64, here at `Wrap`,
  far above the times reached.
* **KernelTables** - the three tables that a pass overwrites from the kernel's lists,
  chosen by `kind`: interfaces (`getifaddrs` may fail; their sum and its delta, the count
  stored last), disks and filesystems (`statvfs` can fail for a mount point, and
  the count is stored at the end), and a response that walks the rows. Files may be
  unreadable, and devices have counted something (`Boot`) before nginx started.
* **SystemGauges** - the CPU usage as a quotient of two unsigned differences, and memory
  and swap: a pass stores total and free space line by line, a response loads them in
  either order and divides. Jiffies may be taken back, swap is resized, reads fail.
* **MCCollected** - the instance of the two modules above: what one pass collects. They
  share no word, so a behaviour is about one of them and the other stands still.
* **MCHistory** - likewise the instance of HistoryRing and Sampling, which share no word
  either.
* **Accounting** - a request becomes the sequence of its additions; a worker may
  crash between two. The percentile reads the histogram bucket by bucket. A zone that a
  reload kept has counted requests before (`Earlier`).
* **RequestsView** - Accounting and the response `/monitor/api/requests`: the arguments of
  one call in any order, the percentile among them, then the histograms, index by index.
* **TopTable** - one table and both update functions (`kind`). Keys have a hash and
  the name that is stored, so that collisions and names cut at 127 bytes occur. After a
  reload workers of two configurations, with different `monitor_max_top_urls`, use an
  adopted table (`Rooms`); a worker may die inside a call, and the master releases
  the mutex.
* **TopView** - TopTable and a response that copies the rows field by field and sorts
  the copies while the workers update.
* **RateLimit** - the check access by access, with the second each worker has
  cached, locations with different limits, and a worker that dies inside.
* **SseStream** - clients of workers: open, tick, write, cleanup; the two output
  buffers, what nginx still holds of them, and the gauge.
* **Gate** - pure operators: which endpoint a path names, what a location inherits, the
  access rules, credentials, and the verdict of the tests in their order.
* **Response** - a request from the content handler to the answer: the gate, what is
  sent of a refusal and what the handler does after it, the header fields of
  `monitor_cors` and of the challenge, the dispatch, and the response as pieces written into a buffer by the two primitives.

`MC*.tla` give the constants values; there is one `.cfg` for each run.

## Runs

Each module is checked by one run, whose instance is chosen so that all its properties are
exercised; four more show a disagreement with the documentation.

| run | instance | shows |
|---|---|---|
| collector | 2 processes, in slots 0 and 1 with a row each or in 0 and 2 with one row between them; 2 pids, 1 stop, 1 crash, generation mod 3, at most 1 section left alone by a pass | one pass at a time, no lost increment, no lost timer; with the lock free the sections that the last pass did not leave alone are of that pass; rows that nobody shares are truthful, none is active once its workers have exited; collection goes on unless a death inside the pass orphaned the lock; a quitting worker ends; a worker that goes on comes back to its row |
| history | capacities 1, 2, 4; 8 samples, 1 reload, 1 response; or 3 workers, lag 0 or 1, 13 ticks, refresh 3, resolution 4 | exact window, fresh reads, refinement of the log; after a reload the window heals; pacing from both sides with clocks in step; every request in one sample; the average below the peak |
| top | 2 workers, 3 names or peers, 2 rows (or 1, for one worker), 3 calls, 1 death, a new or a full table, 1 view beside up to 2 calls | whole rows; without a race one row per name, none overstated, and at rest at least as many failures as 5xx answers; no double count with one; the right victim; every update ends, both workers idle at last; a list is ranked and, without a raced insertion, complete |
| rate | 3 workers, limits 0 and 1, lag 0 or 1, 2 seconds, 4 requests, 1 crash | at most twice the limit with clocks in step; a fresh second starts from zero; every check ends |
| sse | 2 clients of one worker or two, 3 events, 1 crash | buffers, gauge, timers; who is written to is open; a quitting worker ends unless a stream holds it back |
| accounting | 2 workers sharing a row, 2 requests and perhaps one before, 1 response, 1 crash | breakdowns ordered, and behind the total by no more than what is under way; percentile exact at rest and honest under change; a response adds up to its own total |
| tables | 3 devices of each of three kinds, 2 rows, 4 passes and changes, 1 response; or 2 movements of jiffies, memory and swap, 3 passes, 1 response | a response is complete again one pass after a change; no phantom traffic; usage is the busy share, shares are of one moment unless a size changed |
| response | some two dozen pairs of blocks against 2304 requests; buffer of 7 bytes, all short pieces | the status, and the origin that may read the answer, are those the documentation names; what is sent is whole, and only what does not fit is a 500 |
| collector_crash | as collector | *fails*: the lock of a dead worker is never released and collection stops |
| history_order | a reload that changes the capacity | *fails*: samples out of order or blank |
| histogram | as accounting | *fails*: the buckets of a response are not cumulative |
| response_refused | a request that a rule blocks | *fails*: the 403 is followed by the body of the endpoint |

The type invariant is checked by itself for Collector, where it is also proved, and
elsewhere as the first conjunct of one of the invariants.

The runs that fail are the findings of `PROJECT.json`, each with the text it
contradicts.

### Why the bounds are enough

Interference in this code needs two workers at a time, and a third one where the
others hand something on (window and count of the limiter, the pacing clock).
Tables of two rows are full after two keys; rings of one, two or four rows wrap
within eight samples and are overtaken by a reader. Two client streams of the
same worker alternate in it, two of different workers race for the gauge; three
events use both buffers and come back to the first. A second crash or reload meets
the states the first one leads to. Counters and clocks are bounded in the guards
(`Max*`); a response that lists a top table overlaps at most `MaxViewCalls` calls, enough
for an insertion and a count beside it, and one of the requests counter at most `MaxViewEvents`
requests and crashes; the requests of Response are every combination
of endpoint, method, address and credentials, against blocks in which each directive is
set, inherited and absent; `kind`, `lag` and the slots of the
processes are chosen once, so that one run has all the tables, the behaviours with clocks in
step and those without, and rows with one owner and with two. Two pids for two processes
suffice for what pids can do: a worker that starts while the other is absent has a fresh one
or the one that a dead worker left in the lock or a row. Leaving one section alone in each pass
reaches every mixture of ages, since the next pass may leave another. Deadlock checking is on for Collector, which never
stops, and off where the bounded inputs run out.

### Fairness

Weak fairness of a worker's own steps: nginx's event loop runs every handler to
its end and fires expired timers. `InitProcess` is fair in Collector because the
master respawns. A quitting worker ends when its timers are gone (`Drained`, and
`Exit` in SseStream). The slab mutex has no queue; with the bounded number of calls a
waiter gets its turn. Nothing is assumed of requests (`LogPhase` is not fair), reloads,
signals and crashes. Nor is anything assumed of a connection: a peer may stay, its output
need not drain, and nginx need never notice that it went, because the module sets neither a
handler nor a timeout for it. `QuitCompletes` of SseStream therefore names the streams
that may hold a worker back (`Lingers`): those whose peer still takes what is written, and
those whose peer died unnoticed with output pending. In every other case the tick of the
stream finds out and gives its timer up. `RowsHeal` is about rows that several workers
store into in two steps: it rests on the exits between two stores being finitely many.

### Met while modelling

Each of the following is a behaviour of the models that the properties above have
to leave room for. It explains the conditions in them.

* `collectors.c:186-197`, `244-250`, `265-267`, `299`, `467-469`, `549-553` and `610-613` return
  when a file cannot be read or parsed, `670-684` store nothing without stub status, and
  a section may be off in the configuration of one of two generations of workers. The
  pass goes on and increments `generation` all the same, so that this counter does not
  say that the tables are of the last pass. `SnapshotWhole` is about the sections that the
  last pass did not leave alone.
* `collectors.c:109-110` stores pid and flag one after the other (as `70-71` do), and
  `shm.c:258` the pid alone. On a row with two owners: p stores its pid, q stores its own, q
  exits and clears the flag, p sets the flag. The row is active under the pid of a worker
  that has exited, until p comes back to it. `RowsTruthful` asks for the pid only of a row
  with one owner, and of the others that an active one has an owner who lives or
  crashed.
* `sse.c:106-109` only arms the timer again while output is pending, `send_sse` sets no handler of
  the connection and no send timeout. A peer that dies without a word after the socket buffer
  is full keeps a quitting worker alive for as long as TCP does. No document promises
  otherwise (`docs/ARCHITECTURE.md:50-52` says that such ticks are skipped), hence the
  condition in `QuitCompletes`.
* `json.c:683-717` prints the buckets of a histogram each with its own count under a label `le`.
  `skills/ngx-http-monitoring-client/SKILL.md:263-282` shows them cumulative, with `+Inf` equal to
  the total (`histogram`). `ResponseAddsUp` is about what the code prints, whose sum is the
  total.
* `collectors.c:789` tests `history_count` against the capacity that the pass loaded
  at line 748. A reload that shrinks the ring in between (`shm.c:44-47`) leaves more
  samples counted than there is room for, and `json.c:793` then starts before the
  window. `WindowExact` and `ReaderFresh` are about a fixed capacity, `ReloadHeals`
  about the time after; `WindowOrdered` shows the simplest consequence.
* `collectors.c:753-787` publishes a row before it fills it, and `json.c:778-813` takes
  no lock: a response can show a sample of zeros. `ReaderFresh` excludes the
  reader that overlaps an append.
* `shm.c:353-367`: two workers that miss choose the same row, the second zeroes it
  between two additions of the first, and a row ends with fewer failures than 5xx.
  `FailuresCountedAlone` and `KeysUnique` exclude raced insertions.
* `shm.c:190`: a worker with a smaller `monitor_max_top_urls` scans fewer rows of the same
  table. It inserts a name again that has a row above its limit, and rows above everyone's
  limit are never given up, while a response still lists them: `KeysUnique` is about the
  rows that all workers use.
* `shm.c:432-436`: a worker that dies there leaves half of a row, without hits; the next
  insertion takes it (`RowsWhole`, `torn`).
* `module.c:431`: the exit of a worker marks the row of another one that shares it as
  inactive until the timer of that one fires: `RowsTruthful` asks for the row of a live
  worker only where it is alone, `RowsHeal` for all of them in the end.
* `collectors.c:204`: idle time that was taken back makes the usage exceed 100 %
  (`UsageHonest` assumes that neither part shrinks while the total grows).
* `json.c:438-440` tests, subtracts and divides three loads: while `swapon` or `swapoff`
  is being stored, a response can show any share, or an infinite one (`SharesHonest`
  excludes gauges whose size changes during the response).
* `module.c:922-928`: between the store of the window and the reset of the count a
  request is counted against the previous second (answered 429 too early), or its
  count is wiped out (one more is admitted). `AdmittedTwiceAtMost` is what is left.
* `collectors.c:705` subtracts cached clocks of different workers without a sign: one
  that lags samples at once. `Paced` assumes clocks in step.
* `collectors.c:145` arms a timer in every worker; the lock keeps passes apart and does
  not elect one worker, so that n workers make n passes per refresh interval
  where `docs/PERFORMANCE.md:16` counts one. The pacing of samples makes up for it.
* `module.c:478-481` takes any value but `NGX_OK` for a refusal, and `authorize`
  (from `module.c:610`) returns what `plain_response` returns, which is `NGX_OK` when the
  refusal went out. The handler then goes on to the endpoint. nginx sends no second header,
  so the status is right (`AnswerAsDocumented`), but a second body reaches the output
  filter (`response_refused`); a stream does not start, because `send_sse` looks at the
  result of sending its header.
* `json.c:90` allocates 512 KiB for the full response. A row of the history takes 278 bytes at
  least, so that 3600 of them do not fit and the response is a 500: `WholeOrError` allows it.
* `json.c:345` fails `json_printf` with a byte or less to go, before the format is looked at: a
  format that writes nothing would fail where it fits. Every format in the code has
  characters of its own, so that the pieces of Response that `json_printf` writes are not empty.
* `shm.c:428` onwards inserts without looking again: a list of top entries may hold a name
  twice or show a row that was given away. `ViewHonest` asks for completeness only
  without such an insertion.
* `collectors.c:509` clears the flags of every interface before they are set again: a
  response during a pass shows `"up": false`. `ResponseComplete` says nothing of it.

## Proofs

`CollectorProofs` proves for any set of processes and pids, any number of stops
and crashes, from `CollectorAssumption` only (naturals, a positive number of rows,
a generation of at least two values):

* `Typing`: `TypeOK`;
* `Exclusion`: one pass at a time;
* `GenerationKept`: `generation++` loses no update;
* `WholeSnapshot`: with the lock free, the sections that the last pass did not leave alone are
  of that pass, whatever any pass left alone;
* `TruthfulRows`: a worker that shares its row with no other slot always has it under its pid,
  and active once it has started; an active row has a worker that lives or crashed;
* `KeptTimer`: a worker that goes on has its timer.

`KeptTimer` adds to `TypeOK` that a live worker that has started has `collector_active` set
(`ActiveInv`). `TruthfulRows` is by itself inductive with the distinct pids: only the owners
of a row store into it (`EveryRow`, `OwnRow`, `ExitRow`). None of the others is inductive. The invariant `Inv` adds: live processes have
distinct non-zero pids and only live ones stand inside a handler (`PidInv`); whoever
is inside the pass has its own pid in the lock (`LockInv`); a section that the
holder has gone through and did not leave alone carries the current generation, and one
behind the stored generation once it is stored (`StampInv`). Distinct pids and the lock give exclusion; exclusion
makes the stamps and the loaded generation the business of one process. A crash
inside the pass keeps the lock taken, which preserves all of this and is the reason
why collection stops (`collector_crash`).

`HistoryProofs` (any compiled maximum, any set of configurations, any number of samples,
reloads and responses). A sample is `Done` when its append has ended. `RingInv`: the
`settled` last samples, those appended since the last reload, sit where the current capacity
puts them, and the count admits them; a writer that is appending owns a row of no other
sample of the window (`OtherRow`, from `ModSame`: two samples less than a capacity apart never
share a row). `FirstInv` is what holds up to the first reload: everything is settled, the count
is exact, a row holds nothing but a sample of the window, and a reader has the capacity of
the ring and a write index that is not ahead of it.

* `ExactWindow`: between two appends the window is the most recent samples, oldest first;
* `FreshRows`: what a reader emits comes from the window of the moment, which is never behind
  the one it set out to read (`ReaderFresh` is part of the induction);
* `HealedWindow`: after a reload the settled samples alone make the window once they fill it;
* `RingImplementsLog`: the ring refines HistoryLog up to the first reload. `Kept` is the
  sequence of the last samples appended (`KeptIsConsecutive`): a claim on a full ring is
  `Evict`, a fill is `AppendSample`, every other step stutters.

`HistoryProofs` about Sampling (from a positive `MaxTime` and, as lags and intervals, sets of naturals). `Inv`
says that `lock` is the set of the workers inside a pass and that it has at most one
member (`LockInv`), and that what this worker measured lies between the stored starting
point and the counter, over a positive interval (`AccountInv`). Then the samples
partition the requests (`AccountedRequests`), and the average of two rates that are at most
the peak, rounded down, is at most the peak (`RateWithinPeak`). `PacedSamples` is about
clocks in step (`lag = 0`; with another lag `Paced` asks for nothing, because of the unsigned
difference described under `collectors.c:705`). `InStep`: no timer is
overdue; what the test compares with is the time of the last sample; whoever measures has
passed the test at this moment; and while nobody is in the pass some worker's timer fires
before resolution and refresh have both gone by. `Distance` shows that the unsigned
difference of two clocks in step is their difference.

`AccountingProofs` (finitely many workers and requests, bounds in order and at most 30 s). Each
request moves seven groups of counters by one, in the order of `Chain`; a list of
additions holds the rest of that chain (`Chained`; `FullList` for `account_request`), whatever else
is between. `CountInv`: what a group has counted plus the workers that owe it one
(`Promise`) does not increase along the chain, and the last promise is behind the first by no more
than the dead. A request adds one to each promise, an addition moves one from owed to counted,
a death takes one from the end of the chain. `BreakdownsHold` follows, because who owes a group owes
those after it.

`HonestPercentile` needs that a bucket holds the latencies that were observed in it (`HistInv`)
and, of the two loops (`ReadInv`): the sum of the first is at most what the buckets
it has passed hold; the second has found less than the target below its bucket, and
the rest of the sum is in the buckets from there on, so that the bucket that reaches the target, or
the open one at the end, was not empty. If the histogram stood still both are equalities, and
the bucket is that of the latency of the rank (`RankFound`).

`ResponseHolds` is about `ViewSpec`. `ViewInv`: the total that was loaded, less what was
being added, is at most each group's sum then and, since counters only grow (`CountGrows`), from then on
(`Floor`); a group that is being walked has loaded no more than what it has passed holds,
and together with what is ahead at least `Floor` (`Walking`); one that was walked lies
between `Floor` and its sum (`Whole`).

`AnswerProofs` about RateLimit (any workers, limits, lags). `FreshSecond` needs that a stored window is
a second in which a request arrived (`ArrivedInv`), so that the first request of a second
finds another window, whatever a dead worker left behind. `TwiceAtMost` splits each second
at the reset: before it (`Before`) every admission of the second was added to the count
that is about to be zeroed, so that at most `l` of them saw it below `l`; once the count
was zeroed (`After`) nobody resets it again in that second, because whoever comes to the
window finds it current, and the admissions are at most `l` plus the count. The mutex
(`MutexInv`) makes the store and the reset one worker's; a worker that dies between the two leaves
the second without a reset, which is the first case for good.

`AnswerProofs` about Response (any requests, configurations, contents, and any size of the
buffer; `ResponseAssumption` says of which type access rules and pieces are). `VerdictIs`
turns the list of tests into nested conditions, because the first one that stops decides
(`FirstStop`); `AccessIs` does so for the rules, and `BlockedIs` and `CredentialsAre` compare both with
what the documentation says.

* `AnswersAreDocumented`: in every state after the gate, what was sent agrees with a verdict that
  the request can get (`GateInv`); after a refusal header and carried fields never change,
  although the handler goes on, because nginx sends one header.
* `ResponseIsWhole`: unless the writer has failed, its position is what stands before the
  next piece (`Written`), through head, rows with their commas, and foot; if it has failed, the
  response was not shorter than the buffer (`WriterInv`). `PutIs` says what either primitive does
  to the position.

`CollectedProofs` is about the composition that the run `tables` checks, and first about
SystemGauges (a word that holds the products of the code without wrapping, which
`GaugesAssumption` asks for and 64 bits do).

* `UsageIsHonest`: the stored readings are those of the previous pass that could read, and where
  neither part went back the unsigned difference is the difference (`CpuInv`).
* `SharesAreHonest`: of a gauge whose size has not changed, the two words belong together except
  between the two stores (`MemInv`), and the operands a response has loaded are of shares that
  were in the table since it began (`ReadInv`).

Then about KernelTables (any devices, names, and number of rows; no two devices have one
name at the start, as `TablesAssumption` says).

* `ResponsesAreComplete`: if no device came or went since the pass read the file, the rows it
  filled and those it still has to are the devices there are (`PassComplete`); so is the table,
  once it was filled from such a file (`TableComplete`), which later passes overwrite with
  the same names and no smaller counters (`PassNewer`); and a response so far has named the
  first of them (`ResponseSoFar`).
* `NoTrafficIsInvented`: the samples cannot be bounded by looking at the table, because
  devices shift from row to row, go, and come back from zero. The invariant (`Told`) numbers all
  the devices there ever were, with what each has counted, what the samples account for of it,
  and which of them are in the last sample, the rows and the pass under way. No device has
  more in the samples than it counted (`Counted`), a counter that was read lies between both
  (`Filled`), and a device that left the samples does not return, since new ones are listed last
  (`Ordered`). What was counted before the start is in one sample at most (`Growth`).

`SseProofs` (a finite set of clients). A handler serves a client of its own living
worker with the timer off, and the request is open while it writes (`HandlerInv`, which is the second part of
`StreamAlive`); a timer
belongs to a request that is not freed, and if that request was finalized the tick will
find the connection in error (`ClientInv`). With them `BuffersIntact` and the first part of
`StreamAlive`, `Attended`, are inductive. `ExactGauge` counts with `Cardinality` of sets that change by one element a step: the
gauge is the registered clients plus those lost, and no more are lost than were freed (`GaugeInv`).

`TopTableProofs` (finitely many workers; any keys, rows and configurations). `Typed` adds to
`TypeOK` the shape of the list of additions, which ends in a 5xx preceded by its
failure, and the rows within reach (`LocalInv`). `RowInv`: who rewrites a row holds the mutex,
the hash is written last, and a torn row has hash zero. `RaceInv`: until an insertion
overlaps another call, who inserts is the only one inside a call (`Alone`) and no torn row
is counted in (`Unclaimed`). `WholeRows` assumes `NoZeroHash`: `hash` is a CRC-32, and a key whose
CRC is zero could match a row that lost its writer before the hash. `FailuresAlone` needs no such
assumption; it counts the workers between the two additions (`Pending`), and a death leaves a
failure too many.

* `EvictsLeast`: every count stays below the value the scan starts from (`BoundInv`, from
  `HitsFit`), and the rows that a call without company has passed are its empty row or have at
  least the hits of its victim (`ScanInv`).
* `CountedOnce`: the hits of all rows and the calls that have not counted theirs are together at
  most the calls made (`SumInv`); a row that is given up only loses some.
* `OneRowPerKey`: without a raced insertion, a worker that rewrites a row has seen that no
  other row it may use is for its key (`Missed`), one that counts does so in a row for its key
  (`Found`), and a row's hits and those that are due to it are at most the calls for the keys it cannot
  tell apart (`Counted`). It assumes `NoZeroHash` and that the table did not start with two
  rows for a key (`DistinctStarts`), which is what an adopted table looks like as long as
  nothing was raced in it.

* `ViewIsHonest`: the insertion sort ranks its copies and keeps each of them (`InsertRanks`,
  `SortRanks`; the copies are a permutation). As long as no insertion overlaps the walk, nobody
  inserts, rows keep their names and their counters only grow (`CalmInv`), and an injection takes
  the rows that are due to entries that show them (`ShowInv`).

The last of these is about `ViewSpec` of TopView; the others are about TopTable and its own
`Spec`. The run `top` checks all of them together, and a response changes no variable of
TopTable.

`Sums` proves from the definition of the fold in the community modules what is used of a sum over a
finite set: it is unfolded by any element, grows with its terms and its set, changes by as much as
one term does, and splits. Predicates cannot be named in a proof, so that induction is
over sets: a set of numbers, or of subsets, that is closed under the step has them all
(`NatAll`, `SubsetAll`), by a counterexample of least size.

Only model-checked is liveness: `CollectsOrOrphaned`, `RowsHeal`, both `QuitCompletes`,
`CallsEnd` and `ChecksEnd`. Their proofs need `ENABLED` of fair actions, which the prover does not
reach. The runs that fail (`CollectionGoesOn`, `WindowOrdered`, `HistogramsCumulative`, `AnsweredOnce`) have nothing to
prove.

## Not modelled

The wording of responses and headers; text parsing of `/proc` and the collectors that store
what they parsed and nothing else (load, uptime, processes, sockets); parsing of directives (their merging is in Gate); the page of the dashboard;
allocation failures, which end a request before it changes shared state. Memory is sequentially consistent and stores of
a word are whole. Latency and byte sums move with the hit counter and are left out of
TopTable.

## Plan

The order was: the collector and its lock; what it writes (history, sampling, tables); what
requests write (accounting, top tables, limiter); the streams; the responses (writer, gate,
view), and then the gauges, shared worker rows, workers of two configurations, deaths inside
an update, and the responses that read counters while they change; last the proofs,
component by component, until every safety property of a passing run had its theorem. Left is
the branch of `init_shm` for a zone that exists without an old cycle.
