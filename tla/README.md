# TLA+ models of dajung-portfolio

The repository is a portfolio of independent programs. Three of them have code
of their own with behaviour worth verifying:

1. **lockfree-queue** – `lockfreequeue_sptr<T>`, a lock-free ring buffer in C++,
   and its unit tests;
2. **place-flow** – an order and payment backend (Spring Boot, Redis, MySQL);
3. **satellite-ground-sw** – an orbit propagator in C++ that writes a ground
   track to a CSV file, and a Python tool that draws it on a map.

The three do not talk to each other, so there are three groups of modules.
Source paths below are relative to the repository root.

## 1. Inventory

### 1.1 The queue (`lockfree-queue/02_lockfree-queue/core/lockfreequeue_sptr.hpp`)

*State.* `buffer_`, a ring of `capacity_` slots (`unique_ptr`), and two atomic
indices: `head_`, the next slot to take, and `tail_`, the next slot to fill.
The queue is empty if they are equal and full if `tail_ + 1` (wrapped) equals
`head_`, so one slot always stays free.

*Operations.* `enqueue`/`push`, `dequeue`/`pop` (two names each, same body),
`count`, `is_empty`, `size`, constructor and destructor.

*Interaction.* Threads share the ring without locks. `enqueue` reads `tail_`
relaxed and `head_` with acquire, fills the slot, stores `tail_` with release;
`dequeue` mirrors it. `count` and `is_empty` may be called by anybody.
`lockfree-queue/README.md` says that the class is for one producer and one
consumer.

*Hard.* Arbitrary interleavings; indices that are stale when they are acted on;
the weak memory orders; wrap-around; exceptions between two accesses (`make_unique`
and the copy of `T`); two loads in `count` that are not atomic together.

*Correct if* calls are linearizable as a FIFO queue of `capacity_ - 1` elements;
no slot is accessed by both sides without a happens-before; no element is
overwritten, lost or doubled; `dequeue` never dereferences a null slot; every
call returns whatever the other thread does.

### 1.2 The queue's tests (`lockfree-queue/02_lockfree-queue/tests/unit_lockfree_queue.cpp`)

Clients of the queue: producers retry while the queue is full, consumers take
until a shared counter says that everything was consumed, main joins all of them
and asserts that every item was consumed once. *Correct if* the verdict is the
same under every schedule and the joins return.

### 1.3 PlaceFlow (`place-flow/demo/src/main/java/com/placeflow/demo`)

*State.* Redis holds the request ids seen in the last five minutes. MySQL holds
`orders` (`CustomerOrder`: id, status) and `payments` (`Payment`: order id,
unique `payment_key`). Each handler thread has a request, a transaction, an
entity it loaded.

*Operations.* `POST /orders` (`OrderService.create`), `GET /orders/{id}`
(`OrderService.get`), `POST /payments/approve` (`PaymentService.approve`): set the
request id in Redis if it is not there (else 409), load the order (else 404),
check that the payment key is unused (else 409), insert the payment, set the
order `PAID`, commit. `GlobalExceptionHandler` turns exceptions into codes.

*Interaction.* Handlers race on Redis and on rows. Redis is outside the database
transaction: nothing undoes the key when the transaction fails.

*Hard.* Check-then-insert of the payment key; entities that are stale when
written; a key that expires while its request runs; lost replies of Redis and of
COMMIT; a crash between the two stores; clients that retry; waits for locks.

*Correct if* payments and order status agree at all times; a payment key is used
once; a request id has one effect per lifetime of its key; what a client is told
is true; the transactions are serializable; every request is answered; a client
that keeps trying learns what came of its request.

### 1.4 Orbit engine (`satellite-ground-sw/02_orbit-engine`)

*State.* `OrbitPropagator::Propagate` has the current time, the current state
vector and the trajectory. `main` has the ground track, `ReportWriter::WriteCsv`
a file stream. The file `output/ground_track.csv` outlives them and is read by
`tools/plot_ground_track.py`.

*Operations.* `Propagate`, `RK4Step`, `ComputeAcceleration`, on `Vector3` and
`StateVector`; `EciToEcef`, `EcefToGeodetic`; `WriteCsv`; the tool's
`split_by_dateline` and `build_map`.

*Hard.* The time grid is a sum of rounded numbers; a step can be absorbed by
rounding; the stream's buffer is written when it is full, writes are never
checked; the program may be killed, run again, or be running while the map is
drawn; longitudes jump at the dateline; signs, axes and factors in formulas whose
wrong variants also give something that looks like an orbit.

*Correct if* a trajectory ends at the requested duration exactly; the integrator
is the documented one and treats the axes alike; the track turns against the stars
as the earth does; a map shows one track, not a mixture of two runs, and no segment
crosses the dateline; "saved" means that the file is complete.

### 1.5 What is not modelled

`PROJECT.json` lists it with reasons: PlaceFlow's DTOs and configuration (data
carriers; a bean that is used nowhere), classes that are declared only
(`CollisionAnalyzer`, `Scenario`, `WriteSummary`, `WriteHtml`), the two directories
without code (`interactive-queue-system`, `imaging-processing`), and vendored or
generated files (GoogleTest, CMake's build trees, the Gradle wrapper).

Left out of parts that are modelled: the queue's destructor (the tests join every
thread first) and `size()`; the single-threaded tests of the queue; amounts and
merchants of PlaceFlow, on which no step depends; the magnitude of gravity, altitudes,
angles within a quadrant, and the map's HTML. A consumer of the queue's test that waits
for ever beside other consumers is looked for by no run: `mpmc_test` stops at the first
assertion that fails, and `Termination` is about one consumer.

## 2. Modules

| module | what it is |
|---|---|
| `LockFreeQueue` | the queue for any set of threads, one action per access to shared memory, sequentially consistent |
| `BoundedFifo` | abstract: a FIFO queue whose calls take effect in one step |
| `SpscQueue` | one producer, one consumer: invariants, inductive invariant, refinement of `BoundedFifo` |
| `SpscQueueProof` | the proofs of its invariants, and that its calls return |
| `SpscQueueRefinement` | the proof that it implements `BoundedFifo` |
| `QueueProgress` | wait-freedom: nobody waits, and every call returns |
| `LockFreeQueueRA` | the queue under the C++ memory orders, and its inductive invariant |
| `LockFreeQueueRAProof` | the proofs about it |
| `QueueTests` | the two concurrent tests as clients of `LockFreeQueue` |
| `SpscTest` | the test with one thread on each side: composes `QueueTests` and `SpscQueue`; its inductive invariant |
| `SpscTestProof` | the proofs about it |
| `PaymentLedger` | abstract: orders are created and payments approved in one step each |
| `PlaceFlow` | the backend, and its refinement of `PaymentLedger` |
| `PlaceFlowProof` | the proofs about the database and the refinement |
| `PlaceFlowAdmissionProof` | the proofs about the idempotency keys |
| `PaymentClients` | composes `PlaceFlow` with clients that send their request again until they know |
| `PaymentClientsProof` | the proofs about them |
| `Vector3` | the vector operations |
| `CoordinateConverter` | inertial to turning axes, and those to latitude and longitude |
| `OrbitPropagator` | the time grid in rounded arithmetic, and one RK4 step |
| `GroundTrack` | composes propagator and converter with `main`, the file and the map tool |
| `GroundTrackProof` | the proofs about rounding, the grid, the track and the file |
| `MC...` | instances for TLC |

Composition: `SpscQueue`, `QueueProgress` and `QueueTests` extend
`LockFreeQueue`, and `SpscTest` extends `QueueTests` and `SpscQueue`;
`PaymentClients` extends `PlaceFlow`; `GroundTrack` extends
`OrbitPropagator` and `CoordinateConverter`, which both extend `Vector3`; `SpscQueue`
and `PlaceFlow` instantiate their abstract specification. A definition preceded by
`\* mutant:` is a variant of the definition after it (a bug one could have made);
no specification uses it, it only shows that a property can fail.

### 2.1 `LockFreeQueue`

`buffer`, `head`, `tail` are the members of the class. `op`, `pc`, `idx`, `val`,
`res` and `num` are, per thread, the function it is in, its next access, its copy
of an index, its argument or out-parameter, and its result. Each load, store and
slot access is an action: `EnqLoadTail` (line 22), `EnqLoadHead` with the test for
full (25-27), `EnqWrite` (29), `EnqStoreTail` (30); `DeqLoadHead` (48),
`DeqLoadTail` (50-52), `DeqCheck`, `DeqCopy`, `DeqReset` (53-57), `DeqStoreHead`
(58); the loads of `count` and `is_empty`, the latter in either order because C++
does not fix it. `EnqThrow` and `DeqThrow` are the exceptions. A dereference of an
empty slot goes to the label `trap`.

### 2.2 `LockFreeQueueRA`

Every atomic is the sequence of its stores; every thread has a view: the oldest
store of each atomic it may still read, and the writes to each slot it is ordered
after. A release store carries the writer's view, an acquire load joins it to the
reader's, a relaxed one does not. A slot that is touched while its last write is
not in the view is a data race. Each atomic has one writer here, so that its
modification order is the order of that thread's stores.

### 2.3 `PlaceFlow`

A handler's `pc` names its next access to Redis or to the database. `Acquire` is
`SET NX EX`, `FindOrder` takes the transaction's snapshot (`seen` is how many
payments it contains), `ExistsByPaymentKey` reads that snapshot, `InsertPayment`
checks the committed rows and waits for an uncommitted row with the same key
(this is what InnoDB does at REPEATABLE READ with a unique index), `FlushOrder`
takes the row lock of the UPDATE, `Commit` makes both changes visible.
`DatabaseFails`, `AcquireFails`, `CommitUnheard` (committed, but the reply is
lost), `Expire` and `Crash` are the failures. `answer` has the status code of the
response, which for an exception is what `GlobalExceptionHandler` makes of it (`Status`),
and the reason, for the properties only. The tables' ids are assumed to
be handed out without gaps, in commit order; no decision depends on it. Request
ids of orders are assumed not to begin with `payment:`.

In `PlaceFlow` clients may send anything at any time, and nobody reads the answers.
`PaymentClients` replaces them by clients that want one thing each (`Wants`): `Send`
hands the request to an idle handler, `Hear` takes the answer, `GiveUp` stops waiting
for a handler that goes on (or loses the response). A client that gets an answer from
which it cannot tell, that is any 500, or 409 for a duplicate *request*, sends the
same request again; `outcome` is what it has learnt otherwise. Faults are those of
`PlaceFlow` and `GiveUp`. A client may also never turn up (`"away"`). The clients are not
part of the repository.

### 2.4 `Vector3`, `CoordinateConverter`, `OrbitPropagator` and `GroundTrack`

Vectors have integer coordinates. `EciToEcef` takes time in quarter turns of the
earth, whose sines and cosines are integers; `EcefToGeodetic` tells eight directions
apart, the four axes and the four quadrants between them, and `Atan2` gives each one
angle. This is enough for a sign, an axis or an angle to be visibly wrong.

Times are floating-point numbers, `Significands` times `Units` (for the program, 53
bits times powers of two), and every sum and difference is rounded to nearest, ties to
even (`Round`). `Binary` says of a format that its units are powers of two without a gap;
only one theorem of section 5.4 needs it. `Start`,
`Advance`, `Finish` are `Propagate`; `Collapse` is the exception for a zero radius
and `Exhaust` the allocation that fails. `RK4Step` is exact arithmetic on position
and velocity, scaled so that everything is an integer; the acceleration is a parameter.

In `GroundTrack`, `Open`, `Put` and `Close` are `WriteCsv`; `Flush` moves a part of
a row, or the rest of one, from the buffer to the file (`torn` says that only a part of
the last row is there), `DeviceFull` breaks the stream silently, `Kill` and `Rerun` are
the operating system and the user. `WriteCsv` refuses a list of times that is not as long
as that of points, but main always makes them equally long.

`Drawings` is what `plot_ground_track.py` may make of the file if it is run now. pandas
reads a torn last row like any other: if its longitude is cut short, -177.08 may be read as
-177.0, -17 or -1 (`Readings`: a number of the same sign that is nearer to zero, as
`WriteCsv` writes fixed-point numbers); if the row ends before that, a coordinate is missing
and folium fails, as the tool does without a file, the names of the columns or a point.
`Split`, whose loop body is `Extend`, cuts the line at the dateline. All of these are
functions of the file, so an invariant about them speaks of a map drawn at any moment. A
row carries the run and the number of its point, for the properties only. `main` has its
duration, step and orbit as literals; the model takes them from small sets, and the
positions along an orbit are given (`Orbits`): that they are those RK4 computes is no
premise of any property of the track.

## 3. Runs

| run | module / cfg | shows |
|---|---|---|
| `spsc_queue` | `MCSpscQueue` | linearizable, never an empty slot; the inductive invariant; nobody waits and every call returns, even if the other threads stall for ever |
| `memory_orders` | `MCLockFreeQueueRA` | no data race, FIFO, nothing overwritten, safe `count`/`is_empty` under the declared memory orders; the inductive invariant |
| `spsc_test` | `MCSpscTest` / `MCQueueTestsSpsc` | `SingleProducerSingleConsumer` passes and ends under every schedule; the inductive invariant |
| `mpmc_test` | `MCQueueTests` / `MCQueueTestsMpmc` | violation: the asserts of `MultiProducerMultiConsumer` can fail |
| `payment_race` | `MCPlaceFlow` / `...Race` | consistent tables, durable answers, final refusals, serializability under races and failures; the inductive invariants |
| `payment_clients` | `MCPaymentClients` | one effect per lifetime of a key, what clients learn is true, every request is answered and every client learns in the end; the inductive invariant |
| `ground_track` | `MCGroundTrack` | grid ends at the duration, unless a step is lost to rounding every point gains at least half a step, axes are alike, the track lags behind the stars, the points on the map are the first of one track, the last perhaps from a torn row; the inductive invariant |
| `duplicate_payment_409` | `MCPlaceFlow` / `...409` | violation: some duplicate payments get 500 |
| `missing_order_404` | `MCPlaceFlow` / `...404` | violation: a missing order gets 500 |
| `paid_again` | `MCPlaceFlow` / `...PaidAgain` | violation: a PAID order is approved again |
| `rk4_formula` | `MCGroundTrack` / `MCRK4` | violation: the fourth slope is taken at the wrong time |
| `saved_message` | `MCGroundTrack` / `MCSaved` | violation: "saved" is printed though rows are missing |

The violations contradict a sentence of the repository each (see "findings" in
`PROJECT.json`).

### Bounds, and why they are enough

* `spsc_queue`: three slots (so the ring holds 0, 1 or 2 elements at every
  rotation), two values (enough to tell a lost element from a doubled one), one
  observer. Any number of calls: the model is finite without a bound on them. The
  theorems of section 5.1 hold the invariants for every capacity.
* `memory_orders`: two slots and four elements: the ring wraps, and the producer
  reuses each slot after the consumer has released it, which is where the orders matter.
  `MaxItems` bounds the stores, which the model remembers. The theorems of section 5.2
  hold every property of this run for any capacity, threads and number of elements.
* `spsc_test`: four items through two usable slots, so both sides meet their limit.
  Section 5.5 proves everything but `Termination` for any capacity and number of items.
  `mpmc_test`: one item per producer is enough for a counterexample.
* `payment_race`: three handlers (a race of three for one order, two with one
  payment key); the key of one payment expires once (`OneExpiry`), also while its request
  runs. Requests, some with a field left out, are drawn again and again from a small
  set; the keys in Redis bound how many have an effect. Section 5.3 proves every property
  of this run for any handlers, requests and expiries.
* `payment_clients`: one client creates the order, another pays it, with the same request
  id. `MCInit` chooses among the initial states of `ClientsSpec` who else is there. In the behaviours without a fault a `rival` wants to pay it under the same payment
  key, so that one INSERT waits for the other; in those with a fault a `partner` wants to
  pay it under a payment key of its own, so that both get past the INSERT and one UPDATE of
  the order waits for the row lock of the other. Two handlers, so an attempt that was given
  up can run beside the next one; a chain of three transactions that wait for each other
  does not fit. One fault (`MaxFaults`) of any kind at any moment. The key of a creation
  expires at most once and that of a payment twice (`MCExpiries`), which is as often as
  their clients can need: once for an attempt that failed, and for a payment once more for
  one that met the constraint. `EveryClientSettles` would fail if the bound on expiries were
  what stops a client. With rival, partner and faults all in one behaviour the liveness
  check does not end in reasonable time. The run has 88,221 states. Section 5.3 proves the
  invariants of this run for any clients, handlers, faults and expiries.
* `ground_track`: significands up to 8, that is three bits, and units up to 8 make rounding,
  ties and absorbed steps happen within twelve points; memory has room for thirty
  (`MaxPoints`), the fewest with `EnoughMemory` for these durations and steps, which TLC
  evaluates in `InstanceAssumption`, so that only absorbed steps fill it. Three orbits go
  round the equator slowly and fast and over the poles, so that the dateline is crossed both
  ways; states with coordinates 0 and 1 for RK4, which is linear in the instance
  (`Spring`), so that a wrong coefficient or coordinate shows; two runs suffice for the
  mixing of an old and a new file, since opening a file truncates it whatever it holds.
  The run has 259,746 states to a depth of 67. Section 5.4 proves every
  property of this run for any floating-point format (`StopsUnlessAbsorbed` for any binary
  one), arguments, orbits and number of runs.

`mpmc_test` alone has deadlock checking off: with the counter wrong the consumers may
wait for ever, which is the same bug. All other specifications never stop: either
calls keep coming or a final stuttering action says that the program is over
(`Finished`, `Stop`).

### Fairness

* `EveryCallReturns` assumes weak fairness of the thread whose call it is, and of no
  other: this is what makes it wait-freedom.
* `Termination` (tests) assumes it of every thread: the operating system schedules
  all of them, and `yield()` gives the processor away.
* `Fairness` (`PaymentClients`) assumes it of the handler threads' own steps (the server schedules its
  threads), of the expiry of each key (Redis deletes it after five minutes) and of a
  client hearing its answer. A client that does not know yet is assumed to get a
  handler if handlers are idle again and again (strong fairness of `Send`: the
  connector's queue is first come, first served). Nothing is assumed of faults, so an
  answer may not depend on a timeout of the database.

No safety property uses fairness.

## 4. What the checks found

* *mpmc_test*: two producers read the same `tail_`, both fill the slot, one element
  is lost. `lockfree-queue/README.md` records that this test fails.
* *duplicate_payment_409*: both transactions find the key unused; the second INSERT
  violates the unique constraint, which no handler maps to 409. The tables stay right.
* *missing_order_404*: `OrderService.get` throws `NoSuchElementException`, which is
  answered 500.
* *paid_again*: `approve` does not look at the order's status.
* *rk4_formula*: `k4` is evaluated at `dt * 0.5`.
* *saved_message*: `WriteCsv` returns `true` whatever became of its writes, and before
  the stream's destructor makes the last of them.

What they confirm: with one producer and one consumer the memory orders of the queue
are sufficient, also for the relaxed loads in `is_empty`; PlaceFlow's single
transaction plus the unique constraint is enough for the tables, and no failure
between Redis and MySQL can make a request id count twice within its lifetime. A client
that retries gets through, though only after the key of a failed attempt has expired;
if it is then refused, an earlier attempt of its own, of which it has not heard, may
nevertheless have paid (`ClientKnows` states exactly what can be relied on). A full
device aside, a file that main calls saved is complete.

## 5. Proofs

### 5.1 The queue

`SpscQueueProof`, for every capacity, every set of values and observers, at most one
producer and at most one consumer:

* `TypeCorrect`: `Spec => []TypeOK`. Indices stay in the ring.
* `Invariance`: `Spec => []IInv`.
* `SlotsMatch`, `ElementFound`: consequences of `IInv`.
* `CallsReturn`: `Spec /\ []NobodyWaits => EveryCallReturns`, that is, every call of a
  thread that keeps running returns, if a thread in a call can always take its next step.
* `IsLinearizable` (in `SpscQueueRefinement`): `Spec => Linearizable`, that is,
  `SpscQueue` implements `BoundedFifo`.

Assumptions: `CapacityAssumption` (at least one slot), `ValueAssumption` (a value is
not `nullptr`), `ThreadAssumption` (nobody is on two sides), `SingleProducer`,
`SingleConsumer`. The model-checked instances satisfy them.

*Argument.* That a `dequeue` finds an element is not inductive: the consumer has
tested `head_ # tail_` two accesses earlier, and whether the slot is still full depends on
where the producer is. `IInv` adds what makes it so:

* `SlotsMatchIndices`: a slot owns an element iff it lies between `head` and `tail`
  going round the ring, up to the one slot each side is working on (`Taking`,
  `Filling`);
* `ProducerInv`: within a call the local copy of `tail_` is `tail_` (nobody else
  writes it), and once the test has passed, the ring stays non-full, because the
  consumer only ever makes room;
* `ConsumerInv`: the mirror image;
* `CallInv` and `ReadInv`, which the refinement needs: where a call stands (its function,
  and a result when it is done and not before), and that an owner which has read its own
  index in `count` or `is_empty` holds the current one.

*Argument for the returns.* `StepsLeft` bounds the steps that a thread still has to take by
the access it is at, seven at most. Its own step brings it nearer to zero (`OwnStep`), a step of
any other leaves it alone (`OtherStep`), and the one place where it could be stuck, the
dereference of an empty slot, is not reached (`NeverTraps`, from `IInv`). Weak fairness
of this one thread then makes it go from at most *n* + 1 steps to at most *n*
(`OneStepNearer`), seven times. The premise `NobodyWaits` says that `Step(t)` is `ENABLED`, about
which the prover cannot reason; TLC checks it as the first part of `EveryCallReturns`.

The ring lemmas (`RingGrows`, `RingShrinks`, `RingEnds`, `SuccInjective`) say how the
set of slots in use changes when an index moves; they are the only arithmetic. Then
there is one lemma per kind of step (`QueryInv`, `InvokeEnqueueInv`, `EnqueueInv`,
`DequeueInv`...), with `ProducerMoves` and `ConsumerMoves` saying that a step of one
side leaves the locals of the other alone.

The abstract queue is the part of the ring between the indices (`Contents`), the element
of a slot that was just emptied being in the consumer's out-parameter. `ContentsGrow` and
`ContentsShrink` show that the two index stores are `Append` and `Tail`; `WriteKeepsContents`,
`ResetKeepsContents` and `QuietContents` that nothing else changes it, so these stores are
where `enqueue` and `dequeue` take effect. An owner's `count` or `is_empty` takes effect
when it reads the index of the other side, which may be its first load: the mapping then
reports the result before the call decides it (`CountDecided`, `EmptyDecided`), and
`OthersMapped` shows that no step of another thread changes it. A lemma per function
(`EnqueueRefines`, `DequeueRefines`, `CntLoadHeadRefines`...) names the abstract step.

### 5.2 The queue under the C++ memory orders

`LockFreeQueueRAProof`, for every capacity, any number of elements and any threads that
only look:

* `TypeCorrect`, `Invariance`: `Spec => []TypeOK`, `Spec => []IInv`.
* `NoDataRace`, `Fifo`, `NoneOverwritten`: an access to a slot is ordered after every
  earlier write to it; elements come out in the order they went in, each once; no
  element is written over.
* `CountForward`, `OwnersAreSafe`: what `count` and `is_empty` may be off by.

Assumptions: `CapacityAssumption` (at least one slot), `ThreadAssumption` (the two sides
are different threads) and `MaxItemsAssumption`, which bounds the elements by any number.

*Argument.* None of the properties is inductive: whether the producer's write races
depends on what the stores it has read carried with them. Numbering the elements from 1,
element *m* passes through slot `SlotOf(m)`, store *k* of `tail_` publishes element
*k* - 1 and store *k* of `head_` releases its slot. `IInv` says, in these terms:

* `SlotsHoldPresent`: which elements are in their slot (`Present`) and which elements the
  free slots are for (`Vacant`); together they are one lap of the ring (`RingIsOneLap`),
  so no two of them share a slot (`SlotsDiffer`);
* `StoresCarry`: store *k* of `tail_` carries the writes of the elements before it, store
  *k* of `head_` those that emptied the slots before it, and each knows its own position;
* `ProducerInv`, `ConsumerInv`: each side knows its own stores and the writes to what it
  has put or released, and after its acquire load also the writes to the slot it goes on to;
* `ReadInv`: what a thread inside `count` or `is_empty` has read so far, whence
  `OwnerQueries`.

The memory orders enter in two places. `RoomForNext`: an acquire load of `head_` that
finds room has read a store which carries the emptying of the very slot to be filled.
`NextIsPublished`: an acquire load of `tail_` that finds an element has read a store
which carries its writing. Each then only needs that a relaxed load of a thread's own
index reads its last store. With the store of `tail_` made relaxed (the mutant
`EnqStoreTailRelaxed`) `StoresCarry` fails at once. There are three groups of steps:
loads (`Look...`: views grow, memory stays), slot accesses (`Write...`) and stores
(`...Stores`); a lemma per action puts the conjuncts together.

### 5.3 PlaceFlow

`PlaceFlowProof`, for any set of handlers and of requests, and however often keys expire:

* `TypeCorrect`, `Invariance`: `Spec => []TypeOK`, `Spec => []IInv`.
* `PaidMeansPaid`, `KeysAreUnique`, `RefusalsAreTrue`, `ApprovalsAreTrue`: the
  invariants `PaidIffPayment`, `PaymentKeyUsedOnce`, `DuplicatePaymentIsReal`,
  `SuccessIsDurable`.
* `Refinement`: `Spec => Serializable`, that is, `PlaceFlow` implements `PaymentLedger`.

Assumptions: `RequestsAssumption` (what a request consists of) and
`MaxExpiriesAssumption`, which bounds expiries by any numbers.

*Argument.* That a commit keeps the tables right is not inductive: it relies on checks
made several accesses earlier, by a transaction that reads an old snapshot. `IInv` adds
`TransactionInv`, what a handler can rely on between two accesses: from `exists` on its
order is there, and paid if `loaded` says so (orders are never deleted and never become
unpaid, which is why a stale status does no harm); from `flush` on it is alone with its
payment key, which no row has. The latter holds because INSERT waits for uncommitted rows
with the key and looks at the rows as they are now; the earlier `existsByPaymentKey` is
not used in the argument, only for the answer it gives.

There is one lemma per access. Those that leave the database alone go through `QuietInv`
(one handler moves, the others keep what they rely on, no answer is news of a payment
that is not there), with `AnswerInv` and `GoOnInv` for the two ways a handler can move;
`SaveInv` and `CommitInv` are the accesses that change the tables, each also with the
reply lost. For the refinement, `CommitRefines` shows that a commit is a step of
`PaymentLedger!Approve`, an update that is skipped because the order was loaded as `PAID`
being one that would change nothing.

`PlaceFlowAdmissionProof`, from the same assumptions (there may even be infinitely many
handlers):

* `AdmissionInvariance`: `Spec => []AdmissionInv`.
* `OnceInALifetime`, `RefusalsAreFinal`: the invariants `OncePerKeyLifetime` and
  `RefusalIsFinal`.

*Argument.* That a key has made no more rows than it has had lifetimes is not inductive:
nothing in it says how many requests are on their way to making one. `AdmissionInv` counts
them. A handler is `Admitted` from the moment Redis has let its request through until the
request has made a row or has failed; one that was refused stays admitted to the end of its
response, which is what `RefusalIsFinal` needs. For every key the handlers that use it, plus
the rows it has made, are at most the times it has expired, plus one if it is set. A request
is let through only when its key is set anew (`Admission`), an effect trades a user for a
row (`Effect`), an expiry trades "is set" for "has expired", and everything else, crashes and
lost replies included, only takes users away (`NoAdmission`). `BudgetKept` and `BudgetSpent`
do the counting; `UsersKept` says that a step of one handler changes the set of users
by no one but itself. So a refused request whose key has not expired uses up the only
lifetime there was, and no row is left for an earlier or concurrent attempt.

`PaymentClientsProof`, from these assumptions, `WantsAssumption` (every client wants
something), `NobodyAssumption` (`Nobody` is not a handler) and `MaxFaultsAssumption`,
which bounds faults by any number:

* `ClientsInvariance`: `ClientsSpec => []ClientsInv`.
* `ServerUnderClients`: `ClientsSpec => Spec`, so all of the above holds with these clients.
* `OnceDespiteRetries`, `WhatClientsLearnIsTrue`: the invariants `OncePerKeyLifetime` and
  `ClientKnows`.

*Argument.* What the server guarantees is about an answer that is about to leave; what a
client has learnt it may remember for ever. `ClientsInv` connects them. A client that waits
for a handler gets the answer to its own request and nobody else does (`OneClientEach`). What
it has learnt is put in terms that last (`Learnt`): a payment that is there stays there
(`PaymentsStay`), a key that has expired has expired (`ExpiriesStay`), and a refusal leaves
the key `Spent`: set, with no request on its way and no row. The refused request was the only
one the key has let through (`SoleUser`, from `AdmissionInv`), nobody can be let through while
the key is set, so it remains spent until it expires (`SpentUntilExpiry`). Once the key has
expired an earlier attempt of the client's own may have paid unheard, or may still pay,
which is why `ClientKnows` says no more.

### 5.4 The ground track

`GroundTrackProof`, for any floating-point format, durations, steps, orbits and number of
runs:

* `Invariance`, `TypeCorrect`: `Spec => []IInv`, `Spec => []TypeOK`.
* `SpansDuration`, `OneTrackOnMap`, `SavedWhenRoom`, `LagsBehindStars`: the invariants
  `TrajectorySpansDuration`, `MapShowsOneTrack`, `SavedUnlessDeviceFull` and
  `TrackLagsBehindStars`.
* `PartedAtDateline`: the invariant `SegmentsPartAtDateline`, for files of any length.
* `StopsWithRoom`: the invariant `StopsUnlessAbsorbed`, in a format that is `Binary` and with
  `EnoughMemory`, which is room for two points per step: `Propagate` can run for ever, that
  is until memory is gone, only if time stands still.
* `ReplacedByFullTrack`: the action property `FileReplacedByFullTrack`.
* `AxesAlike`: `NoAxisIsSpecial`, if the pull does not tell the axes apart
  (`PullIsSymmetric`), as gravity towards the origin does not. The axes are exchanged in a
  circle, or two of them with each other (`Ways`); all other exchanges are made of these.

Assumptions: `SignificandsAssumption` and `UnitsAssumption` (significands up to any number;
of two units the larger is a multiple of the smaller), `ArgumentsAssumption` (a positive
duration or step is a floating-point number), `OrbitsAssumption`, and
`MaxPointsAssumption` and `MaxRunsAssumption`, which bound points and runs by any numbers.
`StopsWithRoom` has two hypotheses more. `Binary` is true of a double, and without it
`HalfAStep` is false: between numbers up to 8 and then 1000, a step of 8 gets from 7 to 8. `EnoughMemory` asks for twice the
points that a duration takes: of `main`, whose 5400 seconds take 91 points in steps of 60, it
is true with room for 181; TLC checks that both hold in `MCGroundTrack`, where one point less is
not enough.

*Argument for the grid.* That the last time equals the duration is not obvious: the last
step is the *rounded* difference of duration and time, and adding it rounds again.
`GridInv` says that time is zero, or is at least one step, or is the duration. So if
another step would go beyond the end, then either time is zero, or more than half of the
duration has passed, and then the difference is a floating-point number itself
(`DifferenceExact`, Sterbenz's lemma; `UnitsNest` is all it needs of the units). Then
nothing is rounded and the sum is the duration (`AdvanceTime`). Of rounding only this is
used: the result is a floating-point number and no other lies between it and the exact one
(`RoundIsNext`). So the theorem does not depend on ties, nor on 53 bits. Two equal times can
follow each other only where a step is absorbed, and then time never moves again and
nothing is returned. That every set of natural numbers has a least element, on which the two
neighbours of a number rest, comes from the well-foundedness of inclusion
(`MinimumExists`).

*Argument for the number of points.* A step that is not absorbed can still be shortened by
rounding, again and again, so that it is not obvious how many of them a duration takes. In a
binary format the gap above a number is at most twice the gap below it
(`GapsAtMostDouble`): written with the least unit it has, the number is at least that unit
away from the one below, and at most twice that unit away from the one above. Rounding to
nearest takes away at most half of the gap above; the step has gone past the gap below, as it
was not absorbed; so at least half of the step is left (`HalfAStep`). `RoomInv` adds this up:
with every point twice the time grows by at least a step (`AdvanceRoom`), and when memory is
full and time has not stood still it would be beyond the duration (`EndRoom`).

*Argument for the map.* `Split` is a recursive function, and that its values are what its
definition says has to be proved before anything can be said of them. `UnrollingExists`
shows that for any function that counts up to *n*, by induction over a set of numbers that contains
1 and with each number the next (`CountedUp`, from `MinimumExists`). The same induction
gives what the loop preserves (`SplitParts`): the segments so far are `Parts` of the points so far,
that is, one after another they are these points, none is empty, none crosses the dateline
inside, and every one but the first begins across it. `ExtendAcross` and `ExtendWithin`
show that the loop body adds one point to that, as a segment of its own or at the end of the last.
`FlattenSeq` of the community modules is a fold, and `FlattenParts` to `FlattenOne` derive from its
definition the three equations that are needed: of one segment, of one segment
more, and of a last segment that has grown.

*Argument for the file.* `FileInv` says that the file holds either the first `sent` of the
rows of this run, the last of them perhaps torn, or one track of an earlier run; the latter
only while nothing of this run has been sent. So
`Open` is what matters: it forgets the older track in the same step in which the new one
becomes the one to write. Each other step either leaves the file and the track alone
(`FileKept`, `BeforeWriting`), puts the next row there, whole or in part (`FlushFile`,
`NextRow`), completes it, or writes the rest (`CloseFile`). A file of first rows of one run
is one track (`FirstRows`, `FileIsTrack`), and remains one when another run is about to begin
(`RerunFile`). What build_map draws are the rows of the file without the names of the columns,
but for a last one that is torn (`DrawingIs`): that differs from its row in the longitude only,
which is no further from zero (`ReadingIs`). Together this is `OneTrackOnMap`.

*Argument for the track.* `AtanIsDirection` shows that the angle is the one determined by the
signs of the coordinates, `Turned` that the rotation at time *t* is *t* quarter turns, and
`DirectionTurns` that a quarter turn takes 90 degrees away, modulo 360.

### 5.5 The test with one producer and one consumer

`SpscTestProof`, for every capacity and any number of items:

* `TestInvariance`: `TestSpec => []TestInv`.
* `TestSeesFifo`: `TestSpec => Linearizable`: the calls of the test are those of a FIFO
  queue.
* `InOrder`, `TestPasses`: the invariants `ConsumedInOrder` and `TestVerdict`.

Assumptions: those of section 5.1, `TestThreads` (one thread on each side),
`PerProducerAssumption` and `ItemsAssumption` (what the items are).

*Argument.* `TestIsClient` shows that whatever the test does to the queue its users may
do at any time, so everything that is proved of the queue holds of it here, from the
inductive invariant to the refinement. That the items come out in order is then a
statement about four places in which an accepted item can be. `Accounted` says that the
consumed ones, the one in the hands of the consumer and those in `Contents` are, in this
order, all items that were accepted; `Accepted` counts an item from the store of `tail_`
on, before `enqueue` has returned `true`, and `Taken` counts one from the store of `head_`
on. `ProducerLoop` says that the item in a call is the next one, so that a refused one is
put again and an accepted one is not; `ConsumerLoop` relates the counter, the list and the
one element that is in the list and not yet in the counter. A step of the producer is one
of the queue that appends an item to `Contents` or leaves it alone (`ProducerPuts`), a step
of the consumer one that takes the first or leaves it alone (`ConsumerTakes`), by the lemmas
of the refinement. When all threads have left their loops the counter is the number of
items, so the list is complete and nothing is left in the queue.

### 5.6 Only model-checked

* That a thread in a call can always take its next step (`NobodyWaits`): it is about `ENABLED`,
  which is out of the prover's reach. What follows from it is proved (section 5.1).
* The other liveness properties (`Termination`, `EveryRequestAnswered`,
  `EveryClientSettles`): how often a loop of the test goes round, or a transaction waits for
  another, depends on the number of items or handlers, and the prover has no induction for
  temporal formulas.
* `MultiProducerMultiConsumer`, which fails.

## 6. Plan

Every safety property of the passing runs is proved, for all values of the constants, and so
is that the calls of the queue return. The liveness of the test and of PlaceFlow stays with
TLC. What a next version of the model could add is listed in section 1.5.
