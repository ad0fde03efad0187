# A verification project for ATDECC

TLA+ models of the Python/C++ implementation of IEEE 1722.1 (ATDECC) in `src/`, their
TLC configurations, and proofs for TLAPS. Paths below are relative to the directory that
holds `src/`; `acmp`, `aecp`, `adp` stand for `src/src/atdecc/acmp/__init__.py`,
`src/src/atdecc/aecp/__init__.py` and `src/src/atdecc/adp.py`.

## 1. The system

The program publishes one ATDECC entity, a listener with two stream sinks, on one network
interface. Per interface, a C++ worker thread polls a raw socket, sends what is queued and
hands each frame received to a Python callback. Four Python threads, one per state machine,
do the rest. They share no lock: a callback puts a message into a `Queue`, sets a flag
and sets an `Event`; the thread loops over *empty? wait(1), clear; terminate?; get_nowait;
handle*. All the hard behaviour of the program is in that pattern.

| component | state | operations | partners |
|---|---|---|---|
| ACMP listener (`acmp`, `acmp/struct.py`) | `rcvdCmdResp`, five `rcvd...` flags, `event`, `doTerminate`, `inflight`, `retried`, `listenerStreamInfos`, local `cmd` | `acmp_cb`, `run` with five handlers and two timeout handlers, `performTerminate` | worker thread, talkers and controllers, main thread |
| Entity model (`aecp`) | `rcvdCommand`, `unsolicited`, `unsolicitedSequenceID`, `unsolicited_list`, `owner_entity_id`, `event`, `doTerminate` | `aecp_aem_cb`, `run` with a handler per AEM command, `performTerminate` | worker thread, controllers, the embedding program |
| ADP interface (`adp:274-398`) | `rcvdDiscover`, `doAdvertise`, grandmaster / link / configuration now and as advertised, `event`, `doTerminate` | `adp_cb`, `run`, `performAdvertise`, `performTerminate` | worker thread, advertising machine |
| ADP advertising (`adp:91-165`) | `needsAdvertise`, `event`, `doTerminate`, and `entity_info.available_index`, shared with the interface machine | `run`, `performAdvertise`, `performTerminate` | interface machine, main thread |
| ADP discovery (`adp:168-268`) | `entities`, `rcvdEntityInfo`, two flags, `doDiscover` | `run`, `performDiscover`, add/update/removeEntity | nobody: the program never creates one, `--discover` is ignored |
| AVDECC (`atdecc.py:139-196`) | the list of machines | `__enter__` starts all, `__exit__` terminates all and waits | all machines |
| jdksInterface (`atdecc.py:27-124`) | callback lists, table of handles | register / unregister, dispatch, `send_adp/acmp/aecp` | worker thread, machines |
| worker (`interface.cpp`, `queue.hpp`) | send queue, the last PDU of each kind | receive and dispatch, send, join | network |
| codecs (`pdu.py`), conversions (`util.py`), descriptors (`aem/`) | none | pure | all |
| `pdu_print.py` | none | the log line of a PDU, formed before the PDU is queued | callbacks |
| `cvt_header.py`, `__main__.py` | none | build tool, arguments | |

**What is hard.** The flags of the ACMP listener say *which types* have arrived, not what
`cmd` is; they are reset by the thread that tests them while another sets them. `cmd` survives
an empty queue and is overwritten when it is answered. Timeouts compare seconds with
milliseconds that are truncated to 16 bits. Exceptions in a handler end an iteration halfway,
with flags and in-flight entries as they are; one in the log line of a callback loses the message. `doAdvertise` and `unsolicited` are tested, acted
on and reset in separate steps. `available_index` is written by two threads. Ending the program
requires every thread to notice a flag whose event may have been cleared in between. The
worker iterates over lists of callbacks that machines change, the destructor empties a queue others filled,
and bit fields, lengths and offsets of a frame are written in one place and meant in another.

**What makes it correct.** ACMP: every frame sent stems from one message received;
sinks the entity does not have are refused; a message costs a bounded number of frames, retries and reports of a timeout included; left enough time,
the listener behaves like a sequential server. AECP: commands are answered once and in order, by
a service with one owner, who is told so; unsolicited responses leave. ADP: no discover is lost, announcements continue,
their index rises and their lifetime lasts until the next. Discovery: the table is true as of some
instant. Transport: frames go out once and in order, messages reach the machines that are there, and the
program can end. Codecs: a receiver reads in a frame what the program meant. All: no
message is forgotten, `performTerminate` ends the thread.

## 2. Modules

| module | what it is |
|---|---|
| `ACMPMessages` | message types, statuses, ACMPDUs, `acmp_form_msg` (`Formed`), stream infos |
| `ACMPListener` | the listener: thread, `acmp_cb`, `performTerminate`, clock. `Spec`, `FairSpec`, and `SerialSpec` for a network that leaves time between messages. Its properties |
| `ACMPSequential` | abstract: each message is handled once, in order, by the handler of its type; of timers only retries and reports of a timeout show. It says what code and docstrings agree on, and allows either where they differ |
| `ACMPListenerSerial` | the refinement mapping from the listener under `SerialSpec` to `ACMPSequential` |
| `ACMPListenerClaims` | what the docstrings and tests say and the code does not do |
| `MCACMPListener` | constants for TLC |
| `ACMPListenerProofs`, `ACMPSerialProofs` | theorems and proofs: safety and liveness of the listener; the refinement and liveness on a network that leaves time |
| `AEMCommands` | AEM commands, responses and descriptor types |
| `AEMService` | abstract: a sequential service with an owner, subscribers and a queue-free history; whether a command nothing is done about is answered is left open |
| `EntityModel` | the entity model state machine, its properties and the refinement mapping to `AEMService` |
| `EntityModelClaims` | what a docstring says and the code does not do |
| `MCEntityModel`, `EntityModelProofs` | constants for TLC; theorems and proofs |
| `Advertising` | the two ADP machines, `adp_cb` and the main thread, and their properties |
| `MCAdvertising`, `AdvertisingProofs` | constants for TLC; theorems and proofs |
| `EntityTable` | abstract: the table of entities, true as of an instant that only moves on when no entry is older; each change is due to a notice that was not acted on before, or to time |
| `Discovery` | the discovery machine, the thread that uses it, its properties and the refinement mapping to `EntityTable` |
| `MCDiscovery`, `DiscoveryProofs` | constants for TLC; theorems and proofs |
| `Program` | the whole program from `ATDECC_create` to the end of the process: AVDECC, jdksInterface, worker and send queue, with the four machines as their clients |
| `ProgramProofs` | theorems and proofs |
| `Descriptors` | the layout of what READ_DESCRIPTOR sends: which class, which arguments, where its tables are |
| `Frames` | the forming of a frame, setter by setter, for every PDU the program sends |
| `MCFrames`, `FramesProofs` | `atdecc-aem.yml` and more list lengths for TLC; theorems and proofs |

Names follow the code: a variable is the attribute of that name (comments at VARIABLES say
which), an action is the method of that name or names the statement of `run` it stands for, and
`pc` (in `Program`: `main`, `worker`, `machine[m]`) is what a thread executes next. Operators whose comment begins
"Mutant of" are plausible faults that no specification uses; each of them violates the property
that PROJECT.json pairs it with.

**How the machines compose.** `Program` has each machine as a client of the transport: it registers,
sends, sees that it is told to end, unregisters and is dead. That a machine does see it, whatever it is
doing, is `Terminates` of the module of that machine; this is what justifies the fairness on `Ending(m)` in
`Program`, and `ExitCompletes` then says that the process ends. In the other direction, `Program` shows what the
modules of the machines assume of the transport: callbacks come from one thread, one at a time (`WorkerStep`), and
after `performTerminate` at most one more comes (`CalledOnceMore`). `Frames` and `Descriptors`
have the bytes behind the responses that the other modules treat as records.

### Grain and abstractions

* An action is what happens between two accesses to shared state. A handler touches only
  the thread's own state and is one action; where it reads a flag, only its own thread resets it,
  so the test is part of the handler. `put`, setting a flag and setting the event are three
  steps, in `acmp_cb` and `aecp_aem_cb`; so are `wait` and `clear`, and the load and store of
  `available_index += 1`. `adp_cb` is one step, as its put is all it does.
* `event.wait(t)` may return at any time: the event may be set, or `t` may have passed.
* Each state machine has one interface, as AVDECC gives it. Callbacks are serial, as
  one worker thread makes them.
* Messages are records of the fields some branch reads or copies. Sequence ids are the number
  of arrival: the code only copies and compares for equality, so this distinguishes most.
* **ACMP.** The clock is in ms. A message without a flag (another type) still fills the queue
  and is left to confuse `cmd`. `wire[i].error` is the status the handler asked for,
  `wire[i].pdu` what `acmp_form_msg` made of it. `_tx` changes the PDU it is given, so a response
  overwrites `cmd`: `txResponse` assigns `cmd'`. `Inflight.command` is a copy made before that. The log line of `acmp_cb`
  raises `KeyError` for a message type without a name, which is then not queued: `PutMessage` takes only `NamedTypes`.
* **AECP.** `UNNAMED` is any command type, and any descriptor type, that jdksavdecc's enumeration does not have; `OTHER` any
  it has and nobody handles. The log line of `aecp_aem_cb` raises `KeyError` for a type or status without a name
  (`RaiseKeyError`; the variable `unqueued` keeps what was lost), those of two handlers for a descriptor type (`Logged`).
  Ids of controllers are not 0 (0 stands for nobody in the code too). The descriptors
  the configuration file lists are taken to be there. Only the release flag of `ACQUIRE_ENTITY` matters.
  `SetUnsolicited` is the embedding program, of which the unit test is the only instance.
* **ADP.** The lengths of the delays are left to `LifetimeCovers` of `Frames`. `available_index` is kept modulo
  `IndexRange`, which is what the 32-bit field of the ADPDU shows of Python's integer. The interface
  thread's own calls of `performAdvertise` are one step: nobody else clears what it sets.
* **Discovery.** Time is in whole seconds, as is everything the code compares. No code under `src/src` uses the
  machine, so its user is that of the unit test. `heard`, `raised` and `acted` are history: the notices given, the last one whose
  flag was set, and the last one acted on, by kind. Only the thread touches the table, so a pass over it
  is one step; which of several expired entries a dict yields first is left open.
* **Program.** Frames are numbers, in the order of `ATDECC_send`. What `raw_send` returns is ignored by the code, so
  a frame given to it counts as sent. The three lists of callbacks are one function. After the main thread the interpreter
  waits for the machines' threads, which are not daemons, and then runs `__del__`.
* **Frames.** A behaviour forms one frame in a fresh buffer. The twelve bytes of the common header are kept as bytes, as the
  setters shift and mask them; of what follows only the length. Valid times are in hundredths of a second, as `--valid` is a float;
  `valid_time` rounds as the code does. `Descriptors` keeps offsets, counts and sizes, and of the
  constructors' arguments those that can be missing, fail, or set a length; a list whose next offset exceeds 16 bits raises `struct.error` (`Created`).
* Terminated threads stop, so every configuration says `CHECK_DEADLOCK FALSE`; that they stop
  only after `performTerminate` and always then is `Terminates`, and `Frames` stops with its frame.

## 3. What TLC checks

| run | what is asked | bounds |
|---|---|---|
| `ACMPRaces` | `TypeOK`, `OnlyOwnSink`, `FrameProvenance`, `CostBounded`, `Terminates`, `QueueDrains` in every interleaving | four messages: a talker's answer, which makes the sink known; a command to a talker, without a flag, which stays in `cmd`; a connect; a disconnect, an enquiry, or an answer for another sink. Some are for another listener. The clock starts at 0 and jumps by 70,000 s, past any 16-bit timeout, so that entries wait, are retried and given up |
| `ACMPSerial` | `ImplementsSequential`, `AllServed` | conversations of three messages; three sources (same talker, other talker), two sinks, talker errors |
| `AECPService` | `ImplementsService`, `OwnerTold`, `AnsweredInOrder`, `NoticeSent`, `TypeOK`, `AllServed`, `Terminates` | three commands of two controllers (acquire, release, contend, (de)register, each enquiry with and without an answer, types without a name, commands to others), two unsolicited responses |
| `ADPAdvertising` | `DiscoverKept`, `IndexRises`, `DiscoverAnswered`, `KeepsAdvertising`, `Terminates`, `TypeOK` | no bound on how often the threads loop; one discover queued at a time, one use by the embedding program, an index of one bit, so that it wraps at once |
| `Discovery` | `ImplementsTable`, `PassInv`, `NoticeTaken`, `Forgotten`, `Terminates`, `TypeOK` | two entities with lifetimes of 1 and 2 s and an EntityInfo without id; two calls (available, departing, discover) and `performTerminate`; 3 s; no bound on how often the thread loops |
| `Program` | `Accounted`, `HandedOver`, `CalledOnceMore`, `FramesGoOut`, `ExitCompletes`, `TypeOK` | two frames besides ENTITY_DEPARTING; an interrupt, a normal end and an exception before the block; with and without a socket; no bound on frames received |
| `Frames` | `HeaderKept`, `LengthTruthful`, `LifetimeCovers`, `TablesMeet`, `ListedReadable` | valid times of 0 to 100 whole seconds and the hundredths around each edge, two MAC addresses with the local bit set and not, lists of 0, 1, 5, 42, 43, 60, 300, 8174 and 8175 elements, the buffer of 510 bytes |
| `ClaimHandled`, `ClaimSinks`, `ClaimTimer`, `ClaimAnswered`, `ClaimExpiry` | one statement of the repository each, violated; see section 6 | the smallest history that shows it |

*Why the bounds suffice.* A race in the listener needs one message being handled, one whose flag is being set,
and one left over in `cmd`: three. A retry that finds its entry needs a fourth, and `Retries` lists the types that lead
there. For ownership, three commands let one controller acquire, another
be refused and the first release, or the second take over after a release. In `Advertising` the
loops are not bounded: only the *queue* and the *requests* are, and one message at a time is put again
and again, at any step of the thread; with `IndexRange = 3` that run holds as well. In `Discovery` a race needs one notice
that is acted on and one that overwrites it: two; three seconds let both entities expire. In `Program` two frames let one overtake the other, or be emptied
before JOIN; each machine lives once. In `Frames` the list lengths are those of the shipped configuration and, around each edge, the last that fits (42), the first that
does not (43), one whose announced length exceeds eleven bits (300), and the last that can be encoded and the first that cannot (8174, 8175); the valid times stand on
both sides of every place where the field or the interval changes. The proofs lift
every bound, for liveness under the hypotheses of section 4.

*Constraints.* `MaxQueue`, `MaxRequests`, `MaxNow`, `Notifications`, `MaxCalls`, `MaxTime`, `MaxFrames` and the length of
`Arrivals` / `Shapes` are guards named as bounds in the modules; nothing else is cut off.

*Fairness.* `WF(ThreadStep)` and `WF(InterfaceStep)`: each wait has a timeout of at most a
second, each other statement returns, and an exception in a handler is caught (in `Discovery` it ends the thread, which
`Over` says); so the thread always takes another step. In `Advertising` the advertising thread is *not* assumed to run for
`DiscoverAnswered`, which would otherwise hold because of its periodic announcement; it is
the premise `EntityKeepsRunning` of the two properties that need it. `acmp_cb` finishes once it
has begun (weak fairness of its later steps only: no message need ever arrive), and so does
`__exit__`. In `Program` the worker never blocks (`WF(WorkerStep)`: it polls with no timeout and sleeps for a millisecond at most), what `__exit__` and the
destructor have begun goes on (`WF(Closing)`), and a machine that is started or told to end gets there (`WF(Ending(m))`, by `Terminates` of its module);
nothing is assumed of `Send`, of the network or of when the with block ends. Nothing forces `performTerminate` to be called.

## 4. What TLAPS proves

For every value of the constants that satisfies the modules' `ConstantsAssumption`,
`DescriptorsAssumption` and `FramesAssumption`; all of these are also invariants or properties of a run.

| theorem | states | argument |
|---|---|---|
| `ACMPListenerProofs!TypeCorrect` | `Spec => []TypeOK` | by action; what a handler sends is typed by `FormedMessage`, what it removes from a list by `RemoveAtShape` |
| `ACMPListenerProofs!UnknownSinksRefused` | `Spec => []OnlyOwnSink` | `OwnInv`: `OnlyOwnSink` alone is not inductive, as an entry in `retried` goes back in flight: it must be of an own sink too |
| `ACMPListenerProofs!CostIsBounded` | `Spec => []CostBounded` | `CostInv`: three for each message pay for the frames sent, the entries kept, the retries they are due, and what each flag still set may cost (`Worth`), wherever the thread is and whatever a handler that raised left behind |
| `ACMPListenerProofs!FramesHaveAnOrigin` | `Spec => []FrameProvenance` | `ProvInv`: not only what was sent but `queue`, `cmd`, both lists of entries and the stream infos stem from arrivals, since a later frame copies from any of them |
| `ACMPSerialProofs!Implements` | `SerialSpec => ImplementsSequential` | `SerialInv`: nothing is ever retried, every entry in flight is `Harmless` (it carries a type no timeout handler takes), while the thread waits at most the newest message is queued and only its flag set (`WaitingInv`), and while it serves a set flag is that of `cmd` and still to be checked (`ServingInv`) |
| `EntityModelProofs!TypeCorrect` | `Spec => []TypeOK` | by action |
| `EntityModelProofs!OwnerIsTold` | `Spec => []OwnerTold` | inductive with `TypeOK`; `HoldsAppend` says what one more response does to who holds the entity |
| `EntityModelProofs!AnswersInOrder` | `Spec => []AnsweredInOrder` | `OrderInv`: the queue is the tail of `arrived`, the command in service is the one before, and answers are not ahead of `Served` |
| `EntityModelProofs!Implements` | `Spec => Promise!Spec` | each step is classified (`StepKinds`) as idle, a put, a get or a service; with `OrderInv` it is a stutter, `Receive` or `Serve`; a command whose log line raises is a stutter, as the service never takes it in |
| `AdvertisingProofs!TypeCorrect` | `Spec => []TypeOK` | by action |
| `AdvertisingProofs!DiscoverIsKept` | `Spec => []DiscoverKept` | `KeptInv`: between sending and the reset of `doAdvertise`, a pending discover must be in the *queue*, as the flag is about to go |
| `AdvertisingProofs!IndicesRise` | `Spec => IndexRises` | `IndexInv` relates `available_index`, the loaded value and the index last sent at each point of `txEntityAvailable`, and remembers whether the advertising thread had started |
| `DiscoveryProofs!TypeCorrect` | `Spec => []TypeOK` | by action; the notice acted on has no id 0 where the table is written |
| `DiscoveryProofs!PassesSound` | `Spec => []PassInv` | inductive with `TypeOK`: a flag seen, a flag set and a user about to set one each stand for a notice |
| `DiscoveryProofs!Implements` | `Spec => ImplementsTable` | with `PassInv`, taking the time is `MoveOn`, recording is `Learn`, the removals are `Dismiss` and `Expire`, the rest stutters or is `Hear`; `RaisedInv`: a flag that may still be acted on stands for a notice that was not |
| `ProgramProofs!TypeCorrect` | `Spec => []TypeOK` | with `CallbackInv`: each list of callbacks is empty or holds its machine, by where that machine is |
| `ProgramProofs!FramesHandedOver` | `Spec => []HandedOver` | `ReceiptInv` says, for each place of the worker, that who is still expected lies ahead in the list or was told to end |
| `ProgramProofs!LateCallsBounded` | `Spec => []CalledOnceMore` | `LateInv`: a machine that was called late is dead and not about to be called again; with `CallbackInv` it is in no list |
| `ProgramProofs!FramesAccounted` | `Spec => []Accounted` | `QueueInv`: what was sent and emptied are the first `Taken` frames, the queue is those that follow; after JOIN it holds nothing else |
| `FramesProofs!HeaderIsKept` | `Spec => []HeaderKept` | `HeaderInv`: each field written so far, read back from its bits; each setter is shown to keep those before it |
| `FramesProofs!LengthIsTruthful` | `Spec => []LengthTruthful` | `SizesPromised`: the length announced is that of structure and payload, and `length` is where the writing is; a payload is left out if and only if the two together reach the end of the buffer (`Oversized`) |
| `FramesProofs!LifetimeIsCovered` | `Spec => []LifetimeCovers` | `Covers`: the lifetime covers the interval for exactly the valid times outside `RoundedDown` (2.86 to 2.99 s) and `NoRoom` (beyond 88.57 s); arithmetic on `valid_time` and the two delays |
| `FramesProofs!TablesAlwaysMeet` | `Spec => []TablesMeet` | `DescriptorShape`, class by class |
| `FramesProofs!ListedAreReadable` | if `Config` has the required arguments of what is `Listed`, `Spec => []ListedReadable`, for lists of 1 to 8174 elements | `SilentInv`: silence means that the descriptor could not be created |

Only the theorems of `ACMPSerialProofs` restrict the network of the listener, and none of its theorems the clock. `SerialSpec` is the listener on a network
that leaves it time between messages; the theorem says nothing of messages that overlap, of which `ClaimHandled` shows one can be lost.

### Liveness

| theorem | states, under `FairSpec` and the hypotheses below | argument |
|---|---|---|
| `ACMPListenerProofs!Ends` | `Terminates` | `Within(n)`: at most *n* steps to the end, counted along `run`; every step of the thread lessens *n*, except the loop over expired entries, of which each round takes one out (`Descent(Pops)`) |
| `ACMPListenerProofs!Drains` | `QueueDrains` | while the queue is not empty the thread comes to `get` (`Turns`); what can still be taken (`Untaken`) falls there and never rises |
| `ACMPSerialProofs!ServesAll` | `AllServed` | with `SerialInv`, what is queued has its flag set, and the steps to its handler are counted as above, `acmp_cb` first |
| `EntityModelProofs!Ends` | `Terminates` | `Within(n)`; no loop inside an iteration |
| `EntityModelProofs!ServesAll` | `AllServed` | a command that is owed is served within twelve steps (`Late(n)`), and what may yet be served (`Unserved`) falls each time |
| `EntityModelProofs!SendsNotices` | `NoticeSent` | `NoticeInv`: what is set is what was asked for last; from `wait` to the send it is never reset (`Due(n, k)`, at most five steps) |
| `AdvertisingProofs!BothEnd` | `Terminates` | three descents, of `__exit__` first, then of each thread; `EndInv`: where `__exit__` is tells which thread it has told to end, and none ends before |
| `AdvertisingProofs!Advertises` | `KeepsAdvertising` | the advertising thread asks again and again; in the stretch `Blind`, between sending and the reset, what it asks is lost, but the thread has then just been at `load` |
| `AdvertisingProofs!Answers` | `DiscoverAnswered` | `KeptInv` gives the discover its place; each message taken lessens what is `Ahead` of it in the queue, and arrivals come behind it |
| `DiscoveryProofs!Ends` | `Terminates` | `Within(n)`; an exception only shortens the way |
| `DiscoveryProofs!Takes` | `NoticeTaken` | `Pursued(i, n)`: from `wait` to the update of the table the notice stays, or is replaced |
| `DiscoveryProofs!ForgetsOutlived` | `Forgotten` | a pass whose time is read after the last tick (`ClockStops`) finds the entry or has replaced it by one that is not outlived |
| `ProgramProofs!Exits` | `ExitCompletes` | the main thread's way (`ToGone`) has two waits: for the machines, of which each dies out once told to end (`DiesOut`, `AllDie`), and for the worker, which comes to JOIN as it is queued last and no machine can send any more (`ExitInv`, `LiveInv`) |
| `ProgramProofs!FramesLeave` | `FramesGoOut` | the worker comes to `pop` again and again (`GoSteps`), each pop brings frame *n* nearer (`Behind(n)`), nothing moves it away (`NotFarther`) |

The provers know neither ENABLED nor induction over temporal formulas. What a proof needs of them is a named hypothesis,
true of every behaviour concerned, so that it takes nothing from the theorem:

* `ThreadCanStep`, `SerialCanStep` and `CanStep` spell out what a weak fairness condition says once it is known where the
  action is enabled: `WF_vars(A) => []<>waits \/ []<><<A>>_vars`, where `waits` names the places in which the thread has
  nothing to do (stopped; a join whose thread runs). It follows from the definition of WF if `~waits => ENABLED <<A>>_vars`
  in every reachable state. TLC, given that formula as an invariant, finds it true on the constants of `ACMPRaces`,
  `ACMPSerial`, `AECPService`, `ADPAdvertising`, `Discovery` and `Program`. Nothing says that a step is taken: that is the WF of `FairSpec`.
* `Descent(f)`, what is always a natural number and falls again and again also rises again and again, holds of
  every behaviour and every *f*: it is the induction over natural numbers that the temporal prover lacks.
  `FramesDescend` is `Descent(Behind(n))` for each frame. That *f* is a natural number, when it falls and that it does not rise is proved in each case.

`QueueDrains` and both `AllServed` are about a finite number of messages, as `Arrivals` and `Shapes` are sequences; nothing bounds that number.
`Forgotten` needs `MaxTime`, whatever its value: an entity that for ever is announced anew with lifetimes that are over before the pass that
records them is, would never be seen as expired. That takes a pass longer than a lifetime, each time.

Every safety property, action property, refinement and liveness property that a passing run checks is proved, liveness under
these hypotheses. What rests on TLC alone is where the steps are enabled, hence that the hypotheses hold, and the violated claims of section 6.

## 5. Not modelled

* Of the bytes after the common header only the number, and of descriptors the values of plain fields: copies of the
  configuration or of the command, without state or arithmetic.
* `util.py` apart from `mac_to_eid`, `pack_struct` and the `KeyError` of `api_enum`: conversions between integers of 64 or 48 bits, strings and arrays of
  bytes; enumeration of interfaces; hex dumps.
* Of `__main__.py` the parsing of arguments.
* Lists in the configuration file with more than 65535 elements, which no count can say.
* jdksavdecc-c, whose directory is an empty submodule, modelled where `src/` uses it (lengths, the queue of `std`).
* `pdu_print.py` but for whether a log line can be formed, and `cvt_header.py` (build): no state.

## 6. Where code and documentation differ

Shown by runs, with the lines quoted under "findings" in PROJECT.json:

* `ClaimHandled`: the second of two commands in quick succession loses its flag and is never handled.
* `ClaimSinks`: the sink index is compared with the entity id, so a deployed entity knows none of its two sinks.
* `ClaimTimer`: an in-flight entry is taken for expired in the next iteration, as seconds are compared with milliseconds in
  16 bits (`acmp:474`).
* `ClaimAnswered`: a command type that jdksavdecc has no name for makes the log line raise `KeyError` (`aecp:44`, `util.py:38`), so the
  command is neither queued nor answered with NOT_IMPLEMENTED.
* `ClaimExpiry`: the first entity to expire is removed from the dictionary that is being iterated over; the exception ends the
  discovery thread and every other entity stays.

Met while modelling, without a run of their own. The models have the behaviour of these:

* An ACMPDU of a type without a name raises `KeyError` in its log line (`acmp:56`) and is not queued; so does the log line of GET_AVB_INFO
  and GET_AUDIO_MAP for a descriptor type without a name (`aecp:184`, `aecp:228`), and there is no response.
* Refusals leave with status SUCCESS: the status is passed in the place of the stream id (`acmp:195`).
* CONNECT_RX_COMMAND taken while the flag of a later response is set is treated as that response (`acmp:495`).
* READ_DESCRIPTOR and GET_COUNTERS for an unlisted descriptor type end in an exception without a response (`aecp:318`, `aecp:286`; the docstring at `aecp:328` promises one).
* `listenerIsConnected` refuses only a source that differs in *both* ids, so a connected sink is taken over by another
  stream of the same talker (`acmp:101`); `listenerIsConnectedTo` ignores `connected`, so a pending sink counts as connected
  (`acmp:122`). `ACMPSequential` allows what the code does and what the docstrings say (`MayRefuse` and `MustRefuse`, `MayDisconnect` and `MustDisconnect`).
* A sink that was never connected has no stream info: the first CONNECT_TX_COMMAND is sent, and `KeyError` ends the iteration.
* `getState` builds its response without the command's sequence id, controller and listener ids.
* `txCommand` stores the command before `_tx` gives it its new type, so most entries expire with a type no timeout handler takes.
  A retried connect that expires reads `listener_unique_id` of the queue: AttributeError.
* An unsolicited response set while a command is served, or while another is being sent, is lost (`aecp:387`).
* A request to advertise between the send and the reset of `doAdvertise` is lost; the next periodic announcement makes up for it.
* If the advertising thread starts while the interface thread is between its first send and `+= 1`, two announcements carry the
  same index (the reason for the exception in `IndexRises`).
* A link that goes down and up between two looks is never advertised (`adp:379`).
* `rcvdEntityInfo` may be that of the next notice when the flag is of the one before, and a notice given while the thread
  is not waiting is forgotten (`adp:238`): `Learn` and `Dismiss` of `EntityTable` therefore speak of the latest notice, though each notice is acted on once.
* `__exit__` after a normal end raises TypeError, and an exception inside `__enter__` does not reach it: the machines run on and the process does not end.
* An ENTITY_DEPARTING still queued when the destructor comes is thrown away; without a socket nothing is sent at all.
* The `control_data_length` of an ACMPDU is 84, that of a later edition of the standard, and its frame has 12 + 44 bytes.
* A payload that does not fit is left out without notice while its length is announced, and a length above 2047 wraps.
* With `--valid` beyond 88.57 s, the lifetime in the ADPDU (at most 62 s) is shorter than the longest interval of the announcements; so it is
  between 2.86 and 2.99 s, where `valid_time` rounds it down to two (`NoRoom`, `RoundedDown`).
* An empty list of formats or rates makes a descriptor unreadable; so does one of more than 8174 formats (`struct.error`).

Seen and outside the models:

* UPDATE GM and UPDATE CONFIGURATION never copy the new value into `entity_info`, so the ADPDU keeps the old one; `adpdu_write` leaves out `current_configuration_index`.
* SIGTERM stops the process without ENTITY_DEPARTING.
* A `firmware_version` or `serial_number` that YAML reads as a number other than 0 makes READ_DESCRIPTOR of ENTITY fail.
* The AUDIO_UNIT of the shipped configuration announces 16 external output ports for which no descriptor class is registered.

## 7. Plan and where it stands

1. ACMP listener, its sequential promise, claims, proofs of safety, liveness and of the refinement. *Done.*
2. Entity model, its service, refinement proof. *Done.*
3. ADP interface and advertising machines with proofs. *Done.*
4. Discovery and its abstract table, with proofs. *Done.*
5. Transport and lifecycle in one module (`Program`), since what matters is how the end of one meets the other. *Done.*
6. Codecs and descriptors (`Frames`, `Descriptors`). *Done* for headers, lengths, lifetimes and layouts.

Left: conversions of integers and bytes in `util.py`, where a reference definition over bounded inputs would do;
the single composition of `Program` with the full machines, which their interface (above)
replaces and which is beyond TLC.
