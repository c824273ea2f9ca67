# A verification development of bb_mcuhub

bb_mcuhub runs a robot as a tree of microcontroller hubs.  The Elixir host
compiles one declaration (a DSL) into the C firmware of every hub and into its
own codec; commands flow down the tree and sensor and status frames flow up.
Safety rests on *silence*: an actuator hub keeps moving its plant only while
the seq of its own command keeps advancing, so everything between the
controller and the floor must neither invent an advance nor repeat one.

This directory holds TLA+ modules translated from the source, TLC
configurations that check them on small instances, and proofs that TLAPS
checks for all values of the constants.  `PROJECT.json` maps every definition
to the lines it stands for and lists runs, mutants, hazards and findings.

    tlc -workers 2 -config MCTree_relay.cfg MCTree.tla     # one run
    tlapm TreeProofs.tla                                   # one module of proofs

## 1. The system

Paths are under `src/`; `lib` is `lib/bb_mcuhub`, `fw` is `firmware`.

| Component | State | Operations | Interacts by | What is hard | What makes it correct |
|---|---|---|---|---|---|
| floor (`fw/src/floor.c`) | command seq and value, seq of the last tick, time of the last advance, armed and baseline flags | init, on_command, tick | called by the glue | age on a clock that wraps; born disarmed | `DeadMan`, `StaleBufferInert`, `InWindowDrives`, `IsDeadManSwitch` |
| hub main loop, scheduler, glue (`fw/src/esp32/hub_main.cpp`, `scheduler.c`, output of `lib/gen/wire_gen.ex`) | last-run times, applied seq, status and sense seqs | setup, loop pass, control, status and sense ticks | calls links, floor, hooks; watchdog | time read before the pump and used after it; reset at any point; due times on a clock that wraps | `StatusTruth`, `SilenceFloors`, `PoseHeard` |
| wheels board (`examples/segby_v1/firmware/gen/.../wheels.glue.h`, `mcu/wheels.cpp`) | two floors, encoders that answered, motors that aligned, shaft speeds | bring-up of two motors, one control tick for both, status and speed rows | one receive buffer and one loop for both wheels | one wheel's commands and failures must not reach the other; speeds are copies | `EachWheelIsAHub`, `SpeedsAreCurrent` |
| Blaster board (`.../blaster.glue.h`, `mcu/blaster.cpp`) | row times, lazy state of the IMU | relay, status strip, range and pose rows | host UART, backplane, I2C | reads that block the only loop; bring-up that fails half way | `RelayedInTime`, `PoseHeard`, `PoseFromAwake` |
| router, links (`router.c`, `link_esp32.cpp`, route tables) | node -> link table, receive buffers | route one frame, pump, send on a link | UART and CAN | order, echo, loss, a shared bus | `InOrderOnce`, `NoCommandEchoed`, `CommandsArrive` |
| CAN segmentation (`segment.c`) | reassembly slots | split a body, feed a fragment | below the links | interleaved, lost and abandoned fragments; 5-bit seq; slot limit | `WholeAndInOrder`, `UnbrokenIsDelivered`, `TurnedOnlyWhenCrowded`, `OnlyAliasesFailCrc` |
| UART framing (`transport.c`, `cobs.c`, `lib/wire/framing_cobs.ex`, `cobs.ex`) | stream decoder buffers of both ends, counters | encode, feed bytes | below links and transport | two implementations, corruption, chunks | `CodecsMirror`, `HubHearsIntact`, `DecodersAgree`, `NoSilentLoss` |
| node registry (`lib/host/node_registry.ex`, `registry/*.ex`) | ETS row and owner per slot, monitors | writer!, put, get, DOWN | messages; a public table | claims racing deaths, restarts | `SoleWriter`, `NeverWedged` |
| monitor (`lib/host/monitor.ex`) | last seq, beats since an advance, witnessed | check | called on beats by the views | leftovers, off-by-one beats | `GivenIsRecent` |
| sensor and actuator view, observer (`lib/bb_hub/*.ex`, `observer.ex`) | monitor; command seq | beats, command, live, disarm | registry rows, casts to the link owner | two reads of a row with steps of others between | `GivenIsRecent`, `FlooredShows`, `SilenceShows`, `LatestSent` |
| link owner (`lib/host/link_owner.ex`) | seq last drained per slot, inbound writers | inbound frame, notify, watch, disarm | casts, registry, transport | coalesced and late notifications, restarts | `NoManufacturedAdvance`, `OncePerWrite`, `LatestSent` |
| DSL, checks, IR, generator, port index (`lib/dsl*.ex`, `dsl/`, `contract/`, `gen/wire_gen.ex`) | none: compile time and boot | project, verify, generate, index | the IR | well-formedness spread over local checks; two programs that must agree | `VerifierExact`, `RoutesReach`, `FramesFindTheirPort`, `DeadManKept`, `StatusIsOwn` |
| host supervisor (`host.ex`, `application.ex`) | children, one_for_one | restart | supervises all of the above | which state survives which restart | in the crash actions of the host modules |
| simulation (`lib/sim/*.ex`) | captured commands, sensor seqs | tick | a transport and a plant | disarm does not clear what was captured | not modelled yet |
| balance controller (`examples/segby_v1/.../balance.ex`) | armed, enabled, filter, PID | pose, safety, toggle and drive messages | mailbox, commands | disarm is silence: poses and notices queued in any order, restarts | `DisarmObeyed`, `DisableObeyed`, `StopHolds`, `ArmedResumes` |

Components that stay out, with the reasons, are in section 8.

## 2. The modules

    Floor, DeadManSwitch <- ActHub <- MCActHub, ActHubProofs      one actuator hub
    Floor, ActHub <- Wheels <- MCBoards <- BoardsProofs            two floors on one chip
    Schedule <- Blaster <- MCBoards              the root's cooperative loop
    Topology <- Contract <- MCContract, ContractProofs    declaration to two programs
    Topology, Tree <- MCTree; Tree <- TreeProofs the frames between the hubs
    Registry <- MCRegistry, RegistryProofs       who may write a slot
    Monitor <- InboundPath <- MCInboundPath, InboundPathProofs    hub to reader
    CommandPath <- MCCommandPath, CommandPathProofs      view to hub
    Segment <- MCSegment, SegmentProofs          bodies on CAN
    Framing <- MCFraming, InboundPathProofs      bodies on UART
    StopPath <- MCCommandPath, CommandPathProofs disarm, controller to wheels

`InboundPathProofs` has the proofs of the readers and of the line below them,
`CommandPathProofs` those of the command path and of the controller on top of
it; since one module extends both models there, the initial states, steps and
specifications of the lower ones carry a prefix (`UartSpec`, `StopSpec`).

They meet at each other's interfaces.  `CommandPath` assumes of the links
between transport and hub that they lose frames, keep their order and double
none, which `Tree` has as `InOrderOnce` over point-to-point links; `Tree`
assumes of a medium that it carries whole bodies in order, which `Segment` and
`Framing` have as `WholeAndInOrder` and `DecodersAgree`; `ActHub` assumes
nothing of what arrives.  `InboundPath` and `CommandPath` take a slot's writer
as given, which `Registry` has as `SoleWriter`.  `MCTree` runs `Tree` on the
tables that `Topology!RouteTable` computes, the same that `Contract`'s
firmware gets.

**Floor, ActHub.**  `Floor` is `floor.c` as operators on a record: `FloorInit`,
`OnCommand`, `FloorTick` (baseline on the first tick, an advance iff the seq
differs, freshness by subtraction modulo 2^32).  `ActHub` runs it in the main
loop: `StartLoop` (watchdog fed, `now_us` read), `Pump` per buffered frame,
`ControlTick` when the buffer is empty, `StatusTick` or `StatusNotDue`;
`Arrive`, `Elapse` and `Reset` come between any two.  A frame that no
`on_command` takes (another port's, or too short) arrives as `Nobody`: it
costs room in the buffer and a turn of the pump.  `clock` is
`micros() / 1000`, which comes round at 4294968 ms, while the subtraction does
at 2^32: `ClockWrap` and `ClockMod`.  When a row is due is the free choice
between the last two actions; `Schedule` has the arithmetic.

**DeadManSwitch.**  The promise, with none of the means: a switch that is born
open, closes only after somebody was heard, is judged again and again, and is
never carried past its limit by time.  `ActHub` implements it with `driving`
as `Energised`, `idle` as `silence` and the window plus two loop passes as the
limit: `IsDeadManSwitch`, checked in `acthub_device` and proved.  Past one
period of the hub's clock the switch promises only that somebody was heard
once, which is all the code gives (section 7, 1).  `earned` is `live`: since
the first tick of this boot a command arrived whose seq is not the one the
floor last recorded.  One such command is enough, so neither the switch nor
`StaleBufferInert` says what the comment of `floor.c` does of two seqs.

**MCActHub.**  `ActHub` with the set of seqs that the hub was handed since its
boot as a history variable, to ask for those two (section 7, 2).

**Wheels.**  The wheels board: setup with its probes and alignments, any of
which may fail; one pass with both floors in it; then the status and speed
rows in the order of `wheels_tasks`.  `Left` and `Right` are refinement
mappings to `ActHub`: the board as one wheel sees it, the other wheel's frames
in its buffer turned into `Nobody`, its pass over once its own status row is
behind it.  So whatever is proved of `ActHub` holds of each wheel, whatever the
other is sent.

**Schedule, Blaster.**  `Schedule` is `scheduler_run`'s test on a clock that
wraps: `NextMicro` counts, `Since` subtracts as `uint32_t` does.  `Blaster` runs the root's loop over it: frames of the host's that
wait, the range row whose `pulseIn` blocks for up to 30 ms, the pose row with
its bring-up in three steps (`WhoAmI`, `PowerUp`, `WakeDone`), each of which
may fail.  `mute` and the frames' `age` are history: what a blocked loop costs.

**MCBoards.**  Both boards for TLC, one of them powered.

**Topology, Contract.**  The verifier's topology checks and the generator's
route tables as operators, and the pipeline over them: `Project` (DSL to IR),
`Verify` (checks.ex, in its order), `Generate` (glue and tables), `Build` (the
errors left to the C compiler), `Boot` (the host's `PortIndex`).  A verdict is
that of the first check that fails.  `Walk` (with the set of hubs seen) and
`Subtrees` recur as the code does, as functions; what they are compared with
does not: `Above` says of two hubs that one is over the other by the sets that
are closed under parents.  `Declaration` is what the schemas of the DSL let an
author write, and `ContractAssumption` asks it of every declaration under study.
A frame is
`[node, id, rest]` with the number of bytes after the base header, which is
what both sides decide by.

**Tree.**  A hub's loop pumps its host link, then its backplane, then emits
samples.  `Route` is `router_route`: `Table[h][NODE]` gives the link,
`Local` delivers, the link a frame came from is no input.  A CAN bus delivers
to every other member, as the acceptance filter of `link_begin` makes it.

**Segment, Framing.**  `Segment` has one receiver of all the bus's fragments
and one TX queue per device; `Seed`, `TurnAway`, `Orphan`, `Extend` and
`Mismatch` are the branches of `seg_reasm_feed`.  `Framing` has both encoders
and both stream decoders on one line, with a byte lost or added at will.  A
loop over bytes is a `Folding`, the function of all its intermediate states,
and a decoder that gives up half way is in a state that says so.

**Registry.**  One mailbox served a message at a time; a process may die while
its claim waits; monitors deliver DOWN in any order relative to claims.
Capabilities carry the number of the registry that gave them.

**Monitor, InboundPath.**  `Monitor` is `monitor.ex`.  `InboundPath` takes a
hub's samples over a lossy wire into registry rows, and has the three readers
of rows with their two reads per beat as separate steps.  History variables
(`age`, `given`) say how long ago what a reader passes on was written.

**CommandPath.**  `Put`, `Notify` and `Drain` are separate steps, since the
notification carries no value; `Lose` and `Arrive` are the wire.  Every write
has an id, a history variable, by which frames are traced back.

**StopPath.**  The balancing controller with its mailbox, what BB says of the
robot's safety, and per wheel a counted path to a hub that stays energised for
`Bound` ticks after a command.  `Announce` comes a step after `SafetyChange`,
`Subscribe` a step before `Seed` (which reads the safety state), and a pose is
answered by one `Publish` per wheel, so that every notice can fall between.
A pose carries, as history, whether the robot was stopped and whether balance
was asked to be off when it was published.

**MCCommandPath.**  `CommandPath` and `StopPath` for TLC, one of them running.

## 3. The runs

| Run | Module, configuration | What it shows |
|---|---|---|
| `acthub_device` | `ActHub`, `ActHub_device.cfg` | the dead-man bounds every energised output by the window and two loop passes; what the receive buffer held at the first tick is inert; an advance in the window is driven; the hub implements the abstract switch; status tells what is driven; silence reaches the safe action |
| `acthub_latch` | `ActHub`, `ActHub_latch.cfg` | finding: a silence of one clock period re-arms the floor |
| `acthub_baseline` | `MCActHub` | finding: after an idle first tick the first command ever heard arms the floor |
| `contract` | `MCContract` | the verifier accepts exactly the trees; routes reach every node; both programs take the same frames; no declared dead-man is lost; a status is that of its own port |
| `tree_relay` | `MCTree`, `MCTree_relay.cfg` | commands in order, none doubled, none back at the host, all arrive unless a receiver missed one |
| `tree_samples` | `MCTree`, `MCTree_samples.cfg` | finding: a leaf's samples never reach the host |
| `registry` | `MCRegistry` | one live writer per slot and registry; none wedged by a dead one |
| `inbound` | `MCInboundPath` | nothing stale is passed on as current; a floored or silent hub stops being shown as driving |
| `command` | `MCCommandPath` | the hub sees advances only for newer commands, each sent once by a link owner; the latest is sent; no pose from after the stop is answered, the wheels come to rest, the controller resumes on re-arm |
| `segment` | `MCSegment` | bodies whole, once, in order; unbroken ones delivered; turned away only for want of slots |
| `framing` | `MCFraming` | both codecs make the same frames, the hub takes every intact one, both ends hand up the same bodies and drop nothing uncounted |
| `boards` | `MCBoards` | each wheel of a two-wheel board is an `ActHub`; its speed samples are of this pass; the root relays a command and sends a pose within bounds that blocking reads and the clock's wrap do not break, and no pose of a sleeping IMU |

The bounds, and why they are enough:

- `acthub_device`: three seqs, so that a command can be new, old or the one
  before that (`floor_tick` only asks whether two are equal); a clock of 8 that
  wraps inside a subtraction modulo 10, as `micros()/1000` does inside 2^32; a
  window of 3, a watchdog of 1 and two buffered frames, so that a pass can be
  late and a frame can wait behind another; two values, one of which is the
  safe one.  `acthub_latch` has two seqs, a clock of 6 inside 8 and a window
  of 2, `acthub_baseline` the same.
- `boards`, wheels: two seqs, a window of one millisecond, a clock of 3 inside a
  subtraction modulo 4 and one buffered frame; what the two floors share is the loop, the register
  and the buffer, and a frame of the other wheel, of nobody or of its own can
  be the next in any state.  Blaster: the real periods and timeouts (range 50,
  pose 10, echo 30, wake 10 ms) in units of 10 ms and one unit of slack for the
  rest of a pass, so that its bounds are those of the robot; a clock of 23
  units wraps in the middle of periods and of blocking reads.
  The boards are not interleaved: they share only bytes, and each is modelled
  to take any of its frames at any time.
- `contract`: three families of declarations (every tree-like or broken declaration
  of two hubs, and of four with distinct node ids; one port with every
  combination of options and up to two views; the ports of a two-wheel base on
  one hub or two, with ids that collide on one of them), with the real `MAX_BODY` 512 and payload
  limit 64.  The checks are local to a hub, a pair of ports or a view, so that
  a larger declaration has nothing new to go wrong between three of them.
- `tree_relay`: a root, a branch below it on UART and a leaf declared below the
  branch, two commands and one disarm broadcast, two frames per buffer, with
  losses: enough for one frame to overtake, follow or displace another at each
  hop.  No board realizes a second backplane, so that commands for the lowest
  leaf end at the branch; `CommandsArrive` asks for those to the hubs on the
  root's backplane.
  `tree_samples` needs one leaf.  The same module shows what two leaves on one
  bus do (section 7, 4): `Declared <- SharedBus`, `Lossy = FALSE`,
  `RxCap = 3`, and `InOrderOnce` as the invariant.
- `registry`: three callers, because an owner, its successor and a claim in the
  mailbox of a third can meet; two slots; one crash of the registry, since
  registries are told apart by number only.  Callers and slots are symmetric;
  the run checks no liveness property.
- `inbound`: a reader of any of the three kinds, chosen at the start, since
  readers share nothing; two slots on one wire; two seqs, so that a seq comes
  back as soon as it can; `fresh_for` 2, the least at which "one beat more"
  differs from "never".
- `command`, views to hubs: three writes to a slot with seqs modulo 2, so that
  one comes back; one to a slot without a floor; a wire of two frames.
  Controller to views: the two wheels of the example robot, a bound of two
  ticks, one command under way per wheel, three messages in the mailbox.  Its
  properties relate a pose to the last notice ahead of it, and three places
  hold a pose, a notice and a toggle in every order.  The two parts are not
  interleaved: each takes of the other whatever it may do, in any order.
- `segment`: two devices, three bodies of one key and one of another, of up to
  three fragments (first, middle and last), one slot or two, a 2-valued SEQLO
  under a 4-valued seq, one reboot.
- `framing`: bytes 0 to 3 with a full COBS block of two data bytes, so that
  full blocks, blocks at the end and empty blocks occur in bodies of two bytes
  (a full block of the real 254 is out of reach of frames of at most 80 bytes);
  one byte lost or added; reads of any length.
Deadlock is checked except where the system may stop: `contract` (a pipeline
that ends), and `tree_relay`, `tree_samples`, `registry` and `segment` (their work is bounded:
`MaxSend`, `MaxCrash`, `MaxBodies`).

## 4. Fairness

- `acthub_device` (`SilenceFloors`): the steps of the main loop, and time.
  `loop()` is called for ever by the runtime and no step of a pass waits; time
  passes by itself.  Nothing is assumed of frames.  A pass that does not end is
  cut by the watchdog, which is why `Elapse` is not enabled past `Wdt`.
- `tree_relay` (`CommandsArrive`): the loop of every hub, for the same reason.
  The property is conditional on no frame having been missed.
- `inbound` (`FlooredShows`, `SilenceShows`): the readers' beats, which
  `:timer.send_interval` sends for as long as the reader lives, and the restart of the
  registry, which its supervisor does.  Nothing is assumed of the hub, the wire
  or the link owner, since taking back a stale reading must not depend on them.
- `command` (`LatestSent`): the view goes on from put to notify, and the link
  owner takes its next cast; both are straight-line code in a live process.
  Nothing is assumed of the wire.
- `command` (`StopHolds`, `ArmedResumes`): BB announces what changed, the
  supervisor starts a crashed controller, a running one goes on with its
  mailbox, poses keep coming, a command under way arrives or is lost, hubs'
  clocks run.  `StopHolds` is asked with poses coming, which is the hard case.
  Of the two parts of the run only the one that runs is fair.

The other runs check safety under `Spec`, without fairness.

## 5. What is proved

Every safety property of every passing run is stated by a theorem, and so is
every action property and the refinement of both wheels: 45 theorems, for every
value of the constants under the modules' named assumptions.  Most follow one
pattern: an inductive invariant, a lemma per action that it is kept, and the
property from it.  The invariants were checked with TLC before they were
proved; since then the runs keep only what they are for.

**ActHub** (`FloorAssumption`, `ActHubAssumption`).  `DeadMan` speaks of the
age of the last advance, which the floor does not know: it has a difference of
two clock readings.  `ClockInv` ties the readings to the history counter
`silence` as long as that is below the clock's period (`ElapsedIsAge`, the
arithmetic of wrapping), `DriveInv` what is driven to the floor's verdict, `BootInv` the
baseline to the frames buffered before it, `StatusInv` the sampled registers to
the drive hook, `WitnessInv` the armed flag behind a tick to the window.
Theorems: `TypeCorrect`, `Inductive`, `DeadManHolds`,
`StaleBufferCannotEnergise`, `InWindowIsDriven`, `StatusTells`, and the
refinement `HubIsDeadManSwitch`: every step of the hub is one of the abstract
switch or none (`StepIsSwitchStep`, from the invariant before and after).

**Tree** (`TreeAssumption` and `TableAssumption`, which `tree_relay` evaluates on the
computed tables; hypothesis `PointToPoint`: the root's backplane has at most
one other hub).  Everything on its way to a hub, from the
buffer next to it back to the transport, is one sequence of command numbers,
which increases and ends below what is still unsent.  `RelayInOrder`,
`RelayNoEcho`, `TreeTypeCorrect`.  Without `PointToPoint` the first is false
(section 7, 4).

**Registry**.  What the record says of a slot's owner agrees with what callers
hold, with the replies on their way and with the DOWN messages not yet
delivered.  `OneWriterPerSlot`, `SlotsAreFreed`, `RecordSound`.

**InboundPath** (with `Monitor`).  A monitor that calls a row fresh has seen
its seq change, and what it saw change was written since it started and not
longer ago than its idle count: `NothingStaleIsPassedOn`, `MonitorsSound`.

**CommandPath**.  Along the path from the row over the wire to the hub the writes get
older, and two places that hold the same write hold the same seq:
`AdvancesAreWrites`, `WritesAreSentOnce`, `PathSound`.

**Segment**.  Each transmit queue is in order and each slot holds consecutive
parts under one SEQLO of one key; slots are injective in keys, hence the
pigeonhole argument for `SlotsSuffice`.  `WholeBodiesInOrder`,
`UnbrokenBodiesArrive`, `CrcCatchesAliases`, `ReassemblerSound`.  The CRC is
taken to tell a body from a join of two.

**Framing** (`SizeAssumption`, `BodyAssumption`, `CrcAssumption`: any byte
size, any non-empty bodies, any check sum of the right length).  Three
arguments, in this order:

1. *The two COBS are one code.*  The C encoder writes a placeholder and patches
   it, the Elixir one closes blocks; the encoder's state in C is at each byte a
   `Mirror` of the one in Elixir (`StuffMirrors`, hence `EncodersMirror`).
   The C decoder goes byte by byte, the Elixir one block by block; what the
   first has at the end of a block is what the second has (`BlockFed`), on
   every run, broken ones too (`DecodersMirror`).  Decoding what was encoded
   gives the data back (`RoundTrip`), and the frame has no zero and fits
   `MaxWire` (`HostEncodes`, `EncodeWithin`).  Together `CodecsSound`, and from
   it `CodecsAreOne`.
2. *The two ends cut the line alike.*  `EndsInv`: the run that waits at the hub
   is the end of what waits at the host, and what the host would hand up if it
   read now is what the hub handed up, verdict by verdict (`VerdictsAgree`),
   until the hub's buffer overflows.  Hence `EndsAgree` and
   `NothingIsLostSilently`, for any chunks.
3. *A zero puts the hub in step.*  After it the decoder is as new whatever came
   before, so that an intact frame finds an empty buffer (`FrameInv`):
   `IntactFramesAreHeard`.  And the buffer is never written past its end
   (`BufferNeverOverflows`), with which `UartTypes` types all of it.

These are inductions along loops.  They are done by taking the first place
where an equation fails (`Least`, from the well-foundedness of `<` in its form
for sets): `Along` carries a property from each state of a loop to the next,
and each loop of the model is first shown to obey its equation (`EncodeRun`,
`StuffRun`, `UnstuffRun`, `DecodeRun`, `ScanRun`, `TakeRun`).

**Contract** (`ContractAssumption`).  `PipelineInv` says of each stage what the
stages before it have made, for every declaration the DSL admits
(`Declaration`), of any number of hubs, ports and views.  The walk with its
seen-set reaches the host exactly where `Above` says so, by induction on the
hubs unseen; the subtrees are the hubs below, by induction up the tree.
`VerifierIsExact`, `RoutesReachAll`; and, from the lookups on both sides,
`FramesAgree`, `NoDeadManLost`, `StatusesAreOwn`.  `Declaration` excludes a hub
that bears the name of the host, which is a plain atom to the code: no check
forbids it, and no declaration in the repository does it.

**Boards** (`WheelsAssumption`, `ScheduleAssumption`: half a turn of the clock
holds a longest pass and a longest period; an echo with the rest of a pass fits
in the period of the range row, and so does a pose period; the rest of a pass
is no longer than an echo).  Of the Blaster: `BlasterInv`, in which `PassInv` says how
long a pass can have lasted at each place in it, `WaitInv` how long a frame has
waited there, and `MuteInv` how a silence of the IMU is made up of the pass
under way and those before, in each of the ways the rows can have run or not
have been due; `SinceSum` adds differences on a clock that wraps.  `CommandsAreRelayedInTime`,
`AnsweringImuIsHeard`, `NoPoseOfASleepingImu`.  Of the wheels: `SpeedInv`
(`SpeedsAreOfThisPass`), and the refinement `BothWheelsAreHubs`, each step of
the board being a step of each wheel's hub or none.  The proofs about `ActHub`,
instantiated for either wheel, then give `EachWheelIsFloored`.

**StopPath** (`StopAssumption`).  Each message in the mailbox will find the
controller as the last notice and the last toggle ahead of it say, or, if there
is none, as its flags are (`BoxInv`).  A pose from after the stop therefore has
a disarm notice ahead of it, or a flag already down, even when the controller
was started in between (`StartInv`): `DisarmIsObeyed`, `DisableIsObeyed` (for a
controller that starts with balance off), `ControllerSound`.

## 6. What is only model-checked

Liveness: `SilenceFloors`, `CommandsArrive`, `FlooredShows`, `SilenceShows`,
`LatestSent`, `StopHolds`, `ArmedResumes`.  They hold under fairness, which is
about `ENABLED` actions, and the prover reasons about neither.

Two theorems have a hypothesis that their property does not: `PointToPoint` for
those of `Tree`, because without it `InOrderOnce` is false (section 7, 4), and
`~StartEnabled` for `DisableIsObeyed`, because otherwise a crash forgets a
disable (section 7).  `acthub_latch`, `acthub_baseline` and `tree_samples`
refute what they check, so that there is nothing to prove.

## 7. Where code and documents differ

The first three are runs, the others bound what is stated and proved:

1. *The latch does not hold* (`acthub_latch`; `floor.c:58` against `floor.h:6`
   and `floor.c:62`).  Freshness is computed again on every tick and
   `seen_advance` is never cleared, so that after 71.6 minutes of silence,
   when `micros()/1000` comes round, the floor drives its old target for a
   window.
2. *A single command can arm* (`acthub_baseline`; `floor.c:49`).  The first tick
   takes `cmd_seq` for the baseline whether or not a command has set it, and
   the drive loop ticks from the first pass on.  A hub that boots with no
   command in its buffer has the 0 of `floor_init` for its baseline, and the
   first command it ever hears, unless its seq is 0, arms it at once; so does a
   stale one that waited upstream while a leaf rebooted.  Against it stand the
   comment of `floor.c:43-46` ("the first command seq we ever see only records a
   baseline; trust begins on a later, DIFFERENT seq"), `test_floor.c:8` and
   `:58-66` ("a single command ... must NOT arm (strict)"; the tests hand over
   the command before the first tick), the mirror in
   `test/support/fixtures/floor.ex:55-56`, which records no baseline without a
   command, and the same claim of a stale frame in `docs/hub-design.html:1803`.
   `test/host/soft_fault_e2e_test.exs:133-150` expects what the code does: a
   reset, an idle tick, and one command re-earns motion.  `StaleBufferInert` is
   therefore about the hub's own receive buffer, and counts from the baseline.
3. *Samples of a leaf do not reach the host* (`tree_samples`; `router.c:10`
   against `CONTEXT.md:239`, `156-158`).  They carry the leaf's own NODE and
   the root's table sends them back down.
4. *Two leaves on a shared bus double commands* (`link_esp32.cpp:209`, a CAN
   filter that accepts everything, against `CONTEXT.md:122-123`, `150-152` and
   `router.h:36-38`): a leaf relays a frame for its neighbour, whose table entry
   leads back to the bus.  Hence the hypothesis of `RelayInOrder`; TLC finds it
   with the constants of section 3.
5. *A view that starts over re-uses seqs* (`actuator.ex:91` against
   `actuator.ex:99`, "each write advances the command seq exactly once").  The
   row outlives the view; the first write after a restart can carry the seq
   that the link owner drained last (`link_owner.ex:139`) and is then not sent.
   `LatestSent` is stated for views that did not start over; that no advance is
   manufactured holds also when they do.

Others were met while modelling and have no run:

- `pulseIn` waits for up to 30 ms inside a row (`blaster.cpp:181`), where
  `scheduler.h:6-9` has "no spin, no blocking wait"; with it poses can be 60 ms
  apart, while the view of the IMU in `robot.ex` calls 3 beats of 10 ms stale,
  and a command can wait 60 ms on the root (`RelayBound`), which comes off what
  `docs/hub-design.html:1848` counts in missed commands;
- the speed rows advance their seq whether or not there is a new value
  (`wheels.cpp:219-231` against `wheels.glue.h:133`): a motor that never
  aligned looks alive with speed 0, and its status says "not floored";
- `initFOC` moves the motors at every boot (`hub_main.cpp:38-42`), where
  `docs/hub-design.html:1804` lets nothing energise the plant; `Energised` is
  about the drive hook;
- an IMU that loses its supply while the chip keeps its own is read asleep from
  then on (`blaster.cpp:120`, `inited` stays true); `Blaster` lets it lose its
  state only with a reset of the chip;
- the disarm broadcast goes back to the host through the root's table
  (`router.c:10`), and no firmware acts on NODE `0x00` (ADR-0010 says so of the
  second; `CONTEXT.md:242` reads otherwise);
- the verifier and the route tables take trees of any depth, while
  `link_send_down` (`link_esp32.cpp:277-280`) does nothing on a hub other than
  the root: what is addressed to the third level is dropped at the second;
- a hub without ports is in the tree and invisible to the generator;
- after a crash of the registry alone, writers given out before keep writing
  beside new ones; `SoleWriter` is therefore per registry;
- `host.ex:101` drains only ports with a safe action: commands for others are
  written and never sent unless someone calls `watch_command_slot`, and that is
  forgotten when the link owner restarts;
- a partial body whose key falls silent keeps its slot for ever
  (`segment.h:27-28`), and a body whose tail is lost is dropped without a count
  (`segment.h:20-21` against `segment.c:108`);
- `framing_cobs.ex:82-86` can count one run twice, as does the C decoder on
  overflow; its buffer has no bound; it takes an empty body, the hub does not;
  the overhead formula of `cobs.ex` is one off at 0 and at multiples of 254;
- `checks.ex:415` admits payloads up to 506 bytes where a hub's `Frame` holds
  64 (`floor.h:34-35`), and then the floor's fail-closed branches for wider
  values are reached, which `Floor` leaves out; a port without a window fails only in the C compiler;
  a rate above 1000 Hz gives period 0 and a floor that never arms;
- which port a status belongs to is decided by suffix; a view's direction and
  kind are not reconciled with its port; hubs with equal names are accepted;
- `WIRE_CONTRACT_SHA` is never compared at run time;
- `balance.ex:428` has `disable/1` publish zero torque, while a disabled
  controller goes on with its velocity loop and only the balance torque is zero
  (`balance.ex:509-524`); `DisableObeyed` states the latter;
- the balance controller integrates while disarmed and enabled, keeps the last
  teleop intent across disarm, and a crash puts `enabled` back to the option:
  with `enabled: true` a disable is forgotten (hence the hypothesis of
  `DisableIsObeyed`);
- the simulated transport goes on with the last captured torque after a disarm
  (`sim/transport.ex:112` against ADR-0008:163-164).

## 8. What is not modelled, and why

- *Device details*: motor and current-sense parameters, scaling of readings,
  the strip's pixels.  `Blaster` keeps of a pass's many short bus reads and
  sends only that they fit in `Slack`, and leaves frames from the backplane out
  (`Tree` has them).
- *Simulation* (driver, transport, plant): next in the plan.
- *Host transports*: thin adapters; the UART's framing is in `Framing`.
- *Balance arithmetic*, filter, PID and teleop mixing: floats.
- *Example robot* other than the controller: declarations and conversions; its
  tree and hubs are among the instances of `Contract` and `Tree`.
- *MuJoCo plant, Nerves host*: outside programs and hardware.
- *Emitted C text*, parity vectors and the contract hash: text; what the text
  does is in `Contract` and `ActHub`.
- *BB* (the robot framework: safety state, state machine, PubSub, supervision)
  is external: `StopPath` takes from ADR-0010 that `BB.Controller.Server`
  subscribes to the state machine before `init/1`, and that each change is
  announced.

## 9. The plan from here

Done, in the order of their weight for safety: floor and hub, tree, contract,
registry, inbound, command, segmentation, framing, disarm, the two boards of
the example robot with the scheduler, the abstract switch and its refinement,
and the proofs of all their safety properties.  Next:

1. an abstract last-write register that `CommandPath` over `Tree` implements;
2. the simulation: driver, capture, step, and disarm against ADR-0008;
3. the composition of `CommandPath`, the relay of `Blaster` and `Wheels`: the
   age of what is energised in terms of the view's writes; from it the `Bound`
   that `StopPath` takes from `ActHub`;
4. the observer's sinks and several slots;
5. proofs: `Tree` beyond point-to-point backplanes, for what remains true there
   (no command is invented, each copy is in order), and of the compositions
   above.
