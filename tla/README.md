# A TLA+ verification of the MOTIS server (day-based CSA)

MOTIS is an intermodal travel information system: a C++ server that loads
timetables, keeps them up to date with realtime messages and answers journey
queries.  This directory holds TLA+ modules translated from its source under
`src/`, TLC configurations that check them on small instances, and proofs that
TLAPS checks for every value of the constants.

All commands are run in this directory:

    tlasany M.tla                                parse a module
    tlc -workers 2 -config X.cfg M               check a model
    tlapm M_proofs.tla                           check the proofs of a module

`PROJECT.json` lists the runs, for every property a mutant of the code that
violates it, the source lines of every definition (`map`), the hazards of the
code with the properties that watch them, the findings and the theorems.

1. [The system](#1-the-system)
2. [What is modelled, module by module](#2-what-is-modelled-module-by-module)
3. [Runs](#3-runs)
4. [Theorems](#4-theorems)
5. [Findings](#5-findings)
6. [What is only checked, and what is left out](#6-what-is-only-checked-and-what-is-left-out)
7. [Plan](#7-plan)

---

## 1. The system

### 1.1 Parts and how they interact

    clients --ws/http/tcp--> launcher --on_msg--> dispatcher --post--> handlers of the modules
                                                    |   ^                 |
                                                    v   +--motis_call/motis_publish
                                              ctx scheduler (READ/WRITE on the schedule)

    files / uploads --> ris --/ris/messages--> rt --/rt/update--> reliability, railviz, path ...
    schedule files --> loader --> schedule (stations, routes, light connections, trips)
                                     +--> csa_timetable --> csa search --> journeys
                                     +--> routing, railviz, lookup, ... (read only)

Everything that happens after the start is an *operation*: a handler that a
module registered for a target, executed because a client message arrived,
because another handler called it (`motis_call`) or because a topic was
published (`motis_publish`).  Handlers run on user level threads of the `ctx`
library.  The only shared state is the `schedule`, guarded by an access
scheduler: "multiple reads or one single write at a time"
(`base/module/.../dispatcher.h:19`).  The persistent state is the LMDB database
of the ris module (and a cache of bikesharing, a read-only one of path).

### 1.2 Inventory

| Component (source) | State it keeps | Operations | Hard behaviours | What makes it correct |
|---|---|---|---|---|
| Message dispatcher (`base/module`) | registry of operations and topic subscriptions; running operations with their access | `on_msg`, `req`, `publish`, `access_of` | interleaving of handlers that call, publish and throw; exceptions between two posts; futures nobody waits for | a child never has more access than its root; writers are alone; every message is answered once; whoever awaits its children is not overlapped by a writer |
| ctx scheduler (submodule, external) | queue of operations, access lock | `access_scheduler`, `post`, `future::val` | who is admitted when | readers/writers exclusion |
| Bootstrap (`base/bootstrap`) | list of modules, the instance | `call`, `publish`, module initialisation, `/init` | one of several futures fails | an instance-level call is never refused for its access |
| RIS message store (`modules/ris`) | LMDB: messages by timestamp, first and last timestamp per day, known files; write buffer; system time | `/ris/init`, `/ris/upload`, `/ris/read`, `/ris/forward`, `/ris/purge` | crash between transactions, a reader that throws, buffer flushed in the middle of an archive, messages at the edges of days and of the interval | no archive is marked as read and then missing; the index leads to every message; forwarding loses and repeats nothing |
| RIS parsers (`ris/risml`, `ris/gtfs-rt`) | none | parse one file | malformed input | the messages of the file |
| CSA timetable (`modules/csa`) | connections of a day with arrival beyond midnight and traffic days, footpaths, transfer times | built once | sections beyond midnight depart on shifted days | the connections are exactly the trains that run |
| CSA search (`modules/csa`) | labels per station and number of transfers, trips reachable, position of the scan | `add_start`, `search`, `get_results`, reconstruction | circular scan over midnight, pruning, labels that change after a leg was found | labels are the earliest arrivals; every label has a journey that can be travelled |
| CSA pretrip search (`modules/csa`) | interval, pareto set | `pretrip`, `collect_start_times` | interval grows piecewise, unsigned time arithmetic | the pareto front of the final interval |
| CSA variants (SSE, price, GPU) | as above | | not adapted to day-based connections | |
| Loader: routes (`base/loader`) | services split by days, trains in UTC with their traffic days; `route_t`s with rows of times and light connections, trips, expanded trips | `split_service`, `create_timezone`, `service_times_to_utc`, `add_to_routes`, `add_service`, `create_route`, `write_trip_info` | days that skip a section, changes of the clock, rows in two parallel vectors, comparison with neighbours only, midnight | every clear day has one train at the times the clocks show; connections of an edge are sorted; nobody overtakes in a route; a trip finds its connections |
| Loader: footpaths (`base/loader`) | components, matrices, footpaths of stations | `transitivize_footpaths` | stack search over directed edges, parallel threads writing to stations | shortest walks between all stations that have one, each station in one component |
| Loader: HRD, GTFS parsers, rule services | parser state, merged services | one per file type | through and merge/split rules | the services of the files |
| Schedule, graph, time (`base/core`) | stations, nodes, edges, light connections, trips | `get_connection`, `time` arithmetic, accessors | bisection over connections that cross midnight, `INVALID` times | the connection with the earliest departure after a time |
| Realtime (`modules/rt`) | delay infos per event, queue of propagation, trips separated from their route, trips to correct | `update` on `/ris/messages` (delays, cancellations; also additional trips, reroutings, tracks), `flush` on `/ris/system_time_changed` | visits in the order of a hash set, keys that change during a visit, late delay infos, contradictory reports | edges stay sorted, a trip has one valid copy, the schedule time is remembered, times depend on the last reports only |
| Routing (`modules/routing`) | labels in an allocator, labels per node, dial queue, results, interval | lower bounds, start labels, pareto Dijkstra, filter, growing interval | labels released while others point to them, pruning by bounds that carries over from interval to interval, an erasing order nobody chose | no label dangles; results are journeys; no journey is lost; the answer is as quick as any |
| Launcher (`base/launcher`) | sessions, requests in flight | http, websocket and socket servers, batch mode | a session closed before its answer, 2 x threads requests in flight | each request answered at most once, batch terminates |
| Client (`base/client`) | one connection | call with timeout | answer racing the timeout | |
| Reliability, railviz, lookup, bikesharing, intermodal, path, guesser, address, osrm, cc (`modules`) | own read-only indexes; reliability keeps distributions, bikesharing a cache | queries | numerics; nested calls | |
| Protocol, UI, build tools | none / not part of the server | | | |

The components and their status are repeated in `PROJECT.json`; the hazards
(40 places in the code, each with its line) are the list the properties are for.

---

## 2. What is modelled, module by module

### 2.1 Dispatcher and ScheduleLock

**`Dispatcher`** models `base/module` (`dispatcher.h`, `registry.h`,
`controller.h`) with the way `motis_instance` drives it.  An operation is one
execution of a handler; operations form trees, whose roots pass the access
scheduler and whose children carry the `ctx_data`, hence the access, of the
root.

| Variable | Code |
|---|---|
| `st`, `exc` | life cycle of a ctx operation and the exception it is unwinding with |
| `want`, `root`, `par` | access the handler was registered with; where its `ctx_data` comes from; who posted it |
| `pend` | futures the body still calls `val()` on |
| `msg`, `answer` | the client message of a root, and what its callback got |
| `job` | the call or publication a `motis_instance` lambda consists of |
| `booted` | `main()` has started the servers after `/init` |

| Action | Code |
|---|---|
| `RunInstance`, `RunJob` | `motis_instance::call/publish` through `controller::run` with `access_of(target)` |
| `OnMsg`, `OnMsgUnknown` | `dispatcher::on_msg` with and without a registered operation |
| `Admit` | the access scheduler of ctx (external) |
| `Call`, `Publish` | `dispatcher::req`, `dispatcher::publish` below a handler: lookup, check of every subscriber, post |
| `Val` | `future::val`: the result, or the exception, which the caller lets through or handles |
| `Throw`, `End` | the handler fails; it returns, gives up its place and the callback runs |

The bodies of handlers are not modelled: a handler may call or publish anything
at any time, throw, or return once the futures it waits for are done.  Which
publications are waited for is the constant `Awaited`, since that differs from
call site to call site.  An exception abandons all futures of the operation it
leaves (`Raise`), be it one of `await_all`, which rethrows the first failure, or
of a refused subscriber of a publication: the body is then left without waiting
for the rest.  dispatcher.h states a rule for authors of handlers ("parent op may
not quit until all child ops that require access permissions have finished");
nothing in the code enforces it, and `dispatcher_quit` shows that ris does not
follow it.  What holds nevertheless is stated for two groups of running
operations: `Rooted`, those whose root still runs, whether or not anybody waits
for them, and `Held`, those whose future nobody above them has dropped.

**`ScheduleLock`** is the abstract specification: groups of handlers read or
write the schedule and a group writes only while no other group does anything.
The dispatcher implements it, with the roots as groups and the access of the
`Rooted` handlers as their state (`ImplementsScheduleLock`).

### 2.2 RisStore

**`RisStore`** models `modules/ris/src/ris.cc`: the ingestion of files and
uploads, the index by days, forwarding to the realtime modules, purging,
crashes and restart.  All these operations are registered with WRITE and exclude each other; what interleaves
is the arrival of files, exceptions of the readers and crashes.

| Variable | Code |
|---|---|
| `copies` | `MSG_DB`; buckets are keyed by timestamp, so a message is in the bucket `Ts[m]`, perhaps twice |
| `minDay`, `maxDay` | `MIN_DAY_DB`, `MAX_DAY_DB` |
| `known` | `FILE_DB` |
| `buf`, `nbuf`, `mins`, `maxs` | the write buffer and the per-day extremes of `write_to_db` |
| `pub`, `pubMax` | `publisher` |
| `target`, `from`, `cursor`, `batch` | locals of `forward` |
| `sysTime` | `schedule::system_time_` |
| `op`, `stage`, `todo`, `cur`, `pos` | where the running operation is |
| `seen`, `again`, `purged`, `happened` | history: published since the start, published twice, deleted, kinds of events so far |

The granularity is that of LMDB transactions: `ParseMsg` (with the flush of a
full buffer), `FlushRest`, `UpdateIndex`, `PublishFile` and `AddToKnownFiles`
are separate actions because a crash can hit between any two of them.
`ForwardBucket` is one iteration of the read loop of `forward` with the batch
rule, `EndForward` its last publication and the new system time.  `ReaderError`
is an exception in the middle of an archive: the buffer is lost, the destructor
of the publisher still publishes.  Messages are atoms with a timestamp and the
interval they mention; parsing and the bucket encoding are left out.

### 2.3 CsaTimetable, CsaReference, CsaSearch

**`CsaTimetable`** has the timetable as operators: `SectionConnection` (day
offsets and shifted traffic days, `graph_builder.cc` and
`build_csa_timetable.cc`), the scan order, footpaths, last event.  Times are
minutes since day 0; `time(day, minute)` of `time.h` is `day * DayLen + minute`.

**`CsaReference`** says what a search should compute without scanning:
`Rides` are concrete trains (one day's instance of a trip between two stops),
`Best` is the earliest ready time at every station after exactly `k` rides.
`IsSchedule` and `TripsWithinDay` say what the proofs ask of trips and walks.
`Ends` is what one search finds from one start; `SearchesAgree` says how the
searches from different starts agree, with `SetsOut` for the minutes at which
somebody has to leave to reach a train just in time.

**`CsaSearch`** models `csa_search<FWD>` and `csa_reconstruction<FWD>` for an
on-trip query.

| Action | Code |
|---|---|
| `AddStart`, `Search` | `add_start`, the prologue of `search` |
| `Scan`, `EndScan` | one iteration of the connection loop (all numbers of transfers), circular over midnight; its break |
| `GetResult`, `EndResults` | the loop of `get_results` over the labels of the destination |
| `Leg` | one iteration of `extract_journey` that finds a leg: `get_journey_pointer`, `get_exit_candidates`, `look_for_conn_arrival_within_transfer_time` |
| `EndJourney` | its end with `add_final_footpath` |

`arrival`, `reachable`, `it` and `searchDay` are `arrival_time_`,
`trip_reachable_`, the iterator and `search_day`.

### 2.4 Pretrip

**`Pretrip`** models a query above the scan: `run_search` with its on-trip
branch, `pretrip::search` with the interval that grows, `collect_start_times`
and the pareto sets.  One search of the scan is not run again: `ends` holds what
`CsaReference` says it finds from each start, and `Collect` chooses any journey
of that label that `CsaSearch` is checked to return (`JourneysFeasible`,
`JourneysEarliest`, `EveryLabelExplained`), so the answer may not depend on
which one the reconstruction finds first.  A destination that is a start has a
label without a ride whose journey has no edges.  `pretrip` skips it
(`is_reconstructed`), the on-trip branch pushes it: with another journey beside
it, `push_back` reads `edges_.back()` of a vector without storage, which is
`Crash`.  `Terminates` says that no other query ends that way, and `BestOntrip`
speaks of the queries that are answered.  What the module takes for granted of
these searches is one ASSUME (`SearchesAssumption`): TLC evaluates it for the
schedules of the run, and `CsaSearch_proofs` proves each part of it of every
schedule the loader hands over (`ConnectionsDepartInTime`, `SearchesInStep`).

| Variable | Code |
|---|---|
| `interval`, `extended` | `search_interval_`, `extended_search_interval` |
| `pieces` | the calls of `search_in_interval` left in this round of the loop |
| `starts`, `now`, `labels` | `start_times`, the search that runs, its journeys still to be collected |
| `results` | `results_` |

| Action | Code |
|---|---|
| `Ontrip`, `OntripDone` | the on-trip branch of `run_search` |
| `FirstPiece`, `NextPiece`, `PieceDone` | the calls of `search_in_interval`, the new `search_interval_` |
| `SearchFrom`, `Collect` | one start time; one journey of `collect_results` (or of the on-trip loop) with `push_back` |
| `Crash` | `push_back` reads the last edge of a journey that has none |
| `Extend`, `Finish` | one round of the loop; its end and the erasing of journeys outside |

### 2.5 ServiceTimes, RouteBuilder, RouteLoading

**`ServiceTimes`** has what the loader makes of one service before it goes into
a route, as operators: `Split` (`split_service.cc`: the sections of an HRD
service run on different days and are taken apart from the first section on),
`CreateTimezone` and `Seasons` (`timezone_util.cc`, `timezone.h`), `Extended`,
`Converted` and `TrainsOf` (`graph_builder::service_times_to_utc`: every event of
a traffic day is converted, impossible ones and all behind them are moved by an
hour, days that come out alike share a train) and `SectionConnection`
(`section_to_connection`: departures beyond midnight on shifted days).

**`RouteBuilder`** models how `graph_builder` groups services of one stop
sequence into routes.  `JoinRoute` and `OpenRoute` are `add_to_routes` with
`route_t::add_service`: the position by `lower_bound` over the first departure,
the comparison with the neighbours by minute of the day, the insertion into
`times_` and `lcons_`.  `BuildRoute` is `create_route` with `write_trip_info`
and `add_expanded_trips`: a trip remembers its route and the position of its
connections.  Any times (`Timetables`) may come in.

**`RouteLoading`** composes the two: a plan, that is some services, becomes
trains, and the trains go through `RouteBuilder`.  Its properties are stated
about the plan and about what a trip finds at the end: `TrainsRunAsPlanned`
compares the connections with what the clock on the wall (`to_local_time`, for
the seasons as in the schedule files) shows at the stops.

Only pieces with all stops go into the route that is modelled; a shorter piece
has another stop sequence and goes into routes of its own.

### 2.6 FootpathBuilder

**`FootpathBuilder`** models `transitivize_footpaths`.  `SkipRoot`,
`OpenComponent`, `DropVisited`, `Visit` and `EndComponents` are `find_components`
with its stack; `ProcessPair`, `StartMatrix`/`RelaxOver`/`StoreMatrix`,
`ProcessSingle` and `SkipNoComponent` are `process_component` for the sizes the
code distinguishes, run in any interleaving because `parallel_for` does.
A row of the matrix is filled by one merge pass over sorted edges and members;
an edge that leads out of the component drives the pass to its end, and it and
the later ones are written one cell behind the row (`Stray`, `Cell`); a write
behind the last row is only recorded (`overrun`).

### 2.7 Rt

**`Rt`** models `modules/rt`: reports about the trips of one route and one
traffic day.  `update` and `flush` are WRITE operations, so nothing interleaves
with them; what nobody chose is the order in which a flush visits the delay
infos (a hash set) and equal entries leave the queue.

| Variable | Code |
|---|---|
| `graph` | routes: rows of light connections with their times and `valid_` |
| `loc` | `trip::edges_` and `lcon_idx_` |
| `info` | `graph_to_delay_info_`: schedule, measured, forecast, propagated and repaired time of an event |
| `pq`, `events` | queue and touched infos of `delay_propagator` |
| `phase`, `todo`, `wrong` | where the flush is, infos not yet visited, `trips_to_correct` |
| `reports` | bound |
| `corrections`, `contradicted` | history: corrections of each trip, trips corrected while their measured times contradicted each other |

| Action | Code |
|---|---|
| `ReportDelay`, `Cancel` | `rt_handler::update` with `add_delay`, and the cancelled sections |
| `Flush` | `rt_handler::flush` |
| `Propagate` | one iteration of `delay_propagator::propagate`: `update_propagation` and what is pushed after it |
| `StartVisits`, `Visit` | the loop of `rt_handler::propagate`: `fits_edge`, `fits_trip`, `seperate_trip`, the new time |
| `Repair` | `trip_corrector::fix_times` |
| `Reset` | `delay_propagator::reset` |

Through edges, tracks, additional trips, reroutings, the message to `/rt/update` and
the new lower bounds are left out.

### 2.8 RoutingGraph, RoutingReference, Routing

**`RoutingGraph`** has the time-dependent graph as operators: nodes and edges
as `graph_builder` and `build_footpaths` create them, the cost of every kind of
edge (`edges.h`), `get_connection` with its bisection by day, and the constant
graphs with their lower bounds.  **`RoutingReference`** says what journeys there
are without a graph: on concrete trains, with transfer times and walks.

**`Routing`** is the forward search.  `RoutingInvariants` holds the inductive invariants
of its proofs (`IInv`, `CInv`, `QInv`, `JInv`; section 4) and the terms they are
stated in; nothing there models code.

| Variable | Code |
|---|---|
| `net`, `query`, `edges`, `lb` | timetable, `search_query`, edges, `lower_bounds` |
| `interval`, `pc`, `starts` | `interval_begin`, `interval_end`; where the search is; start labels still to add |
| `mem`, `upwards` | the allocator: labels by address with the free list; whether a new buffer lies behind the old one, since labels are compared by address |
| `kept`, `queue`, `equals`, `results` | `node_labels_`, `queue_`, `equals_`, `results_` |
| `at`, `todo` | the label being expanded and its edges still to relax |
| `dropped` | history: results `filter_results` has erased |

| Action | Code |
|---|---|
| `AddStart`, `StartsAdded` | `add_start_labels` |
| `Pop` | the head of the loop of `search`: the next label, dominated ones released |
| `NoLabel`, `AddResult`, `AddLabelToNode`, `Useless` | `create_new_label` and what becomes of its label: none, a result, kept and queued, released |
| `SearchEnds`, `Erase`, `FilterEnds` | the end of the loop, `filter_results` |
| `Extend`, `Finish` | the loop of `search::get_connections` that widens the interval |

`node_labels_` and `results_` are sets: the order of their vectors only decides
which dominated entries are met before one that ends the loop, so any may be.
The absurdity criterion is always 0 without additional edges.  The reachability
test of `search.h:72` is given the id of a node where it expects a distance, so it
never returns early and is left out.  Edges only a backward search can use are left out.

`ScenariosAssumption` says what the search may rely on: a timetable of the right
shape in which trains go forward in time (`IsNetwork`; the loader verifies that no
connection arrives before it departs), the connections of an edge leave at different
minutes (`DifferentMinutes`: the loader verifies that departures rise strictly), no
train of a route overtakes another (`NoOvertaking`: what `RouteBuilder` is for; the
finding `routes_midnight` is where it fails), and the query ends elsewhere than it
begins (`IsQuery`) in an interval that does not end before it begins (nothing in the code
checks that).

`DeparturesIn` stops where the loop of `start_label_gen.h:137` does: at the first minute
from which `get_connection` finds no train of the route within `MaxTravelTime`.  In an
interval with such a gap the trains of the route after it get no start label.
`SearchComplete` and `AnswerAsQuick` promise nothing for journeys that begin with such a
train (`NoGap`); without that condition TLC finds both violated on the network
`MCDirect({2})`.

`OnwardJourneys` leaves out journeys with a train back to the
stop where start labels wait: such a label dominates the passenger's, and may not
leave the train it has not taken.

### 2.9 How the modules relate

`CsaTimetable` and `RoutingGraph` assume what the loader modules establish:
their footpaths are the transitive closure `FootpathBuilder` checks, the rows
they look connections up in are sorted as `RouteBuilder` proves, and
`CsaTimetable!SectionConnection` is the one `ServiceTimes` ends in.
`RouteLoading` composes `ServiceTimes` and `RouteBuilder`.  `Rt` starts from the
sorted rows of a route and keeps them sorted (`EdgesSorted`), which is what the
bisection in `RoutingGraph` rests on once times have changed.  `Pretrip` takes the
single search as `CsaSearch` is proved to answer it, and from all of them together
only that they agree (`SearchesAgree`, proved in `CsaSearch_proofs`).  `RisStore` publishes inside
one operation of `Dispatcher`; that the subscribers of `/ris/messages` (`Rt`'s
`ReportDelay` and `Cancel`) have finished when `publisher::flush` returns is the
awaited publication there, and that of `/ris/system_time_changed` (`Rt`'s `Flush`)
is the one nobody awaits.

---

## 3. Runs

| Run | Expect | Shows | Bounds |
|---|---|---|---|
| `dispatcher_ops` | pass | handlers that throw, abandon futures and publish without waiting: permissions are inherited (`PermissionInherited`), no writer overlaps another tree as long as nobody above it drops its future (`HeldExclusion`), the operations whose root runs implement `ScheduleLock` (`ImplementsScheduleLock`), every client message is answered (`EveryMessageAnswered`) | 3 operations, 2 messages, a READ and a WRITE operation, a topic with a READ and a WRITE subscriber, a topic nobody waits for; 230 000 states |
| `dispatcher_quit` | violation | a RIS forward quits before its child (`ParentOutlivesChildren`) | the registry of ris and rt, nothing throws |
| `ris_requests` | pass | every sequence of requests, crashes and reader errors: known files are stored and indexed (`KnownFilesKept`), the index covers the store (`IndexCoversStored`), forwarding loses nothing (`NoLoss`) and without a crash repeats nothing (`AtMostOnce`), messages are stored once while no ingestion is cut off (`StoredOnce`), files present at the start are ingested (`FilesIngested`) | 2 files, 1 upload, 5 messages, 3 events, the database kept or cleared at each start; 82 000 states |
| `csa_scan` | pass | labels equal the reference (`LabelsBest`), journeys can be travelled (`JourneysFeasible`), are as early as possible (`JourneysEarliest`) and explain all labels (`EveryLabelExplained`), one pass suffices (`SettledLabelsStay`) | see below; 540 000 states |
| `csa_long` | violation | see findings (`TrainCaught`) | trips that travel more than a day |
| `pretrip_intervals` | pass | the answer of a pretrip query is the pareto front of its final interval whatever the pieces it was searched in (`BestOfInterval`), an on-trip answer is the front (`BestOntrip`), the loop ends (`Terminates`) | 360 pairs of trains with walks, 12 queries; 125 000 states |
| `routes_plans` | pass | splitting keeps every ride (`SplitKeepsRides`), every clear day of a service runs as the clocks show, at the connections its trip finds (`TrainsRunAsPlanned`, `TripsFindTheirConnections`); edges are sorted (`MinutesSorted`) | 14 477 plans; 99 000 states |
| `routes_midnight` | violation | see findings (`NobodyOvertakes`) | 3 services of 2 sections |
| `foot_graphs` | pass | components closed, result transitively closed, incoming = outgoing, in every interleaving (`ComponentsClosed`, `ClosedIfSymmetric`, `IncomingMatchesOutgoing`); the search ends and every component is processed (`Terminates`) | see below; 156 000 states |
| `foot_directed` | violation | see findings (`TransitivelyClosed`) | all directed graphs of 4 stations |
| `rt_delays` | pass | whatever the order of reports, flushes, queue and visits: edges stay sorted (`EdgesSorted`), only the row a trip refers to is valid (`OneValidCopy`), schedule times are remembered (`ScheduleRemembered`), times are those a single pass over the trip would give (`DelaysAsIfAfresh`), measured times show unless the trip was corrected while they contradicted each other (`MeasuredTimesShown`), a first repair puts contradictory reports in order (`FirstRepairInOrder`), a flush ends (`FlushEnds`) | 2 trips of 2 sections, 2 reports; 41 000 states |
| `routing_search` | pass | a released label is referenced by nothing (`NoDanglingLabel`), results are journeys (`ResultsAreJourneys`), none is lost through pruning (`SearchComplete`), the answer is as quick as any journey of its interval (`AnswerAsQuick`), every query is answered (`Terminates`) | 18 networks of five stations, 11 queries, both layouts of the buffers; 27 000 states |

### Why the bounds are enough for the questions asked

* **Dispatcher.** Three operations give a grandchild, a root with the two
  subscribers of a publication (of which the second may be refused), and a root
  with a child beside a second root.  A violation of inheritance needs a
  grandchild; one of exclusion two trees, one of which has a writer.  The
  theorems of section 4 cover any number of operations for everything but
  liveness.  `Thrown` are the errors a body may fail with;
  those of the dispatcher itself (denied, unknown target) come on top.  No
  symmetry is used: the run also checks liveness.
* **RIS.** Days have three time units; the messages are chosen at the edges:
  one begins before the schedule and reaches into it, two share a bucket, one
  spans two days, the uploaded one concerns no day of the schedule.
  `BufMax = 0` flushes in the middle of an archive; `BatchSize = 1` splits a
  forward into batches.  Three events allow two forwards around a crash or an
  upload, an error during the start that follows a crash, or a purge between
  forwards.  `MaxEvents` bounds requests and faults, `MaxTime` the time stamps.
* **CSA.** Days of five minutes; a line 1-2-3 that starts at every minute of
  the day so that midnight falls inside and between its sections, waits or
  not, forbids boarding or alighting in the middle, runs once or daily; a
  second trip as a feeder, a continuation or the way back; three footpath
  graphs; on-trip starts at every minute; one or two sources, also in the middle
  of the line; two transfers.
  `MaxTravel = 5` is the 24 hours of the code, so the limit is reached.
* **Pretrip.** Days of five minutes, a schedule of three; `Extension = 3` stands
  for the 60 minutes and does not divide the schedule, so the last piece is
  clipped.  The trains leave at every minute and cross midnight; walks lead to
  the middle of the line or to the destination.  Queries cover intervals at and
  over midnight, no, one and two sides to grow to, two sources, two
  destinations, and as many journeys wanted as exhaust the schedule.  Two on-trip
  queries go to their own start: alone (answered) and beside another station
  (crashes where that can be reached).
* **Routes.** `routes_midnight`: whether a third service is compared with the right neighbours is
  what three services decide; two sections allow overtaking on the first, the
  second or between them.
* **Plans.** Days of six minutes, an hour being one minute, a schedule of four
  days (0 to 3), of which days 1 to 3 are loaded; `ScheduleOffset = 5`, as
  `SCHEDULE_OFFSET_DAYS`, exceeds the longest trip by a day, and `MaxDays = 20` lies
  behind everything.  8000 plans are three one-day services of three sections that meet,
  overtake and cross midnight; the others have a service on any days of the
  schedule, or on days that differ from section to section, in and between
  zones whose season changes inside the schedule, before it or behind it, filled
  up to three trains.
* **Rt.** Two trips, a minute or two apart on one route, with a stop at which a
  trip stands longer than the two minutes it needs and one at which it does not;
  events can be reported before, at and after the other trip and the trip's own
  schedule.  Two reports allow a late second report, two contradictory ones, in
  one flush or two; sections may be cancelled at any time.  A trip has to leave
  the route of another at most once, so two are enough.
* **Routing.** Days of eight minutes; `MaxTravelTime = 8` is the 24 hours of the
  code, `MaxTransfers = 3`; journeys of the reference have up to `Legs = 9` rides and
  walks, more than take that long if each takes a minute.  The schedule has days 1 to 3 (`ScheduleBegin = 8`,
  `ScheduleEnd = 23`, `LastDay = 3`), `Extension = 3` does not divide it.  A slow line
  of three stops, feeders early or late, fast trains from the middle, one of
  which may be cancelled, a walk of two minutes, stops where one may not board or
  alight, a dead end; queries from a station, in a train, and for intervals that
  may grow to no, one or both sides or cover a whole day.  Two more networks have a
  direct train daily or on the second day only, asked for intervals of a day and a half
  and of two days, so that the gap before the single train is met in one and not in
  the other.  `FirstBuffer = 3`
  makes the allocator get a second buffer.
* **Footpaths.** A walk of three edges needs four stations, two components in
  work at a time need five (a pair and three).  The graphs are all of four
  stations with edges of either direction and two lengths, all of five stations
  whose way back is longer, and all directed ones of four.

Constants the code leaves implicit, made explicit as assumptions of the model:
durations and transfer times are at least one minute, a trip of the CSA runs
travels less than a day except in `csa_long` (`MCTripsWithinDay`), days lie far enough behind the
begin of the schedule for an offset to be subtracted (`SCHEDULE_OFFSET_DAYS`), a walk
that comes to no station twice is shorter than the 512 days that mean no walk.

`CHECK_DEADLOCK FALSE` is set in all runs but `rt_delays` and `routing_search`:
the other systems may come to rest (no message left, no request enabled, the
search done).

### Fairness

* `Dispatcher`: weak fairness of `Admit`, of taking some finished future and of
  `End`, for each operation.  It says that worker threads run what is posted,
  that handlers terminate, and that the scheduler admits a root it could admit
  for ever.  There is no fairness for starting anything: clients and handlers
  need not call.
* `RisStore`: weak fairness of `Start` (the process is restarted) and `Step`
  (a running operation goes on).  Crashes are bounded by `MaxEvents`; with
  infinitely many nothing could be promised.
* `Rt`: weak fairness of `Handle`: a flush, once begun, is one call; nobody has to
  report or flush.
* `Pretrip`, `FootpathBuilder`, `Routing`: weak fairness of the next step: each is
  one call that runs until it returns.

---

## 4. Theorems

All are checked by TLAPS without unproved leaves, for every value of the
constants that satisfies the module's ASSUME.

| Theorem | Module | States |
|---|---|---|
| `TypeCorrect` | `Dispatcher_proofs` | `Spec => []TypeOK` |
| `Permissions` | `Dispatcher_proofs` | `Spec => []PermissionInherited` |
| `Exclusion` | `Dispatcher_proofs` | `Spec => []HeldExclusion` |
| `ScheduleIsLocked` | `Dispatcher_proofs` | `Spec => ImplementsScheduleLock`: the operations whose roots run form `ScheduleLock` |
| `FilesKept` | `RisStore_proofs` | `Spec => []KnownFilesKept` |
| `IndexLeadsToAll` | `RisStore_proofs` | `Spec => []IndexCoversStored` |
| `MessagesStoredOnce` | `RisStore_proofs` | `Spec => []StoredOnce`, if each message occurs once in the files (`OncePerFile`); the property speaks of states before the first crash, reader error or upload |
| `PublishedOnce` | `RisStore_proofs` | `Spec => []AtMostOnce`, if each message occurs once in the files; the property speaks of states before the first crash, read or upload |
| `NothingLost` | `RisStore_proofs` | `Spec => []NoLoss` |
| `TypeCorrect` | `RisStore_proofs` | `Spec => []TypeOK` |
| `LabelsAreBest` | `CsaSearch_proofs` | `Spec => []LabelsBest`, if trips are under way for less than a day (`TripsWithinDay`) |
| `MarkedTrainIsCaught` | `CsaSearch_proofs` | `Spec => []TrainCaught`, under the same condition |
| `SettledStay` | `CsaSearch_proofs` | `Spec => SettledLabelsStay`, for all trips |
| `JourneysCanBeTravelled` | `CsaSearch_proofs` | `Spec => []JourneysFeasible`, if trips are under way for less than a day |
| `JourneysEndEarliest` | `CsaSearch_proofs` | `Spec => []JourneysEarliest`, under the same condition |
| `LabelsAreExplained` | `CsaSearch_proofs` | `Spec => []EveryLabelExplained`, under the same condition |
| `ConnectionsDepartInTime` | `CsaSearch_proofs` | of any schedule (`IsSchedule`): connections leave inside their day and not behind the last event (`DepartInTime`) |
| `SearchesInStep` | `CsaSearch_proofs` | of any schedule and sources: searches from different starts agree (`SearchesAgree`) |
| `PretripInvariant` | `Pretrip_proofs` | `Spec => []Inv`, see below |
| `BestOfIntervalHolds` | `Pretrip_proofs` | `Spec => []BestOfInterval` |
| `BestOntripHolds` | `Pretrip_proofs` | `Spec => []BestOntrip` |
| `SortedMinutes` | `RouteLoading_proofs` | `Spec => []MinutesSorted` |
| `DayServicesInOrder` | `RouteLoading_proofs` | `Spec => []DayServicesKeepOrder` |
| `TripsFound` | `RouteLoading_proofs` | `Spec => []TripsFindTheirConnections` |
| `TypeCorrect` | `RouteLoading_proofs` | `Spec => []TypeOK` |
| `LoadingBuildsRoutes` | `RouteLoading_proofs` | `LoadSpec => Spec`: loading plans implements `RouteBuilder` |
| `LoadedMinutesSorted`, `LoadedTripsFound` | `RouteLoading_proofs` | `LoadSpec => []MinutesSorted`, and so on |
| `SplitKept` | `RouteLoading_proofs` | `LoadSpec => []SplitKeepsRides` |
| `TrainsAsPlanned` | `RouteLoading_proofs` | `LoadSpec => []TrainsRunAsPlanned`, for zones with one season at most and trips shorter than the offset of the schedule (`RegularAssumption`) |
| `ClosedComponents` | `FootpathBuilder_proofs` | `Spec => []ComponentsClosed` |
| `FootpathsMatch` | `FootpathBuilder_proofs` | `Spec => []IncomingMatchesOutgoing` |
| `ClosureComplete` | `FootpathBuilder_proofs` | `Spec => []ClosedIfSymmetric` |
| `TypeCorrect` | `FootpathBuilder_proofs` | `Spec => []TypeOK` |
| `TypeCorrect` | `Rt_proofs` | `Spec => []TypeOK` |
| `SortedEdges` | `Rt_proofs` | `Spec => []EdgesSorted` |
| `OneCopy` | `Rt_proofs` | `Spec => []OneValidCopy` |
| `SchedulesKept` | `Rt_proofs` | `Spec => []ScheduleRemembered` |
| `DelaysAfresh` | `Rt_proofs` | `Spec => []DelaysAsIfAfresh` |
| `MeasuredShown` | `Rt_proofs` | `Spec => []MeasuredTimesShown` |
| `RepairedInOrder` | `Rt_proofs` | `Spec => []FirstRepairInOrder` |
| `LabelsAlive` | `Routing_proofs` | `Spec => []NoDanglingLabel` |
| `SearchCompleteHolds` | `Routing_proofs` | `Spec => []SearchComplete`, which is about journeys that do not begin behind a gap (`NoGap`) |
| `AnswerAsQuickHolds` | `Routing_proofs` | `Spec => []AnswerAsQuick`, if every section and every walk takes time (`TimePasses`) |
| `ResultsAreJourneysHolds` | `Routing_proofs` | `Spec => []ResultsAreJourneys`, if besides no train of a route departs while another one stands at the stop (`StandAlone`), and `MaxTravelTime < Legs` |

The type invariants of Dispatcher, RouteBuilder, Rt and RisStore, and
`DayServicesKeepOrder`, are only proved: no run repeats them.

**Dispatcher.**  The inductive invariant adds to `TypeOK` that the root of an
operation is its own root, that an operation that is not free and is its own
root is a root, and that roots admitted together are readers, or one of them is
alone.  Inheritance follows because `Post` makes a child only after comparing
its access with the one of the *root* (the `ctx_data`), so depth plays no role;
exclusion follows because a writer at any depth means a writing root, and a
writing root was admitted alone.  It needs no assumption on what handlers do, only
that the roots of both operations still hold their places (`RootedExclusion`).

That they do while nobody drops a future is a statement about trees of any depth.
An operation somebody waits for has a running parent (`Waiting`), and every set of
operations has a member whose parent is outside the set (`Grounded`: a parent was
there before its child).  Take the running operations of a tree that are awaited
all the way up: the member whose parent is outside can only be the root
(`HeldRooted`).  For the refinement, every step of the dispatcher is a step of
`ScheduleLock` by the group of one root, or a stutter (`GroupStep`, `TreeStep`).

**RisStore.**  The invariant follows an archive through its stages: while it is
parsed, its first `pos` messages are in the store or in the buffer and counted
in the extremes of their days; after the flush all of them are in the store;
after the index transaction the index covers them; only then does the file
become known.  A crash drops buffer and extremes together with the stage that
needed them, which is why the order of the transactions matters.  Purging is
accounted for by `purged`.

What is published and stored builds on it.  *Index:* every stored message is covered by the
index (`Found`) or comes from a file that is still to be parsed again
(`Pending`), and none is pending when the process is idle.  *Once:* a message in
the store belongs to a known file, or to the one at work.  *At most once:*
published messages lie behind the cursor of the forward, or before the system
time (`Behind`), and a forward starts behind both.  *No loss:* what the cursor
has passed is in the batch or published (`Kept`), and the smallest indexed
timestamp of the days of the schedule is at most that of every stored message
that concerns it.  `RelevantDay` is the arithmetic of days in between: a message
whose interval meets the schedule mentions a day of the range that `floor` and
`ceil` give, unless the schedule ends at midnight.

**CsaSearch.**  The scan stands before a connection of a day; a train's section is
`Passed` if its connection lies before that in the order of the scan.  Everything
that departs earlier is passed and nothing that departs later (`EarlierIsPassed`), a
step of the scan passes the one section of the connection, midnight none (`PassedStep`,
`PassedWrap`), and what the start of the scan skips departs before the query's start
(`SkippedDepartEarlier`).  With B the best labels, by the reference, `ScanInv` says:

* no label is below B, and those of round 0 are equal to it (`Sound`, `FirstKept`);
* a mark of `reachable` is a passed section where the train of some day could be
  boarded with the present labels (`MarksEarned`);
* a train that can be boarded with B is marked once the section is passed, and a
  ride on it is taken once its last section is passed (`MarksComplete`, `RidesTaken`);
* a label was set together with those of all stations in walking distance (`Rooted`).

The third makes B a label as soon as it is due: the ride that ends with it departs
before, so it is passed (`DueIsReached`).  That is why one pass suffices.  The fourth
justifies the pruning: if a train arrives no earlier than the label of its station,
no walk from there improves anything, by the triangle inequality of footpaths, which is
proved of the closure (`NextShortcuts`, `FootpathsAre`).  The second is where
the day is missing in `reachable`: a mark may come from the train of *another* day.
If the trip is under way for less than a day, that other day is not later, for such a
train would not have been passed, and who boards an earlier train of the trip is also
there for today's (`ReachedMeansBoardable`).  Without the condition `csa_long` shows
the violation, so it is the exact reason of that finding.  What the relaxation of one
connection does to all rounds at once is `RelaxedIs`: treating fewer transfers first
changes nothing a later round reads.

*The journeys.*  `extract_journey` knows neither where nor on which day a label was set:
it looks for connections that arrive at the minute of the label, on a day they run, on a
marked trip, and may find another train than the scan did, with labels that improved
since.  Three lemmas say why that is right.  A pointer is a train of one day that can be
boarded with the labels of a ride less (`PointerIs`); the days and minutes that are
taken apart and put together again are that train's (`TrainTimes`, `RideEdgeIs`).
When the scan has ended, all trains that can be boarded before the limit are marked
(`SettledInvariant`), so each best ride has its pointer (`RidePoints`): a label above
round 0 is always followed (`NoPointerNoRides`), and what is left without a pointer is
at a start or a walk from one (`JourneyEnds`).  And the last leg is chosen among all that arrive
up to a transfer time after the label (`ChoiceIs`), which makes its end as early as
the earliest (`EndsInTime`).  The invariant `PathTo` says of the legs found that they
are a journey from `stop` that leaves no earlier than the label there, ends in
time and has, with the rides left, as many rides as the label it began with; one more
leg keeps it (`LegExtends`).  `JourneyInv` adds what has become of each label of the
destination.

The hypotheses on what the loader hands over (`IsSchedule`) are an ASSUME that TLC
evaluates for all schedules of the runs: times of a trip do not decrease, a section and
the walk behind it take a minute, days lie far enough behind the first, no transfer time
is INVALID, and nobody changes faster by walking away and back than by waiting for the transfer time.  The last holds
because walks are at least as long as the transfer times of both ends
(`build_footpaths.cc:72`, `graph_builder.cc:733`) as long as `adjust_footpaths` keeps
its default (`loader_options.h:15`); it cannot be dropped: with a transfer time of four and
walks of one minute TLC finds `LabelsBest` violated, since a train that arrives after the
walk is pruned although walking back from it would beat the transfer time.

**Pretrip.**  The searches of a query are taken one by one, so the first question is
what one says about another.  `SearchesInStep` answers it from the definition of the best
labels: a mere walk begins at any time and lasts as long, who starts earlier finds
what a later start finds if it ends inside his travel time, and setting out one
minute later is as good unless a train is reached just in time at the first minute.  Going
from minute to minute towards the end of the interval, every journey has one as good that
begins at a minute of `collect_start_times` or right after the interval (`RidesCovered`:
of the journeys that had none, take the latest).  The module's own invariant (`Inv`) accounts for those
minutes: whatever the interval was extended to, each minute that is due was searched,
is being searched, is among the starts, or lies in a piece still to come
(`StillDue`); the pieces of `Pieces` and the interval before cover the extended one without a
gap (`ExtendedIs`), and the later one alone needs the search at its end.  For a
searched minute the results hold something as good as each of its labels
(`Searched`), which `push_back` keeps since it drops only what is beaten
(`PushBackIs`).  No result is beaten by another one (`NoneBetter`), and each was found
by a label of its own begin (`Found`), though a journey may begin later than the
search that found it: it then begins when a train departs, a minute due itself.  When
nothing is left to search both directions of `BestOfInterval` follow: what is kept is
in the front (`KeptIsBest`), and what is in the front is kept (`BestIsKept`).
`WalksInsideDay` enters only where the starts of a piece are compared with the
minutes due (`StartTimesComplete`).

**RouteBuilder.**  The comparison with two neighbours suffices because the row
is sorted already: `InsertedRow` and `InsertedSorted` show that inserting
between neighbours that are below and above keeps the row sorted at every
event.  Inside one day minute and time order are the same.  A trip finds its
connections since all services are placed before the first route is built
(routes only grow until then) and every service lies in one row once.

**RouteLoading.**  What is proved of arbitrary times holds of converted ones,
because loading a plan is a behaviour of `RouteBuilder`.  That plans yield tables
of the right shape is `TablesAssumption`, which TLC evaluates for all plans of the run.

The split takes the days away from the sections start by start.  What is left when it
comes to start k are the days that have come to a stop since start k - 1 (`LeftAt`,
`LeftNext`; the recursive function agrees with it, or there would be a first start at
which it does not, `SplitIs`).  So the pieces are the runs of the days, the longest
stretches a day runs on without a gap: one that covers all of its sections if
it leaves out none in the middle (`OneRun`), and otherwise one on either side of
the gap (`TwoRuns`), for which the service is skipped.

`TrainsAsPlanned` follows a traffic day from the plan to the connection a trip finds.

1. *The clock.*  The offset that `is_in_season` picks for a local time leads to the
   first instant at which the clock of the zone shows that time, if there is one, and
   the test for the skipped hour lets it pass (`ClockIs`).  This compares the season as
   `create_timezone` clamps it, tested in local time, with the one of the files, tested
   in UTC.
2. *A day.*  Event by event, what is converted is the instant plus nothing or the hour
   of an adjustment (`ConvertedOk`), and on a clear day plus nothing (`ConvertedClear`):
   the first adjustment tried is that of the event before, which is none, and it fits.
3. *Merging.*  No two trains of a service have the same times, and the days of a train
   are the first days that came out with them (`Merged`, kept by `DayAdded`).  Two traffic
   days with the same times have different first days, because offsets and adjustments
   together make less than a day (`DaysDiffer`); so merging loses no day.
4. *Days of a connection.*  A train has no more midnights behind a departure than days
   before its first day (`MidnightsBehind`), so `section_to_connection` drops none.
5. *The trip.*  By `LoadedTripsFound` a trip finds its own connections.  The loaded days
   of a service and the rides of a section therefore correspond one to one (`DayRides`).

`RegularAssumption` names what this needs of the files: a zone has at most one season
(as `struct timezone` has), which puts the clocks forward by less than a day and lasts
longer than the hours it skips and repeats, and a service arrives a day before
`ScheduleOffset` days are over.  Beyond that limit the code does drop rides
(`day_offset > day`, `graph_builder.cc:413`); `SCHEDULE_OFFSET_DAYS` is 5.  With it,
`PlansAssumption` places the schedule inside the bitfields (`ScheduleOffset + LastDay <
MaxDays`).  `Converted` and `TrainsOf` unfold recursive functions over the events and
the days, whose values are shown to exist by counting up (`StepsExist`).

**FootpathBuilder.**  The invariant says that roots before the current one have
found their component or have no edge, and, for graphs with an edge each way,
that a station on the stack is unclaimed by earlier components and every edge
of a claimed station leads to its own component or to the stack.  When the stack
is empty nothing leads out.  Hence the one edge of a station in a pair leads to
the other, no edge drives the pass of a row out of the matrix, and footpaths
are added at both ends in one step, whatever other components do.

That the footpaths are the closure rests on what a round of `floyd_warshall` keeps
of a matrix (`Closing`): an entry below Invalid is the length of some walk, none
exceeds that of an edge, and none exceeds the way over a station already relaxed.
The last is preserved by arithmetic alone (`RoundCloses`), without a look at the
walks; relaxed over all stations the matrix obeys the triangle inequality, so that
it lies below every walk (`BelowEveryWalk`).  A shortest walk comes to no station
twice, or it could be cut short (`CutShort`, `ShortestIsSimple`); it therefore has
at most as many stations as there are and is shorter than Invalid.  The invariant
over the processing (`ClosureInv`) says that the footpaths stored are those of the closure that
leave a component already processed.  Walks have no bound here, and facts about
each of their stations are proved from the least one that violates them (`Least`).

**Rt.**  A time is written in place only if it lies strictly between those of
the neighbouring rows, else the trip gets a route of its own; a trip that is
going to be corrected is alone on its route (`WrongAlone`), so repairs, which look at
no neighbour, cannot disturb the order.  Separating leaves a row without valid
connections.  Schedule times survive since every event that changes its time has
a stored info, made before the first change.

What a flush shows is proved from a second invariant, `DInv`.  An event of a trip
that was never repaired carries what the event before it pushes, or less than its schedule
while the push is also less, or it waits in the queue (`Followed`); the queue is
empty before the visits begin.  The graph shows the delay infos of all events but
those a flush has yet to visit (`Shown`), and neighbours it has visited are in order
or their trip waits to be corrected (`Ordered`).  At the end of a flush these say that
the times solve the equations of a single pass, and an event with the least number
at which another solution differed would contradict them (`DelaysAfresh`).  A
correction gives every event the nearest time between the latest measured before it
and the earliest measured after it (`FixedBetween`); both bounds rise along the
trip, hence a first repair is in order (`BetweenOrdered`, `RepairOrders`).  A
measured time is repaired only if the measured times contradict each other, so
those of other trips are shown; TLC refuted the stronger statement that it is enough that
they do not contradict each other *now*: a repair outlasts the contradiction when
later reports resolve it and propagation changes nothing on the way.  `MeasuredTimesShown`
therefore excludes trips in `contradicted`.

**Routing** (invariants in `RoutingInvariants`, proofs in `Routing_proofs`).  *Memory.*  Lemmas say what the allocator does to addresses.  The
invariant (`Alive`, in `IInv`): waiting, being a result and being expanded exclude each
other, only expanded labels precede others, a label marked as dominated is kept no
more, and none of these is free.  It needs no assumption on timetable or query.

*Completeness.*  Three groups of lemmas come first.  The constant graphs give lower
bounds: what `Distance` computes falls by at most the cost of an arc along it
(`DistanceIs`), so no step of a journey loses more than it costs (`TravelBounds`,
`TransferBounds`).  `get_connection` returns a connection on one of its days, and
none leaves in between (`GetConnectionIs`).  The edges of a node are those of its
kind and no others (`EdgesAt`, `EdgeIs`).

A label, or the position of a passenger, is *served* at a node if a label there starts
no earlier, is there no later and has no more transfers (`KeptAt`), or a result, found
or erased since, starts no earlier, ends no later and has no more transfers than the
label plus the bound to the goal (`AnsweredAt`).  The invariant `CInv` says that live labels have come along an edge from a label that is
served (`Origins`), that every label kept that waits no more has a served successor
along each of its edges, but for those still to relax and those the bounds forbid
(`Explored`), and that the starts of the interval are served or still to be added
(`Begun`); those are the departures without a gap since the interval began, and a piece
an extension adds lists at least as many (`WidenedIs`).  A step serves what it replaces: a dominated label is served by the one
that dominates it, whether that is kept at the node or a result (`NextCInv`).  This is
independent of the order of labels, so neither the layout of the buffers nor an
extension of the interval, which goes on with the labels of before, matters.

When nothing waits any more (`Settled`), a passenger's way through the graph is followed
by induction over the legs of the journey: boarding, riding one section after the other,
getting out, walking, and walking straight from the train each lead from a served
position to a served one (`BoardStep`, `RideStep`, `ExitStep`, `WalkStep`,
`WalkOffStep`).  A served label may leave with an earlier train of the route, which is
where `NoOvertaking` is needed, or may not have come by train, and goes by the platform
(`FromPlatform`).  At the goal, served means answered (`SettledComplete`).

*The answer.*  `QInv` adds that whatever has been erased leaves a result that takes no
longer and has no more transfers (`Beaten`).  Alpha dominance is not transitive, but
it implies this relation, which is (`DominatesQuicker`); the implication needs travel
times other than zero, by which the code divides: hence the condition `TimePasses`.

*Soundness.*  The invariant `JInv` says of every label that waits or is being expanded,
and of every result, which place of a journey it stands for (`Fits`): at a foot node
somebody has arrived at its time (`There`), and so has a result at the goal (`Ended`); at a station node somebody may
board from its time on (`Ready`), at a stop he waits on the platform or sits in a train
that has arrived (`OnPlatform`, `OnTrain`).  What the edges make of it fits again
(`FromStationFits`, `FromTrainFits`, `WalkOffFits`, ...).  One edge is no step of a
journey: from a station node, where the transfer time has been paid, to the foot node,
from which one walks; a passenger walks when he arrives, not after his transfer time.
Such labels are made, and die: the exit edge of a stop comes before the edge to its
foot node, which is relaxed before the station's label can be popped (`ExitFirst`), and
what stands at the foot node then is at least as good.  So `SoundIn` says of a label at a
station that either somebody has really arrived there at its time, or the foot node is
provided for: by a label kept there, by a result, or by the edge that is next
(`Provided`, `Pending`).  Dominance then removes the label that would walk too late
(`FromStationFits`).

Two hypotheses are needed.  `StandAlone`: an edge is left with the next departure of
any trip of the route, so a passenger could otherwise change to one without it being
counted (the hazard at `edges.h:383`).  `MaxTravelTime < Legs`: the reference counts legs, the code
does not; as everything takes a minute at least, no journey is too long for the
reference.  `MCSensible` makes TLC evaluate both, and `TimePasses`, on the scenarios of the run.

---

## 5. Findings

Each is a run that TLC shows violated; the definitions quote the text.

* `dispatcher_quit`: `ris.cc` publishes `/ris/system_time_changed` without
  awaiting (also rt_handler `/rt/update`), so the operation quits, gives up its
  WRITE access and is answered while the WRITE subscriber still runs, against
  the rule of `dispatcher.h:22`.
* `csa_long`: `trip_reachable_` is kept per trip, not per day: for a trip that
  travels longer than a day, yesterday's train makes today's look boarded.
* `routes_midnight`: the overtaking check compares minutes of the day, so it
  does not see that a service that arrives after midnight is overtaken.
* `foot_directed`: components are found along one-way foot edges; a station
  reached from two sides changes its component and a footpath is lost.

---

## 6. What is only checked, and what is left out

Only model-checked: liveness (`EveryMessageAnswered`, `FilesIngested`,
`FlushEnds`, and `Terminates` of footpaths, pretrip loop and routing), which TLAPS
cannot prove.  Every invariant the passing runs check is a theorem as well.

Limits of what is claimed:

* **RIS.** `NoLoss` speaks of clients that forward, go back and purge, through
  crashes, `AtMostOnce` of those that only forward and purge, and of no crash;
  `StoredOnce` of neither crash, reader error nor upload: a crash between
  `flush_to_db` and `add_to_known_files` stores messages a second time.  What a read or an
  upload in between promises is documented nowhere (`happened` records the kinds
  of events, the properties are conditioned on it).  An upload that is cut off
  by a crash leaves messages without an index entry, and is excluded from
  `IndexCoversStored`.  Schedules whose last event is exactly at midnight are
  excluded: `ceil` leaves their last day out.
* **CSA.** `JourneysEarliest` compares with journeys inside the travel time
  limit; a journey read off the labels may follow a train beyond it and be
  earlier.  `BestOfInterval` is stated for timetables in which no walk to a train
  begins on the day before (`WalksInsideDay`).  Without that condition TLC finds
  it violated: `departure_ - fp_offset` wraps to a start weeks later, and the days
  tried are those of the interval.  No text of the repository says what is
  promised there, so it is listed as a hazard.  Mere walks, which can begin at
  any time, are not compared among themselves.  The backward search, SSE, price
  and GPU variants are not adapted to traffic days at this commit (the code says
  so) and have no model.
* **Loader.** Services with a day on which the clocks leave a doubt (an event in
  the hour that is skipped, or out of order in the one that is repeated) may be
  left out as a whole, as the code does when one of their days cannot be
  converted; a time in the repeated hour is the first of the two.  Days whose
  events reach beyond the schedule are not compared, nor are
  sections that would depart before the first day (`section_to_connection` drops
  those traffic days).  Calendars of GTFS are a hazard without a model.
* **Rt.** A second correction of a trip may leave an arrival before the departure
  ahead of it: `fix` clears a repair that is no longer needed in its copy only.
  Hence `FirstRepairInOrder`.  The module does not compile against the core of
  this commit: it uses the `ev_key` and `make_route_edge` from before traffic days
  (other parameters), casts away the `const` of a `time&` where a light connection
  has an `int16_t`, and asks `numeric_limits` for `motis::time`, which does not
  specialise it.  The model is of the code as it is written, with times as minutes
  of one day, and of what those calls did.
* **Routing.** Pretrip queries of the model start with a train, not with a walk.
  Journeys that take a train back to the stop they began at are not promised an
  answer.  A journey of several trains that takes no time at all could be erased in
  favour of a slower one.
  Two trips of one route that stand at a stop together are excluded (an edge is left
  with the next departure of *any* trip of the route), as is traffic on the last day
  of the bitfields, which is read without a look at their size.  Both are hazards.
* The model of the ctx library is what the code relies on, not its source,
  which is a submodule.

Not modelled:

* the parsers of schedules, messages and requests (text and field tables), rule services (which
  `build_graph` rejects), geometry, statistics, floating point (reliability), answers for
  display (railviz, path, lookup, guesser, address), the user interface, protocol and build
  tools: translation without state that several steps could bring out of order, or
  out of reach of a model checker;
* services outside `src/` that intermodal, bikesharing and osrm ask; the ctx, LMDB and
  network libraries beyond what the models assume of them;
* the sessions of the launcher and the client with its timeout.

They are listed with their reasons in `PROJECT.json`.

---

## 7. Plan

Done: Dispatcher and ScheduleLock, RisStore, the CSA and its pretrip loop, the
loader from services to routes with time zones and traffic days, footpaths, delays
of the realtime module, the forward search of routing, with the runs and theorems
above.

Left, in the order in which it would be done:

1. **Launcher**: requests in flight of the batch mode and their order, sessions
   closed before an answer, composed with the callbacks of `Dispatcher`.
2. **Rt**: rerouting (`reroute.h` gives an info its new key without entering it),
   additional trips and through edges, on the rows of `Rt`.
3. **Loader**: calendars of GTFS (rule services are rejected by `build_graph` at this commit).
4. **Routing**: the backward search and `get_connection<BWD>`.
