# A verification of wifimimo

wifimimo runs several Wi-Fi radios of one computer at once. A daemon in the
user's session follows the network the user picked, places each radio on an access
point of its own through NetworkManager and watches whether traffic flows; a root
helper spreads traffic over the radios with policy routing and one multipath route.
This directory models the parts of it that decide, in TLA+, checks them with TLC on
small instances, and proves some of their properties for every size with TLAPS.
Paths below are relative to the repository (`wifimimo-helper`, `wifimimo_nm.py`, ...).

Contents: [the system](#the-system) · [the modules](#the-modules) ·
[runs](#runs-and-what-they-show) · [divergences](#where-code-and-documents-disagree) ·
[proofs](#proofs) · [limits](#what-is-left-out-and-why) · [plan](#plan)

## The system

| Component | Where | State it keeps | Operations | Talks to |
|---|---|---|---|---|
| Multipath routing | `wifimimo-helper` 46–700, 857–919; `wifimimo_shared.py`; `services/wifimimo-deadman.*` | kernel: rules 32000–32090, tables 100–116, sysctls; files: `multipath-enabled`, `multipath.json`, `sysctl-saved.json` | `multipath enable / disable / apply / check` under one lock | kernel (`ip`), NetworkManager (queries), a VPN sharing the numbers |
| Autoconnect holds | `wifimimo_nm.py` 451–954, 1270–1515 | NM: autoconnect per radio; `Follower.memory` (`held_ac`, `parked`); `follow.json` | poll: hold, join, move, park, release; stand down; failsafe; `--release` | NetworkManager, the user, systemd (`ExecStopPost`, watchdog) |
| Placement | `wifimimo_roam.py` 463–655, `wifimimo_nm.py` 606–936, 1007–1035 | `moves`, `held`, `bad`, `proven`, `parked`, `swap` in the memory | judge joins, describe radios, `plan_slots`, one change per poll, `swap_step` | NetworkManager, the access points, Liveness |
| Choice of the network | `wifimimo_nm.py` 451–605, 755–800, 1236–1268, 1341–1428 | `leader`, `last`, `devices`, `appeared`, `modified`, `unbind_tried` | follow the user's choice, hand over, take followers down, unbind, multi-connect | NetworkManager, the user |
| Liveness, failsafe, heal | `wifimimo_nm.py` 180–222, 1037–1180, 1286–1339, 1436–1500 | one `ping` and one reader thread per radio; `no_traffic_since`, `failsafe_until`, `heal_proc` | update, stop, alive; hand the radios back; start the helper | `ping`, helper, `multipath.json`, Placement |
| Signal estimation | `wifimimo_roam.py` 61–460, 656–683 | readings per radio, learned offsets, times of scans | trend, candidates, scan schedule | `iw`, Placement |
| Daemon loop | `wifimimo-daemon.py` 64–250, 377–397; `wifimimo_core.py` 1115–1120; `services/wifimimo-daemon.service` | state file, history CSV of the day | poll, write, rotate, stop | all of the above, systemd |
| Retry window | `wifimimo-daemon.py` 252–373, `wifimimo_core.py` 779–970 | readings of the last 10 s | read a link, difference of counters | `iw`, state file |
| Internal card | `wifimimo-helper` 703–849 | `internal-enabled`, a generated udev rule | enable, disable, sync-rules | udev, PCI bus |
| Parsers, radio capability | `wifimimo_core.py`, `wifimimo_radio.py`, `phy_modes.py` | none | text to dictionaries | `iw`, `ip`, sysfs |
| Dispatcher | `nm/90-wifimimo` | none | starts `multipath apply` | helper |
| Tidy, tuning | `wifimimo-nm-tidy.py`, `wifimimo_nm.py` 332–420, 1515–1554 | profiles; overridden constants | one-shot plan; reload | NetworkManager |
| Plasmoid, monitor | `plasmoid/`, `wifimimo-mon.py` | none that others use | display, start helper verbs | state file, helper |
| Installer, tools, tests | `install.sh`, `tools/`, `tests/` | – | – | – |

How they interact. The daemon polls every one to five seconds. A poll reads
NetworkManager, the readers' answers and the cards' scan tables, plans, runs its
`nmcli` commands one after the other and saves `follow.json` at the end; then the
daemon writes the state file and the history. Between any two of these steps
NetworkManager, the user, the radios and a SIGTERM act. The helper is a process of
its own, started by the dispatcher, the widget, the daemon's heal and a timer every
20 s; a file lock makes its runs exclusive, and it shares the kernel's tables with
everything else. Daemon and helper never call each other: they meet in the kernel,
in NetworkManager and in `multipath.json`.

What is hard, and what would make it correct:

- **Routing.** Commands fail, radios vanish between the snapshot and the command
  that names them, runs are killed, a VPN writes at the same numbers, and an old
  release's untagged rules have to be adopted. Correct: a half-built layout never
  goes live; foreign rules and routes are never touched; what was changed can be
  undone; from wherever a run was left, the timer alone brings the routing back.
- **Holds.** A radio whose autoconnect is off stays off until somebody remembers
  it, across failing commands, unplugged radios and dead daemons. Correct: every
  radio that wifimimo blocked is on record, and is given back whenever wifimimo
  lets go.
- **Placement.** A change takes seconds in which the radio is offline, several
  radios change in turn, joins fail, time out, or land late. Correct: one join at
  a time, the last working link is never given up for a better one, no two radios
  are sent to one access point, and it comes to rest in a good place.
- **Following.** The follower sees only that a radio is on another profile than at
  the last poll. It has to tell a pick of the user's from its own join, from
  NetworkManager falling back after it, and from a radio that has just come; and a
  disconnect by the user from its own parking. Correct: it never picks a network
  itself, and does what the user said last.
- **Health.** Verdicts come from reader threads that outlive their ping, gateways
  that never answer, and NetworkManager's own rating, which may be old. Correct: no
  link is condemned on evidence of another one, every silent link is found and
  leaves the route, and the radios are handed back when, and only when, nothing got
  through for long enough.
- **Signals.** Readings of different ages, cards and access points are compared.
  Correct: a trend is of one access point, and no radio stops looking around.
- **Daemon loop.** The signal handler closes files between any two steps, versions
  change under a file of the same day, writes fail. Correct: history files keep to
  their header, the state file goes on being renewed, a stop is a stop.
- **Retry window.** Counters wrap and start again; polls are late. Correct: it never
  shows more than was sent.

## The modules

| Module | Models | Proofs | TLC |
|---|---|---|---|
| `Routing.tla` | the routing verbs of the helper, the kernel's tables, the world | `RoutingProofs.tla` | `MCRouting.tla` |
| `Holds.tla` | who holds each radio's autoconnect | `HoldsProofs.tla` | `MCHolds.tla` |
| `Placement.tla` | planner, joins, swaps | `PlacementProofs.tla` | `MCPlacement.tla` |
| `Follow.tla` | which network is followed, joins and profiles | `FollowProofs.tla` | `MCFollow.tla` |
| `FollowPromise.tla` | what following promises: the abstract service that `Follow` implements | | `MCFollow.tla` |
| `Health.tla` | pings, readers, verdicts, failsafe, heal | `HealthProofs.tla` | `MCHealth.tla` |
| `Signals.tla` | trends, offsets, scans | `SignalsProofs.tla` | `MCSignals.tla` |
| `Daemon.tla` | the daemon's loop and files, systemd | `DaemonProofs.tla` | `MCDaemon.tla` |
| `RetryWindow.tla` | the 10-second window | `RetryWindowProofs.tla` | `MCRetryWindow.tla` |

`Holds`, `Placement` and `Follow` model the same poll from three sides: each keeps
the control that its properties need in full and takes the decisions of the other
two as any choice, so that what holds in it holds whatever they decide.

In all modules, `left` counts how much trouble (failed commands, crashes, moves of
the world) is still to come; it starts at `MaxTrouble`, `Events`, or the second
number of a scene. Every harmful action costs one, what the code and a benign world
do is free. It bounds the state space and makes "once nothing goes wrong any more"
(`Calm`) a state predicate. In `Routing` and `Holds` an action `Settle` ends the
trouble early. Other bounds are ages: an age is kept up to the point from which the
code no longer tells ages apart (`AgeCap`, `Long`).

### Routing

State and code:

| Variable | In the code or the system |
|---|---|
| `link`, `addr` | what `discover_members` (207–255) finds of a radio: gone, routable, healthy (connectivity and gateway ping); its DHCP lease |
| `rules`, `tables` | `ip rule`, `ip route`: tables 100 (multipath) and 101–116 (one per radio) |
| `sysctl`, `saved` | the per-radio sysctls (none where the radio is unplugged); `sysctl-saved.json`: of each radio no record, an empty one, or its original |
| `flag`, `status` | `/etc/wifimimo/multipath-enabled`; `multipath.json` |
| `run` | the run that holds the lock: verb, phase, the steps still to run, errors, its copy of the saved originals |
| `lost` | history: the radios whose original is beyond recovery |

| Action | Code |
|---|---|
| `Begin(v)` | `cmd_multipath` up to the lock and the flag |
| `Plan`, `Replan`, `HandBack` | the three snapshots: `multipath_apply` 586–613, its retry after "Cannot find device" 614–620, `multipath_check` 627–650 |
| `AddRule` … `RestoreSysctls` | one command of `execute` (528–577) |
| `EndExecute` | the end of `execute` and what the verb does with the result |
| `Killed` | `timeout 20` of the dispatcher, `TimeoutStartSec` of the dead-man's unit |
| `RadioLeaves`, `RadioUnplugged`, `VpnTogglesRule`, … | the world |

`PlanApply` and `PlanTeardown` are the two planning functions. A plan is a set of
steps, each with its place in the order; that keeps the order of the stages and of
numbers within a stage, and leaves open the order of steps that the code takes from
an unordered listing. A query that fails reads as empty, as in `query_json`; a
device that is gone makes the commands that name it fail with "Cannot find device".

Abstractions: a radio is its place in the order of permanent MACs; one default
route per table stands for the two routes written with it; all the sysctls of a
radio are one value, which one step reads, records and writes, and those of no radio
are left out (a radio plugged in later takes `default/ignore_routes_with_linkdown`
from them); addresses are never shared by two radios. `run.target`, `run.seen`,
`run.moved` and `lost` are there for the properties and guard nothing.

A sysctl step records what it reads the first time, also the empty value of a radio
that is not there; only an empty record keeps later steps from looking again, so that the
write after a replug leaves nothing to restore. `RestoreSysctls` skips what is empty or
gone, passes over a write that fails, and deletes the file. Both ways put the radio
among the `lost`, until it is unplugged and its sysctls are new.

### Holds

`device`, `auto` and `userOff` are NetworkManager's state of each radio and whether
its autoconnect was switched off by the user; `mem` and `disk` are what
`Follower.memory` and `follow.json` record; `job` is the poll (or the `--release`
run) under way, with the commands still to run and the memory it will save.

| Action | Code |
|---|---|
| `StandDown`, `Failsafe` | `_stand_down` 1395–1428; the failsafe in `step` 1469–1483 |
| `LoseNetwork`, `FollowNothing`, `Follow` | the ways `plan_follow` ends: the network is gone (755–766), an early return (530–609), the end |
| `TakeDown`, `Hold`, `Join`, `Move`, `Park`, `Release` | the branches of `_run` 1341–1393 and `activate_pinned` |
| `Save` | the end of `step`, `keep_unreleased` |
| `Die`, `StopPost`, `Start` | stop, crash, watchdog; `ExecStopPost` → `release_holds`; `__init__` |

Which radio joins, moves or is parked, and when a network counts as lost or traffic
as missing, is any choice: whatever Placement decides is among them. The commands of
one kind run in any order. NetworkManager's part: an activation switches autoconnect
on, `device disconnect` switches it off, a restart or replug switches it on.

The constant `Faults` selects among four faults that make the code lose its record
or overrule the user (see the divergences): `crash_mid_poll`, `rfkill`,
`lost_release_fails`, `on_mid_poll`. Without them the strong invariant holds and is
proved; with them the weaker `RecordedHandedBack` is what remains.

### Placement

`survey` is the signal of every access point at every radio, `place` where
NetworkManager has each radio, `mute` the links that pass no traffic. The rest is
the follower's memory: `move` and `open` (the target of the last join, and whether
it has neither landed nor been judged), `recent` (changed less than `DWELL_S` ago),
`parked`, `held`, `avoid`, `proven`, `swap`.

| Definition | Code |
|---|---|
| `Grade`, `Score`, `Better`, `EstRate` | `_grade`, `score`, `_better`, `est_rate_mbps` |
| `Options`, `Trials`, `PlanSlots`, `Swaps` | `plan_slots`, `_best_swap` |
| `Struck`, `HeldMute`, `Lost`, `Avoided` | the judgement of joins and held links, `plan_follow` 634–750 |
| `Describe` | the views, 782–848 |
| `SwapStep` | `swap_step` |
| `Finish`, `Carry`, `PollAll` | `finish` and the poll's one change, carried out |

One action, `PollAll`, is a whole poll; the commands of a poll are not interleaved
here (`Holds` does that) but its one change may fail, and the world moves between
any two polls. Scores keep the order of the seven components of the code's tuple,
with the rate table of the code in integers.

Abstractions: all radios are on the followed network or disconnected; a radio's
level and its projected level are one reading that is never stale; one `avoid` set
per radio stands for strikes, shared bans and signal floors, and forgets at any
moment; the clock is gone: joins time out, and the dwell time passes, at any moment
(`recent` stands for the dwell, switch and swap time-outs alike, so that a radio at
rest has passed all of them). A link can only fall silent after a poll has seen it
up, because that takes seconds of unanswered pings. A join that fails or stalls, a
command that fails, a link that drops or falls silent and a change of signals cost
trouble; landing, recovering and forgetting do not.

`beat` flips at every poll. It only serves the fairness condition.

### Follow

`link` is NetworkManager's view of each radio (state, profile, and the reason 39 that
a disconnect leaves); `profile` what `nmcli` can change of each profile; `mem` the
follower's memory, whose move per radio has a stage instead of a time; `job` the poll
under way with the commands still to run and the memory it will save.

| Definition | Code (`wifimimo_nm.py`) |
|---|---|
| `Changed`, `Ours`, `Fallback`, `Appeared`, `Activated`, `Choosers`, `Leaders` | who was activated since the last poll, and who leads, 470–528 |
| `UserLeft`, `TakeFollowersDown` | the user's disconnect, 530–543 |
| `Heirs`, `HandOver`, `Carried` | another radio carries the choice on, 555–576 |
| `FollowOn` | unbinding, lost network, waiting for a cleared pin, 578–611, 755–766 |
| `Place`, `Changes`, `Settled` | one change, the joins judged, the parks, 613–625, 683–864 |
| `Multi` … `Activate`, `Restore`, `Save` | the commands of `_run` and `activate_pinned`, 1222–1247, 1341–1393; the save, 1332–1339 |
| `StandDown`, `Failsafe`, `Die` | 1395–1428, 1469–1483, 957–977 |
| `UserActivates`, `Autoconnects`, `FallsBack`, … | the user, NetworkManager, the air |

A radio told to join may read as disconnected for some polls more (`"starting"`), but not
longer than `JOIN_START_S` and not past a stand-down.

`reasons` and `wish` are history: what happened that a poll has not reviewed yet, and
what the user said last as long as nothing else has happened since. They guard
nothing. `wish` is only set while the daemon has seen everything that came before
(`Heard`), so that what the user means is not in doubt.

`FollowPromise` has two variables, the network followed and the reasons known since
the last review. A review may keep the network, adopt one where none is followed, or
turn to a reason; reasons are spent by the review that saw them. `Follow` implements
it with `followed` read off the saved leader: `Kept == INSTANCE FollowPromise WITH
followed <- Followed`, `KeepsPromise == Kept!Promise`. A poll that takes wifimimo's own
join, a fallback or a radio that has just come for a pick would change `followed`
without a reason.

Eight faults of `Faults` switch on what breaks some property, or might (a death within a
poll, a leader's radio handed back while parked, a failing multi-connect command, a radio
that still reads disconnected after `up`, a pin left in a profile, a replug between
two polls, a `down` that fails, an unbinding or a disconnect that fails); see the
divergences. The runs use `multi_fails` and `command_fails`. An `up` may fail without any
fault: the radio stays where it is, or is off if it was disconnected for the join and
that reads as no one's doing; where it reads as the user's doing it is the fault
`stays_off`. No command is tried again.

### Health

| Variable | In the code or the system |
|---|---|
| `air` | the radio's link: access point, card mute, NetworkManager's rating, rate at its lowest |
| `probe`, `reply`, `lines` | `_procs`, `last_reply`, answers that a reader has not written down, of the running ping and of a stopped one |
| `alive`, `silence`, `holdoff` | verdicts of the last poll, `no_traffic_since`, time until `failsafe_until` |
| `helper`, `healed`, `members`, `waiting` | heal's process and its time, what the status file says |

| Action | Code |
|---|---|
| `Read` | `_reader` 1123–1131 |
| `PollHeldOff`, `PollHands`, `PollPlans` | the three ways of `step` 1454–1497, each with `update` 1133–1168, `alive` 1170–1179, `settle_alive` 997–1004 and, in the last, `heal` 1291–1317 |
| `StandDown` | 1423–1427, `stop` |
| `HelperEnds`, `OthersApply` | `multipath_apply` as far as the status file shows it |
| `Tick`, `Nap`, `World` | time, suspends, the radios |

A tick is one ping interval. All the waiting times of the code are constants of the
module, so that the theorems hold for the real values. The two bounds are sums of
them: `HandBound`, until the radios are handed back, and `DropBound`, until a mute
link has left the route.

### Signals

`seat` is each radio's access point and level, `series`, `bssid` and `long` the three
tables of `Trend`, `table` the age of the card's scan table, `known` the pairs of
radios with an offset, `lastScan` and `scanning` the schedule. `quick` is `wants_fast`:
while some radio moves, is weak or falls, the next poll comes within `PollFast` ticks,
else within `PollEvery`. `Poll` is one poll, by 1 to `Pace` ticks after the last one:
`feed_context`, `Trend.add`, `learn_offsets`, `plan_scans` and the scans asked for, some
of which may be refused. The other grounds for quick polls (a join, a swap, the widget,
a degraded link) only make polls quicker and are left out: a poll may come earlier anyway.
`Best` is the reading that `candidates` takes, by its age. Levels are 0 (no reading),
1 (weak) to `Top`; two levels `Spread` apart are a move. `calm` is history.

### Daemon

`pc` goes through `run` step by step, down to the file operations; `date`, `handle`,
`writer` and `buffer` are `_history_date`, the open file and what has not been
flushed; `state`, `tmp`, `files` and `rotated` the disk; `wanted` and `failed` what
systemd knows. `Stop` is the signal handler, which runs between any two steps and
closes the history file; `Pulled` is the exception of the step that then finds the
file closed; `Fails` an exception of a failing write, `Killed` the end by SIGKILL;
`WatchdogKills`, `Restarts`, `StopTimesOut` are the unit file. A row is the version of
the columns it was written with. The handler's `stop` inside a hung poll runs after it.

### RetryWindow

`link` is the association with its two counters modulo `Modulus`, `samples` the
readings kept, with ages for times, `shown` what the state file shows. `PollFull`,
`PollBare` and `PollMisses` are the three things `collect` can bring home: a link with
its station entry, a link without (`iw link` only, the counters stay 0), no link.
`Stalls` holds the next poll up. Each reading carries as history what the radio has
sent and resent since, which is what the window claims to show.

## Runs and what they show

| Run | Instance | Checks | States |
|---|---|---|---|
| `routing_safety` | 2 radios, 2 leases each, a VPN in table 101 and at priority 32001, 3 troubles | `OriginalsKept`, `NeverHalfBuilt`, `ForeignKept` | 645 000 |
| `routing_converges` | 3 radios but 2 tables, legacy rules, kills, 2 troubles | `TypeOK`, `Converges` | 408 000 |
| `holds_handback` | 2 radios, no fault, 4 troubles | `NeverForgotten`, `HandedBack` | 130 000 |
| `holds_faults` | 2 radios, all faults, 3 troubles | `TypeOK`, `RecordedHandedBack` | 158 000 |
| `placement_places` | 3 radios, 3 access points, 1 trouble | `TypeOK`, `OneAtATime`, `LinkKept`, `NeverDoubled`, `Settles`, `Placed` | 162 000 |
| `placement_spare` | the same | `SpareKept`, violated | |
| `follow_keeps` | 2 networks, one profile bound to a radio, failing multi-connect, unbind and disconnect commands; 2 radios with 2 troubles, and 3 radios of which one may be plugged in later | `TypeOK`, `PlainChoiceWins`, `PlainDropSticks`, `ModifiedRecorded`, `KeepsPromise` | 1 407 000 |
| `follow_choice` | 2 radios, 2 troubles, no fault | `ChoiceWins`, violated | |
| `health_verdicts` | 2 radios, 2 access points, one of whose gateways never answers; 3 events, one of them may be a suspend | `TypeOK`, `DeafLeaves`, `HandedInTime`, `ThreeMisses`, `MuteSpared`, `DeadIsFound`, `HandsOnlyTheStarved` | 643 000 |
| `signals_scans` | 3 radios at any levels, 2 access points, 2 levels, polls every tick or two, 1 event | `TypeOK`, `NoneForgotten`, `WeakLooks`, `ScoutFeedsAll`, `SlopeOfOneAP` | 415 000 |
| `daemon_loop` | 2 radios, 2 versions, 2 days, 4 events | `TypeOK`, `RowsUnderTheirHeader`, `RowsKept`, `StopEnds`, `KeepsReporting` | 241 000 |
| `retry_window` | 2 access points, a window of 2 ticks, counters modulo 4, 3 events | `TypeOK`, `NeverOvercounts`, `LosesNothing` | 1 609 000 |

What the properties say:

- `NeverHalfBuilt`: unless the world moved under the run, the multipath route gets
  new nexthops only when every rule, table and sysctl of the layout is in place.
- `ForeignKept`: no step of a run changes a foreign rule or route that it saw.
- `OriginalsKept`: whoever may be asked to restore a sysctl knows its original, but for the
  two losses that the code accepts (`lost`).
- `Converges`: with the world at rest, the timer alone leads to the layout of the
  routable radios with the healthy ones as nexthops, or to nothing of wifimimo's.
- `NeverForgotten`: a radio that wifimimo blocked is in `follow.json`, or in the
  memory the running poll is about to save.
- `HandedBack`, `RecordedHandedBack`: blocked radios are given back, for good, when
  multipath is off or one radio is left, and before the next start after a death;
  whatever struck, those still on record are.
- `LinkKept`: outside a swap no poll takes the last link that carries traffic from
  a radio on a strong slot.
- `NeverDoubled`: outside a swap no poll sends a radio to a taken access point.
- `OneAtATime`: at most one of the follower's joins is in flight.
- `Settles`, `Placed`: placement comes to rest; then no two radios share an access
  point and none idles while a strong one that it does not avoid is free.
- `KeepsPromise`: the followed network only changes for a reason given since the last
  review, and never because of wifimimo's own joins, a fallback or a new radio.
- `PlainChoiceWins`: from the poll that has seen it, the network the user picked is
  followed until something else happens, whatever the daemon's own commands do from
  then on. The pick is made between two polls. `ChoiceWins` is the same without the
  proviso on the radio's past.
- `PlainDropSticks`: after the user has disconnected the leader's radio no radio is on
  the network, and none comes back: if all were on the leader's profile and none was only
  just starting to join, if nmcli takes them down when told to, and until something else
  happens.
- `ModifiedRecorded`: a profile whose multi-connect is not the user's own is one that
  the daemon remembers to restore.
- `ThreeMisses`: a verdict of death rests on enough silence over the access point the
  radio is on. `DeadIsFound`: enough such silence is a verdict of death, unless the
  gateway never answered and the link is rated full. `MuteSpared`: such a gateway does
  not condemn the link. The first leaves out an answer that is still in the pipe, the
  third one that a stopped ping's reader wrote late.
- `DeafLeaves`: a link that served and went mute is out of the route within `DropBound`.
- `HandedInTime`, `HandsOnlyTheStarved`: the radios are NetworkManager's within
  `HandBound` of nothing getting through, and never on less than the failsafe's time
  without a poll that found traffic.
- `SlopeOfOneAP`: the readings a trend is taken over are of one access point, and recent.
- `NoneForgotten`, `WeakLooks`: every radio scans in bounded time, also beside radios
  that scan more often and out of step; a weak one within its own shorter interval.
- `ScoutFeedsAll`: no radio judges by an older reading than a scout's it is comparable
  with.
- `RowsUnderTheirHeader`: no history file, moved aside ones included, holds a row of
  another shape than its header, unless a header could not be read.
- `RowsKept`: a row is only skipped after a signal or on a day whose file could not be
  moved aside. `StopEnds`: a stop ends the process. `KeepsReporting`: as long as the
  service is wanted, whole state files keep coming.
- `NeverOvercounts`: a window counted from a full reading shows no more than was sent
  since it. `LosesNothing`: on an association that lasts it shows no less, and reaches
  back far enough.

Why the bounds are enough. *Routing, holds, placement.* Two radios are the fewest for
which anything is routed, placed or held, and three are needed where a third decides:
the numbering that shifts when one joins or leaves, more radios than tables, a swap,
which needs a third radio that works. Two tables of three make the limit of sixteen
bite. The table and the priority the VPN uses are the first radio's, those a run is
most likely to want. The troubles are as many as the longest known way to go wrong
needs: one command fails, a second one fails in the retry or the hand-back, and the
world moves in between; in `Holds`, a radio is blocked, a release fails, the daemon
dies and the retry fails. The access points are two neighbours of one 5 GHz block and
one on 2.4 GHz; the surveys are one place where all is strong, one far from the first
two, and one where two radios hear each other's access point better, so that the swap
happens. `Poor` is empty: with an access point without internet `Settles` does not hold
(below), while `LinkKept` does, by its theorem. Kills are checked with convergence, not with
`OriginalsKept`, which they break (below). The leases of `routing_safety` are a symmetry
set: only whether two of them are equal matters. An unplugged radio, its replug and a
restore that fails are within its three troubles, so that both ways into `lost` happen,
the empty record also within a single run, by its retry.
*Follow.* One network to leave and one to go to; the second profile is bound to one
radio so that unbinding happens. A pick and one more interference are two troubles;
the third radio, which makes three links of which one hands over to another, comes
without trouble, because a plugged-in radio and its first autoconnect are free.
*Health.* A late reader, a change of the access point and one more event; two radios,
since the failsafe counts one that works, and the route needs two. The intervals are
shortened so that they still differ where they differ in the code (a fuse of 2 and of
1, a failsafe longer than both) and a poll may come between any two of them.
*Signals.* Three radios: one that scouts, and two that wait for their turn; or two weak
ones that take turns by scanning more often, and a third. They start on any access
points and levels, so that one event is left for what happens on the way. Without
`Mobile` and `Needy` making polls quick the third one starves in this instance.
*Daemon.* One more version than the one in use, one midnight, and a fault, a
signal and a restart beside the upgrade. *RetryWindow.* Counters modulo 4 wrap
within a window; the number of polls is not bounded.

Each property has been seen to fail for a bug in the code it is about: the modules
carry, marked "mutant", the altered form of a definition for each.

Fairness. `Routing`: a run that holds the lock goes on (it is a process with
nothing to wait for but commands with time-outs), and the dead-man's timer fires
(`OnUnitActiveSec=20`); nothing is assumed of the dispatcher, the
widget or the heal. `Holds`: the daemon polls and finishes its polls, and systemd
runs `ExecStopPost` (`WF_vars(Daemon)`); nothing is assumed of a restart or of the
end of the failsafe window. `Placement`: the daemon polls again and again
(`[]<><<beat' # beat>>_vars`; `PollAll` is enabled in every state), a join that is
under way and does not fail lands, and time passes (`Rest`). Nothing is assumed of
recovery, forgetting or the people carrying the computer. `Daemon`: the process goes
on (`WF_vars(Pass /\ Calm)`: a step that takes no fault), and systemd does what the unit
file says: `WatchdogSec=45`, `Restart=on-failure`, SIGKILL after a stop that does not
end; nothing is assumed of users, signals and faults. `Follow`, `Health`, `Signals`
and `RetryWindow` state no fairness: their bounds in time are safety properties over
ages, with a poll due within `PollEvery` (`Slow`) of the last one. All safety
properties hold without fairness.

## Where code and documents disagree

Two runs end in a counterexample to something the repository says of itself.

- **`placement_spare`.** The third working radio is looked for when a swap is planned
  and not again; if it drops, the swap takes down the last link, against
  `README.md:289`.
- **`follow_choice`.** A radio found on the profile that wifimimo last joined it to is
  never taken for the user's pick, however long ago the join was (`wifimimo_nm.py:515`;
  the fall-back beside it expires after `FLAP_WINDOW_S`). A network that is picked again
  on such a radio is not followed, against `README.md:245`–246.

Others were met while modelling and are left to the reader of the code; no run of their
own shows them. Where one of the properties would fail for them, the fault is one that
the runs leave out, as said there.

*Routing.*

- Adopting an old release's layout deletes its rules first. If a later command of that
  run fails, the leftover untagged routes are no longer recognised (`wifimimo-helper:409`),
  count as foreign, and every later apply and check is refused, against "the next good
  check rebuilds it" (`:633`). `Converges` takes the refusal for an end.
- When a radio with a lower MAC joins or leaves, tables are overwritten for new owners
  while old source rules still point at them (`:415`): packets of a connected radio's
  address leave by another, against "never dropping traffic" (`:396`).
- A run killed between a sysctl write and `sysctl-saved.json` (`:575`) loses the
  original: the next run finds wifimimo's value in place, plans no step for it and records
  nothing. The run and the theorem on `OriginalsKept` assume no kills.
- A radio unplugged between the discovery and its sysctl step is recorded as `""`
  (`:554`–556). As the key is then there, nothing looks again when the radio is back, and
  the original of what the next write changes is lost: `restore-sysctls` skips `""`
  (`:563`) and deletes the file, against "original must not be overwritten"
  (`tests/test_helper.py:266`). `OriginalsKept` leaves such radios out (`lost`), and
  fails if they are left in.
- A restore whose write fails is ignored, and the file deleted all the same (`:565`–573):
  the comment takes every failure for an interface that is gone. Left out likewise.
- The plan of the retry after "Cannot find device" is made without a new look at
  conflicts, on a snapshot whose failed queries read as empty.

*Holds.*

- A daemon that dies between a poll's commands and the save (`wifimimo_nm.py:1502`)
  leaves radios blocked that `--release` does not know of, against "crash included"
  (`README.md:296`): the fault `crash_mid_poll`.
- A radio switched off by the user is parked like any idle radio (`:863`), and switched
  on by the hand-back, against `README.md:294`.
- A held radio that is unavailable for one poll (rfkill) drops out of `held_ac`
  (`:775`) and stays blocked: the fault `rfkill`.
- The releases after a lost network (`:764`) forget failures, which the other two kinds
  keep: the fault `lost_release_fails`.
- `--release` gives autoconnect back but leaves the multi-connect setting of touched
  profiles, which a stand-down restores.

*Placement.*

- The first poll that sees a radio up settles its join (`:803`), so that the check for
  limited connectivity after 60 s (`:61`, `:684`) is never reached. With an access point
  without internet (`Poor`), the planner therefore counts it as a working link, and may
  go back to it each time a ban has expired: `Settles` is only claimed without one, and
  `LinkKept` promises a link that carries traffic, not one with internet.
- `swap_step` promises "once a carries traffic" but takes an unknown answer for one.
- A swap under way survives in memory while `plan_follow` returns early, and may go on
  after another network has been chosen (`:892`).

*Following.*

- A poll makes one change, and a radio on another network counts as one to move only at
  the poll that sees the pick (`:839`): with three radios the rest may stay on the old
  network until something else moves them.
- A disconnect takes the followers on the leader's profile down (`:538`), not those on
  another profile of the same network, hence "plain" in `PlainDropSticks`.
- The leader is forgotten (`:541`) before nmcli is told to take its followers down. If the
  list of active connections or `connection down` fails (`:1356`–1366), the error is
  reported and nothing tries again: the next poll finds the follower that is still up,
  takes it for the leader (`:527`–528) and joins the user's radio to the network again,
  against "disconnect and they all drop" (`README.md:246`–247). It
  is the fault `down_fails`, under which `PlainDropSticks` fails and the other
  properties hold.
- A pick made while a poll's commands run can be undone by them before any poll has seen
  it; `PlainChoiceWins` is about picks made between two polls.
- A leader's radio that still reads switched off after its move took it down and its
  `up` (for now, or because the `up` failed) reads as the user's disconnect (`:530`), and
  the network is let go: the fault `stays_off`, under which `KeepsPromise` fails. So does
  one handed back while parked and not taken up: `parked_released`.
- A pin that could not be cleared, or a death before it is, stays in the profile
  (`:1246`); every later poll waits for it: the fault `pin_left`.
- A death between a multi-connect command and the save forgets the profile
  (`crash_mid_poll`). A failing one does not stop the `up` that needs it, which then takes
  the profile off another radio (`multi_fails`, in the run).
- NetworkManager's own activation of a radio that failed its join within one poll, and
  what it does with the radios during the failsafe's hold-off, count as picks; a suspend
  longer than `FLAP_WINDOW_S` lets a fall-back look like one. `KeepsPromise` counts the
  activations of radios NetworkManager had as reasons.
- The time since the leader was last seen is not reset for a newly chosen leader (`:757`).

*Health.*

- The reader of a ping that was stopped writes under the radio's name (`:1131`): its late
  line answers for the next access point, and ends the sparing of a gateway that never
  answers. `MuteSpared` excepts that case; `DeadIsFound` shows that it does no harm there.
- The fuse is a difference of clock values: a suspend or a jump of the clock makes every
  link dead at the next poll without one unanswered ping, against "after three missed
  pings" (`README.md:273`). `ThreeMisses` counts the time slept as silence.
- A gateway that never answers, rated full, stays a candidate for heal (`:199`–222): the
  helper is started at every heal interval, for ever.
- A ping that exits is started anew with a fresh grace; a `pkexec` that never ends blocks
  every later heal; nothing heals during a hold-off, which is not saved: a daemon
  restarted within it (`:1288`) takes the radios back at once.

*Signals.*

- The readings of a radio that was pulled out are never dropped: if they were far apart,
  `mobile()` stays true (`wifimimo_roam.py:329`) and scouts scan at the mobile pace.
- Readings of the last 30 s are not cleared by a change of the access point, and offsets
  are kept by interface name, also for another card of that name.
- A scan counts as made when it was refused (`wifimimo_nm.py:1384`).

*Daemon and retry window.*

- A SIGTERM during a write of the history makes that write raise: a plain stop ends in a
  failed unit, and the pass's remaining rows are lost. `RowsKept` excepts signals.
- A file whose header cannot be read is appended to, whatever its columns
  (`wifimimo-daemon.py:203`), excepted by `RowsUnderTheirHeader`.
- A SIGTERM that systemd did not send ends the daemon for good: exit 0 is not restarted.
- A reading without a station entry has counters of 0 (`wifimimo_core.py:813`, 902–964):
  the next full one is a lifetime's total shown as ten seconds of traffic
  (`README.md:21`), excepted by `NeverOvercounts`.
- The wrap branch of `counter_delta` (`wifimimo-daemon.py:256`) is never taken:
  `session_changed` takes every counter that fell for a new association.

## Proofs

All with tlapm; each theorem holds for every value of the constants that the
`ASSUME`s of the component allow: any finite number of radios, access points, days
and versions, any fuse, interval, window and modulus, any bound on trouble.

| Module | Theorems |
|---|---|
| `RoutingProofs` | `Typed`: `[]TypeOK`; `OriginalsAreKept`: without kills, `[]OriginalsKept`; `ForeignIsKept`: `ForeignKept`; `NeverHalfBuiltHolds`: `NeverHalfBuilt` |
| `HoldsProofs` | `Typed`; `NothingForgotten`: without the four faults, `[]NeverForgotten` |
| `PlacementProofs` | `Typed`; `OneJoinAtATime`: `[]OneAtATime`; `LinkKeptHolds`: `LinkKept`; `NeverDoubledHolds`: `NeverDoubled`; `PlannerRests`: no endless chain of changes |
| `FollowProofs` | `TypeCorrect`; `ModifiedIsRecorded`: without deaths within a poll, `[]ModifiedRecorded`; `PromiseKept`: without three faults, `KeepsPromise`; `DropSticks`: if a `down` never fails, `[]PlainDropSticks`; `ChoiceStays`: without two faults, `[]PlainChoiceWins` |
| `HealthProofs` | `TypeCorrect`; `ThreeMissesHolds`, `MuteSparedHolds`, `DeadIsFoundHolds`: the verdicts; `HandedInTimeHolds`, `HandsOnlyTheStarvedHolds`: the failsafe; `DeafLeavesHolds`: the route |
| `DaemonProofs` | `TypeCorrect`; `RowsUnderTheirHeaderHolds`; `RowsKeptHolds` |
| `RetryWindowProofs` | `TypeCorrect`; `NeverOvercountsHolds`; `LosesNothingHolds`: `LosesNothing` |
| `SignalsProofs` | `TypeCorrect`; `SlopeIsOfOneAP`: `SlopeOfOneAP`; `WeakLookAgain`: `[]WeakLooks`; `ScoutsFeedAll`: `[]ScoutFeedsAll`; `NobodyForgotten`: with few enough radios, `[]NoneForgotten` |

The arguments:

- **Types.** Inductive as they stand, with lemmas on what the planners return, but for
  `Daemon`. Not mere bookkeeping in three places: a table number stays within wifimimo's
  range only because `Routable` stops at `MaxRadios` (`RankType`, `MembersType`), a swap
  is well-formed only because its planner returns candidates, and a step of the daemon's
  loop finds what it needs only because of what each place in the loop knows (`Known`:
  which file is open, what is buffered, how many rows are to come).
- **`OriginalsKept`** needs `RecordsInv`: no record ever says that wifimimo's own value was
  the original, because a step for a sysctl is only planned where the snapshot did not
  find that value, and until it has run no other write to it has. The first write then
  records the system's value or the empty one, and the second kind joins the `lost`;
  restoring empties the records and leaves nothing changed but what it failed to write;
  the end of a plan writes the run's memory to the file. A kill is the step that
  breaks it.
- **`ForeignKept`** needs `ForeignInv`: what a run saw as foreign is a VPN's rule or is
  spared by each step still in its plan, and a run that may plan a second time
  without looking for conflicts saw none. That last conjunct is why the missing look
  in the retry is harmless for what was seen.
- **`NeverHalfBuilt`** needs `HalfInv`: while the swap is still in the plan, no command
  has failed and the world has not moved, each rule, table and sysctl of the layout is
  in place or the step that puts it there is still to come before the swap. Four facts
  carry it: `apply_delta` plans a step for whatever the snapshot lacks (`BuildHalf`);
  what is taken down before the swap are only the rules of older versions, never
  one of the layout (`Shaped`); no two radios of a layout share a table, since ranks
  in a finite set are injective (`TablesApart`); and a failed command ends the plan
  before the swap, or is noted.
- **`NeverForgotten`** needs `HeldInv`: a blocked radio is among those *held*, for a
  later join takes it off the parked ones; while no poll is under way the memory and
  the file agree; a following poll has every blocked radio in the memory it will
  save, and each command still to run that takes autoconnect off is covered by it; a
  releasing poll has every blocked radio still to release or among the failed.
- **`OneAtATime`** needs `Alone`: no join is open when a swap begins, only the first
  radio's in its second step and only the second's in its third. It rests on the
  planner changing nothing but dead radios while a join is open (`PlanOK`), on open
  joins being described as busy (`BusyOK`), and on `SwapStep` waiting for the first
  radio to be up before it sends the second.
- **`NeverDoubled`** opens up the planner's ranking, `shared` first. Sending a radio to a
  held access point never makes fewer radios doubled up, and makes one more unless the
  radio leaves an access point that is shared itself (`GoShares`). In that case the
  same radio may also look around, which makes one fewer (`ScanUnshares`, `ScanIsTrial`)
  and so ranks before every such move (`GoesWhereNoneIs`). An access point that another
  radio is on its way to is out of the question because nobody is sent anywhere
  while a join is open, but for one: a join that has just stalled is no longer busy,
  and is cancelled in the same poll because no radio with an open join is parked.
- **`LinkKept`** needs that what the planner takes for a working radio does carry
  traffic (`WorksIs`): a link falls silent only after a poll has seen it up, so that
  the next one finds it (`MuteSeen`). The sole working radio is only offered to look
  around where it shares its access point with a dead one, and then the dead one
  leaves: it costs no strong slot (`SoleStays`). Every other change leaves a second
  working radio as it is (`LeftAlone`).
- **`PlannerRests`** is what `Settles` says without time. `Better`, which compares five
  counts in order and asks for 20 % and 40 Mb/s more capacity when they are equal, is a
  strict order (`BetterIsStrict`), so no chain of clear gains leads back to where it began.
  The capacity has to be a number for that; that a sum over the radios is one follows by
  induction along the sum, which is the same in whatever order it is taken (`SumExists`,
  `SumsAgree`). What was planned is never worth more than what has landed: the only
  difference is that a link kept counts as strong from a lower level on than one to be
  joined (`LandsAsGood`). The planner asks for a clear gain (`ChangeGains`), and there are
  finitely many placements. The theorem assumes signals that stay as they are and links
  that all carry traffic; what is avoided, who is busy and who has just been moved may
  differ at every poll. That a planned change lands or is given up in finite time needs
  fairness, and stays with TLC.
- **`KeepsPromise`** is a refinement: the initial states map to initial ones, and each
  step of `Follow` to a review (a save), to a new reason, or to a stutter. It needs
  `Sense`, a conjunction of eleven invariants. The central one is `Explained`: each radio
  that is on another profile than at the last poll is there by a join that the memory
  holds, by a fallback after one, because it has just come, or for a reason no poll has
  reviewed, with the memory that a running poll *will* save taken for the memory. So the
  next poll finds a choice only where there is a reason (`Choosers`). `Excused` says the
  same of a leader that looks as if the user had disconnected it; `UpsFit`, `Standing`,
  `LostSeen` that each other way to let go of the network has a reason; `Turned` carries
  the decision of a poll to its save. `PlanShape` (in `Typed`) is what ties the commands of a poll to the memory it
  will save: whatever it is about to join is the target of a move there, a radio
  it is about to disconnect is parked there or joined afterwards.
- **`PlainChoiceWins`** needs `ChoiceStands` beside `Sense`: before the poll that sees the
  pick, one radio is on it and every other one is where it was last seen or where
  wifimimo joins it (`ChoiceAwaited`), so that nobody else can be taken for the chooser;
  afterwards the memory, saved or about to be, follows the pick (`ChoiceTaken`).
- **`PlainDropSticks`** needs `Left`, the same in three stages: the poll to come finds the
  leader disconnected and no choice; the poll under way has the followers that are still
  on the network in the command it runs first; then nothing is on the network and
  nothing is about to join it. Radios are only on profiles that exist (`OnSaved`).
- **`ModifiedRecorded`** is inductive given the types: a profile is recorded by the poll
  that changes it, and forgotten only by one that has restored it.
- The faults a theorem on `Follow` leaves out are those that break it; TLC finds each
  property violated with any one of them. `KeepsPromise`: `crash_mid_poll`,
  `parked_released`, `stays_off`. `PlainChoiceWins`: the first and the last.
  `ModifiedRecorded`: `crash_mid_poll`. `PlainDropSticks`: `down_fails`. All the others of
  the eight may strike at any time.
- **The verdicts** need `Told`: what a running ping and its reader know (its age, its
  last answer, the line still in the pipe) bounds, from both sides, the silence that
  really was on the link since the ping was started for this access point.
- **`HandsOnlyTheStarved` and `HandedInTime`** need `Counted` (the follower's count of
  silence never exceeds the real one), and for the other direction `Starving` and
  `Pressed`: when nothing gets through, each poll finds each radio dead by an age that
  the fuse bounds, and the count of silence then only grows, at the pace of the polls.
- **`DeafLeaves`** needs `Leaving`, a bound on the time a mute member has left for each
  stage it can be in: not judged dead yet, dead and waiting for the heal interval or
  the end of a hold-off, helper running. Each stage only hands over to the next.
- **`RowsUnderTheirHeader`** needs `Shapes`: every file, moved aside or not, covers its
  rows, and the one that is open has the shape of the running version from the step
  that compares or writes its header on. **`RowsKept`** needs `Rowed`: in a running
  daemon each place in the loop has its writer, or the day's file is the stuck one.
- **`NeverOvercounts`** needs readings to be `Apart` (no two of one age), `Ordered`
  (older ones have lower counters as long as they are in the window) and `Bounded` (the
  counters differ by no more than what was sent). That a window has an oldest reading
  is by well-founded induction on ages; that no counter goes once round
  between two polls is assumed (`Most * Stall < Modulus`).
- **`LosesNothing`** needs, beside the same invariant, `Exact` (the counters read what
  each reading of the undisturbed time counted and what was sent since) and `Covered`
  (no stretch of that time as long as a slow poll is without a reading): the
  first keeps the window from being taken for another association's, the second puts a
  reading at its far end.
- **`SlopeOfOneAP`** needs each series to be of the access point that `bssid` names
  (`OfOneAP`) and in order of age (`Ageing`): `Trend.add` only drops readings from the
  left, up to the first that is young enough, which drops all the old ones only if none
  is hidden behind a younger one. That a non-empty set of positions has a least one is
  by well-founded induction.
- **`WeakLooks`** needs `Looked`, its stronger form right after a poll: without a scout,
  `plan_scans` takes *all* weak radios that are due, so none has to wait for another.
- **`ScoutFeedsAll`** has two halves. `Scouted` follows a scout from the moment it was last
  disturbed: it has not been left alone for as long as a scan takes to come round (`Asked`),
  or its table is fresh or being renewed (`Soon`); a poll that leaves it out finds its last
  scan younger than the interval (`ScoutsDue`). `BestIs` bounds the reading that
  `candidates` ends up with: the loop over the radios is a recursive function over
  positions, which exists and never gets older from one position to the next
  (`JudgesExist`, `JudgesFall`, each by a least position at which it would fail), and
  each radio has a position in every order (`OrderIs`).
- **`NoneForgotten`** does not hold for any number of radios: each poll scans one, and a
  radio that is weak or falling goes before one that waits for its ordinary turn. With
  polls that are all slow even two weak radios, out of step, keep a third from ever scanning.
  `FewRadios` says what is needed: the others have their turn at the quick pace within
  `FADE_SCAN_S`, at the slow pace within `IDLE_SCAN_S`, and a trend forgets within an
  ordinary interval. At the code's values (1 and 5 s polls, 8, 10 and 120 s) that is so up
  to ten radios, and up to five if a quick poll takes two seconds. The invariant is
  `Patient`: while a radio is due and waits, each poll has scanned another one than the
  polls before it since then (`Awaited`), quickly if some radio is weak (`Hurried`), so
  that none of them is due again before all have had their turn. It needs that no radio begins to
  fall while it waits (`NeedyStay`), which holds because a series of readings at one
  level has no slope (`Kept`).

Only model-checked: what is stated under fairness (`Converges`, `HandedBack`,
`RecordedHandedBack`, `Settles`, `Placed`, `StopEnds`, `KeepsReporting`), which is out of
the prover's reach. Of `Settles` the part that needs no fairness is `PlannerRests`.
Every safety invariant and action property of the passing runs has its theorem; those of
them that a fault breaks are proved for the behaviours without it, as the table says.

## What is left out and why

- *Strikes, floors and bans*: `Placement` takes what is avoided as a set that grows with
  failed joins and may be forgotten at any moment, which covers every expiry; the
  windows themselves (180 s, 300 s, 1800 s, signal floors) need a clock.
- *Arithmetic of signals*: slopes, offsets and scores are floating-point filters.
  `Signals` says which readings they are taken over, `Placement` what follows from any
  outcome. Throughput and rating are filters of the same kind; of the cadence, `Signals`
  has what the follower asks for.
- *`Holds`, `Placement`, `Follow` and `Health` as one module*: they share a poll, and each
  takes the others' decisions as any choice. Their product is beyond TLC; what needs two
  of them at once (a swap that outlives its network, `wifimimo_nm.py:892`) is described
  above and not checked.
- *Internal card*: a short sequence of writes at a user's command. *Tidy and tuning*:
  one-shot. *Dispatcher, heal*: they only start helper runs, which `Begin` allows at
  any time and `OthersApply` stands for.
- *Parsers, plasmoid, monitor, installer, tools*: text, display, or run by hand. What
  a reading lacks when a source is missing is in `RetryWindow`.

## Plan

Done: all modules above. Next, most important first:

1. Strikes, floors and bans with a clock; shown to implement `Placement`'s `avoid`.
2. An abstract routing service (on: the layout; off: nothing; anything in between only
   while trouble lasts), implemented by `Routing`, used by `Health` for `members`.
3. `InternalCard` and `plan_tidy`.
