# msm8916-openwrt: specifications, checks and proofs

TLA+ modules that model the run-time daemons of this OpenWrt port for MSM89xx
LTE dongles, TLC configurations that check them on small instances, and TLAPS
proofs for every value of their constants. Source paths are relative to the
repository; line numbers are those of the commit this directory was written for.

The device is a modem and a Wi-Fi chip behind a small Linux system. Its own
logic is not in the kernel: it is in a dozen daemons that share one modem, one
network interface, one clock and one lock file, poll on timers, are respawned by
procd with an empty memory, and repair failures of parties that never tell them
anything. That is modelled first. Beside it the repository archives the vendor's
stock Wi-Fi driver (`Docs/WiFi/reference/`), the reference for the AP+STA work
described in `Docs/WiFi/`; its control structure, which is what that work asks
of it, is modelled next.

## 1. Inventory

### The modem side

**sim-hotplug** (`msm89xx/base-files/usr/sbin/sim-hotplug`). One process.
State: `removed`, `miss`, `err`, `restarts`, `gave_up`, and three time stamps.
It pulses the card-detect line while it believes the card absent, restarts the
modem after too many misses, and after "present" restarts ModemManager, waits
for registration, refreshes the modem and brings the bearer up under
`/var/lock/modem-bearer.lock`. Hard: the card, the baseband and ModemManager
each hold their own opinion of which card is in; every wait can time out.
Correct if: restarts stay within budget and back-off, each card event starts
with the whole budget, the bearer comes up for the card that is in, and an
insertion is always found.

**modem-bearer-watchdog** (`msm89xx/base-files/usr/sbin/modem-bearer-watchdog`).
One process. State: stall, probe-failure and recovery counters, ten time
stamps. It reads packet counters, probes by DNS, climbs a three-stage ladder
(dormancy, new bearer, modem restart) holding the bearer lock, re-drives an
interface that netifd left down, and nudges a modem without a ModemManager
object. Hard: the modem loses the first packet after each dormancy; the probes
move the counters they are judged by; a kill between `down` and `up`. Correct
if: a link that works is never torn down, a stall that can be cured is cured,
modem restarts are spaced, and the interface comes back.

**qcom-carrier-autocfg** (`packages/qcom-carrier-autocfg/files/`). Polls the
SIM, looks the carrier up in a table, flushes the radio cache (`ifdown`, delete
every bearer, sometimes a power cycle), writes `network.modem` and brings it up
under the bearer lock. Hard: the flush is outside the lock.

**modem-led-monitor** (`packages/msm89xx-scripts/root/usr/sbin/`). On some
boards it also reconnects the modem after failed pings, under a lock file of its
own, which a killed process leaves behind.

**netifd and its modemmanager handler** (handler:
`openwrt-overlay/feeds/packages/net/modemmanager/files/lib/netifd/proto/modemmanager.sh`).
The `modem` interface's state, its autostart and available flags and its error.
All of the daemons above act on it through `ubus`; the handler ends a setup with
success, a retry or a blocked restart.

They share: the interface and its flags, the bearer lock, ModemManager's modem
object and bearers, and `remoteproc0`. They never call each other.

**himi-ok guard** (`himi-ok-guard`, `init.d/himi-ok`). The handshake that keeps
the modem firmware's 900 s watchdog away. Correct if the flag is renewed before
it expires, across respawns.

### The uplink side

**uplink-manager, wifi-sta-dhcp.sh**
(`packages/msm89xx-scripts/root/usr/sbin/`). The manager probes both links every
30 s and owns the override route (metric 40), the candidate route (100) and
dnsmasq's servers; udhcpc's handler writes the same candidate route, the same
DNS option and the lease file, and sends USR1. Hard: the lease read before up to
six seconds of probing is installed after it; each writer remembers only its own
writes; a signal at any point of the cycle. Correct if, once quiet, routes and
DNS belong to the current lease and to the decision, and the traffic settles on
the link the policy prefers.

**Wi-Fi station guard, wifi-sta-late, wifi-sta-up**. They keep a station vif
away from netifd, because a radio restart crashes the WCNSS firmware, and limit
recoveries by a radio budget. Correct if no sequence of events restarts the
radio more often than the budget and a vif that died is created again.

### Persistent state

**sysupgrade platform, preinit check, firmware-upgrade** (`lib/upgrade/`,
`lib/preinit/79-check-rootfs-data`, `packages/msm89xx-firmware-upgrade`): boot,
rootfs and overlay are written one after another; power may fail between any
two. **apk-overlay-heal**: the package database against an overlay that survived
an upgrade. **lk2nd boot failover** (`msm89xx/image/lk2nd-patches`): a boot
counter in the bootloader, reset from userspace. Correct if after any power loss
some bootable system is left and nothing is wiped that should be kept.

### The clock

**qcom-time-daemon** (`packages/qcom-time-daemon/src/qcom-time-daemon.c`). One
process and one QRTR socket. It looks the modem's TIME service up, and for each
announcement runs a handshake: GET the time of day, GET the modem's counter, SET
the offset, write a marker file (`/var/run/qcom-time-synced`, which autocfg waits
for) and a record on flash. It refreshes and validates periodically. Hard: a
transaction waits by handling whatever packet comes, so handshakes nest and
discard each other's replies; the modem restarts announced or not; the daemon,
the board and the flash fail between any two steps. Correct if the marker means a
modem that was set, an offset belongs to the boot it was computed for, the record
is whole and confirmed, and the daemon ends synchronized.

### The archived stock Wi-Fi driver

Four parts of the host driver (`wlan_hdd_main.c`, `wlan_hdd_cfg80211.c`,
`wlan_hdd_hostapd.c`), each with requests of user space under rtnl, callbacks of
the MC thread, and a subsystem restart beside both.

**Interfaces and sessions**: `wlan0` and `p2p0` are opened, closed and changed
between station, P2P client, P2P group owner, access point, IBSS and monitor;
two counters per mode (open and active sessions) decide about power save. Hard:
each wait can give up before its callback comes; the peer disconnects while a
request does. Correct if the counters and flags agree with what exists whenever
nothing is under way.

**Scanning services**: scans, PNO, batch scans (`WLS_BATCHING`), extended scans,
link-layer statistics. Hard: test-then-reset of completions, aborts without a
wait, lists emptied by a restart. Correct if driver, firmware, cfg80211 and user
space agree on what runs, and batch results are a queue.

**Access point**: BSS start and stop, stations, keys, the inactivity timer,
channel avoidance, WPS overlap. Hard: three parties can stop a BSS, and the start
is a wait for an event. Correct if driver, WLANSAP and cfg80211 agree on the BSS
and everyone who joined can be removed.

**Loading and unloading**: `hdd_driver_init`, `hdd_wlan_startup` with its twenty
labels, `hdd_wlan_exit`, `con_mode` and `fwpath`. Correct if each failure gives
everything back in an order its users survive, no request finds the core gone,
and the driver comes up in the mode that was asked for.

### Smaller daemons

**bt-spp** (an
RFCOMM socket bridged to a pty), **luci-app-battery** scripts (charge limit and
LEDs over the same sysfs nodes), **pwrkey-monitor** (press durations),
**uci-usb-gadget** (configfs order), **diag tools**, **update-notify**,
**SMS manager**.

Build scripts, LuCI views, kernel and driver patches, captures and the reference
tree `TBR/` hold no state of the running system, or patch code that is not here.
`PROJECT.json` lists every component with its status, and every place that is
hard to test with the properties that cover it.

## 2. Modules

| module | models | proofs |
|---|---|---|
| `SimHotplug` | sim-hotplug, with slot, baseband, remoteproc, ModemManager | `SimHotplug_proofs` |
| `Netifd` | the `modem` interface and the protocol handler, as operators on five variables | (used by the next two) |
| `BearerWatchdog` | modem-bearer-watchdog over `Netifd` | `BearerRecovery_proofs` |
| `BearerRecovery` | the watchdog composed with autocfg, sim-hotplug's bring-up, modem-led-monitor and the user | `BearerRecovery_proofs` |
| `BearerTurns` | abstract: the daemons take turns with the interface; no lock, no ladder | `BearerRecovery_proofs` |
| `Uplink` | uplink-manager, wifi-sta-dhcp.sh, netifd's modem route, USR1 | `Uplink_proofs` |
| `TimeDaemon` | qcom-time-daemon, with the modem's boots, the name service, the AP clock, the flash | `TimeDaemon_proofs` |
| `WlanPersonas` | interfaces, sessions, power save of the stock driver | `WlanPersonas_proofs` |
| `WlanThreads` | rtnl, the MC thread and the restart that the scanning services share | |
| `WlanScan`, `WlanBatchScan`, `WlanExtScan` | scans and PNO; batch scans; extended scans and statistics | |
| `WlanScanning` | the three composed | `WlanScanning_proofs` |
| `ResultQueue` | abstract: reports are queued and fetched in order, at most once, and lost only in named places | `WlanScanning_proofs` |
| `WlanSap` | the access point of the stock driver | `WlanSap_proofs` |
| `WlanLoad` | loading, unloading, `con_mode` and `fwpath` of the stock driver | `WlanLoad_proofs` |

`MC*` modules instantiate them for TLC; each `.cfg` is one run.

### How state and actions correspond to the code

Shell variables keep their names in TLA+ style (`gave_up` is `gaveUp`,
`PROBE_FAILS` is `probeFails`). A daemon is sequential: `pc` names the point it
has reached, and its loop is cut exactly where another party can run between a
read and the write that depends on it. Everything the code does between two such
cuts, a trailing sleep or a counter reset included, is one action. `PROJECT.json`
maps every definition to its lines.

*Time.* A time stamp `last_x` is the age `sinceX`, advanced by the daemon's own
sleeps (`Sleep(d)`) and capped at the value the code compares it with: two ages
above the threshold are the same to the code. A respawn sets it to the cap,
because the script's stamps start at 0.

*Packet counters* are two Booleans, whether rx and tx have moved since the values
the loop remembers. That is all the loop asks of them.

*The environment* is bounded by `MaxFaults` and its like; each module names
them. Every fault kind is something a comment, a log or a patch of the repository
reports of this hardware: a pulse without effect, a UIM error, a lost QMI port, a
dead ModemManager, a zombie modem, a spurious "device not managed".

*The time daemon's call stack* is a variable: a wait that handles packets may
call the handshake it is part of, so a frame per transaction is kept, and a reply
is matched by the depth of the frame that asked (the code's transaction number).
Time there passes only while everybody waits.

*The stock driver* has a request at most under rtnl (`user`), the MC thread
(`mc`), the answers the firmware still owes (`answers`) and a restart (`logp`).
A request or callback is cut where it waits, where it takes or drops a lock that
the other side takes, and where it leaves state the other side reads. `mishap`
collects what went wrong so far (a wait that gave up, a failing call, a restart,
an overtaking request): a property that such an event rightly breaks names it.

*History variables* (`attempts`, `sinceAttempt`, `lastFailed`, `disturbed`,
`sinceSsr`, `ssrFutile`, `confirmed`, `reported` and `fetched` of the batch,
`known` of the extended scans) are read by properties only. They count
what happened independently of the script's own counters, whose resets are the
thing in doubt.

### Abstractions

- `SimHotplug`: a card is a model value; the LED, logging and the degraded loop
  of a board without a card-detect line (which changes nothing) are left out. The
  registration states collapse to failed, searching, registered.
- `BearerWatchdog`: a failure of the user plane is the least intervention that
  cures it: `rrc` (dormancy), `bearer` (a new session), `rf` (a modem restart).
- `BearerRecovery`: the power cycle of autocfg's cache reset is folded into its
  deletion of bearers. The carrier tables are not modelled: whether the settings
  differ is a free choice.
- `Uplink`: a route is its metric and the lease that named it; a lease stands for
  its router and its servers; routers are reachable through the vif while it has
  an address. The DHCP handler's flush, address and route are one step; the
  lease file and the DNS option are written at once. autocfg's provisioning of the
  carrier is the one event that changes netifd's metric, from 50 to 10; the router
  of the modem's link does not change. The status JSON is output.
- `TimeDaemon`: a time is what it was computed from and in which boot (`from`,
  `boot`), not a number: two offsets differ when they come from different sources
  or boots. The AP clock is unset, behind, right or ahead. Subtractions of time
  stamps keep their unsigned wrap. A late reply equals a lost one. The QMI codec
  and the options for manual tests are left out.
- `WlanPersonas`: an interface's connection is none, wanted or made; association
  and disconnection handlers, SME and cfg80211 are external and modelled by how
  the driver uses them; its power-management calls succeed.
- `WlanScanning`: results are numbers in the order of their reports; their
  encoding, the parsers of the text commands and capability queries are left out.
  A user's buffer holds everything, or only the first access points, or none; an
  indication with numbers that the batch does not allow reports nothing.
- `WlanSap`: a channel is a model value; security, ACL and hardware-mode parsing,
  MIC failures and the WEP keys of index 1 to 3 are left out (the start event
  looks at the first only, HA:777); the inactivity timeout is not 0.
- `WlanLoad`: a step of the load is what it takes and what taking it needs; the
  options are those the driver is built with here (LINUX_REG, logging during a
  restart, BTAMP). A subsystem restart sets its flag, waits for the request under
  way, closes the core and brings it up again: the code that does so is not in the
  repository, and what it does to a driver that is being unloaded is not modelled.

### Fairness

A daemon is `while true` with bounded sleeps and is respawned by procd: weak
fairness of each daemon's own steps. netifd ends its tasks (its handler has
timeouts), ModemManager probes a modem it can reach, a remoteproc restart
completes unless it fails, UIM errors end: weak fairness, and each of these may
also fail a bounded number of times. flock serves waiters that the lock is
repeatedly free for: strong fairness of taking it. A user who typed `ifdown` types
`ifup` (`RFairness`), and the switch that disables the watchdog is not left off.
`BusySpec` adds an assumption on the environment, not on the code: somebody on
the LAN sends again and again while the watchdog sleeps. Without it an idle device
never notices a dead link (see the divergences). No fairness is assumed of links,
leases, cards or faults.

`TimeDaemon`'s `FairSpec`: the loop and its transactions run, seconds pass, a
modem that is up answers what reached it, and one that died boots (remoteproc's
recovery). Nothing is assumed of NITZ, of NTP or of faults: `StaysSynced` has
"something to derive an offset from" as its premise. The stock driver's modules
state no liveness: every wait of it is bounded in the code, and whether a
firmware answers is not this code's to say.

## 3. Runs

Passing runs. Together they fire every action.

- **SimHotplug** (two cards, two insertions, two faults, one respawn; budget 2,
  pulses 2, back-off 5 units of one absent interval). `RestartBudget`: at most
  `max_restart_attempts` restarts between two sightings of a card, whether they
  came back or not. `RestartSpacing`: a restart after one that came back keeps
  the back-off. `BringUpFresh`: the bearer is brought up for the card the baseband
  reads, whatever fails, unless the refresh's `mmcli -d` itself did not go through
  (no index, a stale one, a failure or time-out, all of which the script ignores).
  `InsertionDetected` (liveness): a card that stays is found, given up or not. One
  swap shows every transition; the second shows what the first left behind. The
  back-off is 5 and not 720 units because only its order relative to one absent
  cycle matters: 5 > 2 pulses + a modem cycle, so the guard both blocks and
  permits.
- **BearerWatchdog** (two faults of eight kinds, LAN busy).
  `NoLadderOnHealthyLink`: a user plane that never failed is never torn down.
  `StallCured`, `BearerReturns` (liveness): a stall that a stage can cure is cured,
  and the interface comes up, unless the watchdog itself is killed between its down
  and its up. Nobody else holds the lock here.
- **BearerRecovery_control** (three faults, the kills of the watchdog and of
  autocfg and the blocked setup among them; no modem-led-monitor, no user).
  `ControlKept`: no other daemon brings the interface up while the watchdog
  deletes bearers or restarts the modem. `SsrSpacing`: restarts keep their
  cooldowns whatever the stages reported.
- **BearerRecovery_live** (two faults; with modem-led-monitor, the user, the kills
  of all three daemons and the blocked setup). `StuckIsRedriven`,
  `ReturnsUnlessLeft`: three things leave the interface down for ever, and the
  property names them: a modem-led-monitor killed between its down and its up, a
  watchdog killed between its own, a setup that blocks the restart. After
  everything else it comes up.
- **Uplink** (two routers, threshold 2, two DHCP or policy events, two faults; the
  carrier is provisioned at any time, which moves netifd's metric from 50 to 10).
  `RoutesFollowLease`, `StaDnsApplied`, `ActiveWins` when everything is quiet, and
  `TrafficFollowsPolicy` (failover and failback) in the end, the latter two but for
  the exception of `Uplink_metric`. Two routers make a stale lease visible; two
  events give a lease and its end or its successor, each at any point of the
  manager's cycle; a threshold of 2 has a count below and at it.
- **TimeDaemon** (two boots on one port, two remembered lookups, one fault of
  eight kinds). `SyncedMeansSet`: when quiet, SYNCHRONIZED or the marker means
  that the modem, in the boot it is in, accepted an offset. `OffsetFitsBoot`: an
  offset made from the modem's counters is accepted only by the boot they were
  read in. `RecordConfirmed`, `RecordKept`: what is on flash was confirmed by a
  modem and survives every crash whole. `StaysSynced` (liveness): with the modem
  up and something to derive an offset from, the daemon ends synchronized. Two
  boots give an offset read in one and used in the other; the same port is the
  case in which a stale address still reaches somebody; each fault kind fails a
  nested handshake at each of its steps.
- **WlanPersonas** (five requests over two interfaces; two of one failing call, one
  wait that gives up early and one restart; the peer disconnects at any time). When no
  request is under way `OpenCountsPersonas` and `ActiveCountsLinks`: the counters
  are the number of interfaces and links of each mode; `SessionFlagTrue`: the
  flag SESSION_OPENED is SME's session; `PowerSaveComesBack`: both power saves
  are on whenever the rule that switched them off no longer holds. Five requests
  open two interfaces, change one, connect it and take it down.
- **WlanScanning** (four requests, one fault, one unasked report, one access point
  an indication; two million states). `ScanBookkeeping`, `ScanEndsBeforePno`,
  `Agreement`, `UserSpaceKnows`, and the refinement `ResultsInOrder`: a result is
  handed over once at most and in order, and lost only where it cannot be stored,
  where a GET takes it out and fails, or when the batch ends. Four requests are a scan, its abort by PNO, PNO's end and the
  next scan, or a batch that is set, fetched, stopped and set again.
- **WlanSap** (three requests, three things that stations, peers and firmware do
  unasked, one failing call or early time-out; two stations, two channels, taken
  symmetric, which is sound because no property names one). `BssAgreement`,
  `IdleTimer`, `StationsCanGo`, `KeyWaitsForStart`.
- **WlanLoad** (three loads or unloads, three requests, two faults; module and
  built-in driver). `GivesBack`: a load that failed and an unload leave nothing.
  `OrderedRelease`: nothing is given back before what was built on it.
  `RequestsFindTheCore`: a request that was let in finds the core running until it
  ends; an interface that is opened, which nothing refuses, finds it gone during an
  unload or a subsystem restart only; an unload takes nothing down under a restart,
  but for one that began in the gap after its test or outlasted its wait.
  `ModeHeeded`: the driver comes up in the mode that was asked for.

Deadlock checking is off only where the bounds on requests end the behaviour (the
four runs of the stock driver): there the system waits for user space.

Two violated runs.

- **TimeDaemon_nitz** (no faults, the options of the init script).
  `NitzPreferred` fails: main looks the service up twice before the first packet
  (:1075, :1090), a running service announces itself twice, the second
  announcement runs a handshake inside the first one's wait (the duplicate guard,
  :873-883, applies to SYNCHRONIZED only) and discards the reply the first one
  waits for. The first then times out without a time of day and its SET overwrites
  the offset from network time with one from the AP clock, which the comments at
  :577 and :677 both exclude.
- **Uplink_metric** (as `Uplink`). `OverrideWins` fails: autocfg:253 writes the
  metric 10, the manager adds a route at 50 beside netifd's (:121-123), and the
  station's override at 40 loses to the modem's route although the modem is known
  to be broken; Docs/WiFi/UPLINK_FAILOVER.md:27 says "Modem unhealthy, STA healthy
  -> STA override (40) wins", and uplink-manager:5-7 takes 50 for the metric that
  netifd installs.

### Divergences that have no run

Read in the code while modelling it; the models contain each one that is not
marked otherwise, and the properties name it where it would break them.

*Modem side.*

- sim-hotplug:335 if registration takes longer than `wait_register`'s 12 polls,
  `refresh_modem` is skipped for good and ModemManager keeps the old SIM (usage
  text, :493-494).
- sim-hotplug:234-242, :337-339 the result of the refresh is ignored: without an
  index, or when `mmcli -d` fails or times out, ModemManager keeps the SIM it read
  before the swap and the bearer is brought up all the same. `BringUpFresh` says so.
- sim-hotplug:178-190 `modem_state` runs in a subshell, so the index it looks up
  after a change is lost; with the old one it has no answer until a refresh looks
  it up again (:246), and the test of :248 can never be true.
- sim-hotplug:311 `miss` is not cleared by "present"; a new absence may escalate
  one pulse early (:509 counts pulses of one absence).
- sim-hotplug:368 `last_restart` is not set after a timed-out restart, so the
  back-off (:119-120, :510) does not follow one. `RestartSpacing` says so.
- sim-hotplug:421, :431 `err` counts errors that answers in between do not reset,
  while :428-429 say "two consecutive checks".
- sim-hotplug:256 when the lock is not free for 40 s the bring-up is dropped and
  nothing tries it again (only the watchdog's re-drive does).
- sim-hotplug:261 a respawn forgets budget and back-off.
- modem-bearer-watchdog:570, :550 the failures that open the ladder need not be
  "in a row" (:558-559): an answered keepalive between them is hidden by
  `LAST_RX=RX_POST`.
- modem-bearer-watchdog:644, :422-424 killed between `down` and `up`, the
  watchdog's successor takes its own `down` for the user's and never re-drives
  (:392-394 speaks of user action only).
- modem-bearer-watchdog:298 `BEARER_DOWN_SECS` is not reset while the watchdog is
  disabled or the modem down, so the first re-drive after that may come early.
- modem-bearer-watchdog:472 `ZOMBIE_DOWN_SECS` survives the interface coming up;
  the comment at :121-122 speaks of one uninterrupted absence.
- modem-bearer-watchdog:551 the keepalive's packets become `LAST_TX`, so on an
  idle LAN its loss is never a stall, although :9-10 and :532 give the keepalive
  as what keeps an idle link checked.
- modem-bearer-watchdog:420-428 autostart and the error are read, then mmcli
  runs, then `up` is sent: an `ifdown` in between is undone (:404-405).
- modem-bearer-watchdog:209-212 the mobility window stays open while no cell can
  be read (not in the model).
- qcom-carrier-autocfg.sh:328 the flush is outside the bearer lock, so
  sim-hotplug's bring-up under the lock can fall inside it.
- modem-led-monitor:351-362 its own lock does not exclude the watchdog's ladder
  (watchdog:643); and a user's `ifup` during the ladder breaks `ControlKept`.
- modemmanager.sh:619 three failed registrations block the restart for good.

*Uplink.*

- uplink-manager:83 a lease taken while the modem is active leaves the station's
  servers in dnsmasq (UPLINK_FAILOVER.md:54-55).
- uplink-manager:110 `recover_threshold` is read and never used: one answered
  probe makes a link healthy (UPLINK_FAILOVER.md:46-48 says two).
- uplink-manager:12-13 a manager stopped while the station is active leaves its
  override, so the service is then station-first.
- wifi-sta-dhcp.sh:21-29 with `sta_dns` set a deconfig writes the servers instead
  of removing them (:9), and a renew installs the candidate for a moment under
  policy "modem" (UPLINK_FAILOVER.md:40: "never selected").

*qcom-time-daemon.c.*

- :1112, :1134 `now` was read before a handshake that moved the stamps past it;
  the unsigned difference wraps and the next refresh or poll runs at once.
- :378-389 the boot verdict says the modem survived when a restarted modem's
  uptime already exceeds the recorded one; :656-662 a restored offset is used
  although the modem restarted (`OffsetFitsBoot` excepts restored offsets).
- :405 an NTP step backwards makes a good clock "unusable" until the recorded
  time has passed again.
- :670-674 without the modem's counter the fallback takes 0 for it and sets the
  offset wrong by the modem's uptime.
- :704, :751 a DEL_SERVER inside a handshake's wait ends with FAILED and no
  connection, which no branch of the loop looks up again; a new announcement is
  needed. After a nested failure a refresh can succeed with the state FAILED.

*Stock driver: interfaces* (`wlan_hdd_main.c` = HM, `wlan_hdd_cfg80211.c` = HC,
`wlan_hdd_hostapd.c` = HA). `hdd_enable_bmps_imps` re-enables both power saves
although an access point or group owner runs (Docs/WiFi/WCN36XX_AP_STA_RE.md:64-67).
HM:6551-6561 a failed registration leaves the session open; HM:6643-6645 monitor
mode returns NULL with the netdev registered; HM:6721-6724 frees an adapter that
is listed; HM:6524-6528 does not resume BMPS. HC:7706 an early return of a mode
change leaves the open count one short, and a later decrement wraps it to 255; AP
to IBSS gives a P2P client; early returns of connect leave BMPS off, and so does a
`sme_RoamConnect` that fails, whose positive result HC:11337 does not take for one;
while an access point runs, a re-enable is not what `PowerSaveComesBack` forbids.

*Stock driver: scanning.* HM:1583-1585, :1777-1779 the flag is tested and the
completion reset afterwards, so an answer in between is lost (:1522-1525 describe
the wait); a SET that times out leaves the firmware batching while the driver is
not; HM:1346-1350 a buffer that is too short pops an access point without writing
it, and HM:1620-1624, :1649-1653 a failed copy loses everything that was popped;
HM:1083-1102 an access point that cannot be allocated or whose name is too long is
dropped; an indication that arrives after the end of its batch is stored and
handed over with the next one's; the list is emptied by a restart without its
lock. HC:9523-9528 a scan-done callback
whose wait gives up leaves the scan pending, and every later one gets -EBUSY.
HC:13749-13753 PNO stop during a restart returns 0 and leaves the driver's flag
set; HC:15036 resume during a restart leaves `isWiphySuspended`; HC:13511-13516
a failed allocation returns success; HC:2184-2193 a stop does not compare the
request id; CLEAR's failures leave `isLinkLayerStatsSet`.

*Stock driver: access point.* HC:6679-6692 start ignores how its wait ended;
HC:7115-7122 the -EINVAL returns leave `ap.beacon`, so the next start is
"already"; a stop that times out keeps beacon and cfg80211's access point; a stop
between the set of BSS_STARTED and the increment leaves the active count one too
many; HC:6643-6649 a beacon change restarts a BSS that the ioctl stopped;
HC:8321, :8360 against HA:768-793 a key tested before and saved after the start's
callback is never issued, nor is a WEP key while a group key is saved too, or
without one of index 0; HA:1144-1146 against :1157-1158 differ on when
the timer stops; a failed registration stops it for good; a deauthentication mark
stays on a station that joined again; a channel avoidance before BSS_STARTED is
ignored; the MC thread blocks on `semWpsPBCOverlapInd`.

*Stock driver: loading.* HM:6184, HC:7572, :7627 write `con_mode` back, so an
unload or a type change on the way to a new mode overwrites what user space wrote
(HM:367-372); in a module, writing the factory mode before rmmod makes the unload
take the factory path (HM:9879 comments the opposite). HM:9557-9571 a device that
gets ready after the fifth second is refused; HM:8775 tests `0 < rc` for an error
that is negative; HM:9725-9740 a restart that begins between the test and the
unload flag runs beside the unload; an ifup after the core is closed reaches it
(`__hdd_open` validates nothing, HM:5126-5176, :8121), during a subsystem restart
as well as during an unload; a failed load leaves the load flag set.

## 4. Proofs

Each `*_proofs` module proves, for every value of the constants its assumptions
allow, invariants that the runs check on a small instance. The shape is always
the same: an inductive invariant, checked by TLC first, `Init` implies it, one
step per action shows that the action keeps it, and a last step combines the two.

**SimHotplug_proofs** (from `SimAssumption`: thresholds are naturals, the pulse
budget is positive).
- `Typing`, `Budget`, `Rearming`, `Freshness`, `Spacing`.
- `RestartBudget` is not inductive: a budget is used up either by `restarts`,
  which counts restarts that came back, or by `gaveUp`, which a failed one sets.
  The strengthening ties the independent count to both: `attempts` exceeds
  `restarts` by at most one, and only while a restart is under way or given up.
- `Spacing` needs that after a restart that came back, the script's own age and
  the independent age agree.
- `Freshness` needs that between a refresh whose `mmcli -d` went through and the
  bring-up nothing but a UIM error or a rescan can make the baseband, or
  ModemManager, hold another card; a refresh that fails has its excuse from there.
- `Rearming` states `BudgetRearmed` (no give-up of an earlier card event is left
  over while the card is believed present), which no run repeats.

**BearerRecovery_proofs** (from `WatchdogAssumption` and `Defaults`, the
script's own constants: one recovery attempt, two or more probe attempts). First
the watchdog alone: `Typing`, `HealthyLinkKept`, `Spacing`.
- `HealthyLinkKept`: while nothing has failed the link is ok and nothing takes the
  interface down, so that a probe of two or more attempts is always answered,
  dormant or not: the gate is reached but never counts a failure.
- `Spacing`: the script's age of the last recovery never exceeds the independent
  age of the last modem restart, and an unhelpful restart either is still inside
  the ladder or has left `failed` set.

Then the composition. `TurnsImplemented`: `BearerRecovery` implements the abstract
`BearerTurns`, for every board and every set of faults. The refinement mapping
reads who has the turn from where each daemon is (the ladder past its `flock`,
`ifup` in autocfg and in bring_up_bearer), not from the lock, so that the theorem
says something about the lock: the invariant is that whoever is at such a place
has it and nobody else does, through kills too. The steps of the daemons, of
netifd and of the modem fall into the seven of `BearerTurns`: a turn taken or left
(also by a kill), the interface held down, brought up, given up by anybody
(autocfg's flush and a blocked setup do so without a turn), re-driven by the
watchdog outside its own turn, and raised by an outsider; `TurnStep` is the split.
`TurnsPromise` is proved of `BearerTurns` alone: one turn at a time, and without
outsiders an interface that is held down stays down. `Control` is the two
together, from two assumptions stated in the module: modem-led-monitor does not
recover on this board (`~LedRecovers`) and no user types `ifup`. With either of
them there is an outsider and `ControlKept` is false, which is the point of
stating them. No run repeats the refinement; TLC agreed with it on the instances
of both runs before it was proved.

**Uplink_proofs** (from `UplinkAssumption`): `Typing`, `LeaseRoutes`,
`LeaseServers`, `NoStation` (under policy modem the station has no default route;
`ModemOnly`, in no run). `Wins` (`ActiveWins`) holds before and after the carrier
is provisioned, with the exception in the property: a chosen station loses to a
route of the modem below the override, and then the theorem says that the traffic
takes that route. `WinsUnprovisioned` is the documented promise, for as long as
netifd's metric is the one of the first boot. The invariant says, for
every point of the manager's cycle, what it has read is still true unless the
handler is still at work, a signal is pending, or the address is gone: that is why
the handler signals last, and why a signal that arrives before `wake=0` may be
dropped.

**TimeDaemon_proofs** (from `TimeAssumption`; any boots, ports, time-outs, faults).
- `Survives`. From the SET on every frame of the call stack carries an offset,
  because a handshake that can derive none fails before it; so a rename never shows
  an empty record, and until the rename the old one stands. The offsets' and frames'
  fields are kept as equations (`OffFields`, `FrameFields`), so that no packet need
  be typed.
- `FitsBoot`, `Confirmed`. `TimeInv` says who owns what is on its way: a request or
  reply belongs to one frame of the call stack, known by its depth, and a frame has
  at most one of them, so the reply of a nested handshake is never taken for the
  outer one's. A time of day read before belongs to the boot that is asked next, an
  offset on its way fits the boot that gets it, a reply that says "ok" carries an
  offset that the modem has confirmed. When a modem dies the requests to it are gone,
  and what it had answered is read before its successor is there.
- `Synced` (`SyncedMeansSet`), from three assumptions in its statement. `DUP_GUARD <=
  MODEM_BOOT`: the comment of the guard (`qcom-time-daemon.c:875-879`) says that a modem that "underwent
  SSR" always gets a handshake, but all the code has for it is the age of the last one;
  with a guard of 3 and a modem back after 1 TLC finds the property violated. `NoWrap`: the
  age of the last handshake is below the modulus of the unsigned clock. `MaxLookups # 0`.
  `SyncInv` is what `TimeInv` lacks. `Owed`: a modem that is up and was not set, while the
  daemon is content, has its announcement as the next packet, which is no duplicate, or
  a handshake is under way that will say so if it fails. `Spared` keeps the guard apart:
  while the modem is down the last handshake is as old as the modem is dead, or older
  than the guard. `ConfirmedInv`: whoever has been told OK has been told by a modem that
  is still up, or that died within this second; so a handshake ends well only then.

**WlanScanning_proofs**: the refinement. `Ordered`: in the abstract queue the
waiting results are in the order of their reports and later than those handed
over, and without a gap until something is lost. `Implements`: every step of the
composed scanning services, a failing copy, a short buffer and an access point
that cannot be stored among them, is a report, a fetch, a loss, a begin or an end
of the queue, or a stutter; the invariant is the record's shape and that whoever
lost something left its mark. `HandedOverInOrder` carries the queue's theorem over. `Bookkeeping` and `PnoWaits` need to know where the one
scan is (`Phases`: nowhere, asked for, booked, answered) and that, until a request
overtakes a callback, no callback of an earlier scan is left while one runs
(`OneScan`): so the completion an abort waits for is that of its own scan,
although every scan signals the same one. `Agrees` (`Agreement`) needs to know what
is under way while a request waits (`PnoAgrees`, `BatchAgrees`): one answer that
says what the firmware did, or that answer stored and the completion signalled;
and that each service leaves the fields of the others alone (`BatchApart`,
`ExtApart`, `ScanApart`). Where `Agreement` excuses a failure, so do the parts of
its invariant, and `mishap` only grows. `Known` (`UserSpaceKnows`): what user space
will know is a fold over the messages under way. Two facts about it carry the proof:
a message added at the end counts last, one handed over at the front has been
counted already.

**WlanSap_proofs** (from `SapAssumption`: finitely many stations, the mark for
automatic selection is no channel). `BssAgreed`, `Timed`, `Removable`, `KeyGiven`.
- `BssAgreed`: the flag of the adapter, the session counter, the queues, the event
  and the beacon each follow the firmware's BSS at a distance of one or two steps of
  the request under way; `AgreeInv` gives the distance point by point.
- `Timed`: of a started BSS the timer runs or is stopped, and a registration stops it.
- `Removable` needs `SaidInv`: a station that was said to have joined is joined, or a
  later indication says that it left. So a registered station that is marked has its
  departure on the way, unless the mark was just made.
- `KeyGiven`: between the test of the BSS and the save nothing but the start event
  can come, and then the state says so; a WEP key stays only behind a group key.

**WlanLoad_proofs** (from `LoadAssumption`). `Heeded`: until `con_mode` is read it
holds what was asked for, from then on the mode that came up does, and whatever else
writes it is recorded in `mishap`. `AllGivenBack`, `InOrder`: every resource has a
rank, its entry among the unwinding labels and its step of the two exits. Each step
of a load takes a resource that ranks no lower than the next one expects, a failing
step jumps below everything held, each entry of the unwinding gives back all of its
rank; so nothing of a lower rank is left at any entry, and nothing that stays depends
on what goes. A factory test is known by `con_mode` until it is overwritten, which
happens after the last use of it. `CoreFound`: the flag is set under rtnl, hence with no request inside, and the
core goes only after it, or in a restart, which waits for the request that runs.
`RestartInv`: a restart that is on when the unload goes on was either seen and
outlasted its wait, or began after the test.

**WlanPersonas_proofs** (from `PersonasAssumption`). `Personas`, `Active`,
`Sessions`, `PowerSaves`. The properties speak of the rests between requests, so the
invariant has to say what is owed while one is under way. `Control`: a request is
known by the last step of its program; from it follow the steps that may stand before
it, their order, whose they are, and what the error path holds. On top of it
- `OpenInv`: the interface whose change of type is under way is the only one not
  counted, until `count` (or an early return, which the property names);
- `LinkInv`: SME's link and the driver's connection state agree but for an answer that
  somebody waits for at the head of the program, and the steps that come expect no
  link or BSS of the interface they change;
- `ActiveInv`: the counters are the BSSs and the links that SME has joined or is
  leaving while the driver still says "Associated"; `Disconnect` and the handler of a
  disconnection never both take one out, because the state changes with the count;
- `SessionInv`: an answer about a session is under way only while the request waits
  for it, so that a close callback never meets the flag of the next session;
- `PowerInv`: a power save that is off has an excuse: p2p0 is there, wlan0 is no
  station, or a step that turns it on again is still to come or on the error path.

Only model-checked:
- all liveness (`InsertionDetected`, `StallCured`, `BearerReturns`,
  `StuckIsRedriven`, `ReturnsUnlessLeft`, `TrafficFollowsPolicy`,
  `StaysSynced`): it rests on fairness, which the provers here do not reason about.

## 5. Bounds

`MaxSwaps`, `MaxFaults`, `MaxRespawns`, `MaxEvents`, `MaxOps`, `MaxReports`,
`MaxAps`, `MaxLate`, `MaxFails`, `MaxSsr`, `MaxKicks`, `MaxRequests`, `NBoots`,
`MaxLookups` bound the environment only. `miss` is capped at `MAX_PULSE`,
`attempts` at one above its budget, `stall`, `probeFails`, `downFor`, `zombieFor`
at their thresholds, `modemBad` and `staBad` at `FAIL_THRESHOLD`, the time
daemon's ages at `CAP` (the sum of what they are compared with): above these the
code compares alike. The shell counters are 64-bit integers incremented at most
once a second, so their width is not modelled; the time daemon's unsigned
subtractions wrap at `WRAP`, larger than any age the instance reaches, as 2^64 is;
the session counters of the stock driver are bytes and wrap at 256. `TwoTroubles`
cuts `WlanPersonas` at two of its three kinds of trouble. Times in the
configurations keep the order of the defaults (active < idle interval, cooldown <
extended cooldown, nudge before re-nudge, GET time-out < SET time-out), not their
ratio.

## 6. Not modelled, and what comes next

Not modelled because they hold no state that decides anything: LED output, LuCI
views, documentation, captures, build scripts. Because the code is not here:
kernel, hostapd and bootloader patches without their sources. Because it is
formatting: QMI and WMI message building (`limSendMessages.c`), text commands.

In this order, what would add most:

1. `CellMobility`: the watchdog's sample_mobility (206-237) and its profile
   (331-350): the window that can be left open (:212), and the profile it picks.
2. `RestartRace`: sim-hotplug's modem restart, which takes no lock, against the
   watchdog's Stage 3: at most one restart of remoteproc at a time, no restart
   under a ladder.
3. `Station`: wifi-sta-guard, wifi-sta-late and wifi-sta-up's run_watchdog
   (780-978): the radio budget as an abstract specification ("at most N restarts
   per window") that the detailed loop implements.
4. `Upgrade`: platform.sh, the preinit check and firmware-upgrade with power loss
   between any two writes, refined against "some bootable system is left".
5. `ApkHeal` and `BootFailover`: boots and power losses over the same overlay and
   boot counter.
6. `SerialBridge` (bt-spp), `Battery`, himi-ok: one small module each.
7. In the stock driver: TDLS and remain-on-channel, the restart of an access
   point, and the composition of `WlanLoad` with the requests of the others.

Theorems next: those of the modules above. Of the present ones every safety
property that a run checks is a theorem; liveness stays with TLC.
