------------------------------ MODULE TimeDaemon ------------------------------
(***************************************************************************)
(* packages/qcom-time-daemon: one process that sets the modem's ATS_USER   *)
(* offset over QMI, keeps a marker file while it believes the modem set,   *)
(* and a record on flash of the last offset the modem confirmed.           *)
(*                                                                         *)
(* A transaction waits by running the packet handler, and the handler runs *)
(* a whole handshake when a server is announced: the calls nest, and the   *)
(* call stack is part of the state.  A reply is matched by its transaction *)
(* number, modelled as the depth of the frame that owns it; a reply that   *)
(* comes after its time-out is the same as a lost one, because nothing     *)
(* matches it any more.                                                    *)
(***************************************************************************)
EXTENDS Integers, Sequences

CONSTANTS
  NBoots,        \* how often the modem may start
  PortOf,        \* the QRTR port of the TIME service in each boot
  GET_TIMEOUT, SET_TIMEOUT,   \* seconds a transaction waits
  RETRY,         \* HANDSHAKE_RETRY_INTERVAL_SEC
  LOOKUP,        \* seconds between lookups while DISCOVERING
  DUP_GUARD,     \* a second NEW_SERVER within this time is a duplicate
  REFRESH,       \* refresh_interval (-r), 0 is off
  POLL,          \* poll_interval with -p, 0 is off
  MODEM_BOOT,    \* seconds a modem needs to come back
  WRAP,          \* the modulus of the unsigned subtractions (2^64)
  MaxLookups,    \* bound: registrations the name service remembers
  FaultKinds, MaxFaults

Boots == 1..NBoots

ASSUME TimeAssumption ==
  /\ NBoots \in Nat \ {0}
  /\ PortOf \in [Boots -> Nat \ {0}]
  /\ {GET_TIMEOUT, SET_TIMEOUT, RETRY, LOOKUP, DUP_GUARD, MODEM_BOOT} \subseteq Nat \ {0}
  /\ {REFRESH, POLL, MaxLookups, MaxFaults} \subseteq Nat
  /\ WRAP \in Nat \ {0}

None == "none"
NoOff == [from |-> None, boot |-> 0, clk |-> 0, restored |-> FALSE]
NoRec == [off |-> NoOff, clk |-> 0, whole |-> TRUE]
Partial == [NoRec EXCEPT !.whole = FALSE]

VARIABLES
  loop,      \* where main() is: lookup, retry, refresh, periodic, poll; or off
  stack,     \* the transactions under way, innermost last
  st,        \* current_state
  conn,      \* modem_connected
  port,      \* modem_port
  marker,    \* /var/run/qcom-time-synced exists
  mem,       \* ats_state; NoRec when nothing is loaded
  fails,     \* consecutive_get_fails
  d,         \* loop's `now` minus last_x; negative when the stamp is newer
  lag,       \* seconds since the loop read `now`
  modem,     \* [boot, up, down, tod, user]
  air,       \* requests on their way to the modem
  rx,        \* packets in the daemon's socket
  lookups,   \* lookups the name service holds for the socket
  disk,      \* the record on flash
  clock,     \* the AP wall clock: 0 unset, 1 behind, 2 right, 3 ahead
  confirmed, \* history: the offsets some modem boot confirmed
  faults

daemon == <<loop, stack, st, conn, port, marker, mem, fails, d, lag>>
world == <<modem, lookups, clock, faults>>
vars == <<daemon, world, air, rx, disk, confirmed>>

Stamps == {"hs", "usr", "ka", "lk"}
CAP == RETRY + LOOKUP + REFRESH + POLL + DUP_GUARD

Elapsed(x) == d[x] % WRAP           \* uint64_t subtraction
SinceNow(x) == (d[x] + lag) % WRAP  \* the same with a fresh clock reading
Touched(f, x) == [f EXCEPT ![x] = -lag]
Forgotten(f, x) == [f EXCEPT ![x] = CAP]

Top == stack[Len(stack)]
Timeout(f) == IF f.op = "set" THEN SET_TIMEOUT ELSE GET_TIMEOUT
Waiting == stack # <<>> /\ Top.op \notin {"write", "rename"}
Expired == Waiting /\ Top.at >= Timeout(Top)
Usable == clock # 0 /\ ~(mem.clk # 0 /\ clock < mem.clk)

---------------------------------------------------------------------------
(* Requests, announcements.                                                *)

\* A lookup is remembered and answered at once when the service is there.
Announce(q) == IF modem.up THEN Append(q, [kind |-> "new", boot |-> modem.boot]) ELSE q
AddLookup == lookups' = IF lookups < MaxLookups THEN lookups + 1 ELSE lookups

\* qrtr_sendto: a request to a port nobody serves is lost.
Sent(q, depth, op, off) ==
  IF modem.up /\ port' = PortOf[modem.boot] THEN Append(q, [owner |-> depth, op |-> op, off |-> off]) ELSE q

\* The requests and the unread replies of depths above n lose their owner: a
\* SET still takes effect, a GET is answered to nobody, and a reply is read
\* only to be thrown away.
Orphan(q, n) == [i \in DOMAIN q |-> IF q[i].owner > n THEN [q[i] EXCEPT !.owner = 0] ELSE q[i]]
OrphanRx(q, n) ==
  [i \in DOMAIN q |-> IF q[i].kind = "resp" /\ q[i].owner > n THEN [q[i] EXCEPT !.owner = 0] ELSE q[i]]

Frame(job, op) == [job |-> job, op |-> op, at |-> 0, tod |-> 0, rtc |-> 0, off |-> NoOff, clk |-> 0]

\* run_handshake_state_machine up to its first wait, on the queue q of requests.
BeginHandshake(q) ==
  /\ st' = "syncing"
  /\ d' = Touched(d, "hs")
  /\ stack' = Append(stack, Frame("handshake", "tod"))
  /\ air' = Sent(q, Len(stack) + 1, "tod", NoOff)

---------------------------------------------------------------------------
(* handle_qrtr_packet.                                                     *)

Duplicate(p) == conn /\ st = "synced" /\ port = p /\ SinceNow("hs") < DUP_GUARD

NewServerAnyState(p) ==   \* mutant: the guard forgets the state
  IF conn /\ port = p /\ SinceNow("hs") < DUP_GUARD + RETRY
  THEN UNCHANGED <<st, conn, port, d, stack, air>>
  ELSE /\ conn' = TRUE
       /\ port' = p
       /\ BeginHandshake(air)

NewServer(p) ==
  IF Duplicate(p)
  THEN UNCHANGED <<st, conn, port, d, stack, air>>
  ELSE /\ conn' = TRUE
       /\ port' = p
       /\ BeginHandshake(air)


DelServer(p) ==
  IF p # port
  THEN UNCHANGED <<st, conn, port, d, marker, lookups>> /\ rx' = Tail(rx)
  ELSE /\ conn' = FALSE
       /\ port' = 0
       /\ st' = "discovering"
       /\ marker' = FALSE
       /\ d' = Forgotten(Forgotten(d, "hs"), "lk")
       /\ AddLookup
       /\ rx' = Announce(Tail(rx))


\* Indications and replies nobody at this depth waits for change nothing: the
\* reply to an outer transaction read by an inner one is gone.
HandlePacket ==
  LET p == Head(rx) IN
  /\ \/ /\ p.kind = "new"
        /\ NewServer(PortOf[p.boot])
        /\ rx' = Tail(rx)
        /\ UNCHANGED <<marker, lookups>>
     \/ /\ p.kind = "del"
        /\ DelServer(PortOf[p.boot])
        /\ UNCHANGED <<stack, air>>
     \/ /\ p.kind = "resp"
        /\ rx' = Tail(rx)
        /\ UNCHANGED <<st, conn, port, d, marker, lookups, stack, air>>
  /\ UNCHANGED <<mem, fails, lag, modem, disk, clock, confirmed, faults>>

---------------------------------------------------------------------------
(* One transaction: qmi_send_sync_transaction.                             *)

Mine(p) == p.kind = "resp" /\ p.owner = Len(stack)

Rest == SubSeq(stack, 1, Len(stack) - 1)
SetTop(f) == stack' = Append(Rest, f)

\* The next transaction of the same frame, sent to the port known now.
Ask(f, op) ==
  /\ SetTop([f EXCEPT !.op = op, !.at = 0])
  /\ port' = port
  /\ air' = Sent(Orphan(air, Len(stack) - 1), Len(stack), op, f.off)

Return ==
  /\ stack' = Rest
  /\ port' = port
  /\ air' = Orphan(air, Len(stack) - 1)

HandshakeFails(f) ==
  /\ Return
  /\ IF f.job = "handshake" THEN st' = "failed" /\ marker' = FALSE ELSE UNCHANGED <<st, marker>>
  /\ UNCHANGED <<d, fails>>

HandshakeSucceeds(f) ==
  /\ Return
  /\ IF f.job = "handshake"
     THEN st' = "synced" /\ fails' = 0 /\ d' = Touched(Touched(d, "usr"), "ka")
     ELSE UNCHANGED <<st, fails, d>>

GenOffTodAlone(f) ==   \* mutant: the result of the ATS_RTC read is not checked
  IF f.tod # 0
  THEN [from |-> "tod", boot |-> f.tod, clk |-> 0, restored |-> FALSE]
  ELSE IF ~Usable
       THEN [mem.off EXCEPT !.restored = mem # NoRec]
       ELSE [from |-> "ap", boot |-> f.rtc, clk |-> clock, restored |-> FALSE]

\* The offset send_ats_user_transaction chooses; NoOff when it refuses.
GenOff(f) ==
  IF f.tod # 0 /\ f.rtc # 0
  THEN [from |-> "tod", boot |-> IF f.tod = f.rtc THEN f.rtc ELSE 0, clk |-> 0, restored |-> FALSE]
  ELSE IF ~Usable
       THEN [mem.off EXCEPT !.restored = mem # NoRec]
       ELSE [from |-> "ap", boot |-> f.rtc, clk |-> clock, restored |-> FALSE]


\* A GET ended: val is the boot that answered with a value, 0 for none.
TodRead(val) ==
  /\ Top.job \in {"handshake", "refresh"} /\ Top.op = "tod"
  /\ Ask([Top EXCEPT !.tod = val], "rtc")
  /\ UNCHANGED <<st, marker, d, fails>>

RtcRead(val) ==
  LET f == [Top EXCEPT !.rtc = val]
      off == GenOff(f) IN
  /\ Top.job \in {"handshake", "refresh"} /\ Top.op = "rtc"
  /\ IF off.from = None
     THEN HandshakeFails(f)
     ELSE /\ Ask([f EXCEPT !.off = off, !.clk = clock], "set")
          /\ UNCHANGED <<st, marker, d, fails>>

\* ats_state_note_handshake skips a refresh that changes nothing.
Unchanged(f) == f.job = "refresh" /\ mem # NoRec /\ [mem.off EXCEPT !.restored = f.off.restored] = f.off

SetDoneUnchecked(ok) ==   \* mutant: a rejected SET is taken for a confirmation
  /\ Top.op = "set"
  /\ marker' = TRUE
  /\ \/ /\ SetTop([Top EXCEPT !.op = "write"])
        /\ air' = Orphan(air, Len(stack) - 1)
        /\ UNCHANGED <<port, st, d, fails>>
     \/ Unchanged(Top) /\ HandshakeSucceeds(Top)

SetDone(ok) ==
  /\ Top.op = "set"
  /\ \/ ~ok /\ HandshakeFails(Top)
     \/ /\ ok
        /\ marker' = TRUE
        /\ \/ /\ SetTop([Top EXCEPT !.op = "write"])
              /\ air' = Orphan(air, Len(stack) - 1)
              /\ UNCHANGED <<port, st, d, fails>>
           \/ Unchanged(Top) /\ HandshakeSucceeds(Top)

\* validate_periodic_time_get, and log_modem_uptime that follows it.
Validated(ok) ==
  /\ Top.job = "validate"
  /\ Ask(Frame("uptime", "rtc"), "rtc")
  /\ fails' = IF ok THEN 0 ELSE fails + 1
  /\ IF fails' >= 3 THEN st' = "failed" /\ marker' = FALSE ELSE UNCHANGED <<st, marker>>
  /\ UNCHANGED d

UptimeRead ==
  /\ Top.job = "uptime"
  /\ \/ Top.op = "rtc" /\ Ask(Top, "tod") /\ UNCHANGED d
     \/ Top.op = "tod" /\ Return /\ d' = [d EXCEPT !["ka"] = 0]
  /\ UNCHANGED <<st, marker, fails>>

\* The transaction of the innermost frame ended with this reply (or none).
TransactionEnds(ok, val) ==
  /\ \/ TodRead(val)
     \/ RtcRead(val)
     \/ SetDone(ok)
     \/ Validated(ok)
     \/ UptimeRead
  /\ UNCHANGED <<loop, conn, mem, lag, world, disk, confirmed>>

TakeReply ==
  /\ Waiting /\ ~Expired /\ rx # <<>>
  /\ Mine(Head(rx))
  /\ rx' = Tail(rx)
  /\ TransactionEnds(Head(rx).ok, IF Head(rx).ok THEN Head(rx).val ELSE 0)

HandleWhileWaiting ==
  /\ Waiting /\ ~Expired /\ rx # <<>>
  /\ ~Mine(Head(rx))
  /\ HandlePacket
  /\ UNCHANGED loop

\* The deadline is looked at before the socket: time spent in a nested
\* handshake counts, a reply already there does not.
TimesOut ==
  /\ Expired
  /\ rx' = OrphanRx(rx, Len(stack) - 1)
  /\ TransactionEnds(FALSE, 0)

WriteInPlace ==   \* mutant: no temporary file
  /\ stack # <<>> /\ Top.op = "write"
  /\ \/ SetTop([Top EXCEPT !.op = "rename"]) /\ UNCHANGED <<port, air, st, d, fails, faults>>
     \/ /\ "flash" \in FaultKinds /\ faults < MaxFaults
        /\ faults' = faults + 1
        /\ HandshakeSucceeds(Top)
  /\ disk' = Partial

\* ats_state_save: the record is complete under its temporary name before the
\* rename shows it; a crash in between leaves the old one.
WriteTemp ==
  /\ stack # <<>> /\ Top.op = "write"
  /\ \/ SetTop([Top EXCEPT !.op = "rename"]) /\ UNCHANGED <<port, air, st, d, fails, faults>>
     \/ /\ "flash" \in FaultKinds /\ faults < MaxFaults
        /\ faults' = faults + 1
        /\ HandshakeSucceeds(Top)
  /\ UNCHANGED disk


Write ==
  /\ WriteTemp
  /\ UNCHANGED <<loop, conn, marker, mem, lag, modem, rx, lookups, clock, confirmed>>

Rename ==
  /\ stack # <<>> /\ Top.op = "rename"
  /\ disk' = [off |-> [Top.off EXCEPT !.restored = FALSE], clk |-> Top.clk, whole |-> TRUE]
  /\ mem' = disk'
  /\ HandshakeSucceeds(Top)
  /\ UNCHANGED <<loop, conn, marker, lag, world, rx, confirmed>>

---------------------------------------------------------------------------
(* main().                                                                 *)

At(l) == loop = l /\ stack = <<>>

\* ats_state_load: a record that is not complete is no record.
Loaded == IF disk.whole THEN disk ELSE NoRec

Start ==
  /\ loop = "off"
  /\ mem' = Loaded
  /\ marker' = FALSE
  /\ d' = [x \in Stamps |-> IF x = "lk" THEN CAP ELSE 0]
  /\ AddLookup
  /\ rx' = Announce(<<>>)
  /\ loop' = "lookup"
  /\ UNCHANGED <<stack, st, conn, port, fails, lag, modem, air, disk, clock, confirmed, faults>>

Lookup ==
  /\ At("lookup")
  /\ LET at == [x \in Stamps |-> IF d[x] + lag > CAP THEN CAP ELSE d[x] + lag] IN
     IF st = "discovering" /\ at["lk"] % WRAP >= LOOKUP
     THEN d' = [at EXCEPT !["lk"] = 0] /\ AddLookup /\ rx' = Announce(rx)
     ELSE d' = at /\ UNCHANGED <<lookups, rx>>
  /\ lag' = 0
  /\ loop' = "retry"
  /\ UNCHANGED <<stack, st, conn, port, marker, mem, fails, modem, air, disk, clock, confirmed, faults>>

RetryOnlyOnce ==   \* mutant: only a pending handshake is retried, not a failed one
  /\ At("retry")
  /\ loop' = "refresh"
  /\ IF conn /\ st = "syncing" /\ Elapsed("hs") >= RETRY
     THEN port' = port /\ BeginHandshake(air)
     ELSE UNCHANGED <<port, st, d, stack, air>>
  /\ UNCHANGED <<conn, marker, mem, fails, lag, world, rx, disk, confirmed>>

Retry ==
  /\ At("retry")
  /\ loop' = "refresh"
  /\ IF conn /\ st # "synced" /\ Elapsed("hs") >= RETRY
     THEN port' = port /\ BeginHandshake(air)
     ELSE UNCHANGED <<port, st, d, stack, air>>
  /\ UNCHANGED <<conn, marker, mem, fails, lag, world, rx, disk, confirmed>>


Refresh ==
  /\ At("refresh")
  /\ loop' = "periodic"
  /\ port' = port
  /\ IF REFRESH > 0 /\ conn /\ st = "synced" /\ Elapsed("usr") >= REFRESH
     THEN /\ d' = [d EXCEPT !["usr"] = 0]
          /\ stack' = <<Frame("refresh", "tod")>>
          /\ air' = Sent(air, 1, "tod", NoOff)
     ELSE UNCHANGED <<d, stack, air>>
  /\ UNCHANGED <<st, conn, marker, mem, fails, lag, world, rx, disk, confirmed>>

Periodic ==
  /\ At("periodic")
  /\ loop' = "poll"
  /\ port' = port
  /\ IF POLL > 0 /\ conn /\ st = "synced" /\ Elapsed("ka") >= POLL
     THEN stack' = <<Frame("validate", "get")>> /\ air' = Sent(air, 1, "get", NoOff)
     ELSE UNCHANGED <<stack, air>>
  /\ UNCHANGED <<st, conn, marker, mem, fails, d, lag, world, rx, disk, confirmed>>

PollReads ==
  /\ At("poll") /\ rx # <<>>
  /\ HandlePacket
  /\ loop' = "lookup"

\* A second passes only while the daemon waits for something that is not there.
Tick ==
  /\ rx = <<>> /\ air = <<>>
  /\ \/ At("poll") /\ loop' = "lookup"
     \/ loop = "off" /\ ~modem.up /\ UNCHANGED loop
     \/ Waiting /\ ~Expired /\ UNCHANGED loop
  /\ stack' = [i \in DOMAIN stack |->
                 [stack[i] EXCEPT !.at = IF @ < Timeout(stack[i]) THEN @ + 1 ELSE @]]
  /\ lag' = IF loop = "off" THEN 0 ELSE lag + 1
  /\ modem' = [modem EXCEPT !.down = IF ~modem.up /\ @ < MODEM_BOOT THEN @ + 1 ELSE @]
  /\ UNCHANGED <<st, conn, port, marker, mem, fails, d, air, rx, lookups, disk, clock, confirmed, faults>>

Main == Start \/ Lookup \/ Retry \/ Refresh \/ Periodic \/ PollReads
Transactions == TakeReply \/ HandleWhileWaiting \/ TimesOut \/ Write \/ Rename

---------------------------------------------------------------------------
(* The modem, the name service, the clock, power.                          *)

Fault(k) == k \in FaultKinds /\ faults < MaxFaults /\ faults' = faults + 1

Reply(r, ok) ==
  [kind |-> "resp", owner |-> r.owner, ok |-> ok,
   val |-> IF r.op = "rtc" \/ (r.op = "tod" /\ modem.tod) THEN modem.boot ELSE 0]

Effect(r) ==
  /\ modem' = IF r.op = "set" THEN [modem EXCEPT !.user = r.off] ELSE modem
  /\ confirmed' = IF r.op = "set" THEN confirmed \cup {[r.off EXCEPT !.restored = FALSE]} ELSE confirmed

ModemAnswers ==
  /\ air # <<>> /\ modem.up
  /\ LET r == Head(air) IN
     \/ /\ Effect(r)
        /\ rx' = IF r.owner = 0 THEN rx ELSE Append(rx, Reply(r, TRUE))
        /\ UNCHANGED faults
     \/ Fault("reject") /\ r.owner # 0 /\ rx' = Append(rx, Reply(r, FALSE)) /\ UNCHANGED <<modem, confirmed>>
     \/ Fault("lose") /\ UNCHANGED <<modem, confirmed, rx>>
     \/ Fault("lose") /\ Effect(r) /\ UNCHANGED rx
  /\ air' = Tail(air)
  /\ UNCHANGED <<daemon, lookups, disk, clock>>

Packets(k, b) == [i \in 1..lookups |-> [kind |-> k, boot |-> b]]
Dead == [modem EXCEPT !.up = FALSE, !.down = 0, !.user = NoOff, !.tod = FALSE]

\* A restart of the modem, announced ("crash") or not ("silent").
ModemDies ==
  /\ modem.up /\ modem.boot < NBoots
  /\ \/ Fault("crash") /\ rx' = rx \o Packets("del", modem.boot)
     \/ Fault("silent") /\ UNCHANGED rx
  /\ modem' = Dead
  /\ air' = <<>>
  /\ UNCHANGED <<daemon, lookups, disk, clock, confirmed>>

ModemBoots ==
  /\ ~modem.up /\ modem.down = MODEM_BOOT
  /\ modem' = [modem EXCEPT !.up = TRUE, !.boot = modem.boot + 1]
  /\ rx' = rx \o Packets("new", modem.boot + 1)
  /\ UNCHANGED <<daemon, lookups, air, disk, clock, confirmed, faults>>

NitzLocks ==
  /\ modem.up /\ ~modem.tod
  /\ modem' = [modem EXCEPT !.tod = TRUE]
  /\ UNCHANGED <<daemon, lookups, air, rx, disk, clock, confirmed, faults>>

ClockSet ==
  /\ \/ clock # 2 /\ clock' = 2 /\ UNCHANGED faults
     \/ clock # 3 /\ Fault("ahead") /\ clock' = 3
  /\ UNCHANGED <<daemon, modem, lookups, air, rx, disk, confirmed>>

\* The process is gone; procd starts it again.
Gone ==
  /\ loop' = "off" /\ stack' = <<>> /\ st' = "discovering"
  /\ conn' = FALSE /\ port' = 0 /\ mem' = NoRec /\ fails' = 0
  /\ d' = [x \in Stamps |-> 0] /\ lag' = 0
  /\ rx' = <<>> /\ lookups' = 0

Killed ==
  /\ loop # "off" /\ Fault("kill")
  /\ Gone
  /\ air' = Orphan(air, 0)
  /\ UNCHANGED <<marker, modem, disk, clock, confirmed>>

PowerLoss ==
  /\ modem.boot < NBoots /\ Fault("power")
  /\ Gone
  /\ marker' = FALSE /\ air' = <<>> /\ modem' = Dead
  /\ clock' \in {0, 1}
  /\ UNCHANGED <<disk, confirmed>>

World == ModemAnswers \/ ModemDies \/ ModemBoots \/ NitzLocks \/ ClockSet \/ Killed \/ PowerLoss

Init ==
  /\ loop = "off" /\ stack = <<>> /\ st = "discovering"
  /\ conn = FALSE /\ port = 0 /\ mem = NoRec /\ fails = 0
  /\ d = [x \in Stamps |-> 0] /\ lag = 0
  /\ marker = FALSE /\ lookups = 0 /\ air = <<>> /\ rx = <<>>
  /\ modem \in [boot : {1}, up : {TRUE}, down : {0}, tod : BOOLEAN, user : {NoOff}]
  /\ disk = NoRec /\ clock \in 0..2 /\ confirmed = {} /\ faults = 0

Next == Main \/ Transactions \/ Tick \/ World

Spec == Init /\ [][Next]_vars

\* The process runs, time passes, and the modem answers and comes back.
Fairness == WF_vars(Main) /\ WF_vars(Transactions) /\ WF_vars(Tick)
            /\ WF_vars(ModemAnswers) /\ WF_vars(ModemBoots)
FairSpec == Spec /\ Fairness

---------------------------------------------------------------------------
(* Properties.                                                             *)

\* Nothing is on its way and the daemon is between two transactions.
Quiet == loop # "off" /\ stack = <<>> /\ rx = <<>> /\ modem.up

\* Whenever things are quiet, SYNCHRONIZED or the marker file, which
\* qcom-carrier-autocfg waits for, means that the modem, in the boot it is in,
\* has accepted an offset: no order of restarts, announcements, kills and
\* nested handshakes leaves the daemon content with a modem that was never set.
SyncedMeansSet == Quiet /\ (st = "synced" \/ marker) => modem.user # NoOff

\* An offset computed from the modem's own counters is accepted only by the
\* boot they were read in, although the modem may restart between two reads.
OffsetFitsBoot ==
  LET u == modem.user IN
  u # NoOff /\ ~u.restored /\ u.from = "tod" => u.boot = modem.boot

\* What is on flash was confirmed by a modem, through kills and power losses.
RecordConfirmed == disk.off # NoOff => disk.off \in confirmed

\* Once there is a record no crash leaves the flash without a whole one.
RecordKept == [][disk # NoRec => disk' # NoRec /\ disk'.whole]_vars

\* With the modem up for good and something to derive an offset from, the
\* daemon ends synchronized, with the marker, and stays so.
CanDerive == modem.up /\ (modem.tod \/ (clock = 2 /\ mem.clk <= 2))
StaysSynced == <>[]CanDerive => <>[](st = "synced" /\ marker)

\* The fallback's comment ("if network NITZ has not locked yet") and the
\* header's: a modem that has had its time of day since before the daemon
\* started, and lost no message, is not left with an offset from the AP clock.
NitzPreferred == modem.tod => [](Quiet /\ st = "synced" => modem.user.from # "ap")
===============================================================================
