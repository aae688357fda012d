--------------------------- MODULE TimeDaemon_proofs ---------------------------
(***************************************************************************)
(* Whatever the modem, the clock and the flash do: a daemon that has       *)
(* written a record never loses it again and only writes what the modem    *)
(* has confirmed, and an offset on its way fits the boot that is asked to  *)
(* take it.                                                                *)
(***************************************************************************)
EXTENDS TimeDaemon, TLAPS

(* The fields of offsets and frames, whose values no step types.           *)
OffFields(o) ==
    o = [from |-> o.from, boot |-> o.boot, clk |-> o.clk, restored |-> o.restored]
FrameFields(f) ==
    f = [job |-> f.job, op |-> f.op, at |-> f.at, tod |-> f.tod, rtc |-> f.rtc,
         off |-> f.off, clk |-> f.clk]

(* From the SET on a frame carries an offset: a handshake that can derive  *)
(* none fails before it.                                                   *)
Carries(f) == f.op \in {"set", "write", "rename"} => f.off.from # None
FrameOk(f) == FrameFields(f) /\ OffFields(f.off) /\ Carries(f)

StackInv(s) ==
    /\ s \in Seq({s[i] : i \in DOMAIN s})
    /\ \A i \in 1..Len(s) : FrameOk(s[i])

(* A record on flash is whole, and the one in memory has an offset's form. *)
RecInv ==
    /\ StackInv(stack)
    /\ OffFields(mem.off) /\ OffFields(disk.off)
    /\ disk.whole = TRUE

(* What a step may do to the record.                                       *)
Kept == disk # NoRec => disk' # NoRec /\ disk'.whole

-----------------------------------------------------------------------------
(* The stack of transactions.                                              *)
LEMMA OfItsOwn ==
    ASSUME NEW S, NEW s \in Seq(S)
    PROVE  s \in Seq({s[i] : i \in DOMAIN s})
  OBVIOUS

LEMMA Pushed ==
    ASSUME NEW s, StackInv(s), NEW f, FrameOk(f)
    PROVE  StackInv(Append(s, f))
<1> DEFINE S == {s[i] : i \in DOMAIN s} \union {f}
<1>1. s \in Seq(S)
  BY DEF StackInv
<1>2. Append(s, f) \in Seq(S) /\ Len(Append(s, f)) = Len(s) + 1
  BY <1>1
<1>3. \A i \in 1..Len(Append(s, f)) : FrameOk(Append(s, f)[i])
  <2> SUFFICES ASSUME NEW i \in 1..(Len(s) + 1) PROVE FrameOk(Append(s, f)[i])
    BY <1>2
  <2>1. CASE i = Len(s) + 1
    BY <1>1, <2>1
  <2>2. CASE i \in 1..Len(s)
    BY <1>1, <2>2 DEF StackInv
  <2> QED
    BY <1>1, <2>1, <2>2
<1>4. Append(s, f) \in Seq({Append(s, f)[i] : i \in DOMAIN Append(s, f)})
  <2> HIDE DEF S
  <2> QED
    BY <1>2, OfItsOwn
<1> QED
  BY <1>3, <1>4 DEF StackInv

LEMMA Popped ==
    ASSUME NEW s, StackInv(s), s # <<>>
    PROVE  StackInv(SubSeq(s, 1, Len(s) - 1)) /\ FrameOk(s[Len(s)])
<1> DEFINE S == {s[i] : i \in DOMAIN s}
           t == SubSeq(s, 1, Len(s) - 1)
<1>1. s \in Seq(S)
  BY DEF StackInv
<1> HIDE DEF S
<1>2. Len(s) \in Nat /\ Len(s) > 0
  BY <1>1
<1>3. t \in Seq(S) /\ Len(t) = Len(s) - 1 /\ \A i \in 1..(Len(s) - 1) : t[i] = s[i]
  <2>1. t \in Seq(S)
    BY <1>1, <1>2
  <2>2. Len(t) = Len(s) - 1
    <3>1. \A n \in Nat : n <= Len(s) => Len(SubSeq(s, 1, n)) = n
      BY <1>1
    <3>2. Len(s) - 1 \in Nat /\ Len(s) - 1 <= Len(s)
      BY <1>2
    <3> QED
      BY <3>1, <3>2, Zenon
  <2>3. \A i \in 1..(Len(s) - 1) : t[i] = s[i]
    BY <1>1, <1>2
  <2> QED
    BY <2>1, <2>2, <2>3
<1> HIDE DEF t
<1>4. t \in Seq({t[i] : i \in DOMAIN t})
  BY <1>3, OfItsOwn
<1>5. \A i \in 1..Len(t) : FrameOk(t[i])
  BY <1>2, <1>3 DEF StackInv
<1>6. FrameOk(s[Len(s)])
  BY <1>2 DEF StackInv
<1> QED
  BY <1>4, <1>5, <1>6 DEF StackInv, t

LEMMA NewFrame ==
    ASSUME NEW job, NEW op, op \notin {"set", "write", "rename"}
    PROVE  FrameOk(Frame(job, op))
  BY DEF FrameOk, FrameFields, OffFields, Carries, Frame, NoOff

(* What EXCEPT leaves of a frame, of an offset.                            *)
LEMMA OpChanged ==
    ASSUME NEW f, FrameFields(f), NEW op, NEW g, g = [f EXCEPT !.op = op]
    PROVE  FrameFields(g) /\ g.off = f.off /\ g.op = op /\ g.clk = f.clk
  BY DEF FrameFields

LEMMA Asked ==
    ASSUME NEW f, FrameFields(f), NEW op, NEW g, g = [f EXCEPT !.op = op, !.at = 0]
    PROVE  FrameFields(g) /\ g.off = f.off /\ g.op = op /\ g.tod = f.tod
  BY DEF FrameFields

LEMMA OffChosen ==
    ASSUME NEW f, FrameFields(f), NEW off, NEW clk, NEW g, g = [f EXCEPT !.off = off, !.clk = clk]
    PROVE  FrameFields(g) /\ g.off = off
  BY DEF FrameFields

LEMMA NotRestored ==
    ASSUME NEW o, OffFields(o), NEW g, g = [o EXCEPT !.restored = FALSE]
    PROVE  OffFields(g) /\ g.from = o.from
  BY DEF OffFields

LEMMA TopChanged ==
    ASSUME RecInv, stack # <<>>, NEW f, FrameOk(f), SetTop(f)
    PROVE  StackInv(stack')
  BY Popped, Pushed DEF SetTop, Rest, RecInv

LEMMA Returned ==
    ASSUME RecInv, stack # <<>>, Return
    PROVE  StackInv(stack')
  BY Popped DEF Return, Rest, RecInv

LEMMA TopOk ==
    ASSUME RecInv, stack # <<>>
    PROVE  FrameOk(Top)
  BY Popped DEF Top, RecInv

-----------------------------------------------------------------------------
(* A transaction ends, a packet is handled.                                *)
LEMMA PacketHandled ==
    ASSUME RecInv, HandlePacket
    PROVE  StackInv(stack') /\ UNCHANGED <<mem, disk>>
<1>1. stack' = stack \/ stack' = Append(stack, Frame("handshake", "tod"))
  BY DEF HandlePacket, NewServer, BeginHandshake
<1>2. UNCHANGED <<mem, disk>>
  BY DEF HandlePacket
<1> QED
  BY <1>1, <1>2, Pushed, NewFrame DEF RecInv

LEMMA Ended ==
    ASSUME RecInv, stack # <<>>, NEW ok, NEW val, TransactionEnds(ok, val)
    PROVE  StackInv(stack') /\ UNCHANGED <<mem, disk>>
<1>1. UNCHANGED <<mem, disk>>
  BY DEF TransactionEnds
<1>2. FrameOk(Top)
  BY TopOk
<1>3. CASE TodRead(val)
  <2> DEFINE g == [Top EXCEPT !.tod = val]
             f == [g EXCEPT !.op = "rtc", !.at = 0]
  <2>1. SetTop(f)
    BY <1>3 DEF TodRead, Ask
  <2>2. FrameFields(g)
    BY <1>2 DEF FrameOk, FrameFields
  <2>3. g.off = Top.off
    BY <1>2 DEF FrameOk, FrameFields
  <2>4. FrameFields(f) /\ f.op = "rtc" /\ f.off = g.off
    <3>1. f = [g EXCEPT !.op = "rtc", !.at = 0]
      OBVIOUS
    <3> HIDE DEF f, g
    <3> QED
      BY <2>2, <3>1 DEF FrameFields
  <2>5. FrameOk(f)
    <3> HIDE DEF f, g
    <3> QED
      BY <1>2, <2>3, <2>4 DEF FrameOk, Carries
  <2> QED
    BY <1>1, <2>1, <2>5, TopChanged
<1>4. CASE RtcRead(val)
  <2> DEFINE f == [Top EXCEPT !.rtc = val]
             off == GenOff(f)
             h == [f EXCEPT !.off = off, !.clk = clock]
             g == [h EXCEPT !.op = "set", !.at = 0]
  <2>1. CASE off.from = None
    BY <1>1, <1>4, <2>1, Returned DEF RtcRead, HandshakeFails
  <2>2. CASE off.from # None
    <3>1. SetTop(g)
      BY <1>4, <2>2 DEF RtcRead, Ask
    <3>2. OffFields(off)
      BY DEF GenOff, OffFields, RecInv
    <3>3. g.off = off /\ FrameFields(g)
      <4>1. FrameFields(f)
        BY <1>2 DEF FrameOk, FrameFields
      <4> HIDE DEF f, off
      <4>2. FrameFields(h) /\ h.off = off
        BY <4>1, OffChosen
      <4> HIDE DEF h
      <4> QED
        BY <4>2, Asked
    <3>4. FrameOk(g)
      BY <2>2, <3>2, <3>3 DEF FrameOk, Carries
    <3> QED
      BY <1>1, <3>1, <3>4, TopChanged
  <2> QED
    BY <2>1, <2>2
<1>5. CASE SetDone(ok)
  <2> DEFINE f == [Top EXCEPT !.op = "write"]
  <2>1. FrameOk(f)
    <3>1. FrameFields(f) /\ f.off = Top.off
      BY <1>2, OpChanged DEF FrameOk
    <3> QED
      BY <1>2, <1>5, <3>1 DEF FrameOk, Carries, SetDone
  <2>2. SetTop(f) \/ Return
    BY <1>5 DEF SetDone, HandshakeFails, HandshakeSucceeds
  <2> QED
    BY <1>1, <2>1, <2>2, TopChanged, Returned
<1>6. CASE Validated(ok)
  <2> DEFINE f == [Frame("uptime", "rtc") EXCEPT !.op = "rtc", !.at = 0]
  <2>1. SetTop(f)
    BY <1>6 DEF Validated, Ask
  <2>2. FrameOk(f)
    <3>1. FrameOk(Frame("uptime", "rtc"))
      BY NewFrame
    <3> DEFINE g == Frame("uptime", "rtc")
    <3>2. FrameFields(f) /\ f.off = g.off /\ f.op = "rtc"
      <4>1. FrameFields(g) /\ f = [g EXCEPT !.op = "rtc", !.at = 0]
        BY <3>1 DEF FrameOk
      <4> HIDE DEF f, g
      <4> QED
        BY <4>1 DEF FrameFields
    <3> QED
      BY <3>1, <3>2 DEF FrameOk, Carries
  <2> QED
    BY <1>1, <2>1, <2>2, TopChanged
<1>7. CASE UptimeRead
  <2> DEFINE f == [Top EXCEPT !.op = "tod", !.at = 0]
  <2>1. FrameOk(f)
    <3> DEFINE g == Top
    <3>1. FrameFields(f) /\ f.off = g.off /\ f.op = "tod"
      <4>1. FrameFields(g) /\ f = [g EXCEPT !.op = "tod", !.at = 0]
        BY <1>2 DEF FrameOk
      <4> HIDE DEF f, g
      <4> QED
        BY <4>1 DEF FrameFields
    <3> QED
      BY <1>2, <3>1 DEF FrameOk, Carries
  <2>2. SetTop(f) \/ Return
    BY <1>7 DEF UptimeRead, Ask
  <2> QED
    BY <1>1, <2>1, <2>2, TopChanged, Returned
<1> QED
  BY <1>3, <1>4, <1>5, <1>6, <1>7 DEF TransactionEnds

(* The record itself: WRITE prepares it, RENAME shows it.                  *)
LEMMA Recorded ==
    ASSUME RecInv, Write \/ Rename
    PROVE  RecInv' /\ Kept
<1>1. stack # <<>> /\ FrameOk(Top)
  BY TopOk DEF Write, WriteTemp, Rename
<1>2. CASE Write
  <2> DEFINE f == [Top EXCEPT !.op = "rename"]
  <2>1. FrameOk(f)
    <3>1. FrameFields(f) /\ f.off = Top.off
      BY <1>1, OpChanged DEF FrameOk
    <3> QED
      BY <1>1, <1>2, <3>1 DEF FrameOk, Carries, Write, WriteTemp
  <2>2. SetTop(f) \/ Return
    BY <1>2 DEF Write, WriteTemp, HandshakeSucceeds
  <2>3. UNCHANGED <<mem, disk>>
    BY <1>2 DEF Write, WriteTemp
  <2>4. StackInv(stack')
    BY <1>1, <2>1, <2>2, TopChanged, Returned
  <2> QED
    BY <2>3, <2>4 DEF RecInv, Kept
<1>3. CASE Rename
  <2> DEFINE off == [Top.off EXCEPT !.restored = FALSE]
  <2>1. OffFields(off) /\ off.from # None
    <3> DEFINE o == Top.off
    <3>1. OffFields(off) /\ off.from = o.from
      <4>1. OffFields(o)
        BY <1>1 DEF FrameOk
      <4>2. off = [o EXCEPT !.restored = FALSE]
        OBVIOUS
      <4> HIDE DEF o, off
      <4> QED
        BY <4>1, <4>2, NotRestored
    <3> QED
      BY <1>1, <1>3, <3>1 DEF FrameOk, Carries, Rename
  <2>2. disk' = [off |-> off, clk |-> Top.clk, whole |-> TRUE] /\ mem' = disk'
    BY <1>3 DEF Rename
  <2>3. disk'.off = off /\ mem'.off = off /\ disk'.whole = TRUE
    BY <2>2
  <2>4. StackInv(stack')
    BY <1>1, <1>3, Returned DEF Rename, HandshakeSucceeds
  <2>5. disk' # NoRec
    BY <2>1, <2>3 DEF NoRec, NoOff
  <2> HIDE DEF off
  <2>6. OffFields(mem'.off) /\ OffFields(disk'.off)
    BY <2>1, <2>3
  <2> QED
    BY <2>3, <2>4, <2>5, <2>6 DEF RecInv, Kept, OffFields
<1> QED
  BY <1>2, <1>3

LEMMA RecStep ==
    ASSUME RecInv, [Next]_vars
    PROVE  RecInv' /\ Kept
<1> USE DEF Kept
<1>1. CASE StackInv(stack') /\ UNCHANGED <<mem, disk>>
  BY <1>1 DEF RecInv
<1>2. CASE Start
  <2>1. UNCHANGED <<stack, disk>> /\ (mem' = disk \/ mem' = NoRec)
    BY <1>2 DEF Start, Loaded
  <2> QED
    BY <2>1 DEF RecInv, OffFields, NoRec, NoOff
<1>3. CASE Lookup
  BY <1>1, <1>3 DEF Lookup, RecInv
<1>4. CASE Retry
  <2>1. UNCHANGED <<mem, disk>>
        /\ (stack' = stack \/ stack' = Append(stack, Frame("handshake", "tod")))
    BY <1>4 DEF Retry, BeginHandshake, world
  <2> QED
    BY <1>1, <2>1, Pushed, NewFrame DEF RecInv
<1>5. CASE Refresh \/ Periodic
  <2>1. /\ UNCHANGED <<mem, disk>> /\ stack = <<>>
        /\ stack' \in {stack, <<Frame("refresh", "tod")>>, <<Frame("validate", "get")>>}
    BY <1>5 DEF Refresh, Periodic, At, world
  <2>2. Append(stack, Frame("refresh", "tod")) = <<Frame("refresh", "tod")>>
        /\ Append(stack, Frame("validate", "get")) = <<Frame("validate", "get")>>
    BY <2>1
  <2>3. StackInv(<<Frame("refresh", "tod")>>) /\ StackInv(<<Frame("validate", "get")>>)
    BY <2>2, Pushed, NewFrame, Zenon DEF RecInv
  <2> QED
    BY <1>1, <2>1, <2>3 DEF RecInv
<1>6. CASE PollReads \/ HandleWhileWaiting
  BY <1>1, <1>6, PacketHandled DEF PollReads, HandleWhileWaiting
<1>7. CASE TakeReply \/ TimesOut
  <2>1. stack # <<>> /\ \E ok, val : TransactionEnds(ok, val)
    BY <1>7 DEF TakeReply, TimesOut, Expired, Waiting
  <2> QED
    BY <1>1, <2>1, Ended
<1>8. CASE Write \/ Rename
  BY <1>8, Recorded
<1>9. CASE Tick
  <2> DEFINE F(i) == [stack[i] EXCEPT !.at = IF @ < Timeout(stack[i]) THEN @ + 1 ELSE @]
             t == [i \in DOMAIN stack |-> F(i)]
  <2>1. stack' = t /\ UNCHANGED <<mem, disk>>
    BY <1>9 DEF Tick
  <2>2. stack \in Seq({stack[i] : i \in DOMAIN stack}) /\ DOMAIN stack = 1..Len(stack)
        /\ Len(stack) \in Nat
    BY DEF RecInv, StackInv
  <2>3. \A i \in 1..Len(stack) : FrameOk(F(i))
    <3> SUFFICES ASSUME NEW i \in 1..Len(stack) PROVE FrameOk(F(i))
      OBVIOUS
    <3>1. FrameOk(stack[i])
      BY DEF RecInv, StackInv
    <3>2. FrameFields(F(i)) /\ F(i).off = stack[i].off /\ F(i).op = stack[i].op
      BY <3>1 DEF FrameOk, FrameFields
    <3> QED
      BY <3>1, <3>2, Zenon DEF FrameOk, Carries
  <2> HIDE DEF F
  <2>4. t \in Seq({F(i) : i \in 1..Len(stack)}) /\ Len(t) = Len(stack)
    BY <2>2
  <2>5. t \in Seq({t[i] : i \in DOMAIN t})
    BY <2>4, OfItsOwn
  <2>6. StackInv(t)
    BY <2>2, <2>3, <2>4, <2>5 DEF StackInv
  <2> QED
    BY <1>1, <2>1, <2>6
<1>10. CASE World
  <2>1. UNCHANGED disk /\ (UNCHANGED <<stack, mem>> \/ (stack' = <<>> /\ mem' = NoRec))
    BY <1>10 DEF World, ModemAnswers, ModemDies, ModemBoots, NitzLocks, ClockSet, Killed, PowerLoss,
       Gone, daemon
  <2>2. StackInv(<<>>) /\ OffFields(NoRec.off)
    BY DEF StackInv, OffFields, NoRec, NoOff
  <2> QED
    BY <2>1, <2>2 DEF RecInv
<1>11. CASE UNCHANGED vars
  BY <1>11 DEF vars, daemon, world, RecInv
<1> QED
  BY <1>2, <1>3, <1>4, <1>5, <1>6, <1>7, <1>8, <1>9, <1>10, <1>11 DEF Next, Main, Transactions

(* Once there is a record on flash no kill, power loss or full flash       *)
(* leaves it without a whole one, and no handshake replaces it by an empty *)
(* one (ats_state_save, ats_state_note_handshake).                         *)
THEOREM Survives == Spec => RecordKept
<1>1. Init => RecInv
  <2> SUFFICES ASSUME Init PROVE RecInv
    OBVIOUS
  <2>1. StackInv(stack)
    BY DEF Init, StackInv
  <2>2. OffFields(mem.off) /\ OffFields(disk.off) /\ disk.whole = TRUE
    BY DEF Init, NoRec, NoOff, OffFields
  <2> QED
    BY <2>1, <2>2 DEF RecInv
<1>2. RecInv /\ [Next]_vars => RecInv' /\ [Kept]_vars
  BY RecStep
<1> QED
  BY <1>1, <1>2, PTL DEF Spec, RecordKept, Kept
-----------------------------------------------------------------------------
(* Requests, replies and the frames that wait for them.  A request knows   *)
(* the frame that owns it by its depth; a frame has at most one request or *)
(* reply, which carries its offset, and a time of day that the frame has   *)
(* read before is of the boot b that is asked next.  c are the offsets     *)
(* that were confirmed.                                                    *)
Shown == {"write", "rename"}
Plain(o) == [o EXCEPT !.restored = FALSE]
Fits(o, b) == ~o.restored /\ o.from = "tod" => o.boot = b
SameBoot(f, b) == f.op = "rtc" => f.tod \in {0, b}

Waits(f, r, b) ==
    /\ r.op = f.op /\ f.op \notin Shown /\ SameBoot(f, b)
    /\ r.op = "set" => r.off = f.off
Request(s, r, b) ==
    /\ r = [owner |-> r.owner, op |-> r.op, off |-> r.off]
    /\ r.owner \in 0..Len(s)
    /\ r.owner # 0 => Waits(s[r.owner], r, b)
    /\ r.op = "set" => Fits(r.off, b)
Accepts(f, p, b, c) ==
    /\ f.op \notin Shown /\ SameBoot(f, b)
    /\ f.op = "set" /\ p.ok => Plain(f.off) \in c
Answer(s, p, b, c) ==
    p.kind = "resp" =>
      /\ p = [kind |-> p.kind, owner |-> p.owner, ok |-> p.ok, val |-> p.val]
      /\ p.owner \in 0..Len(s)
      /\ p.val \in {0, b}
      /\ p.owner # 0 => Accepts(s[p.owner], p, b, c)

OwnSeq(q) == q \in Seq({q[i] : i \in DOMAIN q})
OneEach(a, x) ==
    /\ \A i, j \in DOMAIN a : a[i].owner # 0 /\ a[i].owner = a[j].owner => i = j
    /\ \A i, j \in DOMAIN x :
         x[i].kind = "resp" /\ x[j].kind = "resp" /\ x[i].owner # 0 /\ x[i].owner = x[j].owner => i = j
    /\ \A i \in DOMAIN a, j \in DOMAIN x :
         x[j].kind = "resp" /\ a[i].owner # 0 => a[i].owner # x[j].owner
Linked(s, a, x, b, c) ==
    /\ OwnSeq(a) /\ OwnSeq(x)
    /\ \A i \in DOMAIN a : Request(s, a[i], b)
    /\ \A i \in DOMAIN x : Answer(s, x[i], b, c)
    /\ OneEach(a, x)

(* No request or reply is owned by a frame deeper than n.                  *)
UpTo(a, x, n) ==
    /\ \A i \in DOMAIN a : a[i].owner <= n
    /\ \A i \in DOMAIN x : x[i].kind = "resp" => x[i].owner <= n

(* Where the modem is: what is on its way to it is gone when it dies, what *)
(* it has answered is read before it is back.                              *)
ModemInv ==
    /\ modem = [boot |-> modem.boot, up |-> modem.up, down |-> modem.down,
                tod |-> modem.tod, user |-> modem.user]
    /\ lookups \in Nat
    /\ air # <<>> => modem.up
    /\ ~modem.up => modem.user = NoOff /\ (rx # <<>> => modem.down = 0)

(* What is or will be on flash was confirmed.                              *)
ShownOk(s, c) == \A n \in 1..Len(s) : s[n].op \in Shown => Plain(s[n].off) \in c

TimeInv ==
    /\ RecInv /\ Linked(stack, air, rx, modem.boot, confirmed) /\ ModemInv /\ ShownOk(stack, confirmed)
    /\ OffsetFitsBoot /\ RecordConfirmed

-----------------------------------------------------------------------------
(* Sequences of requests and of packets.                                   *)
LEMMA OwnOf == ASSUME NEW S, NEW q \in Seq(S) PROVE OwnSeq(q)
  BY OfItsOwn DEF OwnSeq

LEMMA OwnAdded ==
    ASSUME NEW q, OwnSeq(q), NEW e
    PROVE  /\ OwnSeq(Append(q, e)) /\ DOMAIN Append(q, e) = 1..(Len(q) + 1) /\ Len(q) \in Nat
           /\ DOMAIN q = 1..Len(q) /\ Append(q, e)[Len(q) + 1] = e
           /\ \A i \in DOMAIN q : Append(q, e)[i] = q[i]
<1> DEFINE S == {q[i] : i \in DOMAIN q} \union {e}
<1>1. q \in Seq(S) /\ e \in S
  BY DEF OwnSeq
<1> HIDE DEF S
<1>2. /\ Append(q, e) \in Seq(S) /\ DOMAIN Append(q, e) = 1..(Len(q) + 1) /\ Len(q) \in Nat
      /\ DOMAIN q = 1..Len(q) /\ Append(q, e)[Len(q) + 1] = e
      /\ \A i \in DOMAIN q : Append(q, e)[i] = q[i]
  BY <1>1
<1>3. OwnSeq(Append(q, e))
  BY <1>2, OwnOf, Zenon
<1> QED
  BY <1>2, <1>3

LEMMA OwnTaken ==
    ASSUME NEW q, OwnSeq(q), q # <<>>
    PROVE  /\ OwnSeq(Tail(q)) /\ 1 \in DOMAIN q /\ Head(q) = q[1]
           /\ \A i \in DOMAIN Tail(q) :
                i \in Nat \ {0} /\ i + 1 \in DOMAIN q /\ Tail(q)[i] = q[i + 1]
<1> DEFINE S == {q[i] : i \in DOMAIN q}
<1>1. q \in Seq(S)
  BY DEF OwnSeq
<1> HIDE DEF S
<1>2. /\ Tail(q) \in Seq(S) /\ 1 \in DOMAIN q /\ Head(q) = q[1]
      /\ \A i \in DOMAIN Tail(q) :
           i \in Nat \ {0} /\ i + 1 \in DOMAIN q /\ Tail(q)[i] = q[i + 1]
  BY <1>1
<1>3. OwnSeq(Tail(q))
  BY <1>2, OwnOf, Zenon
<1> QED
  BY <1>2, <1>3

LEMMA OwnJoined ==
    ASSUME NEW q, OwnSeq(q), NEW r, OwnSeq(r)
    PROVE  /\ OwnSeq(q \o r) /\ Len(q) \in Nat /\ DOMAIN q = 1..Len(q)
           /\ \A i \in DOMAIN (q \o r) :
                \/ i \in DOMAIN q /\ (q \o r)[i] = q[i]
                \/ i \notin DOMAIN q /\ i - Len(q) \in DOMAIN r /\ (q \o r)[i] = r[i - Len(q)]
<1> DEFINE S == {q[i] : i \in DOMAIN q} \union {r[i] : i \in DOMAIN r}
<1>1. q \in Seq(S) /\ r \in Seq(S)
  BY DEF OwnSeq
<1> HIDE DEF S
<1>2. /\ q \o r \in Seq(S) /\ Len(q) \in Nat /\ DOMAIN q = 1..Len(q)
      /\ \A i \in DOMAIN (q \o r) :
           \/ i \in DOMAIN q /\ (q \o r)[i] = q[i]
           \/ i \notin DOMAIN q /\ i - Len(q) \in DOMAIN r /\ (q \o r)[i] = r[i - Len(q)]
  BY <1>1
<1>3. OwnSeq(q \o r)
  BY <1>2, OwnOf, Zenon
<1> QED
  BY <1>2, <1>3

LEMMA OwnMapped ==
    ASSUME NEW q, OwnSeq(q), NEW t, DOMAIN t = DOMAIN q, t = [i \in DOMAIN q |-> t[i]]
    PROVE  OwnSeq(t)
<1> DEFINE S == {t[i] : i \in DOMAIN t}
<1>1. DOMAIN q = 1..Len(q) /\ Len(q) \in Nat
  BY DEF OwnSeq
<1>2. \A i \in 1..Len(q) : t[i] \in S
  BY <1>1
<1> HIDE DEF S
<1>3. [i \in 1..Len(q) |-> t[i]] \in Seq(S)
  BY <1>1, <1>2
<1>4. t \in Seq(S)
  BY <1>1, <1>3
<1> QED
  BY <1>4 DEF OwnSeq, S

(* What is linked stays linked: more is confirmed, a packet is read or     *)
(* announced, a frame changes that nothing on its way belongs to.          *)
LEMMA MoreConfirmed ==
    ASSUME NEW s, NEW a, NEW x, NEW b, NEW c, NEW e, Linked(s, a, x, b, c), c \subseteq e
    PROVE  Linked(s, a, x, b, e)
  BY Zenon DEF Linked, Answer, Accepts

LEMMA PacketRead ==
    ASSUME NEW s, NEW a, NEW x, NEW b, NEW c, Linked(s, a, x, b, c), x # <<>>
    PROVE  Linked(s, a, Tail(x), b, c)
<1>1. /\ OwnSeq(Tail(x))
      /\ \A i \in DOMAIN Tail(x) : i \in Nat /\ i + 1 \in DOMAIN x /\ Tail(x)[i] = x[i + 1]
  BY OwnTaken DEF Linked
<1> DEFINE y == Tail(x)
<1> HIDE DEF y
<1>2. OwnSeq(y) /\ \A i \in DOMAIN y : i \in Nat /\ i + 1 \in DOMAIN x /\ y[i] = x[i + 1]
  BY <1>1 DEF y
<1>3. \A i \in DOMAIN y : Answer(s, y[i], b, c)
  BY <1>2 DEF Linked
<1>4. \A i, j \in DOMAIN y : i + 1 = j + 1 => i = j
  BY <1>2
<1>5. OneEach(a, y)
  <2>1. \A i, j \in DOMAIN y :
          y[i].kind = "resp" /\ y[j].kind = "resp" /\ y[i].owner # 0 /\ y[i].owner = y[j].owner => i = j
    BY <1>2, <1>4 DEF Linked, OneEach
  <2> QED
    BY <1>2, <2>1 DEF Linked, OneEach
<1> QED
  BY <1>2, <1>3, <1>5 DEF Linked, y

LEMMA News ==
    ASSUME NEW s, NEW a, NEW x, NEW b, NEW c, Linked(s, a, x, b, c),
           NEW y, OwnSeq(y),
           \A i \in DOMAIN y : y[i].kind # "resp" \/ (i \in DOMAIN x /\ y[i] = x[i])
    PROVE  Linked(s, a, y, b, c)
<1>1. \A i \in DOMAIN y : y[i].kind = "resp" => i \in DOMAIN x /\ y[i] = x[i]
  OBVIOUS
<1>2. \A i \in DOMAIN y : Answer(s, y[i], b, c)
  BY <1>1, Zenon DEF Linked, Answer
<1>3. OneEach(a, y)
  <2>1. \A i, j \in DOMAIN y :
          y[i].kind = "resp" /\ y[j].kind = "resp" /\ y[i].owner # 0 /\ y[i].owner = y[j].owner => i = j
    BY <1>1 DEF Linked, OneEach
  <2>2. \A i \in DOMAIN a, j \in DOMAIN y :
          y[j].kind = "resp" /\ a[i].owner # 0 => a[i].owner # y[j].owner
    BY <1>1 DEF Linked, OneEach
  <2> QED
    BY <2>1, <2>2 DEF Linked, OneEach
<1> QED
  BY <1>2, <1>3 DEF Linked

LEMMA OtherFrames ==
    ASSUME NEW s, NEW a, NEW x, NEW b, NEW c, Linked(s, a, x, b, c),
           NEW t, Len(t) \in Nat, NEW n \in 0..Len(t), UpTo(a, x, n),
           \A i \in 1..n : t[i] = s[i]
    PROVE  Linked(t, a, x, b, c)
<1>1. \A i \in DOMAIN a : a[i].owner \in 0..n /\ (a[i].owner # 0 => t[a[i].owner] = s[a[i].owner])
  BY DEF Linked, Request, UpTo
<1>2. \A i \in DOMAIN x : x[i].kind = "resp" =>
        x[i].owner \in 0..n /\ (x[i].owner # 0 => t[x[i].owner] = s[x[i].owner])
  BY DEF Linked, Answer, UpTo
<1>3. \A m : m \in 0..n => m \in 0..Len(t)
  OBVIOUS
<1>4. \A i \in DOMAIN a : Request(t, a[i], b)
  <2> SUFFICES ASSUME NEW i \in DOMAIN a PROVE Request(t, a[i], b)
    OBVIOUS
  <2>1. Request(s, a[i], b)
    BY DEF Linked
  <2> QED
    BY <1>1, <1>3, <2>1, Zenon DEF Request
<1>5. \A i \in DOMAIN x : Answer(t, x[i], b, c)
  <2> SUFFICES ASSUME NEW i \in DOMAIN x PROVE Answer(t, x[i], b, c)
    OBVIOUS
  <2>1. Answer(s, x[i], b, c)
    BY DEF Linked
  <2> QED
    BY <1>2, <1>3, <2>1, Zenon DEF Answer
<1> QED
  BY <1>4, <1>5 DEF Linked

LEMMA Posted ==
    ASSUME NEW s, NEW a, NEW x, NEW b, NEW c, Linked(s, a, x, b, c),
           Len(s) \in Nat \ {0}, UpTo(a, x, Len(s) - 1), NEW op, NEW off,
           NEW r, r = [owner |-> Len(s), op |-> op, off |-> off],
           Waits(s[Len(s)], r, b), op = "set" => Fits(off, b)
    PROVE  Linked(s, Append(a, r), x, b, c)
<1> DEFINE y == Append(a, r)
           n == Len(a)
<1>1. /\ OwnSeq(y) /\ DOMAIN y = 1..(n + 1) /\ DOMAIN a = 1..n /\ n \in Nat
      /\ y[n + 1] = r /\ \A i \in DOMAIN a : y[i] = a[i]
  BY OwnAdded DEF Linked
<1> HIDE DEF y, n
<1>2. r.owner = Len(s) /\ r.op = op /\ r.off = off
  OBVIOUS
<1>3. Request(s, r, b)
  BY <1>2 DEF Request
<1>4. \A i \in DOMAIN y : i = n + 1 \/ i \in DOMAIN a
  BY <1>1
<1>5. \A i \in DOMAIN y : Request(s, y[i], b)
  BY <1>1, <1>3, <1>4 DEF Linked
<1>6. (\A i \in DOMAIN a : a[i].owner # Len(s))
      /\ \A i \in DOMAIN x : x[i].kind = "resp" => x[i].owner # Len(s)
  BY DEF UpTo, Linked, Request, Answer
<1>7. OneEach(y, x)
  <2>1. \A i, j \in DOMAIN y : y[i].owner # 0 /\ y[i].owner = y[j].owner => i = j
    <3> SUFFICES ASSUME NEW i \in DOMAIN y, NEW j \in DOMAIN y, y[i].owner # 0, y[i].owner = y[j].owner
                 PROVE  i = j
      OBVIOUS
    <3>1. CASE i \in DOMAIN a /\ j \in DOMAIN a
      BY <1>1, <3>1 DEF Linked, OneEach
    <3>2. CASE i = n + 1 \/ j = n + 1
      BY <1>1, <1>2, <1>4, <1>6, <3>2
    <3> QED
      BY <1>4, <3>1, <3>2
  <2>2. \A i \in DOMAIN y, j \in DOMAIN x :
          x[j].kind = "resp" /\ y[i].owner # 0 => y[i].owner # x[j].owner
    <3> SUFFICES ASSUME NEW i \in DOMAIN y, NEW j \in DOMAIN x, x[j].kind = "resp", y[i].owner # 0
                 PROVE  y[i].owner # x[j].owner
      OBVIOUS
    <3>1. CASE i \in DOMAIN a
      BY <1>1, <3>1 DEF Linked, OneEach
    <3>2. CASE i = n + 1
      BY <1>1, <1>2, <1>6, <3>2
    <3> QED
      BY <1>4, <3>1, <3>2
  <2> QED
    BY <2>1, <2>2 DEF Linked, OneEach
<1> QED
  BY <1>1, <1>5, <1>7 DEF Linked, y

(* Requests and replies lose their owner.                                  *)
LEMMA RequestsOrphaned ==
    ASSUME NEW s, NEW a, NEW x, NEW b, NEW c, Linked(s, a, x, b, c), NEW n \in Nat
    PROVE  /\ Linked(s, Orphan(a, n), x, b, c)
           /\ \A i \in DOMAIN Orphan(a, n) : Orphan(a, n)[i].owner <= n
<1> DEFINE t == Orphan(a, n)
<1>1. /\ DOMAIN t = DOMAIN a /\ t = [i \in DOMAIN a |-> t[i]]
      /\ \A i \in DOMAIN a : t[i] = IF a[i].owner > n THEN [a[i] EXCEPT !.owner = 0] ELSE a[i]
  BY DEF Orphan
<1> HIDE DEF t
<1>2. OwnSeq(t)
  BY <1>1, OwnMapped DEF Linked
<1>3. ASSUME NEW i \in DOMAIN a
      PROVE  /\ Request(s, t[i], b) /\ t[i].owner \in {0, a[i].owner} /\ t[i].owner <= n
  <2>1. Request(s, a[i], b) /\ a[i].owner \in Nat
    BY DEF Linked, Request
  <2>2. CASE a[i].owner > n
    <3> DEFINE r == a[i]
               q == t[i]
    <3>1. q = [r EXCEPT !.owner = 0] /\ r = [owner |-> r.owner, op |-> r.op, off |-> r.off]
      BY <1>1, <2>1, <2>2 DEF Request
    <3> HIDE DEF r, q
    <3>2. q = [owner |-> 0, op |-> r.op, off |-> r.off]
      BY <3>1
    <3>3. q = [owner |-> q.owner, op |-> q.op, off |-> q.off] /\ q.owner = 0 /\ q.op = r.op /\ q.off = r.off
      BY <3>2
    <3>4. 0 \in 0..Len(s)
      BY <2>1 DEF Request
    <3> QED
      BY <2>1, <3>3, <3>4 DEF Request, q, r
  <2>3. CASE ~(a[i].owner > n)
    BY <1>1, <2>1, <2>3
  <2> QED
    BY <2>2, <2>3
<1>4. OneEach(t, x)
  <2>1. \A i, j \in DOMAIN t : t[i].owner # 0 /\ t[i].owner = t[j].owner => i = j
    BY <1>1, <1>3 DEF Linked, OneEach
  <2>2. \A i \in DOMAIN t, j \in DOMAIN x :
          x[j].kind = "resp" /\ t[i].owner # 0 => t[i].owner # x[j].owner
    BY <1>1, <1>3 DEF Linked, OneEach
  <2> QED
    BY <2>1, <2>2 DEF Linked, OneEach
<1> QED
  BY <1>1, <1>2, <1>3, <1>4 DEF Linked, t

LEMMA RepliesOrphaned ==
    ASSUME NEW s, NEW a, NEW x, NEW b, NEW c, Linked(s, a, x, b, c), NEW n \in Nat
    PROVE  /\ Linked(s, a, OrphanRx(x, n), b, c)
           /\ \A i \in DOMAIN OrphanRx(x, n) :
                OrphanRx(x, n)[i].kind = "resp" => OrphanRx(x, n)[i].owner <= n
<1> DEFINE t == OrphanRx(x, n)
<1>1. /\ DOMAIN t = DOMAIN x /\ t = [i \in DOMAIN x |-> t[i]]
      /\ \A i \in DOMAIN x : t[i] = IF x[i].kind = "resp" /\ x[i].owner > n
                                   THEN [x[i] EXCEPT !.owner = 0] ELSE x[i]
  BY DEF OrphanRx
<1> HIDE DEF t
<1>2. OwnSeq(t)
  BY <1>1, OwnMapped DEF Linked
<1>3. ASSUME NEW i \in DOMAIN x
      PROVE  /\ Answer(s, t[i], b, c)
             /\ t[i].kind = "resp" =>
                  x[i].kind = "resp" /\ t[i].owner \in {0, x[i].owner} /\ t[i].owner <= n
  <2>1. Answer(s, x[i], b, c)
    BY DEF Linked
  <2>2. CASE x[i].kind = "resp" /\ x[i].owner > n
    <3> DEFINE r == x[i]
               q == t[i]
    <3>1. /\ q = [r EXCEPT !.owner = 0]
          /\ r = [kind |-> r.kind, owner |-> r.owner, ok |-> r.ok, val |-> r.val]
      BY <1>1, <2>1, <2>2 DEF Answer
    <3> HIDE DEF r, q
    <3>2. q = [kind |-> r.kind, owner |-> 0, ok |-> r.ok, val |-> r.val]
      BY <3>1
    <3>3. /\ q = [kind |-> q.kind, owner |-> q.owner, ok |-> q.ok, val |-> q.val]
          /\ q.owner = 0 /\ q.val = r.val /\ q.kind = r.kind
      BY <3>2
    <3>4. 0 \in 0..Len(s) /\ r.val \in {0, b}
      BY <2>1, <2>2 DEF Answer, r
    <3>5. Answer(s, q, b, c)
      BY <3>3, <3>4 DEF Answer
    <3>6. q.owner <= n
      BY <3>3
    <3> QED
      BY <2>2, <3>3, <3>5, <3>6 DEF q, r
  <2>3. CASE ~(x[i].kind = "resp" /\ x[i].owner > n)
    <3>1. t[i] = x[i]
      BY <1>1, <2>3, Zenon
    <3>2. x[i].kind = "resp" => x[i].owner <= n
      BY <2>1, <2>3 DEF Answer
    <3> QED
      BY <2>1, <3>1, <3>2
  <2> QED
    BY <2>2, <2>3
<1>4. OneEach(a, t)
  <2>1. \A i, j \in DOMAIN t :
          t[i].kind = "resp" /\ t[j].kind = "resp" /\ t[i].owner # 0 /\ t[i].owner = t[j].owner => i = j
    BY <1>1, <1>3 DEF Linked, OneEach
  <2>2. \A i \in DOMAIN a, j \in DOMAIN t :
          t[j].kind = "resp" /\ a[i].owner # 0 => a[i].owner # t[j].owner
    BY <1>1, <1>3 DEF Linked, OneEach
  <2> QED
    BY <2>1, <2>2 DEF Linked, OneEach
<1> QED
  BY <1>1, <1>2, <1>3, <1>4 DEF Linked, t

(* The reply to the innermost transaction is taken: it was the only one.   *)
LEMMA ReplyTaken ==
    ASSUME NEW s, Len(s) \in Nat \ {0}, NEW a, NEW x, NEW b, NEW c, Linked(s, a, x, b, c),
           x # <<>>, Head(x).kind = "resp", Head(x).owner = Len(s)
    PROVE  LET t == Orphan(a, Len(s) - 1) IN
           /\ Linked(s, t, Tail(x), b, c) /\ UpTo(t, Tail(x), Len(s) - 1)
           /\ Accepts(s[Len(s)], Head(x), b, c) /\ Head(x).val \in {0, b}
<1> DEFINE t == Orphan(a, Len(s) - 1)
           y == Tail(x)
           n == Len(s)
<1>1. n - 1 \in Nat /\ n # 0 /\ n \in Nat
  OBVIOUS
<1>2. Linked(s, a, y, b, c)
  BY PacketRead
<1>3. Linked(s, t, y, b, c) /\ \A i \in DOMAIN t : t[i].owner <= n - 1
  BY <1>1, <1>2, RequestsOrphaned
<1>4. /\ 1 \in DOMAIN x /\ Head(x) = x[1]
      /\ \A i \in DOMAIN y : i \in Nat \ {0} /\ i + 1 \in DOMAIN x /\ y[i] = x[i + 1]
  BY OwnTaken DEF Linked
<1>5. Answer(s, x[1], b, c)
  BY <1>4 DEF Linked
<1>6. Accepts(s[n], Head(x), b, c) /\ Head(x).val \in {0, b}
  BY <1>1, <1>4, <1>5 DEF Answer
<1> HIDE DEF t, y
<1>7. ASSUME NEW i \in DOMAIN y, y[i].kind = "resp" PROVE y[i].owner <= n - 1
  <2>1. i + 1 \in DOMAIN x /\ y[i] = x[i + 1] /\ i + 1 # 1
    BY <1>4
  <2>2. y[i].owner # n
    BY <1>1, <1>4, <1>7, <2>1 DEF Linked, OneEach
  <2>3. y[i].owner \in 0..n
    BY <1>2, <1>7 DEF Linked, Answer
  <2> QED
    BY <1>1, <2>2, <2>3
<1>8. UpTo(t, y, n - 1)
  BY <1>3, <1>7 DEF UpTo
<1> QED
  BY <1>3, <1>6, <1>8 DEF t, y

-----------------------------------------------------------------------------
(* The innermost frame goes, or takes its next step.                       *)
LEMMA RestIs ==
    ASSUME NEW s, StackInv(s), s # <<>>
    PROVE  LET t == SubSeq(s, 1, Len(s) - 1) IN
           Len(s) \in Nat \ {0} /\ Len(t) = Len(s) - 1 /\ \A i \in 1..(Len(s) - 1) : t[i] = s[i]
<1> DEFINE S == {s[i] : i \in DOMAIN s}
           t == SubSeq(s, 1, Len(s) - 1)
<1>1. s \in Seq(S)
  BY DEF StackInv
<1> HIDE DEF S
<1>2. Len(s) \in Nat /\ Len(s) > 0
  BY <1>1
<1>3. Len(t) = Len(s) - 1
  <2>1. \A n \in Nat : n <= Len(s) => Len(SubSeq(s, 1, n)) = n
    BY <1>1
  <2>2. Len(s) - 1 \in Nat /\ Len(s) - 1 <= Len(s)
    BY <1>2
  <2> QED
    BY <2>1, <2>2, Zenon
<1>4. \A i \in 1..(Len(s) - 1) : t[i] = s[i]
  BY <1>1, <1>2
<1> QED
  BY <1>2, <1>3, <1>4

LEMMA TopIs ==
    ASSUME NEW s, StackInv(s), s # <<>>, NEW f
    PROVE  LET t == Append(SubSeq(s, 1, Len(s) - 1), f) IN
           /\ Len(t) = Len(s) /\ t[Len(s)] = f /\ \A i \in 1..(Len(s) - 1) : t[i] = s[i]
           /\ Len(s) \in Nat \ {0}
<1> DEFINE r == SubSeq(s, 1, Len(s) - 1)
           t == Append(r, f)
<1>1. Len(s) \in Nat \ {0} /\ Len(r) = Len(s) - 1 /\ \A i \in 1..(Len(s) - 1) : r[i] = s[i]
  BY RestIs
<1>2. OwnSeq(r)
  BY Popped DEF StackInv, OwnSeq
<1> HIDE DEF r
<1>3. /\ DOMAIN t = 1..(Len(r) + 1) /\ DOMAIN r = 1..Len(r) /\ t[Len(r) + 1] = f
      /\ \A i \in DOMAIN r : t[i] = r[i]
  BY <1>2, OwnAdded
<1>4. Len(t) = Len(r) + 1
  BY <1>2 DEF OwnSeq
<1> QED
  BY <1>1, <1>3, <1>4 DEF r

LEMMA FrameLeft ==
    ASSUME NEW s, StackInv(s), s # <<>>, NEW a, NEW x, NEW b, NEW c,
           Linked(s, a, x, b, c), UpTo(a, x, Len(s) - 1), ShownOk(s, c)
    PROVE  LET t == SubSeq(s, 1, Len(s) - 1) IN Linked(t, a, x, b, c) /\ ShownOk(t, c)
<1> DEFINE t == SubSeq(s, 1, Len(s) - 1)
<1>1. Len(s) \in Nat \ {0} /\ Len(t) = Len(s) - 1 /\ \A i \in 1..(Len(s) - 1) : t[i] = s[i]
  BY RestIs
<1> HIDE DEF t
<1>2. Len(t) \in Nat /\ Len(s) - 1 \in 0..Len(t)
  BY <1>1
<1>3. Linked(t, a, x, b, c)
  BY <1>1, <1>2, OtherFrames
<1>4. ShownOk(t, c)
  BY <1>1 DEF ShownOk
<1> QED
  BY <1>3, <1>4 DEF t

LEMMA FrameStepped ==
    ASSUME NEW s, StackInv(s), s # <<>>, NEW a, NEW x, NEW b, NEW c,
           Linked(s, a, x, b, c), UpTo(a, x, Len(s) - 1), ShownOk(s, c),
           NEW f, f.op \in Shown => Plain(f.off) \in c
    PROVE  LET t == Append(SubSeq(s, 1, Len(s) - 1), f) IN Linked(t, a, x, b, c) /\ ShownOk(t, c)
<1> DEFINE t == Append(SubSeq(s, 1, Len(s) - 1), f)
<1>1. /\ Len(t) = Len(s) /\ t[Len(s)] = f /\ \A i \in 1..(Len(s) - 1) : t[i] = s[i]
      /\ Len(s) \in Nat \ {0}
  BY TopIs
<1> HIDE DEF t
<1>2. Len(t) \in Nat /\ Len(s) - 1 \in 0..Len(t)
  BY <1>1
<1>3. Linked(t, a, x, b, c)
  BY <1>1, <1>2, OtherFrames
<1>4. \A i \in 1..Len(t) : i = Len(s) \/ (i \in 1..(Len(s) - 1) /\ i \in 1..Len(s))
  BY <1>1
<1>5. ShownOk(t, c)
  BY <1>1, <1>4 DEF ShownOk
<1> QED
  BY <1>3, <1>5 DEF t

LEMMA FrameAsks ==
    ASSUME NEW s, StackInv(s), s # <<>>, NEW a, NEW x, NEW b, NEW c,
           Linked(s, a, x, b, c), UpTo(a, x, Len(s) - 1), ShownOk(s, c),
           NEW f, f.op \notin Shown, SameBoot(f, b),
           NEW off, f.op = "set" => f.off = off /\ Fits(off, b),
           NEW q, q \in {a, Append(a, [owner |-> Len(s), op |-> f.op, off |-> off])}
    PROVE  LET t == Append(SubSeq(s, 1, Len(s) - 1), f) IN Linked(t, q, x, b, c) /\ ShownOk(t, c)
<1> DEFINE t == Append(SubSeq(s, 1, Len(s) - 1), f)
           r == [owner |-> Len(s), op |-> f.op, off |-> off]
<1>1. Linked(t, a, x, b, c) /\ ShownOk(t, c)
  BY FrameStepped
<1>2. Len(t) = Len(s) /\ t[Len(s)] = f /\ Len(s) \in Nat \ {0}
  BY TopIs
<1>3. Waits(f, r, b)
  BY DEF Waits
<1> HIDE DEF t
<1>4. CASE q = Append(a, r)
  <2> DEFINE op == f.op
  <2>1. /\ r = [owner |-> Len(t), op |-> op, off |-> off] /\ Waits(t[Len(t)], r, b)
        /\ op = "set" => Fits(off, b)
    BY <1>2, <1>3
  <2>2. Len(t) \in Nat \ {0} /\ UpTo(a, x, Len(t) - 1)
    BY <1>2
  <2> HIDE DEF r, op
  <2>3. Linked(t, Append(a, r), x, b, c)
    BY <1>1, <2>1, <2>2, Posted
  <2> QED
    BY <1>1, <1>4, <2>3 DEF t
<1> QED
  BY <1>1, <1>4 DEF t

(* Sent posts a request or loses it.                                       *)
LEMMA SentOrLost ==
    ASSUME NEW q, NEW n, NEW op, NEW off
    PROVE  Sent(q, n, op, off) \in {q, Append(q, [owner |-> n, op |-> op, off |-> off])}
  BY DEF Sent

(* A frame asks its next question.                                         *)
LEMMA AskedNext ==
    ASSUME RecInv, stack # <<>>, NEW a, NEW x, NEW b, NEW c,
           a = Orphan(air, Len(stack) - 1),
           Linked(stack, a, x, b, c), UpTo(a, x, Len(stack) - 1), ShownOk(stack, c),
           NEW f, FrameFields(f), NEW op, op \notin Shown, Ask(f, op),
           op = "rtc" => f.tod \in {0, b}, op = "set" => Fits(f.off, b)
    PROVE  Linked(stack', air', x, b, c) /\ ShownOk(stack', c)
<1> DEFINE g == [f EXCEPT !.op = op, !.at = 0]
           off == f.off
<1>1. stack' = Append(SubSeq(stack, 1, Len(stack) - 1), g) /\ air' = Sent(a, Len(stack), op, off)
  BY DEF Ask, SetTop, Rest
<1>2. g.op = op /\ g.tod = f.tod /\ g.off = off
  <2>1. g = [f EXCEPT !.op = op, !.at = 0]
    OBVIOUS
  <2> HIDE DEF g
  <2> QED
    BY <2>1 DEF FrameFields
<1>3. air' \in {a, Append(a, [owner |-> Len(stack), op |-> g.op, off |-> off])}
  BY <1>1, <1>2, SentOrLost
<1>4. g.op \notin Shown /\ SameBoot(g, b) /\ (g.op = "set" => g.off = off /\ Fits(off, b))
  BY <1>2 DEF SameBoot
<1>5. StackInv(stack)
  BY DEF RecInv
<1> HIDE DEF g, off
<1> QED
  BY <1>1, <1>3, <1>4, <1>5, FrameAsks

(* An offset that is worked out from the modem's counters is of the boot   *)
(* that both were read in.                                                 *)
LEMMA GenOffFits ==
    ASSUME RecInv, NEW f, NEW b, f.tod \in {0, b}, f.rtc \in {0, b}, GenOff(f).from # None
    PROVE  Fits(GenOff(f), b)
<1>1. CASE f.tod # 0 /\ f.rtc # 0
  <2>1. GenOff(f).boot = b
    BY <1>1 DEF GenOff
  <2> QED
    BY <2>1 DEF Fits
<1>2. CASE ~(f.tod # 0 /\ f.rtc # 0) /\ ~Usable
  <2> DEFINE o == [mem.off EXCEPT !.restored = mem # NoRec]
  <2>1. GenOff(f) = o
    BY <1>2 DEF GenOff
  <2>2. CASE mem # NoRec
    <3>1. o.restored = TRUE
      BY <2>2 DEF RecInv, OffFields
    <3> QED
      BY <2>1, <3>1 DEF Fits
  <2>3. CASE mem = NoRec
    <3>1. o.from = None
      BY <2>3 DEF NoRec, NoOff
    <3> QED
      BY <2>1, <3>1
  <2> QED
    BY <2>2, <2>3
<1>3. CASE ~(f.tod # 0 /\ f.rtc # 0) /\ Usable
  <2>1. GenOff(f).from = "ap"
    BY <1>3 DEF GenOff
  <2> QED
    BY <2>1 DEF Fits
<1> QED
  BY <1>1, <1>2, <1>3

(* A transaction ends, with its reply or without.                          *)
LEMMA LinkedWhenEnded ==
    ASSUME RecInv, stack # <<>>, NEW a, NEW x, NEW b, NEW c,
           a = Orphan(air, Len(stack) - 1),
           Linked(stack, a, x, b, c), UpTo(a, x, Len(stack) - 1), ShownOk(stack, c),
           NEW ok, NEW val, TransactionEnds(ok, val),
           val \in {0, b}, val # 0 => SameBoot(Top, b),
           Top.op = "set" /\ ok => Plain(Top.off) \in c
    PROVE  Linked(stack', air', x, b, c) /\ ShownOk(stack', c)
<1>1. FrameOk(Top) /\ FrameFields(Top) /\ StackInv(stack)
  BY TopOk DEF FrameOk, RecInv
<1>2. Return => Linked(stack', air', x, b, c) /\ ShownOk(stack', c)
  <2> SUFFICES ASSUME Return PROVE Linked(stack', air', x, b, c) /\ ShownOk(stack', c)
    OBVIOUS
  <2>1. stack' = SubSeq(stack, 1, Len(stack) - 1) /\ air' = a
    BY DEF Return, Rest
  <2> QED
    BY <1>1, <2>1, FrameLeft
<1>3. CASE TodRead(val)
  <2> DEFINE top == Top
             f == [top EXCEPT !.tod = val]
  <2>1. Ask(f, "rtc")
    BY <1>3 DEF TodRead
  <2>2. f = [top EXCEPT !.tod = val] /\ FrameFields(top)
    BY <1>1
  <2> HIDE DEF f, top
  <2>3. FrameFields(f) /\ f.tod = val
    BY <2>2 DEF FrameFields
  <2>4. "rtc" \notin Shown /\ "rtc" # "set"
    BY DEF Shown
  <2> QED
    BY <2>1, <2>3, <2>4, AskedNext
<1>4. CASE RtcRead(val)
  <2> DEFINE top == Top
             f == [top EXCEPT !.rtc = val]
             off == GenOff(f)
             h == [f EXCEPT !.off = off, !.clk = clock]
  <2>1. CASE off.from = None
    BY <1>2, <1>4, <2>1 DEF RtcRead, HandshakeFails
  <2>2. CASE off.from # None
    <3>1. Ask(h, "set")
      BY <1>4, <2>2 DEF RtcRead
    <3>2. top.op = "rtc"
      BY <1>4 DEF RtcRead
    <3>3. f = [top EXCEPT !.rtc = val] /\ FrameFields(top) /\ (val # 0 => top.tod \in {0, b})
      BY <1>1, <3>2 DEF SameBoot
    <3>4. FrameFields(f) /\ f.rtc = val /\ f.tod = top.tod
      <4> HIDE DEF f, top
      <4> QED
        BY <3>3 DEF FrameFields
    <3>5. Fits(off, b)
      <4>1. CASE val = 0
        <5>1. off \in {[mem.off EXCEPT !.restored = mem # NoRec],
                       [from |-> "ap", boot |-> f.rtc, clk |-> clock, restored |-> FALSE]}
          <6> HIDE DEF f
          <6> QED
            BY <3>4, <4>1 DEF GenOff
        <5>2. CASE off = [from |-> "ap", boot |-> f.rtc, clk |-> clock, restored |-> FALSE]
          <6>1. off.from = "ap"
            BY <5>2
          <6> HIDE DEF off
          <6> QED
            BY <6>1 DEF Fits
        <5>3. CASE off = [mem.off EXCEPT !.restored = mem # NoRec]
          <6>1. off.restored = (mem # NoRec) /\ off.from = mem.off.from
            <7> DEFINE o == mem.off
            <7>1. off = [o EXCEPT !.restored = mem # NoRec] /\ OffFields(o)
              BY <5>3 DEF RecInv
            <7> HIDE DEF off, o
            <7>2. off.restored = (mem # NoRec) /\ off.from = o.from
              BY <7>1 DEF OffFields
            <7> QED
              BY <7>2 DEF o
          <6>2. mem # NoRec
            BY <2>2, <6>1 DEF NoRec, NoOff
          <6>3. off.restored = TRUE
            BY <6>1, <6>2
          <6> HIDE DEF off
          <6> QED
            BY <6>3 DEF Fits
        <5> QED
          BY <5>1, <5>2, <5>3
      <4>2. CASE val # 0
        <5>1. f.tod \in {0, b} /\ f.rtc \in {0, b}
          BY <3>3, <3>4, <4>2
        <5> HIDE DEF f
        <5> QED
          BY <2>2, <5>1, GenOffFits
      <4> QED
        BY <4>1, <4>2
    <3>6. h = [f EXCEPT !.off = off, !.clk = clock]
      OBVIOUS
    <3>7. "set" \notin Shown /\ "set" # "rtc"
      BY DEF Shown
    <3> HIDE DEF h, f, off
    <3>8. FrameFields(h) /\ h.off = off
      BY <3>4, <3>6 DEF FrameFields
    <3> QED
      BY <3>1, <3>5, <3>7, <3>8, AskedNext
  <2> QED
    BY <2>1, <2>2
<1>5. CASE SetDone(ok)
  <2> DEFINE top == Top
             f == [top EXCEPT !.op = "write"]
  <2>1. CASE SetTop(f) /\ air' = a /\ ok
    <3>1. stack' = Append(SubSeq(stack, 1, Len(stack) - 1), f)
      BY <2>1 DEF SetTop, Rest
    <3>2. f.off = top.off
      BY <1>1 DEF FrameFields
    <3>3. Plain(top.off) \in c
      BY <1>5, <2>1 DEF SetDone
    <3>4. f.op \in Shown => Plain(f.off) \in c
      BY <3>2, <3>3
    <3> HIDE DEF f
    <3> QED
      BY <1>1, <2>1, <3>1, <3>4, FrameStepped
  <2>2. (SetTop(f) /\ air' = a /\ ok) \/ Return
    BY <1>5 DEF SetDone, HandshakeFails, HandshakeSucceeds
  <2> QED
    BY <1>2, <2>1, <2>2
<1>6. CASE Validated(ok)
  <2> DEFINE f == Frame("uptime", "rtc")
  <2>1. Ask(f, "rtc")
    BY <1>6 DEF Validated
  <2>2. FrameFields(f) /\ f.tod = 0
    BY DEF Frame, FrameFields
  <2>3. "rtc" \notin Shown /\ "rtc" # "set"
    BY DEF Shown
  <2> HIDE DEF f
  <2> QED
    BY <2>1, <2>2, <2>3, AskedNext
<1>7. CASE UptimeRead
  <2> DEFINE top == Top
  <2>1. Ask(top, "tod") \/ Return
    BY <1>7 DEF UptimeRead
  <2>2. "tod" \notin Shown /\ "tod" # "set" /\ "tod" # "rtc" /\ FrameFields(top)
    BY <1>1 DEF Shown
  <2> HIDE DEF top
  <2> QED
    BY <1>2, <2>1, <2>2, AskedNext
<1> QED
  BY <1>3, <1>4, <1>5, <1>6, <1>7 DEF TransactionEnds

-----------------------------------------------------------------------------
(* The rest of the steps.  A new transaction begins.                       *)
LEMMA LinkedWhenBegun ==
    ASSUME RecInv, NEW x, NEW b, NEW c, Linked(stack, air, x, b, c), ShownOk(stack, c),
           NEW job, NEW op \in {"tod", "get"},
           stack' = Append(stack, Frame(job, op)), air' = Sent(air, Len(stack) + 1, op, NoOff)
    PROVE  Linked(stack', air', x, b, c) /\ ShownOk(stack', c)
<1> DEFINE f == Frame(job, op)
           t == Append(stack, f)
           n == Len(stack)
           off == NoOff
           r == [owner |-> n + 1, op |-> op, off |-> off]
<1>1. /\ DOMAIN t = 1..(n + 1) /\ n \in Nat /\ DOMAIN stack = 1..n /\ t[n + 1] = f
      /\ \A i \in DOMAIN stack : t[i] = stack[i]
  BY OwnAdded DEF RecInv, StackInv, OwnSeq
<1>2. f.op = op
  BY DEF Frame
<1>3. OwnSeq(t)
  BY OwnAdded DEF RecInv, StackInv, OwnSeq
<1>4. op \notin Shown /\ op # "rtc" /\ op # "set"
  BY DEF Shown
<1> HIDE DEF f, t
<1>5. Len(t) = n + 1
  BY <1>1, <1>3 DEF OwnSeq
<1>6. UpTo(air, x, n)
  BY <1>1 DEF UpTo, Linked, Request, Answer
<1>7. Linked(t, air, x, b, c)
  <2>1. Len(t) \in Nat /\ n \in 0..Len(t) /\ \A i \in 1..n : t[i] = stack[i]
    BY <1>1, <1>5
  <2> HIDE DEF n
  <2> QED
    BY <1>6, <2>1, OtherFrames
<1>8. ShownOk(t, c)
  BY <1>1, <1>2, <1>4, <1>5 DEF ShownOk
<1>9. air' \in {air, Append(air, r)}
  BY SentOrLost
<1>10. Linked(t, Append(air, r), x, b, c)
  <2>1. Len(t) \in Nat \ {0} /\ Len(t) - 1 = n
    BY <1>1, <1>5
  <2>2. UpTo(air, x, Len(t) - 1)
    BY <1>6, <2>1
  <2>3. r = [owner |-> Len(t), op |-> op, off |-> off]
    BY <1>5
  <2>4. Waits(t[Len(t)], r, b)
    BY <1>1, <1>2, <1>4, <1>5 DEF Waits, SameBoot
  <2> HIDE DEF r, n
  <2> QED
    BY <1>4, <1>7, <2>1, <2>2, <2>3, <2>4, Posted
<1> QED
  BY <1>7, <1>8, <1>9, <1>10 DEF t, f

LEMMA NothingLinked == ASSUME NEW s, NEW b, NEW c PROVE Linked(s, <<>>, <<>>, b, c)
  BY DEF Linked, OneEach, OwnSeq

LEMMA RequestsLost ==
    ASSUME NEW s, NEW a, NEW x, NEW b, NEW c, Linked(s, a, x, b, c)
    PROVE  Linked(s, <<>>, x, b, c)
  BY DEF Linked, OneEach, OwnSeq

LEMMA PacketsLost ==
    ASSUME NEW s, NEW a, NEW x, NEW b, NEW c, Linked(s, a, x, b, c)
    PROVE  Linked(s, a, <<>>, b, c)
  BY DEF Linked, OneEach, OwnSeq

(* The name service and the modem add announcements.                       *)
LEMMA Announced ==
    ASSUME NEW s, NEW a, NEW x, NEW b, NEW c, Linked(s, a, x, b, c)
    PROVE  Linked(s, a, Announce(x), b, c)
<1> DEFINE p == [kind |-> "new", boot |-> modem.boot]
           y == Append(x, p)
<1>1. /\ OwnSeq(y) /\ DOMAIN y = 1..(Len(x) + 1) /\ Len(x) \in Nat /\ DOMAIN x = 1..Len(x)
      /\ y[Len(x) + 1] = p /\ \A i \in DOMAIN x : y[i] = x[i]
  BY OwnAdded DEF Linked
<1>2. p.kind # "resp"
  OBVIOUS
<1>3. Announce(x) = y \/ Announce(x) = x
  BY DEF Announce
<1> HIDE DEF p, y
<1>4. \A i \in DOMAIN y : y[i].kind # "resp" \/ (i \in DOMAIN x /\ y[i] = x[i])
  <2>1. \A i \in DOMAIN y : i = Len(x) + 1 \/ i \in DOMAIN x
    BY <1>1
  <2> QED
    BY <1>1, <1>2, <2>1
<1>5. Linked(s, a, y, b, c)
  BY <1>1, <1>4, News
<1> QED
  BY <1>3, <1>5

LEMMA AllAnnounced ==
    ASSUME NEW s, NEW a, NEW x, NEW b, NEW c, Linked(s, a, x, b, c), lookups \in Nat,
           NEW k, k # "resp", NEW e
    PROVE  Linked(s, a, x \o Packets(k, e), b, c)
<1> DEFINE p == [kind |-> k, boot |-> e]
           q == [i \in 1..lookups |-> p]
           y == x \o q
<1>1. p.kind # "resp"
  OBVIOUS
<1> HIDE DEF p
<1>2. q \in Seq({p}) /\ \A i \in DOMAIN q : q[i] = p
  OBVIOUS
<1>3. Packets(k, e) = q
  BY DEF Packets, p
<1> HIDE DEF q
<1>4. OwnSeq(q) /\ OwnSeq(x)
  BY <1>2, OwnOf DEF Linked
<1>5. /\ OwnSeq(y)
      /\ \A i \in DOMAIN y : (i \in DOMAIN x /\ y[i] = x[i])
                           \/ (i - Len(x) \in DOMAIN q /\ y[i] = q[i - Len(x)])
  BY <1>4, OwnJoined
<1> HIDE DEF y
<1>6. \A i \in DOMAIN y : y[i].kind # "resp" \/ (i \in DOMAIN x /\ y[i] = x[i])
  BY <1>1, <1>2, <1>5
<1>7. Linked(s, a, y, b, c)
  BY <1>5, <1>6, News
<1> QED
  BY <1>3, <1>7 DEF y

(* The modem takes a request, and may answer it.                           *)
LEMMA RequestTaken ==
    ASSUME NEW s, NEW a, NEW x, NEW b, NEW c, Linked(s, a, x, b, c), a # <<>>
    PROVE  /\ Linked(s, Tail(a), x, b, c) /\ Request(s, Head(a), b)
           /\ Head(a).owner # 0 =>
                /\ \A i \in DOMAIN Tail(a) : Tail(a)[i].owner # Head(a).owner
                /\ \A i \in DOMAIN x : x[i].kind = "resp" => x[i].owner # Head(a).owner
<1> DEFINE y == Tail(a)
<1>1. /\ OwnSeq(y) /\ 1 \in DOMAIN a /\ Head(a) = a[1]
      /\ \A i \in DOMAIN y : i \in Nat \ {0} /\ i + 1 \in DOMAIN a /\ y[i] = a[i + 1]
  BY OwnTaken DEF Linked
<1> HIDE DEF y
<1>2. \A i \in DOMAIN y : Request(s, y[i], b)
  BY <1>1 DEF Linked
<1>3. \A i, j \in DOMAIN y : (i + 1 = j + 1 => i = j) /\ i + 1 # 1
  BY <1>1
<1>4. OneEach(y, x)
  <2>1. \A i, j \in DOMAIN y : y[i].owner # 0 /\ y[i].owner = y[j].owner => i = j
    BY <1>1, <1>3 DEF Linked, OneEach
  <2> QED
    BY <1>1, <2>1 DEF Linked, OneEach
<1>5. a[1].owner # 0 =>
        /\ \A i \in DOMAIN y : y[i].owner # a[1].owner
        /\ \A i \in DOMAIN x : x[i].kind = "resp" => x[i].owner # a[1].owner
  BY <1>1, <1>3 DEF Linked, OneEach
<1>6. Request(s, a[1], b)
  BY <1>1 DEF Linked
<1> QED
  BY <1>1, <1>2, <1>4, <1>5, <1>6 DEF Linked, y

LEMMA Replied ==
    ASSUME NEW s, NEW a, NEW x, NEW b, NEW c, Linked(s, a, x, b, c), a # <<>>,
           Head(a).owner # 0, NEW ok, NEW val \in {0, b},
           Head(a).op = "set" /\ ok => Plain(Head(a).off) \in c,
           NEW p, p = [kind |-> "resp", owner |-> Head(a).owner, ok |-> ok, val |-> val]
    PROVE  Linked(s, Tail(a), Append(x, p), b, c)
<1> DEFINE t == Tail(a)
           r == Head(a)
           y == Append(x, p)
           n == Len(x)
<1>1. /\ Linked(s, t, x, b, c) /\ Request(s, r, b)
      /\ \A i \in DOMAIN t : t[i].owner # r.owner
      /\ \A i \in DOMAIN x : x[i].kind = "resp" => x[i].owner # r.owner
  BY RequestTaken
<1>2. /\ OwnSeq(y) /\ DOMAIN y = 1..(n + 1) /\ n \in Nat /\ DOMAIN x = 1..n
      /\ y[n + 1] = p /\ \A i \in DOMAIN x : y[i] = x[i]
  BY OwnAdded DEF Linked
<1>3. p.kind = "resp" /\ p.owner = r.owner /\ p.ok = ok /\ p.val = val
  OBVIOUS
<1>4. p = [kind |-> p.kind, owner |-> p.owner, ok |-> p.ok, val |-> p.val]
  OBVIOUS
<1> HIDE DEF t, r, y, n
<1>5. Answer(s, p, b, c)
  BY <1>1, <1>3, <1>4 DEF Answer, Accepts, Request, Waits, r
<1>6. \A i \in DOMAIN y : i = n + 1 \/ i \in DOMAIN x
  BY <1>2
<1>7. \A i \in DOMAIN y : Answer(s, y[i], b, c)
  BY <1>1, <1>2, <1>5, <1>6 DEF Linked
<1>8. OneEach(t, y)
  <2>1. \A i, j \in DOMAIN y :
          y[i].kind = "resp" /\ y[j].kind = "resp" /\ y[i].owner # 0 /\ y[i].owner = y[j].owner => i = j
    <3> SUFFICES ASSUME NEW i \in DOMAIN y, NEW j \in DOMAIN y, y[i].kind = "resp",
                        y[j].kind = "resp", y[i].owner # 0, y[i].owner = y[j].owner
                 PROVE  i = j
      OBVIOUS
    <3>1. CASE i \in DOMAIN x /\ j \in DOMAIN x
      BY <1>1, <1>2, <3>1 DEF Linked, OneEach
    <3>2. CASE i = n + 1 \/ j = n + 1
      BY <1>1, <1>2, <1>3, <1>6, <3>2
    <3> QED
      BY <1>6, <3>1, <3>2
  <2>2. \A i \in DOMAIN t, j \in DOMAIN y :
          y[j].kind = "resp" /\ t[i].owner # 0 => t[i].owner # y[j].owner
    <3> SUFFICES ASSUME NEW i \in DOMAIN t, NEW j \in DOMAIN y, y[j].kind = "resp", t[i].owner # 0
                 PROVE  t[i].owner # y[j].owner
      OBVIOUS
    <3>1. CASE j \in DOMAIN x
      BY <1>1, <1>2, <3>1 DEF Linked, OneEach
    <3>2. CASE j = n + 1
      BY <1>1, <1>2, <1>3, <3>2
    <3> QED
      BY <1>6, <3>1, <3>2
  <2> QED
    BY <1>1, <2>1, <2>2 DEF Linked, OneEach
<1> QED
  BY <1>1, <1>2, <1>7, <1>8 DEF Linked, t, y

-----------------------------------------------------------------------------
(* The steps of the daemon, which leave the modem and what it confirmed    *)
(* alone, and those of the world.                                          *)
LinkedInv == Linked(stack, air, rx, modem.boot, confirmed) /\ ShownOk(stack, confirmed)

LEMMA NothingFromNothing ==
    ASSUME NEW n
    PROVE  Orphan(<<>>, n) = <<>> /\ OrphanRx(<<>>, n) = <<>>
  BY DEF Orphan, OrphanRx

LEMMA SentToOne ==
    ASSUME NEW q, NEW n, NEW op, NEW off, Sent(q, n, op, off) # <<>>
    PROVE  q # <<>> \/ modem.up
  BY DEF Sent

LEMMA ToldByOne ==
    ASSUME NEW q, Announce(q) # <<>>
    PROVE  q # <<>> \/ modem.up
  BY DEF Announce

LEMMA DaemonSteps ==
    ASSUME TimeInv, Main \/ Transactions
    PROVE  LinkedInv' /\ UNCHANGED <<modem, confirmed>>
<1> DEFINE b == modem.boot
           c == confirmed
<1>1. UNCHANGED <<modem, confirmed>>
  BY DEF Main, Transactions, Start, Lookup, Retry, Refresh, Periodic, PollReads, HandlePacket,
     TakeReply, HandleWhileWaiting, TimesOut, TransactionEnds, Write, Rename, world
<1>2. RecInv /\ Linked(stack, air, rx, b, c) /\ ShownOk(stack, c)
  BY DEF TimeInv
<1>3. SUFFICES Linked(stack', air', rx', b, c) /\ ShownOk(stack', c)
  BY <1>1 DEF LinkedInv
<1> HIDE DEF b, c
<1>4. CASE Start
  <2>1. UNCHANGED <<stack, air>> /\ rx' = Announce(<<>>)
    BY <1>4 DEF Start
  <2> QED
    BY <1>2, <2>1, PacketsLost, Announced
<1>5. CASE Lookup
  <2>1. UNCHANGED <<stack, air>> /\ (rx' = Announce(rx) \/ rx' = rx)
    BY <1>5 DEF Lookup
  <2> QED
    BY <1>2, <2>1, Announced
<1>6. CASE Retry
  <2>1. \/ UNCHANGED <<stack, air>>
        \/ /\ stack' = Append(stack, Frame("handshake", "tod"))
           /\ air' = Sent(air, Len(stack) + 1, "tod", NoOff)
    BY <1>6 DEF Retry, BeginHandshake
  <2>2. rx' = rx
    BY <1>6 DEF Retry
  <2> QED
    BY <1>2, <2>1, <2>2, LinkedWhenBegun
<1>7. CASE Refresh \/ Periodic
  <2>1. /\ rx' = rx /\ stack = <<>>
        /\ \/ UNCHANGED <<stack, air>>
           \/ stack' = <<Frame("refresh", "tod")>> /\ air' = Sent(air, 1, "tod", NoOff)
           \/ stack' = <<Frame("validate", "get")>> /\ air' = Sent(air, 1, "get", NoOff)
    BY <1>7 DEF Refresh, Periodic, At
  <2>2. /\ Append(stack, Frame("refresh", "tod")) = <<Frame("refresh", "tod")>>
        /\ Append(stack, Frame("validate", "get")) = <<Frame("validate", "get")>>
        /\ Len(stack) + 1 = 1
    BY <2>1
  <2> QED
    BY <1>2, <2>1, <2>2, LinkedWhenBegun
<1>8. CASE PollReads \/ HandleWhileWaiting
  <2>1. rx # <<>> /\ HandlePacket
    BY <1>8 DEF PollReads, HandleWhileWaiting
  <2>2. Linked(stack, air, Tail(rx), b, c)
    BY <1>2, <2>1, PacketRead
  <2>3. \/ UNCHANGED <<stack, air>> /\ rx' \in {Tail(rx), Announce(Tail(rx))}
        \/ /\ stack' = Append(stack, Frame("handshake", "tod"))
           /\ air' = Sent(air, Len(stack) + 1, "tod", NoOff)
           /\ rx' = Tail(rx)
    BY <2>1 DEF HandlePacket, NewServer, DelServer, BeginHandshake
  <2> QED
    BY <1>2, <2>2, <2>3, Announced, LinkedWhenBegun
<1>9. CASE TakeReply
  <2> DEFINE p == Head(rx)
             val == IF p.ok THEN p.val ELSE 0
             ok == p.ok
  <2>1. /\ stack # <<>> /\ rx # <<>> /\ p.kind = "resp" /\ p.owner = Len(stack)
        /\ rx' = Tail(rx) /\ TransactionEnds(ok, val)
    BY <1>9 DEF TakeReply, Waiting, Mine
  <2>2. Len(stack) \in Nat \ {0}
    BY <1>2, <2>1, RestIs DEF RecInv
  <2>3. LET a == Orphan(air, Len(stack) - 1) IN
        /\ Linked(stack, a, rx', b, c) /\ UpTo(a, rx', Len(stack) - 1)
        /\ Accepts(Top, p, b, c) /\ p.val \in {0, b}
    BY <1>2, <2>1, <2>2, ReplyTaken DEF Top
  <2>4. val \in {0, b} /\ (val # 0 => SameBoot(Top, b)) /\ (Top.op = "set" /\ ok => Plain(Top.off) \in c)
    BY <2>3 DEF Accepts
  <2> HIDE DEF val, ok
  <2> QED
    BY <1>2, <2>1, <2>3, <2>4, LinkedWhenEnded
<1>10. CASE TimesOut
  <2> DEFINE n == Len(stack) - 1
             a == Orphan(air, n)
  <2>1. stack # <<>> /\ rx' = OrphanRx(rx, n) /\ TransactionEnds(FALSE, 0)
    BY <1>10 DEF TimesOut, Expired, Waiting
  <2>2. n \in Nat
    <3>1. Len(stack) \in Nat \ {0}
      BY <1>2, <2>1, RestIs DEF RecInv
    <3> QED
      BY <3>1
  <2>3. Linked(stack, a, rx, b, c) /\ \A i \in DOMAIN a : a[i].owner <= n
    BY <1>2, <2>2, RequestsOrphaned
  <2> HIDE DEF a
  <2>4. /\ Linked(stack, a, rx', b, c)
        /\ \A i \in DOMAIN rx' : rx'[i].kind = "resp" => rx'[i].owner <= n
    BY <2>1, <2>2, <2>3, RepliesOrphaned
  <2>5. UpTo(a, rx', n)
    BY <2>3, <2>4 DEF UpTo
  <2> QED
    BY <1>2, <2>1, <2>4, <2>5, LinkedWhenEnded DEF a
<1>11. CASE Write \/ Rename
  <2> DEFINE top == Top
             f == [top EXCEPT !.op = "rename"]
             n == Len(stack) - 1
             a == Orphan(air, n)
  <2>1. /\ stack # <<>> /\ rx' = rx /\ top.op \in Shown
        /\ \/ stack' = SubSeq(stack, 1, n) /\ air' = a
           \/ stack' = Append(SubSeq(stack, 1, n), f) /\ air' = air
    BY <1>11 DEF Write, WriteTemp, Rename, SetTop, HandshakeSucceeds, Return, Rest, Shown
  <2>2. Len(stack) \in Nat \ {0} /\ n \in Nat /\ FrameOk(top)
    <3>1. Len(stack) \in Nat \ {0}
      BY <1>2, <2>1, RestIs DEF RecInv
    <3> QED
      BY <1>2, <2>1, <3>1, TopOk
  <2>3. UpTo(air, rx, n)
    <3>1. ASSUME NEW i \in DOMAIN air PROVE air[i].owner <= n
      <4>1. Request(stack, air[i], b)
        BY <1>2 DEF Linked
      <4>2. air[i].owner # Len(stack)
        BY <2>1, <2>2, <4>1 DEF Request, Waits, Top
      <4> QED
        BY <2>2, <4>1, <4>2 DEF Request
    <3>2. ASSUME NEW i \in DOMAIN rx, rx[i].kind = "resp" PROVE rx[i].owner <= n
      <4>1. Answer(stack, rx[i], b, c)
        BY <1>2 DEF Linked
      <4>2. rx[i].owner # Len(stack)
        BY <2>1, <2>2, <3>2, <4>1 DEF Answer, Accepts, Top
      <4> QED
        BY <2>2, <3>2, <4>1, <4>2 DEF Answer
    <3> QED
      BY <3>1, <3>2 DEF UpTo
  <2>4. Plain(top.off) \in c
    BY <1>2, <2>1, <2>2 DEF ShownOk, Top
  <2>5. f.off = top.off
    <3>1. f = [top EXCEPT !.op = "rename"] /\ FrameFields(top)
      BY <2>2 DEF FrameOk
    <3> HIDE DEF f, top
    <3> QED
      BY <3>1 DEF FrameFields
  <2>6. Linked(stack, a, rx, b, c) /\ UpTo(a, rx, n)
    <3>1. Linked(stack, a, rx, b, c) /\ \A i \in DOMAIN a : a[i].owner <= n
      BY <1>2, <2>2, RequestsOrphaned
    <3> QED
      BY <2>3, <3>1 DEF UpTo
  <2> HIDE DEF a, f, top
  <2>7. CASE stack' = SubSeq(stack, 1, n) /\ air' = a
    BY <1>2, <2>1, <2>6, <2>7, FrameLeft DEF RecInv
  <2>8. CASE stack' = Append(SubSeq(stack, 1, n), f) /\ air' = air
    <3>1. f.op \in Shown => Plain(f.off) \in c
      BY <2>4, <2>5
    <3> QED
      BY <1>2, <2>1, <2>3, <2>8, <3>1, FrameStepped DEF RecInv
  <2> QED
    BY <2>1, <2>7, <2>8
<1> QED
  BY <1>4, <1>5, <1>6, <1>7, <1>8, <1>9, <1>10, <1>11 DEF Main, Transactions

(* The daemon posts only to a modem that is up, and hears only from one.   *)
LEMMA ModemWhileDaemon ==
    ASSUME TimeInv, Main \/ Transactions
    PROVE  ModemInv'
<1>1. UNCHANGED modem
  BY DaemonSteps
<1>2. lookups' \in Nat
  <2>1. lookups' = lookups \/ AddLookup
    <3>1. CASE Main \/ HandleWhileWaiting
      BY <3>1 DEF Main, Start, Lookup, Retry, Refresh, Periodic, PollReads, HandleWhileWaiting,
         HandlePacket, DelServer, world
    <3>2. CASE TakeReply \/ TimesOut \/ Write \/ Rename
      BY <3>2 DEF TakeReply, TimesOut, TransactionEnds, Write, Rename, world
    <3> QED
      BY <3>1, <3>2 DEF Transactions
  <2>2. lookups \in Nat
    BY DEF TimeInv, ModemInv
  <2> QED
    BY <2>1, <2>2 DEF AddLookup
<1>3. air' # <<>> => air # <<>> \/ modem.up
  <2>1. \/ air' = air
        \/ \E n : air' = Orphan(air, n)
        \/ \E n, m, op, off : air' = Sent(Orphan(air, n), m, op, off)
        \/ \E m, op, off : air' = Sent(air, m, op, off)
    <3>1. CASE Main \/ HandleWhileWaiting
      BY <3>1 DEF Main, Start, Lookup, Retry, Refresh, Periodic, PollReads, HandleWhileWaiting,
         HandlePacket, NewServer, BeginHandshake
    <3>2. CASE TakeReply \/ TimesOut
      <4>1. \E ok, val : TransactionEnds(ok, val)
        BY <3>2 DEF TakeReply, TimesOut
      <4> QED
        BY <4>1 DEF TransactionEnds, TodRead, RtcRead, SetDone, Validated, UptimeRead, Ask,
           HandshakeFails, HandshakeSucceeds, Return
    <3>3. CASE Write \/ Rename
      BY <3>3 DEF Write, WriteTemp, Rename, HandshakeSucceeds, Return
    <3> QED
      BY <3>1, <3>2, <3>3 DEF Transactions
  <2> QED
    BY <2>1, NothingFromNothing, SentToOne
<1>4. rx' # <<>> => rx # <<>> \/ modem.up
  <2>1. \/ rx' = rx
        \/ rx # <<>>
        \/ rx' \in {Announce(rx), Announce(<<>>)}
        \/ \E n : rx' = OrphanRx(rx, n)
    BY DEF Main, Transactions, Start, Lookup, Retry, Refresh, Periodic, PollReads, TakeReply,
       HandleWhileWaiting, TimesOut, Write, Rename
  <2> QED
    BY <2>1, NothingFromNothing, ToldByOne
<1> QED
  BY <1>1, <1>2, <1>3, <1>4 DEF TimeInv, ModemInv

(* The modem: it takes requests, dies and comes back.                      *)
LEMMA ModemSteps ==
    ASSUME TimeInv, ModemAnswers \/ ModemDies \/ ModemBoots
    PROVE  LinkedInv' /\ ModemInv' /\ OffsetFitsBoot' /\ confirmed \subseteq confirmed'
<1>1. Linked(stack, air, rx, modem.boot, confirmed) /\ ShownOk(stack, confirmed)
  BY DEF TimeInv
<1>2. CASE ModemAnswers
  <2> DEFINE r == Head(air)
  <2>1. air # <<>> /\ air' = Tail(air) /\ UNCHANGED <<stack, lookups>> /\ modem.up
    BY <1>2 DEF ModemAnswers, daemon
  <2>2. modem'.boot = modem.boot /\ confirmed \subseteq confirmed'
    BY <1>2 DEF ModemAnswers, Effect, TimeInv, ModemInv
  <2>3. Request(stack, r, modem.boot)
    BY <1>1, <2>1, RequestTaken
  <2>4. Linked(stack, air, rx, modem'.boot, confirmed') /\ ShownOk(stack, confirmed')
    BY <1>1, <2>2, MoreConfirmed DEF ShownOk
  <2>5. ASSUME rx' = rx PROVE LinkedInv'
    <3>1. Linked(stack, Tail(air), rx, modem'.boot, confirmed')
      BY <2>1, <2>4, RequestTaken
    <3> QED
      BY <2>1, <2>4, <2>5, <3>1 DEF LinkedInv
  <2>6. ASSUME rx' # rx PROVE LinkedInv'
    <3>1. PICK ok \in BOOLEAN :
            rx' = Append(rx, Reply(r, ok)) /\ r.owner # 0 /\ (ok => Effect(r))
      <4>1. CASE Effect(r) /\ rx' = IF r.owner = 0 THEN rx ELSE Append(rx, Reply(r, TRUE))
        BY <2>6, <4>1
      <4>2. CASE r.owner # 0 /\ rx' = Append(rx, Reply(r, FALSE))
        BY <4>2
      <4> QED
        BY <1>2, <2>6, <4>1, <4>2 DEF ModemAnswers
    <3> DEFINE val == IF r.op = "rtc" \/ (r.op = "tod" /\ modem.tod) THEN modem.boot ELSE 0
               p == Reply(r, ok)
    <3>2. p = [kind |-> "resp", owner |-> r.owner, ok |-> ok, val |-> val] /\ val \in {0, modem'.boot}
      BY <2>2 DEF Reply
    <3>3. r.op = "set" /\ ok => Plain(r.off) \in confirmed'
      BY <3>1 DEF Effect, Plain
    <3> HIDE DEF p, val
    <3>4. Linked(stack, Tail(air), Append(rx, p), modem'.boot, confirmed')
      BY <2>1, <2>4, <3>1, <3>2, <3>3, Replied
    <3>5. rx' = Append(rx, p)
      BY <3>1 DEF p
    <3> HIDE DEF r
    <3> QED
      BY <2>1, <2>4, <3>4, <3>5 DEF LinkedInv
  <2>7. /\ modem' = [boot |-> modem'.boot, up |-> modem'.up, down |-> modem'.down,
                     tod |-> modem'.tod, user |-> modem'.user]
        /\ modem'.up = modem.up
        /\ modem'.user = modem.user \/ (r.op = "set" /\ modem'.user = r.off)
    BY <1>2 DEF ModemAnswers, Effect, TimeInv, ModemInv
  <2>8. ModemInv'
    BY <2>1, <2>7 DEF TimeInv, ModemInv
  <2>9. OffsetFitsBoot'
    BY <2>2, <2>3, <2>7 DEF TimeInv, OffsetFitsBoot, Request, Fits
  <2> QED
    BY <2>2, <2>5, <2>6, <2>8, <2>9
<1>3. CASE ModemDies
  <2>1. /\ air' = <<>> /\ UNCHANGED <<stack, lookups, confirmed>>
        /\ rx' = rx \/ rx' = rx \o Packets("del", modem.boot)
        /\ modem' = Dead
    BY <1>3 DEF ModemDies, daemon
  <2>2. /\ modem' = [boot |-> modem'.boot, up |-> modem'.up, down |-> modem'.down,
                     tod |-> modem'.tod, user |-> modem'.user]
        /\ modem'.boot = modem.boot /\ modem'.user = NoOff /\ modem'.down = 0
    BY <2>1 DEF Dead, TimeInv, ModemInv
  <2>3. lookups \in Nat
    BY DEF TimeInv, ModemInv
  <2>4. Linked(stack, <<>>, rx', modem.boot, confirmed)
    BY <1>1, <2>1, <2>3, RequestsLost, AllAnnounced
  <2>5. LinkedInv'
    BY <1>1, <2>1, <2>2, <2>4 DEF LinkedInv
  <2>6. ModemInv'
    BY <2>1, <2>2, <2>3 DEF ModemInv
  <2> QED
    BY <2>1, <2>2, <2>5, <2>6 DEF OffsetFitsBoot
<1>4. CASE ModemBoots
  <2>1. /\ ~modem.up /\ modem.down = MODEM_BOOT /\ UNCHANGED <<stack, air, lookups, confirmed>>
        /\ modem' = [modem EXCEPT !.up = TRUE, !.boot = modem.boot + 1]
        /\ rx' = rx \o Packets("new", modem.boot + 1)
    BY <1>4 DEF ModemBoots, daemon
  <2>2. air = <<>> /\ rx = <<>> /\ modem.user = NoOff /\ lookups \in Nat
    BY <2>1, TimeAssumption DEF TimeInv, ModemInv
  <2>3. Linked(stack, air, rx, modem'.boot, confirmed)
    BY <2>2, NothingLinked
  <2>4. Linked(stack, air, rx', modem'.boot, confirmed)
    BY <2>1, <2>2, <2>3, AllAnnounced
  <2>5. LinkedInv'
    BY <1>1, <2>1, <2>4 DEF LinkedInv
  <2>6. /\ modem' = [boot |-> modem'.boot, up |-> modem'.up, down |-> modem'.down,
                     tod |-> modem'.tod, user |-> modem'.user]
        /\ modem'.up /\ modem'.user = NoOff
    BY <2>1, <2>2 DEF TimeInv, ModemInv
  <2> QED
    BY <2>1, <2>2, <2>5, <2>6 DEF OffsetFitsBoot, ModemInv
<1> QED
  BY <1>2, <1>3, <1>4

(* The clock, the network's time, power and the process.                   *)
LEMMA WorldSteps ==
    ASSUME TimeInv, NitzLocks \/ ClockSet \/ Killed \/ PowerLoss \/ Tick
    PROVE  LinkedInv' /\ ModemInv' /\ OffsetFitsBoot' /\ UNCHANGED confirmed
<1>1. /\ Linked(stack, air, rx, modem.boot, confirmed) /\ ShownOk(stack, confirmed)
      /\ StackInv(stack)
  BY DEF TimeInv, RecInv
<1>2. CASE NitzLocks \/ ClockSet
  <2>1. UNCHANGED <<stack, air, rx, confirmed, lookups>>
    BY <1>2 DEF NitzLocks, ClockSet, daemon
  <2>2. /\ modem'.boot = modem.boot /\ modem'.up = modem.up /\ modem'.user = modem.user
        /\ modem'.down = modem.down
        /\ modem' = [boot |-> modem'.boot, up |-> modem'.up, down |-> modem'.down,
                     tod |-> modem'.tod, user |-> modem'.user]
    BY <1>2 DEF NitzLocks, ClockSet, TimeInv, ModemInv
  <2> QED
    BY <1>1, <2>1, <2>2 DEF LinkedInv, OffsetFitsBoot, ModemInv, TimeInv
<1>3. CASE Killed
  <2>1. /\ stack' = <<>> /\ rx' = <<>> /\ air' = Orphan(air, 0) /\ UNCHANGED <<modem, confirmed>>
        /\ lookups' = 0
    BY <1>3 DEF Killed, Gone
  <2>2. Linked(stack, air', rx, modem.boot, confirmed) /\ \A i \in DOMAIN air' : air'[i].owner <= 0
    BY <1>1, <2>1, RequestsOrphaned
  <2>3. Linked(stack, air', <<>>, modem.boot, confirmed) /\ UpTo(air', <<>>, 0)
    BY <2>2, PacketsLost DEF UpTo
  <2>4. Len(<<>>) \in Nat /\ 0 \in 0..Len(<<>>) /\ 1..0 = {}
    OBVIOUS
  <2>5. Linked(<<>>, air', <<>>, modem.boot, confirmed)
    BY <2>3, <2>4, OtherFrames
  <2>6. LinkedInv'
    BY <2>1, <2>5 DEF LinkedInv, ShownOk
  <2>7. air' # <<>> => air # <<>>
    BY <2>1, NothingFromNothing
  <2> QED
    BY <2>1, <2>6, <2>7 DEF TimeInv, ModemInv, OffsetFitsBoot
<1>4. CASE PowerLoss
  <2>1. /\ stack' = <<>> /\ rx' = <<>> /\ air' = <<>> /\ modem' = Dead /\ lookups' = 0
        /\ UNCHANGED confirmed
    BY <1>4 DEF PowerLoss, Gone
  <2>2. /\ modem' = [boot |-> modem'.boot, up |-> modem'.up, down |-> modem'.down,
                     tod |-> modem'.tod, user |-> modem'.user]
        /\ modem'.user = NoOff
    BY <2>1 DEF Dead, TimeInv, ModemInv
  <2>3. LinkedInv'
    BY <2>1, NothingLinked DEF LinkedInv, ShownOk
  <2> QED
    BY <2>1, <2>2, <2>3 DEF ModemInv, OffsetFitsBoot
<1>5. CASE Tick
  <2> DEFINE F(i) == [stack[i] EXCEPT !.at = IF @ < Timeout(stack[i]) THEN @ + 1 ELSE @]
             t == [i \in DOMAIN stack |-> F(i)]
  <2>1. /\ rx = <<>> /\ air = <<>> /\ UNCHANGED <<rx, air, lookups, confirmed>> /\ stack' = t
        /\ modem' = [modem EXCEPT !.down = IF ~modem.up /\ @ < MODEM_BOOT THEN @ + 1 ELSE @]
    BY <1>5 DEF Tick
  <2>2. stack \in Seq({stack[i] : i \in DOMAIN stack}) /\ DOMAIN stack = 1..Len(stack)
        /\ Len(stack) \in Nat
    BY <1>1 DEF StackInv
  <2>3. \A i \in 1..Len(stack) : F(i).op = stack[i].op /\ F(i).off = stack[i].off
    <3> SUFFICES ASSUME NEW i \in 1..Len(stack)
                 PROVE  F(i).op = stack[i].op /\ F(i).off = stack[i].off
      OBVIOUS
    <3>1. FrameFields(stack[i])
      BY <1>1 DEF StackInv, FrameOk
    <3> QED
      BY <3>1 DEF FrameFields
  <2> HIDE DEF F
  <2>4. Len(t) = Len(stack) /\ \A i \in 1..Len(stack) : t[i] = F(i)
    BY <2>2
  <2> HIDE DEF t
  <2>5. ShownOk(t, confirmed)
    BY <1>1, <2>3, <2>4 DEF ShownOk
  <2>6. LinkedInv'
    BY <2>1, <2>5, NothingLinked DEF LinkedInv
  <2>7. /\ modem'.boot = modem.boot /\ modem'.up = modem.up /\ modem'.user = modem.user
        /\ modem' = [boot |-> modem'.boot, up |-> modem'.up, down |-> modem'.down,
                     tod |-> modem'.tod, user |-> modem'.user]
    BY <2>1 DEF TimeInv, ModemInv
  <2> QED
    BY <2>1, <2>6, <2>7 DEF TimeInv, ModemInv, OffsetFitsBoot
<1> QED
  BY <1>2, <1>3, <1>4, <1>5

(* The record on flash changes only when it is shown.                      *)
LEMMA RecordSteps ==
    ASSUME TimeInv, [Next]_vars, confirmed \subseteq confirmed'
    PROVE  RecordConfirmed'
<1>1. CASE Rename
  <2>1. stack # <<>> /\ Top.op = "rename" /\ disk'.off = Plain(Top.off)
    BY <1>1 DEF Rename, Plain
  <2>2. Len(stack) \in Nat \ {0} /\ ShownOk(stack, confirmed)
    BY <2>1, RestIs DEF TimeInv, RecInv
  <2>3. Plain(Top.off) \in confirmed
    BY <2>1, <2>2 DEF ShownOk, Shown, Top
  <2> QED
    BY <2>1, <2>3 DEF RecordConfirmed
<1>2. CASE UNCHANGED disk
  BY <1>2 DEF TimeInv, RecordConfirmed
<1>3. Rename \/ UNCHANGED disk
  BY DEF Next, Main, Transactions, World, Start, Lookup, Retry, Refresh, Periodic, PollReads,
     HandlePacket, TakeReply, HandleWhileWaiting, TimesOut, TransactionEnds, Write, WriteTemp, Tick,
     ModemAnswers, ModemDies, ModemBoots, NitzLocks, ClockSet, Killed, PowerLoss, vars
<1> QED
  BY <1>1, <1>2, <1>3

LEMMA TimeStep == TimeInv /\ [Next]_vars => TimeInv'
<1> SUFFICES ASSUME TimeInv, [Next]_vars PROVE TimeInv'
  OBVIOUS
<1>1. RecInv'
  BY RecStep DEF TimeInv
<1>2. LinkedInv' /\ ModemInv' /\ OffsetFitsBoot' /\ confirmed \subseteq confirmed'
  <2>1. CASE Main \/ Transactions
    BY <2>1, DaemonSteps, ModemWhileDaemon DEF TimeInv, OffsetFitsBoot
  <2>2. CASE ModemAnswers \/ ModemDies \/ ModemBoots
    BY <2>2, ModemSteps
  <2>3. CASE NitzLocks \/ ClockSet \/ Killed \/ PowerLoss \/ Tick
    BY <2>3, WorldSteps
  <2>4. CASE UNCHANGED vars
    BY <2>4 DEF vars, daemon, world, TimeInv, LinkedInv, ModemInv, OffsetFitsBoot
  <2> QED
    BY <2>1, <2>2, <2>3, <2>4 DEF Next, World
<1>3. RecordConfirmed'
  BY <1>2, RecordSteps
<1> QED
  BY <1>1, <1>2, <1>3 DEF TimeInv, LinkedInv

LEMMA TimeKept == Spec => []TimeInv
<1>1. Init => TimeInv
  <2> SUFFICES ASSUME Init PROVE TimeInv
    OBVIOUS
  <2>1. RecInv
    <3>1. StackInv(stack)
      BY DEF Init, StackInv
    <3>2. OffFields(mem.off) /\ OffFields(disk.off) /\ disk.whole = TRUE
      BY DEF Init, NoRec, NoOff, OffFields
    <3> QED
      BY <3>1, <3>2 DEF RecInv
  <2>2. Linked(stack, air, rx, modem.boot, confirmed) /\ ShownOk(stack, confirmed)
    BY NothingLinked DEF Init, ShownOk
  <2>3. ModemInv /\ OffsetFitsBoot
    BY DEF Init, ModemInv, OffsetFitsBoot
  <2>4. RecordConfirmed
    BY DEF Init, RecordConfirmed, NoRec
  <2> QED
    BY <2>1, <2>2, <2>3, <2>4 DEF TimeInv
<1> QED
  BY <1>1, TimeStep, PTL DEF Spec

(* An offset that was worked out from the modem's own counters is accepted *)
(* only by the boot that both were read in, however handshakes nest and    *)
(* modems restart between the two reads (send_ats_user_transaction).       *)
THEOREM FitsBoot == Spec => []OffsetFitsBoot
<1>1. TimeInv => OffsetFitsBoot
  BY DEF TimeInv
<1> QED
  BY <1>1, TimeKept, PTL

(* What is on flash was confirmed by a modem: a SET that was rejected, lost *)
(* or answered to another transaction never reaches the record             *)
(* (ats_state_note_handshake, ats_state_save).                             *)
THEOREM Confirmed == Spec => []RecordConfirmed
<1>1. TimeInv => RecordConfirmed
  BY DEF TimeInv
<1> QED
  BY <1>1, TimeKept, PTL

-----------------------------------------------------------------------------
(* What SYNCHRONIZED and the marker promise rests on time: a second        *)
(* announcement is thrown away as a duplicate only within DUP_GUARD of the *)
(* last handshake, and a modem that restarts is not back before that.      *)

(* The age of the last handshake, as the guard sees it while the unsigned  *)
(* clock has not wrapped.                                                  *)
Age == d["hs"] + lag
NoWrap == Age < WRAP

(* A SET was accepted by the boot the modem is in, or by one that died     *)
(* within this second.                                                     *)
JustNow == modem.user # NoOff \/ (~modem.up /\ modem.down = 0)

(* Requests to set carry an offset; a frame that has been told OK, or is   *)
(* writing the record down, has been told just now, and is the innermost.  *)
SetsReal(a) == \A i \in DOMAIN a : a[i].op = "set" => a[i].off # NoOff
Hears(s, p) == p.kind = "resp" /\ p.owner # 0 /\ p.ok /\ s[p.owner].op = "set"
Heard(s, x) == \A i \in DOMAIN x : Hears(s, x[i]) => JustNow
Writing(s) == \A n \in 1..Len(s) : s[n].op \in Shown => n = Len(s) /\ JustNow

(* The modem is back, and the announcement of this boot is the next packet *)
(* to be read, when it will not pass for a duplicate.                      *)
Untold ==
    /\ rx # <<>> /\ Head(rx).kind = "new" /\ Head(rx).boot = modem.boot
    /\ st = "synced" => Age >= DUP_GUARD

(* A handshake is under way, and the daemon says so.                       *)
Shakes(s) == \E n \in 1..Len(s) : s[n].job = "handshake"
Shaking == st # "synced" /\ Shakes(stack)

ClockInv ==
    /\ d \in [Stamps -> Int] /\ lag \in Nat /\ Age >= 0 /\ modem.down \in Nat
    /\ loop = "off" => lag = 0 /\ st = "discovering" /\ stack = <<>>
    /\ loop # "off" => lookups > 0
ConfirmedInv == SetsReal(air) /\ Heard(stack, rx) /\ Writing(stack)
Spared == ~modem.up /\ st = "synced" => Age >= modem.down \/ Age >= DUP_GUARD
Owed == modem.up /\ modem.user = NoOff /\ (st = "synced" \/ marker) => Untold \/ Shaking
OwedInv == loop # "off" => Spared /\ Owed
SyncInv == ClockInv /\ ConfirmedInv /\ OwedInv

(* The innermost frame of s goes or is replaced: how a transaction that    *)
(* ended, ok or not, leaves the stack.                                     *)
Rests(s) == SubSeq(s, 1, Len(s) - 1)
Leaves(s, t, ok) ==
    \/ t = Rests(s)
    \/ \E f : /\ t = Append(Rests(s), f)
              /\ f.op \in Shown => (ok /\ s[Len(s)].op = "set") \/ s[Len(s)].op \in Shown
              /\ s[Len(s)].job = "handshake" => f.job = "handshake"

(* Requests to set keep their offset when they lose their owner, and are   *)
(* only sent with one.                                                     *)
LEMMA SetsOrphaned ==
    ASSUME TimeInv, NEW n \in Nat
    PROVE  OwnSeq(Orphan(air, n)) /\ (SetsReal(air) => SetsReal(Orphan(air, n)))
<1> DEFINE t == Orphan(air, n)
<1>1. Linked(stack, air, rx, modem.boot, confirmed)
  BY DEF TimeInv
<1>2. OwnSeq(t)
  BY <1>1, RequestsOrphaned DEF Linked
<1>3. /\ DOMAIN t = DOMAIN air
      /\ \A i \in DOMAIN air : t[i] = IF air[i].owner > n THEN [air[i] EXCEPT !.owner = 0] ELSE air[i]
  BY DEF Orphan
<1>4. ASSUME NEW i \in DOMAIN air PROVE t[i].op = air[i].op /\ t[i].off = air[i].off
  <2>1. air[i] = [owner |-> air[i].owner, op |-> air[i].op, off |-> air[i].off]
    BY <1>1 DEF Linked, Request
  <2> HIDE DEF t
  <2> QED
    BY <1>3, <2>1
<1> HIDE DEF t
<1> QED
  BY <1>2, <1>3, <1>4 DEF SetsReal, t

LEMMA SetsSent ==
    ASSUME NEW q, OwnSeq(q), SetsReal(q), NEW n, NEW op, NEW off, op = "set" => off # NoOff
    PROVE  SetsReal(Sent(q, n, op, off))
<1> DEFINE r == [owner |-> n, op |-> op, off |-> off]
           y == Append(q, r)
<1>1. Sent(q, n, op, off) \in {q, y}
  BY SentOrLost
<1>2. r.op = op /\ r.off = off
  OBVIOUS
<1>3. /\ DOMAIN y = 1..(Len(q) + 1) /\ DOMAIN q = 1..Len(q) /\ Len(q) \in Nat
      /\ y[Len(q) + 1] = r /\ \A i \in DOMAIN q : y[i] = q[i]
  BY OwnAdded
<1> HIDE DEF r, y
<1>4. \A i \in DOMAIN y : i = Len(q) + 1 \/ i \in DOMAIN q
  BY <1>3
<1>5. SetsReal(y)
  BY <1>2, <1>3, <1>4 DEF SetsReal
<1> QED
  BY <1>1, <1>5

LEMMA AsksOn ==
    ASSUME TimeInv, stack # <<>>, NEW f, FrameFields(f), NEW op, op \notin Shown, Ask(f, op),
           op = "set" => f.off # NoOff, NEW ok, Top.job = "handshake" => f.job = "handshake"
    PROVE  /\ Leaves(stack, stack', ok) /\ (SetsReal(air) => SetsReal(air'))
           /\ stack' = Rests(stack) => Top.job # "handshake"
<1> DEFINE g == [f EXCEPT !.op = op, !.at = 0]
<1>1. stack' = Append(Rests(stack), g)
  BY DEF Ask, SetTop, Rest, Rests
<1>2. g.op = op /\ g.job = f.job
  <2>1. g = [f EXCEPT !.op = op, !.at = 0]
    OBVIOUS
  <2> HIDE DEF g
  <2> QED
    BY <2>1 DEF FrameFields
<1>3. Len(stack) - 1 \in Nat /\ Len(Rests(stack)) = Len(stack) - 1
  BY RestIs DEF TimeInv, RecInv, Rests
<1>4. Len(Append(Rests(stack), g)) = Len(stack) /\ Len(stack) \in Nat
  BY TopIs DEF TimeInv, RecInv, Rests
<1> HIDE DEF g
<1>5. Leaves(stack, stack', ok)
  BY <1>1, <1>2 DEF Leaves, Top
<1>6. SetsReal(air) => SetsReal(air')
  <2>1. air' = Sent(Orphan(air, Len(stack) - 1), Len(stack), op, f.off)
    BY DEF Ask
  <2> QED
    BY <1>3, <2>1, SetsOrphaned, SetsSent
<1> QED
  BY <1>1, <1>3, <1>4, <1>5, <1>6

LEMMA Back ==
    ASSUME TimeInv, stack # <<>>, Return, NEW ok
    PROVE  Leaves(stack, stack', ok) /\ (SetsReal(air) => SetsReal(air'))
<1>1. stack' = Rests(stack) /\ air' = Orphan(air, Len(stack) - 1)
  BY DEF Return, Rest, Rests
<1>2. Len(stack) - 1 \in Nat
  BY RestIs DEF TimeInv, RecInv
<1> QED
  BY <1>1, <1>2, SetsOrphaned DEF Leaves

(* How a transaction ends: what becomes of the stack, the requests and the *)
(* state.  Only a handshake that was told OK turns SYNCHRONIZED or makes   *)
(* the marker; one that fails removes it.                                  *)
Stays == st' = st /\ marker' = marker
Gives == st' = "failed" /\ marker' = FALSE
LEMMA EndedAs ==
    ASSUME TimeInv, stack # <<>>, NEW ok, NEW val, TransactionEnds(ok, val)
    PROVE  /\ Leaves(stack, stack', ok)
           /\ Stays \/ Gives \/ (ok /\ Top.op = "set")
           /\ stack' = Rests(stack) /\ Top.job = "handshake" => Gives \/ (ok /\ Top.op = "set")
           /\ SetsReal(air) => SetsReal(air')
           /\ UNCHANGED <<loop, lag, modem, lookups, confirmed>>
<1>1. FrameOk(Top) /\ FrameFields(Top)
  BY TopOk DEF FrameOk, TimeInv
<1>2. UNCHANGED <<loop, lag, modem, lookups, confirmed>>
  BY DEF TransactionEnds, world
<1>3. CASE TodRead(val)
  <2> DEFINE top == Top
             f == [top EXCEPT !.tod = val]
  <2>1. Ask(f, "rtc") /\ Stays
    BY <1>3 DEF TodRead, Stays
  <2>2. f = [top EXCEPT !.tod = val] /\ FrameFields(top) /\ "rtc" \notin Shown /\ "rtc" # "set"
    BY <1>1 DEF Shown
  <2> HIDE DEF f
  <2>3. FrameFields(f) /\ f.job = top.job
    <3> HIDE DEF top
    <3> QED
      BY <2>2 DEF FrameFields
  <2> QED
    BY <1>2, <2>1, <2>2, <2>3, AsksOn
<1>4. CASE RtcRead(val)
  <2> DEFINE top == Top
             f == [top EXCEPT !.rtc = val]
             off == GenOff(f)
             h == [f EXCEPT !.off = off, !.clk = clock]
  <2>1. f = [top EXCEPT !.rtc = val] /\ FrameFields(top)
    BY <1>1
  <2>2. FrameFields(f) /\ f.job = top.job
    <3> HIDE DEF top, f
    <3> QED
      BY <2>1 DEF FrameFields
  <2>3. CASE off.from = None
    <3>1. HandshakeFails(f)
      BY <1>4, <2>3 DEF RtcRead
    <3> HIDE DEF f
    <3>2. Return /\ (Stays \/ Gives) /\ (top.job = "handshake" => Gives)
      BY <2>2, <3>1 DEF HandshakeFails, Stays, Gives
    <3> QED
      BY <1>2, <3>2, Back
  <2>4. CASE off.from # None
    <3>1. Ask(h, "set") /\ Stays
      BY <1>4, <2>4 DEF RtcRead, Stays
    <3>2. h = [f EXCEPT !.off = off, !.clk = clock] /\ "set" \notin Shown
      BY DEF Shown
    <3> HIDE DEF h, off
    <3>3. FrameFields(h) /\ h.off = off /\ h.job = f.job
      <4> HIDE DEF f
      <4> QED
        BY <2>2, <3>2 DEF FrameFields
    <3>4. h.off # NoOff
      BY <2>4, <3>3 DEF NoOff
    <3> HIDE DEF f
    <3> QED
      BY <1>2, <2>2, <3>1, <3>2, <3>3, <3>4, AsksOn
  <2> QED
    BY <2>3, <2>4
<1>5. CASE SetDone(ok)
  <2> DEFINE top == Top
             f == [top EXCEPT !.op = "write"]
  <2>1. CASE ~ok
    <3>1. Return /\ (Stays \/ Gives) /\ (Top.job = "handshake" => Gives)
      BY <1>5, <2>1 DEF SetDone, HandshakeFails, Stays, Gives
    <3> QED
      BY <1>2, <3>1, Back
  <2>2. CASE ok /\ SetTop(f) /\ air' = Orphan(air, Len(stack) - 1)
    <3>1. Top.op = "set"
      BY <1>5 DEF SetDone
    <3>2. f = [top EXCEPT !.op = "write"] /\ FrameFields(top)
      BY <1>1
    <3>3. f.job = top.job
      <4> HIDE DEF f, top
      <4> QED
        BY <3>2 DEF FrameFields
    <3>4. stack' = Append(Rests(stack), f)
      BY <2>2 DEF SetTop, Rest, Rests
    <3> HIDE DEF f
    <3>5. Leaves(stack, stack', ok)
      BY <2>2, <3>1, <3>3, <3>4 DEF Leaves, Top
    <3>6. SetsReal(air) => SetsReal(air')
      <4>1. Len(stack) - 1 \in Nat
        BY RestIs DEF TimeInv, RecInv
      <4> QED
        BY <2>2, <4>1, SetsOrphaned
    <3> QED
      BY <1>2, <2>2, <3>1, <3>5, <3>6
  <2>3. CASE ok /\ Return
    <3>1. Top.op = "set"
      BY <1>5 DEF SetDone
    <3> QED
      BY <1>2, <2>3, <3>1, Back
  <2> QED
    BY <1>5, <2>1, <2>2, <2>3 DEF SetDone, HandshakeSucceeds
<1>6. CASE Validated(ok)
  <2> DEFINE f == Frame("uptime", "rtc")
  <2>1. Ask(f, "rtc") /\ (Stays \/ Gives) /\ Top.job # "handshake"
    BY <1>6 DEF Validated, Stays, Gives
  <2>2. FrameFields(f) /\ "rtc" \notin Shown /\ "rtc" # "set"
    BY DEF Frame, FrameFields, Shown
  <2> HIDE DEF f
  <2> QED
    BY <1>2, <2>1, <2>2, AsksOn
<1>7. CASE UptimeRead
  <2> DEFINE top == Top
  <2>1. Stays /\ Top.job # "handshake" /\ (Ask(top, "tod") \/ Return)
    BY <1>7 DEF UptimeRead, Stays
  <2>2. FrameFields(top) /\ "tod" \notin Shown /\ "tod" # "set"
    BY <1>1 DEF Shown
  <2> QED
    BY <1>2, <2>1, <2>2, AsksOn, Back
<1> QED
  BY <1>3, <1>4, <1>5, <1>6, <1>7 DEF TransactionEnds

-----------------------------------------------------------------------------
(* The stamps: the last handshake is never in the future, and only one     *)
(* that begins, a server that goes or a loop that caps the age changes it. *)
LEMMA Dials ==
    ASSUME d \in [Stamps -> Int], lag \in Nat
    PROVE  /\ \A x \in Stamps : Touched(d, x) \in [Stamps -> Int] /\ [d EXCEPT ![x] = 0] \in [Stamps -> Int]
           /\ Touched(Touched(d, "usr"), "ka") \in [Stamps -> Int]
           /\ Forgotten(Forgotten(d, "hs"), "lk") \in [Stamps -> Int]
           /\ Touched(d, "hs")["hs"] = -lag
           /\ Touched(Touched(d, "usr"), "ka")["hs"] = d["hs"]
           /\ [d EXCEPT !["usr"] = 0]["hs"] = d["hs"] /\ [d EXCEPT !["ka"] = 0]["hs"] = d["hs"]
           /\ Forgotten(Forgotten(d, "hs"), "lk")["hs"] = CAP
           /\ CAP \in Nat /\ DUP_GUARD <= CAP
<1>1. CAP \in Nat /\ DUP_GUARD <= CAP
  BY TimeAssumption DEF CAP
<1>2. -lag \in Int /\ {"hs", "usr", "ka", "lk"} = Stamps
  BY DEF Stamps
<1> HIDE DEF CAP
<1> QED
  BY <1>1, <1>2 DEF Touched, Forgotten

(* What a daemon's step does to the age of the last handshake.             *)
Aged == UNCHANGED lag /\ d' \in [Stamps -> Int] /\ d'["hs"] = d["hs"]
Begun == UNCHANGED lag /\ d' \in [Stamps -> Int] /\ d'["hs"] = -lag

LEMMA AgedWhenEnded ==
    ASSUME d \in [Stamps -> Int], lag \in Nat, NEW ok, NEW val,
           TransactionEnds(ok, val) \/ Write \/ Rename
    PROVE  Aged
<1>1. UNCHANGED lag
  BY DEF TransactionEnds, Write, Rename
<1>2. d' \in {d, Touched(Touched(d, "usr"), "ka"), [d EXCEPT !["ka"] = 0]}
  <2>1. CASE TransactionEnds(ok, val)
    BY <2>1 DEF TransactionEnds, TodRead, RtcRead, SetDone, Validated, UptimeRead, HandshakeFails,
       HandshakeSucceeds
  <2>2. CASE Write \/ Rename
    BY <2>2 DEF Write, WriteTemp, Rename, HandshakeSucceeds
  <2> QED
    BY <2>1, <2>2
<1>3. "ka" \in Stamps
  BY DEF Stamps
<1> QED
  BY <1>1, <1>2, <1>3, Dials DEF Aged

LEMMA PacketAges ==
    ASSUME d \in [Stamps -> Int], lag \in Nat, HandlePacket
    PROVE  Aged \/ Begun \/ (UNCHANGED lag /\ d' \in [Stamps -> Int] /\ d'["hs"] = CAP)
<1>1. UNCHANGED lag
  BY DEF HandlePacket
<1>2. d' \in {d, Touched(d, "hs"), Forgotten(Forgotten(d, "hs"), "lk")}
  BY DEF HandlePacket, NewServer, DelServer, BeginHandshake
<1>3. "hs" \in Stamps
  BY DEF Stamps
<1> QED
  BY <1>1, <1>2, <1>3, Dials DEF Aged, Begun

(* The daemon's steps: lookups are kept, a nested or a new transaction     *)
(* needs a running loop.                                                   *)
LEMMA Running ==
    ASSUME ClockInv, TimeInv, MaxLookups # 0, Main \/ Transactions
    PROVE  loop' # "off" /\ lookups' > 0 /\ (Start \/ loop # "off")
<1>1. lookups \in Nat /\ MaxLookups \in Nat /\ (AddLookup => lookups' > 0)
  BY TimeAssumption DEF TimeInv, ModemInv, AddLookup
<1>2. CASE Start
  BY <1>1, <1>2 DEF Start
<1>3. CASE Lookup \/ Retry \/ Refresh \/ Periodic
  <2>1. loop # "off" /\ loop' # "off" /\ (lookups' = lookups \/ AddLookup)
    BY <1>3 DEF Lookup, Retry, Refresh, Periodic, At, world
  <2> QED
    BY <1>1, <2>1 DEF ClockInv
<1>4. CASE PollReads
  <2>1. loop # "off" /\ loop' # "off" /\ (lookups' = lookups \/ AddLookup)
    BY <1>4 DEF PollReads, At, HandlePacket, DelServer
  <2> QED
    BY <1>1, <2>1 DEF ClockInv
<1>5. CASE Transactions
  <2>1. stack # <<>> /\ loop' = loop /\ (lookups' = lookups \/ AddLookup)
    BY <1>5 DEF Transactions, TakeReply, HandleWhileWaiting, TimesOut, Write, WriteTemp, Rename,
       TransactionEnds, HandlePacket, DelServer, Waiting, Expired, world
  <2> QED
    BY <1>1, <2>1 DEF ClockInv
<1> QED
  BY <1>2, <1>3, <1>4, <1>5 DEF Main

LEMMA ClockWhileDaemon ==
    ASSUME ClockInv, TimeInv, MaxLookups # 0, Main \/ Transactions
    PROVE  ClockInv'
<1>1. loop' # "off" /\ lookups' > 0 /\ UNCHANGED modem
  BY Running, DaemonSteps
<1>2. d \in [Stamps -> Int] /\ lag \in Nat /\ Age \in Int /\ Age >= 0 /\ modem.down \in Nat
      /\ d["hs"] \in Int
  <2>1. "hs" \in Stamps
    BY DEF Stamps
  <2> QED
    BY <2>1 DEF ClockInv, Age
<1>3. CAP \in Nat /\ \A x \in Stamps : [d EXCEPT ![x] = 0] \in [Stamps -> Int]
  BY <1>2, Dials
<1>4. SUFFICES d' \in [Stamps -> Int] /\ lag' \in Nat /\ Age' >= 0
  BY <1>1, <1>2 DEF ClockInv
<1>5. CASE Aged \/ Begun \/ (UNCHANGED lag /\ d' \in [Stamps -> Int] /\ d'["hs"] = CAP)
  BY <1>2, <1>3, <1>5 DEF Aged, Begun, Age
<1>6. CASE Start
  <2>1. d' = [x \in Stamps |-> IF x = "lk" THEN CAP ELSE 0] /\ lag' = lag
    BY <1>6 DEF Start
  <2>2. "hs" \in Stamps
    BY DEF Stamps
  <2> QED
    BY <1>2, <1>3, <2>1, <2>2 DEF Age
<1>7. CASE Lookup
  <2> DEFINE at == [x \in Stamps |-> IF d[x] + lag > CAP THEN CAP ELSE d[x] + lag]
  <2>1. d' \in {at, [at EXCEPT !["lk"] = 0]} /\ lag' = 0
    BY <1>7 DEF Lookup
  <2>2. at \in [Stamps -> Int] /\ "hs" \in Stamps /\ at["hs"] >= 0
    BY <1>2, <1>3 DEF Stamps, Age
  <2> HIDE DEF at
  <2> QED
    BY <2>1, <2>2 DEF Age
<1>8. CASE Retry \/ Refresh \/ Periodic
  <2>1. d' \in {d, Touched(d, "hs"), [d EXCEPT !["usr"] = 0]} /\ lag' = lag
    BY <1>8 DEF Retry, Refresh, Periodic, BeginHandshake
  <2>2. "hs" \in Stamps /\ "usr" \in Stamps
    BY DEF Stamps
  <2> QED
    BY <1>2, <1>5, <2>1, <2>2, Dials DEF Aged, Begun
<1>9. CASE PollReads \/ HandleWhileWaiting
  BY <1>2, <1>5, <1>9, PacketAges DEF PollReads, HandleWhileWaiting
<1>10. CASE TakeReply \/ TimesOut \/ Write \/ Rename
  <2>1. \E ok, val : TransactionEnds(ok, val) \/ Write \/ Rename
    BY <1>10 DEF TakeReply, TimesOut
  <2> QED
    BY <1>2, <1>5, <2>1, AgedWhenEnded
<1> QED
  BY <1>6, <1>7, <1>8, <1>9, <1>10 DEF Main, Transactions

LEMMA ClockStep ==
    ASSUME ClockInv, TimeInv, MaxLookups # 0, [Next]_vars
    PROVE  ClockInv'
<1>1. CASE Main \/ Transactions
  BY <1>1, ClockWhileDaemon
<1>2. modem = [boot |-> modem.boot, up |-> modem.up, down |-> modem.down,
               tod |-> modem.tod, user |-> modem.user]
  BY DEF TimeInv, ModemInv
<1>3. CASE ModemAnswers \/ ModemDies \/ ModemBoots \/ NitzLocks \/ ClockSet \/ UNCHANGED vars
  <2>1. UNCHANGED <<loop, stack, st, d, lag, lookups>>
    BY <1>3 DEF ModemAnswers, ModemDies, ModemBoots, NitzLocks, ClockSet, vars, daemon, world
  <2>2. modem'.down \in {modem.down, 0}
    BY <1>2, <1>3 DEF ModemAnswers, Effect, ModemDies, Dead, ModemBoots, NitzLocks, ClockSet, vars, world
  <2> QED
    BY <2>1, <2>2 DEF ClockInv, Age
<1>4. CASE Killed \/ PowerLoss
  <2>1. /\ loop' = "off" /\ stack' = <<>> /\ st' = "discovering" /\ lag' = 0
        /\ d' = [x \in Stamps |-> 0] /\ modem'.down \in {modem.down, 0}
    BY <1>2, <1>4 DEF Killed, PowerLoss, Gone, Dead
  <2>2. "hs" \in Stamps
    BY DEF Stamps
  <2> QED
    BY <2>1, <2>2 DEF ClockInv, Age
<1>5. CASE Tick
  <2>1. /\ modem' = [modem EXCEPT !.down = IF ~modem.up /\ @ < MODEM_BOOT THEN @ + 1 ELSE @]
        /\ UNCHANGED <<d, st, lookups>> /\ lag' = IF loop = "off" THEN 0 ELSE lag + 1
        /\ loop' = "off" <=> loop = "off"
        /\ stack = <<>> => stack' = <<>>
    BY <1>5 DEF Tick, At
  <2>2. modem'.down \in Nat
    BY <1>2, <2>1 DEF ClockInv
  <2>3. "hs" \in Stamps
    BY DEF Stamps
  <2> QED
    BY <2>1, <2>2, <2>3 DEF ClockInv, Age
<1> QED
  BY <1>1, <1>3, <1>4, <1>5 DEF Next, World

-----------------------------------------------------------------------------
(* Who has been told OK.                                                   *)
LEMMA LeavesIs ==
    ASSUME NEW s, StackInv(s), s # <<>>, NEW t, NEW ok, Leaves(s, t, ok)
    PROVE  /\ Len(s) \in Nat \ {0} /\ Len(t) \in {Len(s) - 1, Len(s)}
           /\ \A i \in 1..(Len(s) - 1) : t[i] = s[i]
           /\ t = Rests(s) \/ Len(t) = Len(s)
           /\ Len(t) = Len(s) =>
                /\ t[Len(s)].op \in Shown => (ok /\ s[Len(s)].op = "set") \/ s[Len(s)].op \in Shown
                /\ s[Len(s)].job = "handshake" => t[Len(s)].job = "handshake"
<1>1. CASE t = Rests(s)
  <2>1. Len(s) \in Nat \ {0} /\ Len(t) = Len(s) - 1 /\ \A i \in 1..(Len(s) - 1) : t[i] = s[i]
    BY <1>1, RestIs DEF Rests
  <2> QED
    BY <1>1, <2>1
<1>2. CASE t # Rests(s)
  <2>1. PICK f : /\ t = Append(Rests(s), f)
                 /\ f.op \in Shown => (ok /\ s[Len(s)].op = "set") \/ s[Len(s)].op \in Shown
                 /\ s[Len(s)].job = "handshake" => f.job = "handshake"
    BY <1>2 DEF Leaves
  <2>2. /\ Len(t) = Len(s) /\ t[Len(s)] = f /\ \A i \in 1..(Len(s) - 1) : t[i] = s[i]
        /\ Len(s) \in Nat \ {0}
    BY <2>1, TopIs DEF Rests
  <2> QED
    BY <2>1, <2>2
<1> QED
  BY <1>1, <1>2

LEMMA WritingLeft ==
    ASSUME NEW s, StackInv(s), s # <<>>, Writing(s), NEW t, NEW ok, Leaves(s, t, ok),
           ok /\ s[Len(s)].op = "set" => JustNow
    PROVE  Writing(t)
<1>1. /\ Len(s) \in Nat \ {0} /\ Len(t) \in {Len(s) - 1, Len(s)}
      /\ \A i \in 1..(Len(s) - 1) : t[i] = s[i]
      /\ Len(t) = Len(s) =>
           (t[Len(s)].op \in Shown => (ok /\ s[Len(s)].op = "set") \/ s[Len(s)].op \in Shown)
  BY LeavesIs
<1> SUFFICES ASSUME NEW n \in 1..Len(t), t[n].op \in Shown PROVE n = Len(t) /\ JustNow
  BY DEF Writing
<1>2. CASE n \in 1..(Len(s) - 1)
  <2>1. n \in 1..Len(s) /\ n # Len(s) /\ s[n].op \in Shown
    BY <1>1, <1>2
  <2> QED
    BY <2>1 DEF Writing
<1>3. CASE n = Len(s) /\ Len(t) = Len(s)
  <2>1. s[Len(s)].op \in Shown => JustNow
    BY <1>1 DEF Writing
  <2> QED
    BY <1>1, <1>3, <2>1
<1> QED
  BY <1>1, <1>2, <1>3

LEMMA WritingPushed ==
    ASSUME NEW s, StackInv(s), \A n \in 1..Len(s) : s[n].op \notin Shown, NEW f, f.op \notin Shown
    PROVE  Writing(Append(s, f))
<1> DEFINE t == Append(s, f)
<1>1. /\ OwnSeq(t) /\ DOMAIN t = 1..(Len(s) + 1) /\ Len(s) \in Nat /\ DOMAIN s = 1..Len(s)
      /\ t[Len(s) + 1] = f /\ \A i \in DOMAIN s : t[i] = s[i]
  BY OwnAdded DEF StackInv, OwnSeq
<1> HIDE DEF t
<1>2. Len(t) = Len(s) + 1
  BY <1>1 DEF OwnSeq
<1> QED
  BY <1>1, <1>2 DEF Writing, t

(* The replies of y that somebody waits for are replies of x.              *)
From(x, y) ==
    \A i \in DOMAIN y : y[i].kind = "resp" /\ y[i].owner # 0 => \E j \in DOMAIN x : y[i] = x[j]

LEMMA FromSome ==
    ASSUME NEW x, OwnSeq(x)
    PROVE  /\ From(x, x) /\ From(x, Announce(x)) /\ OwnSeq(Announce(x))
           /\ x # <<>> => From(x, Tail(x)) /\ From(x, Announce(Tail(x)))
<1> DEFINE p == [kind |-> "new", boot |-> modem.boot]
<1>1. ASSUME NEW y, OwnSeq(y), From(x, y) PROVE From(x, Announce(y)) /\ OwnSeq(Announce(y))
  <2> DEFINE z == Append(y, p)
  <2>1. /\ OwnSeq(z) /\ DOMAIN z = 1..(Len(y) + 1) /\ Len(y) \in Nat /\ DOMAIN y = 1..Len(y)
        /\ z[Len(y) + 1] = p /\ \A i \in DOMAIN y : z[i] = y[i]
    BY <1>1, OwnAdded
  <2>2. p.kind # "resp"
    OBVIOUS
  <2>3. Announce(y) \in {y, z}
    BY DEF Announce
  <2> HIDE DEF z, p
  <2>4. \A i \in DOMAIN z : i = Len(y) + 1 \/ i \in DOMAIN y
    BY <2>1
  <2>5. From(x, z)
    BY <1>1, <2>1, <2>2, <2>4 DEF From
  <2> QED
    BY <1>1, <2>1, <2>3, <2>5
<1>2. From(x, x)
  BY DEF From
<1>3. x # <<>> => OwnSeq(Tail(x)) /\ From(x, Tail(x))
  BY OwnTaken DEF From
<1> QED
  BY <1>1, <1>2, <1>3

LEMMA FromOrphaned ==
    ASSUME NEW s, NEW a, NEW x, NEW b, NEW c, Linked(s, a, x, b, c), NEW n
    PROVE  From(x, OrphanRx(x, n))
<1> DEFINE y == OrphanRx(x, n)
<1>1. /\ DOMAIN y = DOMAIN x
      /\ \A i \in DOMAIN x : y[i] = IF x[i].kind = "resp" /\ x[i].owner > n
                                   THEN [x[i] EXCEPT !.owner = 0] ELSE x[i]
  BY DEF OrphanRx
<1> HIDE DEF y
<1>2. ASSUME NEW i \in DOMAIN x PROVE y[i] = x[i] \/ y[i].owner = 0
  <2>1. CASE x[i].kind = "resp" /\ x[i].owner > n
    <3> DEFINE r == x[i]
               q == y[i]
    <3>1. q = [r EXCEPT !.owner = 0] /\ r = [kind |-> r.kind, owner |-> r.owner, ok |-> r.ok, val |-> r.val]
      BY <1>1, <2>1 DEF Linked, Answer
    <3> HIDE DEF r, q
    <3>2. q.owner = 0
      BY <3>1
    <3> QED
      BY <3>2 DEF q
  <2>2. CASE ~(x[i].kind = "resp" /\ x[i].owner > n)
    BY <1>1, <2>2, Zenon
  <2> QED
    BY <2>1, <2>2
<1>3. From(x, y)
  BY <1>1, <1>2 DEF From
<1> QED
  BY <1>3 DEF y

LEMMA HeardKept ==
    ASSUME NEW s, NEW x, Heard(s, x), NEW y, From(x, y), NEW t, NEW n \in Nat,
           \A i \in DOMAIN y : y[i].kind = "resp" => y[i].owner \in 0..n,
           \A i \in 1..n : t[i] = s[i]
    PROVE  Heard(t, y)
<1> SUFFICES ASSUME NEW i \in DOMAIN y, Hears(t, y[i]) PROVE JustNow
  BY DEF Heard
<1>1. PICK j \in DOMAIN x : y[i] = x[j]
  BY DEF Hears, From
<1>2. y[i].owner \in 1..n
  BY DEF Hears
<1>3. Hears(s, x[j])
  BY <1>1, <1>2 DEF Hears
<1> QED
  BY <1>3 DEF Heard

LEMMA TookOk ==
    ASSUME TimeInv, ConfirmedInv, TakeReply, Head(rx).ok, Top.op = "set"
    PROVE  JustNow
<1>1. rx # <<>> /\ Head(rx).kind = "resp" /\ Head(rx).owner = Len(stack) /\ stack # <<>>
  BY DEF TakeReply, Mine, Waiting
<1>2. Len(stack) # 0
  BY <1>1, RestIs DEF TimeInv, RecInv
<1>3. 1 \in DOMAIN rx /\ Head(rx) = rx[1]
  BY <1>1, OwnTaken DEF TimeInv, Linked
<1>4. Hears(stack, rx[1])
  BY <1>1, <1>2, <1>3 DEF Hears, Top
<1> QED
  BY <1>3, <1>4 DEF ConfirmedInv, Heard

(* Frames below a new one, and those under the innermost, keep what they   *)
(* wait for.                                                               *)
LEMMA HeardPushed ==
    ASSUME TimeInv, Heard(stack, rx), NEW y, From(rx, y),
           NEW t, t = stack \/ \E f : t = Append(stack, f)
    PROVE  Heard(t, y)
<1>1. Len(stack) \in Nat /\ \A i \in 1..Len(stack) : t[i] = stack[i]
  BY OwnAdded DEF TimeInv, RecInv, StackInv, OwnSeq
<1>2. \A i \in DOMAIN rx : rx[i].kind = "resp" => rx[i].owner \in 0..Len(stack)
  BY DEF TimeInv, Linked, Answer
<1>3. \A i \in DOMAIN y : y[i].kind = "resp" => y[i].owner \in 0..Len(stack)
  BY <1>1, <1>2 DEF From
<1> QED
  BY <1>1, <1>3, HeardKept

LEMMA HeardLeft ==
    ASSUME TimeInv, stack # <<>>, Heard(stack, rx), NEW y, From(rx, y),
           \A i \in DOMAIN y : y[i].kind = "resp" => y[i].owner <= Len(stack) - 1,
           NEW t, NEW ok, Leaves(stack, t, ok)
    PROVE  Heard(t, y)
<1>1. Len(stack) - 1 \in Nat /\ \A i \in 1..(Len(stack) - 1) : t[i] = stack[i]
  BY LeavesIs DEF TimeInv, RecInv
<1>2. \A i \in DOMAIN rx : rx[i].kind = "resp" => rx[i].owner \in Nat
  BY DEF TimeInv, Linked, Answer
<1>3. \A i \in DOMAIN y : y[i].kind = "resp" => y[i].owner \in 0..(Len(stack) - 1)
  BY <1>1, <1>2 DEF From
<1> QED
  BY <1>1, <1>3, HeardKept

(* The three parts through the daemon's steps.                             *)
LEMMA ConfirmedWhenBegun ==
    ASSUME TimeInv, ConfirmedInv, \A n \in 1..Len(stack) : stack[n].op \notin Shown,
           NEW y, From(rx, y),
           \/ UNCHANGED <<stack, air>>
           \/ \E job : \E op \in {"tod", "get"} :
                /\ stack' = Append(stack, Frame(job, op))
                /\ air' = Sent(air, Len(stack) + 1, op, NoOff)
    PROVE  SetsReal(air') /\ Heard(stack', y) /\ Writing(stack')
<1>1. StackInv(stack) /\ OwnSeq(air)
  BY DEF TimeInv, RecInv, Linked
<1>2. CASE UNCHANGED <<stack, air>>
  BY <1>2, HeardPushed DEF ConfirmedInv
<1>3. ASSUME NEW job, NEW op \in {"tod", "get"}, stack' = Append(stack, Frame(job, op)),
             air' = Sent(air, Len(stack) + 1, op, NoOff)
      PROVE  SetsReal(air') /\ Heard(stack', y) /\ Writing(stack')
  <2> DEFINE f == Frame(job, op)
  <2>1. f.op \notin Shown /\ op # "set"
    BY DEF Frame, Shown
  <2>2. stack' = Append(stack, f)
    BY <1>3
  <2> HIDE DEF f
  <2>3. Writing(stack')
    BY <1>1, <2>1, <2>2, WritingPushed
  <2>4. Heard(stack', y)
    BY <2>2, HeardPushed DEF ConfirmedInv
  <2>5. SetsReal(air')
    BY <1>1, <1>3, <2>1, SetsSent DEF ConfirmedInv
  <2> QED
    BY <2>3, <2>4, <2>5
<1> QED
  BY <1>2, <1>3

LEMMA ConfirmedWhenLeft ==
    ASSUME TimeInv, ConfirmedInv, stack # <<>>, NEW ok, Leaves(stack, stack', ok), SetsReal(air'),
           ok /\ Top.op = "set" => JustNow, NEW y, From(rx, y),
           \A i \in DOMAIN y : y[i].kind = "resp" => y[i].owner <= Len(stack) - 1
    PROVE  SetsReal(air') /\ Heard(stack', y) /\ Writing(stack')
<1>1. Heard(stack', y)
  BY HeardLeft DEF ConfirmedInv
<1>2. Writing(stack')
  BY WritingLeft DEF ConfirmedInv, TimeInv, RecInv, Top
<1> QED
  BY <1>1, <1>2

(* A frame that writes the record down waits for nothing.                  *)
LEMMA NoneToWriter ==
    ASSUME TimeInv, stack # <<>>, Top.op \in Shown, NEW i \in DOMAIN rx, rx[i].kind = "resp"
    PROVE  rx[i].owner <= Len(stack) - 1
<1>1. Answer(stack, rx[i], modem.boot, confirmed)
  BY DEF TimeInv, Linked
<1>2. Len(stack) \in Nat \ {0}
  BY RestIs DEF TimeInv, RecInv
<1>3. rx[i].owner # Len(stack)
  BY <1>1, <1>2 DEF Answer, Accepts, Top
<1> QED
  BY <1>1, <1>2, <1>3 DEF Answer

(* The record is written and shown, or the flash is full: only then, and   *)
(* just after the OK, does a handshake end well.                           *)
LEMMA WrittenAs ==
    ASSUME TimeInv, ConfirmedInv, Write \/ Rename
    PROVE  /\ stack # <<>> /\ Top.op \in Shown /\ JustNow
           /\ Leaves(stack, stack', FALSE) /\ SetsReal(air')
           /\ UNCHANGED <<loop, marker, rx, modem, lookups, confirmed>>
           /\ st' = st \/ st' = "synced"
<1>1. stack # <<>> /\ Top.op \in Shown
  BY DEF Write, WriteTemp, Rename, Shown
<1>2. JustNow
  BY <1>1, RestIs DEF TimeInv, RecInv, ConfirmedInv, Writing, Top
<1>3. UNCHANGED <<loop, marker, rx, modem, lookups, confirmed>> /\ (st' = st \/ st' = "synced")
  BY DEF Write, WriteTemp, Rename, HandshakeSucceeds, world
<1>4. CASE Return
  <2>1. Leaves(stack, stack', FALSE) /\ SetsReal(air')
    BY <1>1, <1>4, Back DEF ConfirmedInv
  <2> QED
    BY <1>1, <1>2, <1>3, <2>1
<1>5. CASE ~Return
  <2> DEFINE top == Top
             f == [top EXCEPT !.op = "rename"]
  <2>1. SetTop(f) /\ air' = air
    BY <1>5 DEF Write, WriteTemp, Rename, HandshakeSucceeds
  <2>2. f = [top EXCEPT !.op = "rename"] /\ FrameFields(top)
    BY <1>1, TopOk DEF TimeInv, FrameOk
  <2>3. f.job = top.job
    <3> HIDE DEF f, top
    <3> QED
      BY <2>2 DEF FrameFields
  <2>4. stack' = Append(Rests(stack), f)
    BY <2>1 DEF SetTop, Rest, Rests
  <2> HIDE DEF f
  <2>5. Leaves(stack, stack', FALSE)
    BY <1>1, <2>3, <2>4 DEF Leaves, Top
  <2> QED
    BY <1>1, <1>2, <1>3, <2>1, <2>5 DEF ConfirmedInv
<1> QED
  BY <1>4, <1>5

(* A reply is taken, or the deadline passes.                               *)
LEMMA RepliesLeft ==
    ASSUME TimeInv, TakeReply \/ TimesOut
    PROVE  /\ From(rx, rx') /\ stack # <<>>
           /\ \A i \in DOMAIN rx' : rx'[i].kind = "resp" => rx'[i].owner <= Len(stack) - 1
<1>1. Linked(stack, air, rx, modem.boot, confirmed) /\ OwnSeq(rx)
  BY DEF TimeInv, Linked
<1>2. stack # <<>>
  BY DEF TakeReply, TimesOut, Expired, Waiting
<1>3. Len(stack) \in Nat \ {0} /\ Len(stack) - 1 \in Nat
  BY <1>2, RestIs DEF TimeInv, RecInv
<1>4. CASE TakeReply
  <2>1. rx # <<>> /\ Head(rx).kind = "resp" /\ Head(rx).owner = Len(stack) /\ rx' = Tail(rx)
    BY <1>4 DEF TakeReply, Mine
  <2>2. UpTo(Orphan(air, Len(stack) - 1), Tail(rx), Len(stack) - 1)
    BY <1>1, <1>3, <2>1, ReplyTaken
  <2> QED
    BY <1>1, <1>2, <2>1, <2>2, FromSome DEF UpTo
<1>5. CASE TimesOut
  <2>1. rx' = OrphanRx(rx, Len(stack) - 1)
    BY <1>5 DEF TimesOut
  <2> QED
    BY <1>1, <1>2, <1>3, <2>1, RepliesOrphaned, FromOrphaned
<1> QED
  BY <1>4, <1>5

LEMMA EndsWith ==
    ASSUME TakeReply \/ TimesOut
    PROVE  \E ok, val : TransactionEnds(ok, val) /\ (ok => TakeReply /\ Head(rx).ok)
<1>1. CASE TakeReply
  <2> DEFINE ok == Head(rx).ok
  <2>1. \E val : TransactionEnds(ok, val)
    BY <1>1 DEF TakeReply
  <2> QED
    BY <1>1, <2>1
<1>2. CASE TimesOut
  <2>1. TransactionEnds(FALSE, 0)
    BY <1>2 DEF TimesOut
  <2> QED
    BY <2>1
<1> QED
  BY <1>1, <1>2

LEMMA NoWriter ==
    ASSUME TimeInv, ConfirmedInv, stack = <<>> \/ Waiting
    PROVE  \A n \in 1..Len(stack) : stack[n].op \notin Shown
<1>1. CASE stack = <<>>
  BY <1>1
<1>2. CASE stack # <<>> /\ Waiting
  <2>1. Top.op \notin Shown
    BY <1>2 DEF Waiting, Shown
  <2> QED
    BY <2>1 DEF ConfirmedInv, Writing, Top
<1> QED
  BY <1>1, <1>2

LEMMA ConfirmedWhileDaemon ==
    ASSUME TimeInv, ConfirmedInv, Main \/ Transactions
    PROVE  ConfirmedInv'
<1>1. UNCHANGED modem
  BY DaemonSteps
<1>2. SUFFICES SetsReal(air') /\ Heard(stack', rx') /\ Writing(stack')
  <2>1. JustNow' = JustNow
    BY <1>1 DEF JustNow
  <2> QED
    BY <2>1 DEF ConfirmedInv, SetsReal, Heard, Writing
<1>3. OwnSeq(rx) /\ From(rx, rx) /\ From(rx, Announce(rx)) /\ From(rx, Announce(<<>>))
  <2>1. OwnSeq(rx) /\ OwnSeq(<<>>)
    BY DEF TimeInv, Linked, OwnSeq
  <2>2. From(rx, Announce(<<>>))
    BY <2>1, FromSome DEF From
  <2> QED
    BY <2>1, <2>2, FromSome
<1>4. CASE Start \/ Lookup
  <2>1. UNCHANGED <<stack, air>> /\ rx' \in {rx, Announce(rx), Announce(<<>>)}
    BY <1>4 DEF Start, Lookup
  <2> QED
    BY <1>3, <2>1, HeardPushed DEF ConfirmedInv
<1>5. CASE Retry
  <2>1. /\ rx' = rx /\ stack = <<>>
        /\ \/ UNCHANGED <<stack, air>>
           \/ /\ stack' = Append(stack, Frame("handshake", "tod"))
              /\ air' = Sent(air, Len(stack) + 1, "tod", NoOff)
    BY <1>5 DEF Retry, BeginHandshake, At
  <2> QED
    BY <1>3, <2>1, NoWriter, ConfirmedWhenBegun
<1>6. CASE Refresh \/ Periodic
  <2>1. /\ rx' = rx /\ stack = <<>>
        /\ \/ UNCHANGED <<stack, air>>
           \/ stack' = <<Frame("refresh", "tod")>> /\ air' = Sent(air, 1, "tod", NoOff)
           \/ stack' = <<Frame("validate", "get")>> /\ air' = Sent(air, 1, "get", NoOff)
    BY <1>6 DEF Refresh, Periodic, At
  <2>2. /\ Append(stack, Frame("refresh", "tod")) = <<Frame("refresh", "tod")>>
        /\ Append(stack, Frame("validate", "get")) = <<Frame("validate", "get")>>
        /\ Len(stack) + 1 = 1
    BY <2>1
  <2>3. \/ UNCHANGED <<stack, air>>
        \/ \E job : \E op \in {"tod", "get"} :
             /\ stack' = Append(stack, Frame(job, op))
             /\ air' = Sent(air, Len(stack) + 1, op, NoOff)
    BY <2>1, <2>2
  <2> QED
    BY <1>3, <2>1, <2>3, NoWriter, ConfirmedWhenBegun
<1>7. CASE PollReads \/ HandleWhileWaiting
  <2>1. HandlePacket /\ rx # <<>> /\ (stack = <<>> \/ Waiting)
    BY <1>7 DEF PollReads, HandleWhileWaiting, At
  <2>2. /\ rx' \in {Tail(rx), Announce(Tail(rx))}
        /\ \/ UNCHANGED <<stack, air>>
           \/ /\ stack' = Append(stack, Frame("handshake", "tod"))
              /\ air' = Sent(air, Len(stack) + 1, "tod", NoOff)
    BY <2>1 DEF HandlePacket, NewServer, DelServer, BeginHandshake
  <2>3. From(rx, rx')
    BY <1>3, <2>1, <2>2, FromSome
  <2> QED
    BY <2>1, <2>2, <2>3, NoWriter, ConfirmedWhenBegun
<1>8. CASE TakeReply \/ TimesOut
  <2>1. PICK ok, val : TransactionEnds(ok, val) /\ (ok => TakeReply /\ Head(rx).ok)
    BY <1>8, EndsWith
  <2>2. /\ From(rx, rx') /\ stack # <<>>
        /\ \A i \in DOMAIN rx' : rx'[i].kind = "resp" => rx'[i].owner <= Len(stack) - 1
    BY <1>8, RepliesLeft
  <2>3. ok /\ Top.op = "set" => JustNow
    BY <2>1, TookOk
  <2>4. Leaves(stack, stack', ok) /\ SetsReal(air')
    BY <2>1, <2>2, EndedAs DEF ConfirmedInv
  <2> QED
    BY <2>2, <2>3, <2>4, ConfirmedWhenLeft
<1>9. CASE Write \/ Rename
  <2>1. /\ stack # <<>> /\ Top.op \in Shown /\ JustNow /\ rx' = rx
        /\ Leaves(stack, stack', FALSE) /\ SetsReal(air')
    BY <1>9, WrittenAs
  <2>2. \A i \in DOMAIN rx : rx[i].kind = "resp" => rx[i].owner <= Len(stack) - 1
    BY <2>1, NoneToWriter
  <2> QED
    BY <1>3, <2>1, <2>2, ConfirmedWhenLeft
<1> QED
  BY <1>4, <1>5, <1>6, <1>7, <1>8, <1>9 DEF Main, Transactions

(* The modem answers: who is told that a SET was accepted is told just now. *)
LEMMA ConfirmedWhenAnswered ==
    ASSUME TimeInv, ConfirmedInv, ModemAnswers
    PROVE  ConfirmedInv' /\ (modem'.user = modem.user \/ modem'.user # NoOff)
<1> DEFINE r == Head(air)
<1>1. air # <<>> /\ air' = Tail(air) /\ UNCHANGED stack /\ modem.up
  BY DEF ModemAnswers, daemon
<1>2. /\ OwnSeq(air) /\ OwnSeq(rx) /\ Request(stack, r, modem.boot) /\ StackInv(stack)
      /\ modem = [boot |-> modem.boot, up |-> modem.up, down |-> modem.down,
                  tod |-> modem.tod, user |-> modem.user]
  BY <1>1, RequestTaken DEF TimeInv, Linked, RecInv, ModemInv
<1>3. /\ 1 \in DOMAIN air /\ r = air[1]
      /\ \A i \in DOMAIN Tail(air) : i + 1 \in DOMAIN air /\ Tail(air)[i] = air[i + 1]
  BY <1>1, <1>2, OwnTaken
<1>4. r.op = "set" => r.off # NoOff
  BY <1>3 DEF ConfirmedInv, SetsReal
<1>5. SetsReal(air')
  BY <1>1, <1>3 DEF ConfirmedInv, SetsReal
<1>6. \/ UNCHANGED modem
      \/ Effect(r)
  BY DEF ModemAnswers
<1>7. Effect(r) => IF r.op = "set" THEN modem'.user = r.off ELSE modem' = modem
  BY <1>2 DEF Effect
<1>8. modem'.user = modem.user \/ modem'.user # NoOff
  BY <1>4, <1>6, <1>7
<1>9. modem'.up = modem.up /\ modem'.down = modem.down
  BY <1>2, <1>6 DEF Effect
<1>10. JustNow => JustNow'
  BY <1>8, <1>9 DEF JustNow
<1>11. Writing(stack)'
  BY <1>1, <1>10 DEF ConfirmedInv, Writing
<1>12. ASSUME rx' = rx PROVE Heard(stack, rx)'
  BY <1>1, <1>10, <1>12 DEF ConfirmedInv, Heard, Hears
<1>13. ASSUME rx' # rx PROVE Heard(stack, rx)'
  <2>1. PICK ok \in BOOLEAN : rx' = Append(rx, Reply(r, ok)) /\ r.owner # 0 /\ (ok => Effect(r))
    <3>1. CASE Effect(r) /\ rx' = IF r.owner = 0 THEN rx ELSE Append(rx, Reply(r, TRUE))
      BY <1>13, <3>1
    <3>2. CASE r.owner # 0 /\ rx' = Append(rx, Reply(r, FALSE))
      BY <3>2
    <3> QED
      BY <1>13, <3>1, <3>2 DEF ModemAnswers
  <2> DEFINE p == Reply(r, ok)
             y == Append(rx, p)
  <2>2. p.owner = r.owner /\ p.ok = ok
    BY DEF Reply
  <2>3. /\ DOMAIN y = 1..(Len(rx) + 1) /\ DOMAIN rx = 1..Len(rx) /\ Len(rx) \in Nat
        /\ y[Len(rx) + 1] = p /\ \A i \in DOMAIN rx : y[i] = rx[i]
    BY <1>2, OwnAdded
  <2>4. rx' = y
    BY <2>1
  <2> HIDE DEF p, y, r
  <2>5. Hears(stack, p) => JustNow'
    <3>1. Hears(stack, p) => r.op = "set" /\ Effect(r)
      BY <1>2, <2>1, <2>2 DEF Hears, Request, Waits
    <3> QED
      BY <1>4, <1>7, <3>1 DEF JustNow
  <2>6. \A i \in DOMAIN y : i = Len(rx) + 1 \/ i \in DOMAIN rx
    BY <2>3
  <2>7. \A i \in DOMAIN y : Hears(stack, y[i]) => JustNow'
    BY <1>10, <2>3, <2>5, <2>6 DEF ConfirmedInv, Heard
  <2> QED
    BY <1>1, <2>4, <2>7 DEF Heard, Hears
<1> QED
  BY <1>5, <1>8, <1>11, <1>12, <1>13 DEF ConfirmedInv, SetsReal

LEMMA ConfirmedWhileWorld ==
    ASSUME TimeInv, ClockInv, ConfirmedInv, World \/ Tick \/ UNCHANGED vars
    PROVE  ConfirmedInv'
<1>1. /\ modem = [boot |-> modem.boot, up |-> modem.up, down |-> modem.down,
                  tod |-> modem.tod, user |-> modem.user]
      /\ ~modem.up => modem.user = NoOff /\ (rx # <<>> => modem.down = 0)
  BY DEF TimeInv, ModemInv
<1>2. CASE ModemAnswers
  BY <1>2, ConfirmedWhenAnswered
<1>3. CASE ModemDies
  <2>1. UNCHANGED stack /\ air' = <<>> /\ modem' = Dead
    BY <1>3 DEF ModemDies, daemon
  <2>2. JustNow'
    BY <1>1, <2>1 DEF Dead, JustNow
  <2> QED
    BY <2>1, <2>2 DEF ConfirmedInv, SetsReal, Heard, Writing
<1>4. CASE ModemBoots
  <2>1. /\ ~modem.up /\ modem.down = MODEM_BOOT /\ UNCHANGED <<stack, air>>
        /\ rx' = rx \o Packets("new", modem.boot + 1)
    BY <1>4 DEF ModemBoots, daemon
  <2>2. rx = <<>> /\ ~JustNow
    BY <1>1, <2>1, TimeAssumption DEF JustNow
  <2>3. rx' = Packets("new", modem.boot + 1)
    BY <2>1, <2>2 DEF Packets, TimeInv, ModemInv
  <2>4. \A i \in DOMAIN rx' : rx'[i].kind # "resp"
    BY <2>3 DEF Packets
  <2> QED
    BY <2>1, <2>2, <2>4 DEF ConfirmedInv, SetsReal, Heard, Hears, Writing
<1>5. CASE NitzLocks \/ ClockSet \/ UNCHANGED vars
  <2>1. UNCHANGED <<stack, air, rx>> /\ modem'.user = modem.user /\ modem'.up = modem.up
        /\ modem'.down = modem.down
    BY <1>1, <1>5 DEF NitzLocks, ClockSet, vars, daemon, world
  <2> QED
    BY <2>1 DEF ConfirmedInv, SetsReal, Heard, Hears, Writing, JustNow
<1>6. CASE Killed \/ PowerLoss
  <2>1. stack' = <<>> /\ rx' = <<>> /\ air' \in {<<>>, Orphan(air, 0)}
    BY <1>6 DEF Killed, PowerLoss, Gone
  <2>2. SetsReal(<<>>) /\ SetsReal(Orphan(air, 0))
    BY SetsOrphaned DEF ConfirmedInv, SetsReal
  <2>3. SetsReal(air')
    BY <2>1, <2>2
  <2> QED
    BY <2>1, <2>3 DEF ConfirmedInv, SetsReal, Heard, Writing
<1>7. CASE Tick
  <2> DEFINE F(i) == [stack[i] EXCEPT !.at = IF @ < Timeout(stack[i]) THEN @ + 1 ELSE @]
             t == [i \in DOMAIN stack |-> F(i)]
  <2>1. /\ rx = <<>> /\ UNCHANGED <<rx, air>> /\ stack' = t
        /\ (stack = <<>> \/ Waiting)
    BY <1>7 DEF Tick, At, ClockInv
  <2>2. \A n \in 1..Len(stack) : stack[n].op \notin Shown
    BY <2>1, NoWriter
  <2>3. stack \in Seq({stack[i] : i \in DOMAIN stack}) /\ DOMAIN stack = 1..Len(stack)
        /\ Len(stack) \in Nat /\ \A i \in 1..Len(stack) : FrameFields(stack[i])
    BY DEF TimeInv, RecInv, StackInv, FrameOk
  <2>4. \A i \in 1..Len(stack) : F(i).op = stack[i].op
    BY <2>3 DEF FrameFields
  <2> HIDE DEF F
  <2>5. Len(t) = Len(stack) /\ \A i \in 1..Len(stack) : t[i] = F(i)
    BY <2>3
  <2> HIDE DEF t
  <2>6. \A n \in 1..Len(stack') : stack'[n].op \notin Shown
    BY <2>1, <2>2, <2>4, <2>5
  <2> QED
    BY <2>1, <2>6 DEF ConfirmedInv, SetsReal, Heard, Writing
<1> QED
  BY <1>2, <1>3, <1>4, <1>5, <1>6, <1>7 DEF World

-----------------------------------------------------------------------------
(* What the daemon owes the modem.  Whoever has been told OK just now owes *)
(* a modem that is up nothing, and one that is down was up in this second. *)
LEMMA AgeIs == ASSUME ClockInv PROVE d["hs"] \in Int /\ lag \in Nat /\ Age \in Int /\ Age >= 0
                                    /\ modem.down \in Nat /\ DUP_GUARD \in Nat \ {0}
<1>1. "hs" \in Stamps
  BY DEF Stamps
<1> QED
  BY <1>1, TimeAssumption DEF ClockInv, Age

LEMMA SettledByOk ==
    ASSUME TimeInv, ClockInv, JustNow, UNCHANGED modem, Aged
    PROVE  Spared' /\ Owed'
<1>1. Age' = Age
  BY DEF Age, Aged
<1>2. ~modem.up => modem.user = NoOff
  BY DEF TimeInv, ModemInv
<1> QED
  BY <1>1, <1>2, AgeIs DEF JustNow, Spared, Owed

LEMMA OwedWhenEnded ==
    ASSUME TimeInv, ClockInv, ConfirmedInv, OwedInv, TakeReply \/ TimesOut
    PROVE  OwedInv'
<1>1. PICK ok, val : TransactionEnds(ok, val) /\ (ok => TakeReply /\ Head(rx).ok)
  BY EndsWith
<1>2. stack # <<>> /\ loop # "off"
  BY RepliesLeft DEF ClockInv
<1>3. /\ Leaves(stack, stack', ok)
      /\ Stays \/ Gives \/ (ok /\ Top.op = "set")
      /\ stack' = Rests(stack) /\ Top.job = "handshake" => Gives \/ (ok /\ Top.op = "set")
      /\ UNCHANGED <<loop, lag, modem>>
  BY <1>1, <1>2, EndedAs
<1>4. Aged /\ Age' = Age
  <2>1. Aged
    BY <1>1, AgedWhenEnded DEF ClockInv
  <2> QED
    BY <2>1 DEF Aged, Age
<1>5. CASE ok /\ Top.op = "set"
  BY <1>1, <1>3, <1>4, <1>5, TookOk, SettledByOk DEF OwedInv
<1>6. CASE Gives
  BY <1>6 DEF Gives, OwedInv, Spared, Owed
<1>7. CASE Stays /\ ~Gives /\ ~(ok /\ Top.op = "set")
  <2>1. Spared'
    BY <1>2, <1>3, <1>4, <1>7 DEF OwedInv, Spared, Stays
  <2>2. Shaking => Shaking'
    <3>1. /\ Len(stack) \in Nat \ {0} /\ Len(stack') \in {Len(stack) - 1, Len(stack)}
          /\ \A i \in 1..(Len(stack) - 1) : stack'[i] = stack[i]
          /\ stack' = Rests(stack) \/ Len(stack') = Len(stack)
          /\ Len(stack') = Len(stack) =>
               (stack[Len(stack)].job = "handshake" => stack'[Len(stack)].job = "handshake")
      BY <1>2, <1>3, LeavesIs DEF TimeInv, RecInv
    <3>2. ASSUME NEW n \in 1..Len(stack), stack[n].job = "handshake"
          PROVE  Shakes(stack')
      <4>1. CASE n = Len(stack)
        <5>1. stack' # Rests(stack)
          BY <1>3, <1>7, <3>2, <4>1 DEF Top
        <5> QED
          BY <3>1, <3>2, <4>1, <5>1 DEF Shakes
      <4>2. CASE n # Len(stack)
        <5>1. n \in 1..(Len(stack) - 1) /\ n \in 1..Len(stack')
          BY <3>1, <4>2
        <5> QED
          BY <3>1, <3>2, <5>1 DEF Shakes
      <4> QED
        BY <4>1, <4>2
    <3> QED
      BY <1>7, <3>2 DEF Shaking, Shakes, Stays
  <2>3. Untold => Untold'
    <3>1. CASE TakeReply
      BY <3>1 DEF TakeReply, Mine, Untold
    <3>2. CASE TimesOut
      <4> DEFINE y == OrphanRx(rx, Len(stack) - 1)
      <4>1. rx' = y
        BY <3>2 DEF TimesOut
      <4>2. Linked(stack, air, rx, modem.boot, confirmed) /\ Len(stack) - 1 \in Nat
        BY <1>2, RestIs DEF TimeInv, RecInv
      <4>3. OwnSeq(y) /\ OwnSeq(rx)
        BY <4>2, RepliesOrphaned DEF Linked
      <4>4. DOMAIN y = DOMAIN rx /\ \A i \in DOMAIN rx : rx[i].kind = "new" => y[i] = rx[i]
        BY DEF OrphanRx
      <4> HIDE DEF y
      <4>5. rx # <<>> => y # <<>>
        BY <4>3, <4>4, OwnTaken
      <4>6. rx # <<>> => Head(rx) = rx[1] /\ Head(y) = y[1] /\ 1 \in DOMAIN rx
        BY <4>3, <4>5, OwnTaken
      <4> QED
        BY <1>3, <1>4, <1>7, <4>1, <4>4, <4>5, <4>6 DEF Untold, Stays
    <3> QED
      BY <3>1, <3>2
  <2> QED
    BY <1>2, <1>3, <1>7, <2>1, <2>2, <2>3 DEF OwedInv, Owed, Stays
<1> QED
  BY <1>3, <1>5, <1>6, <1>7

LEMMA OwedWhenWritten ==
    ASSUME TimeInv, ClockInv, ConfirmedInv, Write \/ Rename
    PROVE  OwedInv'
<1>1. JustNow /\ UNCHANGED modem
  BY WrittenAs
<1>2. Aged
  BY AgedWhenEnded DEF ClockInv
<1> QED
  BY <1>1, <1>2, SettledByOk DEF OwedInv

(* An announcement that is still owed is not thrown away: the age of the   *)
(* last handshake is DUP_GUARD or more, and the clock has not wrapped.     *)
LEMMA NotDuplicate ==
    ASSUME ClockInv, NoWrap, NEW p, Duplicate(p)
    PROVE  st = "synced" /\ ~Untold /\ ~Shaking
<1>1. st = "synced" /\ (d["hs"] + lag) % WRAP < DUP_GUARD
  BY DEF Duplicate, SinceNow
<1>2. Age \in Nat /\ Age < WRAP /\ WRAP \in Nat \ {0}
  BY AgeIs, TimeAssumption DEF NoWrap
<1>3. Age % WRAP = Age
  <2> HIDE DEF Age
  <2> QED
    BY <1>2
<1>4. Age < DUP_GUARD
  BY <1>1, <1>3 DEF Age
<1> QED
  BY <1>1, <1>4, AgeIs DEF Untold, Shaking

LEMMA Begins ==
    ASSUME StackInv(stack), stack' = Append(stack, Frame("handshake", "tod")), st' = "syncing"
    PROVE  Shaking' /\ Spared'
<1> DEFINE f == Frame("handshake", "tod")
           t == Append(stack, f)
<1>1. OwnSeq(t) /\ DOMAIN t = 1..(Len(stack) + 1) /\ Len(stack) \in Nat /\ t[Len(stack) + 1] = f
  BY OwnAdded DEF StackInv, OwnSeq
<1>2. f.job = "handshake"
  BY DEF Frame
<1>3. stack' = t
  OBVIOUS
<1> HIDE DEF f, t
<1>4. Len(t) = Len(stack) + 1 /\ Len(t) \in 1..Len(t)
  BY <1>1 DEF OwnSeq
<1>5. Shakes(t)
  BY <1>1, <1>2, <1>4 DEF Shakes
<1>6. Shakes(stack')
  BY <1>3, <1>5
<1> QED
  BY <1>6 DEF Shaking, Shakes, Spared

LEMMA OwedWhenHandled ==
    ASSUME TimeInv, ClockInv, OwedInv, NoWrap, PollReads \/ HandleWhileWaiting
    PROVE  OwedInv'
<1>1. HandlePacket /\ rx # <<>> /\ loop # "off"
  BY DEF PollReads, HandleWhileWaiting, At, Waiting, ClockInv
<1>2. UNCHANGED <<modem, lag>>
  BY <1>1 DEF HandlePacket
<1>3. StackInv(stack)
  BY DEF TimeInv, RecInv
<1>4. ASSUME stack' = Append(stack, Frame("handshake", "tod")), st' = "syncing"
      PROVE  OwedInv'
  BY <1>3, <1>4, Begins DEF OwedInv, Owed
<1>5. ASSUME UNCHANGED <<st, d, stack, marker>>, ~Untold
      PROVE  OwedInv'
  <2>1. Age' = Age
    BY <1>2, <1>5 DEF Age
  <2>2. Shaking' = Shaking
    BY <1>5 DEF Shaking, Shakes
  <2> QED
    BY <1>1, <1>2, <1>5, <2>1, <2>2 DEF OwedInv, Spared, Owed
<1>6. CASE Head(rx).kind = "new"
  <2>1. NewServer(PortOf[Head(rx).boot]) /\ marker' = marker
    BY <1>1, <1>6 DEF HandlePacket
  <2>2. CASE Duplicate(PortOf[Head(rx).boot])
    <3>1. UNCHANGED <<st, d, stack>>
      BY <2>1, <2>2 DEF NewServer
    <3>2. ~Untold /\ ~Shaking
      BY <2>2, NotDuplicate
    <3> QED
      BY <1>5, <2>1, <3>1, <3>2
  <2>3. CASE ~Duplicate(PortOf[Head(rx).boot])
    BY <1>4, <2>1, <2>3 DEF NewServer, BeginHandshake
  <2> QED
    BY <2>2, <2>3
<1>7. CASE Head(rx).kind # "new"
  <2>1. ~Untold
    BY <1>7 DEF Untold
  <2>2. UNCHANGED <<st, d, stack, marker>> \/ (st' = "discovering" /\ marker' = FALSE)
    BY <1>1, <1>7 DEF HandlePacket, DelServer
  <2>3. CASE st' = "discovering" /\ marker' = FALSE
    BY <2>3 DEF OwedInv, Spared, Owed
  <2> QED
    BY <1>5, <2>1, <2>2, <2>3
<1> QED
  BY <1>6, <1>7

(* The loop of main(): capping the age forgets nothing that is owed.       *)
LEMMA OwedInMain ==
    ASSUME TimeInv, ClockInv, OwedInv, Start \/ Lookup \/ Retry \/ Refresh \/ Periodic
    PROVE  OwedInv'
<1>1. UNCHANGED modem /\ StackInv(stack)
  BY DaemonSteps DEF Main, TimeInv, RecInv
<1>2. CASE Start
  BY <1>2 DEF Start, ClockInv, OwedInv, Spared, Owed
<1>3. CASE Lookup
  <2> DEFINE at == [x \in Stamps |-> IF d[x] + lag > CAP THEN CAP ELSE d[x] + lag]
  <2>1. /\ loop # "off" /\ UNCHANGED <<st, stack, marker>> /\ rx' \in {rx, Announce(rx)}
        /\ d' \in {at, [at EXCEPT !["lk"] = 0]} /\ lag' = 0
    BY <1>3 DEF Lookup, At
  <2>2. at["hs"] = (IF Age > CAP THEN CAP ELSE Age) /\ [at EXCEPT !["lk"] = 0]["hs"] = at["hs"]
    BY DEF Stamps, Age
  <2>3. CAP \in Nat /\ DUP_GUARD <= CAP
    BY Dials DEF ClockInv
  <2>4. Age' = (IF Age > CAP THEN CAP ELSE Age)
    <3>1. d'["hs"] = (IF Age > CAP THEN CAP ELSE Age)
      BY <2>1, <2>2
    <3>2. Age' = d'["hs"] + 0
      BY <2>1 DEF Age
    <3> QED
      BY <2>3, <3>1, <3>2, AgeIs
  <2> HIDE DEF at
  <2>5. Age' = Age \/ Age' >= DUP_GUARD
    BY <2>3, <2>4, AgeIs
  <2>6. rx # <<>> => rx' # <<>> /\ Head(rx') = Head(rx)
    <3> DEFINE p == [kind |-> "new", boot |-> modem.boot]
               y == Append(rx, p)
    <3>1. rx' \in {rx, y}
      BY <2>1 DEF Announce
    <3>2. OwnSeq(rx)
      BY DEF TimeInv, Linked
    <3>3. OwnSeq(y) /\ DOMAIN y = 1..(Len(rx) + 1) /\ Len(rx) \in Nat /\ \A i \in DOMAIN rx : y[i] = rx[i]
      BY <3>2, OwnAdded
    <3> HIDE DEF y
    <3>4. y # <<>>
      BY <3>3
    <3>5. Head(y) = y[1] /\ (rx # <<>> => Head(rx) = rx[1] /\ 1 \in DOMAIN rx)
      BY <3>2, <3>3, <3>4, OwnTaken
    <3> QED
      BY <3>1, <3>3, <3>4, <3>5
  <2>7. Untold => Untold'
    BY <1>1, <2>1, <2>5, <2>6 DEF Untold
  <2>8. Shaking => Shaking'
    BY <2>1 DEF Shaking, Shakes
  <2> QED
    BY <1>1, <2>1, <2>5, <2>7, <2>8 DEF OwedInv, Spared, Owed
<1>4. CASE Retry \/ Refresh \/ Periodic
  <2>1. /\ loop # "off" /\ stack = <<>> /\ UNCHANGED <<marker, lag, rx>>
        /\ \/ st' = st /\ d' \in {d, [d EXCEPT !["usr"] = 0]}
           \/ st' = "syncing" /\ stack' = Append(stack, Frame("handshake", "tod"))
    BY <1>4 DEF Retry, Refresh, Periodic, BeginHandshake, At
  <2>2. CASE st' = "syncing" /\ stack' = Append(stack, Frame("handshake", "tod"))
    BY <1>1, <2>2, Begins DEF OwedInv, Owed
  <2>3. CASE st' = st /\ d' \in {d, [d EXCEPT !["usr"] = 0]}
    <3>1. Age' = Age
      BY <2>1, <2>3, Dials DEF ClockInv, Age
    <3>2. ~Shaking
      BY <2>1 DEF Shaking, Shakes
    <3>3. Untold => Untold'
      BY <1>1, <2>1, <2>3, <3>1 DEF Untold
    <3> QED
      BY <1>1, <2>1, <2>3, <3>1, <3>2, <3>3 DEF OwedInv, Spared, Owed
  <2> QED
    BY <2>1, <2>2, <2>3
<1> QED
  BY <1>2, <1>3, <1>4

(* The modem dies, and is not back before the guard against duplicates has *)
(* run out; when it is back it announces itself to every lookup.           *)
LEMMA OwedWhileWorld ==
    ASSUME DUP_GUARD <= MODEM_BOOT,
           TimeInv, ClockInv, ConfirmedInv, OwedInv, World \/ Tick \/ UNCHANGED vars
    PROVE  OwedInv'
<1>1. /\ modem = [boot |-> modem.boot, up |-> modem.up, down |-> modem.down,
                  tod |-> modem.tod, user |-> modem.user]
      /\ ~modem.up => modem.user = NoOff /\ (rx # <<>> => modem.down = 0)
      /\ lookups \in Nat
  BY DEF TimeInv, ModemInv
<1>2. CASE ModemAnswers
  <2>1. /\ UNCHANGED <<loop, st, marker, d, lag, stack>> /\ modem.up
        /\ modem'.up = modem.up /\ modem'.boot = modem.boot
        /\ rx' = rx \/ \E p : rx' = Append(rx, p)
    BY <1>1, <1>2 DEF ModemAnswers, Effect, daemon
  <2>2. modem'.user = NoOff => modem.user = NoOff
    BY <1>2, ConfirmedWhenAnswered
  <2>3. rx # <<>> => rx' # <<>> /\ Head(rx') = Head(rx)
    <3>1. ASSUME NEW p, rx' = Append(rx, p), rx # <<>> PROVE rx' # <<>> /\ Head(rx') = Head(rx)
      <4> DEFINE y == Append(rx, p)
      <4>1. OwnSeq(rx)
        BY DEF TimeInv, Linked
      <4>2. OwnSeq(y) /\ DOMAIN y = 1..(Len(rx) + 1) /\ Len(rx) \in Nat
            /\ \A i \in DOMAIN rx : y[i] = rx[i]
        BY <4>1, OwnAdded
      <4> HIDE DEF y
      <4>3. y # <<>>
        BY <4>2
      <4>4. Head(y) = y[1] /\ Head(rx) = rx[1] /\ 1 \in DOMAIN rx
        BY <3>1, <4>1, <4>2, <4>3, OwnTaken
      <4> QED
        BY <3>1, <4>2, <4>3, <4>4 DEF y
    <3> QED
      BY <2>1, <3>1
  <2> QED
    BY <2>1, <2>2, <2>3 DEF OwedInv, Spared, Owed, Untold, Shaking, Shakes, Age
<1>3. CASE ModemDies
  <2>1. UNCHANGED <<loop, d, lag>> /\ modem' = Dead
    BY <1>3 DEF ModemDies, daemon
  <2>2. ~modem'.up /\ modem'.down = 0 /\ Age' >= 0
    BY <1>1, <2>1, AgeIs DEF Dead, Age
  <2> QED
    BY <2>2 DEF OwedInv, Spared, Owed
<1>4. CASE ModemBoots
  <2>1. /\ ~modem.up /\ modem.down = MODEM_BOOT /\ UNCHANGED <<loop, st, marker, d, lag>>
        /\ modem' = [modem EXCEPT !.up = TRUE, !.boot = modem.boot + 1]
        /\ rx' = rx \o Packets("new", modem.boot + 1)
    BY <1>4 DEF ModemBoots, daemon
  <2>2. modem'.up /\ modem'.boot = modem.boot + 1
    BY <1>1, <2>1
  <2>3. rx = <<>>
    BY <1>1, <2>1, TimeAssumption
  <2>4. ASSUME loop # "off" PROVE Untold'
    <3> DEFINE p == [kind |-> "new", boot |-> modem.boot + 1]
               q == [i \in 1..lookups |-> p]
    <3>1. rx' = q
      BY <1>1, <2>1, <2>3 DEF Packets
    <3>2. lookups > 0
      BY <2>4 DEF ClockInv
    <3>3. p.kind = "new" /\ p.boot = modem.boot + 1
      OBVIOUS
    <3> HIDE DEF p
    <3>4. q # <<>> /\ Head(q) = p
      <4>1. q \in Seq({p}) /\ Len(q) = lookups /\ q[1] = p
        BY <1>1, <3>2
      <4> HIDE DEF q
      <4> QED
        BY <3>2, <4>1
    <3>5. st' = "synced" => Age' >= DUP_GUARD
      BY <2>1, <2>4, AgeIs, TimeAssumption DEF OwedInv, Spared, Age
    <3> QED
      BY <2>2, <3>1, <3>3, <3>4, <3>5 DEF Untold
  <2> QED
    BY <2>1, <2>2, <2>4 DEF OwedInv, Spared, Owed
<1>5. CASE NitzLocks \/ ClockSet \/ UNCHANGED vars
  <2>1. /\ UNCHANGED <<loop, st, marker, d, lag, stack, rx>> /\ modem'.user = modem.user
        /\ modem'.up = modem.up /\ modem'.down = modem.down /\ modem'.boot = modem.boot
    BY <1>1, <1>5 DEF NitzLocks, ClockSet, vars, daemon, world
  <2> QED
    BY <2>1 DEF OwedInv, Spared, Owed, Untold, Shaking, Shakes, Age
<1>6. CASE Killed \/ PowerLoss
  BY <1>6 DEF Killed, PowerLoss, Gone, OwedInv
<1>7. CASE Tick
  <2> DEFINE F(i) == [stack[i] EXCEPT !.at = IF @ < Timeout(stack[i]) THEN @ + 1 ELSE @]
             t == [i \in DOMAIN stack |-> F(i)]
  <2>1. /\ rx = <<>> /\ stack' = t /\ UNCHANGED <<st, marker, d>>
        /\ loop' # "off" => loop # "off"
        /\ lag' = IF loop = "off" THEN 0 ELSE lag + 1
        /\ modem' = [modem EXCEPT !.down = IF ~modem.up /\ @ < MODEM_BOOT THEN @ + 1 ELSE @]
    BY <1>7 DEF Tick, At
  <2>2. modem'.up = modem.up /\ modem'.user = modem.user /\ modem'.down <= modem.down + 1
    BY <1>1, <2>1, AgeIs
  <2>3. loop # "off" => Age' = Age + 1
    BY <2>1, AgeIs DEF Age
  <2>4. Shaking => Shaking'
    <3>1. stack \in Seq({stack[i] : i \in DOMAIN stack}) /\ DOMAIN stack = 1..Len(stack)
          /\ Len(stack) \in Nat /\ \A i \in 1..Len(stack) : FrameFields(stack[i])
      BY DEF TimeInv, RecInv, StackInv, FrameOk
    <3>2. \A i \in 1..Len(stack) : F(i).job = stack[i].job
      BY <3>1 DEF FrameFields
    <3> HIDE DEF F
    <3>3. Len(t) = Len(stack) /\ \A i \in 1..Len(stack) : t[i] = F(i)
      BY <3>1
    <3> HIDE DEF t
    <3> QED
      BY <2>1, <3>2, <3>3 DEF Shaking, Shakes
  <2>5. modem'.down \in Nat
    BY <1>1, <2>1, AgeIs
  <2>6. loop' # "off" => Spared'
    BY <2>1, <2>2, <2>3, <2>5, AgeIs DEF OwedInv, Spared
  <2> QED
    BY <2>1, <2>2, <2>4, <2>6 DEF OwedInv, Owed, Untold
<1> QED
  BY <1>2, <1>3, <1>4, <1>5, <1>6, <1>7 DEF World

LEMMA SyncStep ==
    ASSUME DUP_GUARD <= MODEM_BOOT, MaxLookups # 0
    PROVE  TimeInv /\ NoWrap /\ SyncInv /\ [Next]_vars => SyncInv'
<1> SUFFICES ASSUME TimeInv, NoWrap, SyncInv, [Next]_vars PROVE SyncInv'
  OBVIOUS
<1>1. ClockInv'
  BY ClockStep DEF SyncInv
<1>2. ConfirmedInv'
  BY ConfirmedWhileDaemon, ConfirmedWhileWorld DEF SyncInv, Next
<1>3. OwedInv'
  BY OwedWhenEnded, OwedWhenWritten, OwedWhenHandled, OwedInMain, OwedWhileWorld
     DEF SyncInv, Next, Main, Transactions
<1> QED
  BY <1>1, <1>2, <1>3 DEF SyncInv

(* Whenever nothing is on its way, SYNCHRONIZED or the marker file means   *)
(* that the modem, in the boot it is in, has accepted an offset            *)
(* (run_handshake_state_machine, handle_qrtr_packet, the marker).  The     *)
(* guard that drops a second announcement (DUP_GUARD) must be no longer    *)
(* than a modem takes to restart, as its comment relies on; the age of the *)
(* last handshake must fit the unsigned clock; and the bound on lookups    *)
(* must leave the daemon one.                                              *)
THEOREM Synced ==
    ASSUME DUP_GUARD <= MODEM_BOOT, MaxLookups # 0
    PROVE  Spec /\ []NoWrap => []SyncedMeansSet
<1>1. Init => SyncInv
  <2> SUFFICES ASSUME Init PROVE SyncInv
    OBVIOUS
  <2>1. d \in [Stamps -> Int] /\ d["hs"] = 0 /\ lag = 0 /\ modem.down = 0
    BY DEF Init, Stamps
  <2>2. ClockInv
    BY <2>1 DEF Init, ClockInv, Age
  <2>3. ConfirmedInv
    BY DEF Init, ConfirmedInv, SetsReal, Heard, Writing
  <2>4. OwedInv
    BY DEF Init, OwedInv
  <2> QED
    BY <2>2, <2>3, <2>4 DEF SyncInv
<1>2. SyncInv => SyncedMeansSet
  <2> SUFFICES ASSUME SyncInv, Quiet, st = "synced" \/ marker, modem.user = NoOff PROVE FALSE
    BY DEF SyncedMeansSet
  <2>1. Untold \/ Shaking
    BY DEF SyncInv, OwedInv, Owed, Quiet
  <2>2. rx = <<>> /\ stack = <<>>
    BY DEF Quiet
  <2> QED
    BY <2>1, <2>2 DEF Untold, Shaking, Shakes
<1> QED
  BY <1>1, <1>2, SyncStep, TimeKept, PTL DEF Spec

=============================================================================
