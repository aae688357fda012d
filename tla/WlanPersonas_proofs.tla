-------------------------- MODULE WlanPersonas_proofs --------------------------
(***************************************************************************)
(* The counters, flags and power saves that the interfaces share, for any  *)
(* number of requests, failures and restarts.  A request is known by its   *)
(* last step; what a step may find is stated from there.                   *)
(***************************************************************************)
EXTENDS WlanPersonas, FiniteSetTheorems, TLAPS

-----------------------------------------------------------------------------
(* Types.                                                                  *)
StepNames ==
    {"stop", "deinit", "standby", "trydisc", "privacy", "roam", "enable", "waitdisc", "notconn",
     "closesess", "waitclose", "close", "initsta", "waitopen", "initap", "half", "tdls", "count",
     "ibss", "mode", "country", "disable", "alloc", "register", "list", "free", "ready"}
StepArgs == Modes \union {"-", "keep", "close", "already", "go", "ignore"}
Conns == {"NotConnected", "Connecting", "Associated", "Disconnecting"}
Links == {"idle", "joining", "joined", "leaving"}
StepRecords == [s : StepNames, a : Adapters, x : StepArgs]
AdRecords == [listed : BOOLEAN, mode : Modes, up : BOOLEAN, sess : BOOLEAN, init : BOOLEAN,
              conn : Conns, bss : BOOLEAN, beacon : BOOLEAN]
SmeRecords == [session : BOOLEAN, link : Links, opening : BOOLEAN, closing : BOOLEAN]
CompRecords == [disc : BOOLEAN, open : BOOLEAN, close : BOOLEAN]

AdTypeOK ==
    /\ ad \in [Adapters -> AdRecords]
    /\ sme \in [Adapters -> SmeRecords]
    /\ comp \in [Adapters -> CompRecords]
    /\ open \in [CountedModes -> 0..255]
    /\ active \in [CountedModes -> Nat]
    /\ ps \subseteq {"bmps", "imps"}
    /\ logp \in BOOLEAN

-----------------------------------------------------------------------------
(* Programs.  The last step says which request this is; the others are of  *)
(* the same interface, but for an access point that removes p2p0 first and *)
(* for the restart.                                                        *)
Last(p) == p[Len(p)]
All(p) == {p[i] : i \in 1..Len(p)}
Parts(s) ==
    CASE s = "standby" -> {"stop", "waitdisc", "deinit", "standby"}
      [] s = "roam" -> {"trydisc", "waitdisc", "privacy", "roam"}
      [] s = "notconn" -> {"waitdisc", "notconn"}
      [] s = "close" -> {"stop", "waitdisc", "closesess", "waitclose", "deinit", "close"}
      [] s = "count" -> {"stop", "waitdisc", "closesess", "waitclose", "deinit", "close",
                         "disable", "mode", "country", "initap", "initsta", "waitopen", "enable",
                         "tdls", "ibss", "alloc", "register", "list", "count"}
      [] s = "half" -> {"closesess", "waitclose", "half"}
      [] s = "free" -> {"closesess", "waitclose", "free"}
      [] s = "enable" -> {"closesess", "waitclose", "free", "enable"}
      [] s = "ready" -> {"initsta", "waitopen", "closesess", "waitclose", "ready"}
      [] OTHER -> {}
Ends == {"count", "half", "ready", "standby", "notconn", "roam"}
Waits == {"waitdisc", "waitclose", "waitopen"}
Building == {"alloc", "register", "list"}
OfPeer == {"stop", "waitdisc", "closesess", "waitclose", "deinit", "close"}

(* A step of a program that ends with step e.                              *)
StepOk(t, e) ==
    /\ t.s \in Parts(e.s)
    /\ t.a = e.a \/ e.s = "ready" \/ (e.s = "count" /\ e.a = Wlan /\ t.s \in OfPeer)
    /\ t.s = "stop" => (t.x = "close" <=> e.s # "standby")
    /\ t.s = "waitdisc" => (t.x = "already" <=> e.s = "roam")
    /\ t.s \in {"initsta", "waitopen"} => (t.x = "ignore" <=> e.s = "ready")
    /\ t.s \in Building => e.a = P2p
    /\ t.s = "close" => t.a = P2p /\ (e.s = "count" => e.a = Wlan)
    /\ t.s = "free" => t.a = P2p
    /\ t.s = "mode" => t.x \in IF t.a = Wlan THEN {"sta", "client", "sap"} ELSE {"p2pdev", "client", "go"}
    /\ t.s \notin {"initsta", "waitopen"} => t.x # "ignore"

(* What may come after step t: a wait only stands at the head.             *)
InOrder(t, u) ==
    /\ t.s \notin Ends /\ u.s \notin Waits
    /\ t.s = "close" => u.s # "close"
    /\ t.s = "list" => u.s = "count"
    /\ t.s = "mode" => u.s \notin {"close", "disable"}
    /\ t.s = "enable" => u.s # "mode"
Ordered(p) == \A i, j \in 1..Len(p) : i < j => InOrder(p[i], p[j])

ProgOk(p) ==
    /\ p \in Seq(StepRecords)
    /\ p # <<>> => Ordered(p) /\ \A t \in All(p) : StepOk(t, Last(p))

Has(p, s) == \E t \in All(p) : t.s = s
Pends(p, s, a) == p # <<>> /\ Last(p).s = s /\ Last(p).a = a
Ending(s) == prog # <<>> /\ Last(prog).s = s
Pending(a) == Pends(prog, "count", a) \/ Pends(prog, "half", a)

(* A request that fails goes on with unwind.                               *)
UnwindOk ==
    prog # <<>> =>
      /\ ProgOk(unwind)
      /\ Ending("count") =>
           /\ unwind # <<>>
           /\ \/ /\ ad[Last(prog).a].listed
                 /\ \A t \in All(unwind) : t.s = "half" /\ t.a = Last(prog).a
              \/ /\ Last(prog).a = P2p
                 /\ ~Has(prog, "enable")
                 /\ (\E t \in All(prog) : t.s # "count") => ~ad[P2p].listed
                 /\ \A t \in All(unwind) : t.s \in {"free", "enable"} /\ t.a = P2p
      /\ Ending("roam") => \A t \in All(unwind) : t.s = "enable" /\ t.a = Last(prog).a

(* Interfaces: wlan0 stays, and each has its modes.                        *)
TakesAp(t) == t.s = "mode" /\ t.a = Wlan /\ t.x \in ApModes
ModesOk ==
    /\ ad[Wlan].listed /\ ad[Wlan].mode \in {"sta", "client", "ibss", "sap"}
    /\ ad[P2p].mode \in {"p2pdev", "client", "ibss", "go"}
    /\ \A t \in All(prog) :
         /\ t.s = "close" => ad[P2p].listed
         /\ t.s \in Building \union {"free"} => ~ad[P2p].listed
         /\ t.s = "disable" => ad[t.a].listed
    /\ Ending("count") =>
         /\ ad[Last(prog).a].listed \/ Has(prog, "list")
         /\ Has(prog, "close") => ad[P2p].mode = "p2pdev"
         /\ Has(prog, "close") \/ Has(prog, "disable") =>
              Last(prog).a = P2p \/ \E t \in All(prog) : TakesAp(t)
    /\ \A t \in All(prog) : t.s = "mode" => ad[t.a].listed /\ (TakesAp(t) \/ t.a = P2p \/ Has(prog, "enable"))
    /\ Ending("roam") \/ Ending("standby") \/ Ending("notconn") => ad[Last(prog).a].listed
    /\ Ending("roam") \/ Ending("notconn") => ad[Last(prog).a].mode \in {"sta", "client"}
    /\ Ending("ready") => "ssr" \in mishap

Control == AdTypeOK /\ ProgOk(prog) /\ UnwindOk /\ ModesOk

-----------------------------------------------------------------------------
(* The open counters: everybody listed but who waits to be counted again.  *)
One(b) == IF b THEN 1 ELSE 0
Counted(a, m) == ad[a].listed /\ ~Pending(a) /\ ad[a].mode = m
OpenInv ==
    "half" \notin mishap =>
      \A m \in CountedModes : open[m] = One(Counted(Wlan, m)) + One(Counted(P2p, m))

(* Links, as long as no wait gave up on an answer under way.               *)
Prompt == "late" \notin mishap
Linkless == {"stop", "closesess", "waitclose", "mode", "ibss", "close", "initsta", "waitopen", "free",
             "list", "count", "half"}
HeadIs(s, a) == prog # <<>> /\ Head(prog).s = s /\ Head(prog).a = a
LinkOk(a) ==
    /\ sme[a].link = "joined" => ad[a].conn = "Associated"
    /\ sme[a].link = "joining" => ad[a].conn = "Connecting"
    /\ sme[a].link = "leaving" => /\ ad[a].conn \in {"Associated", "Disconnecting"}
                                  /\ HeadIs("waitdisc", a) /\ ~comp[a].disc
    /\ sme[a].link # "idle" => /\ sme[a].session /\ ad[a].listed /\ ~logp
                               /\ ad[a].mode \in {"sta", "client"}
    /\ sme[a].session /\ ad[a].conn \in {"Associated", "Connecting"} /\ sme[a].link = "idle"
         => HeadIs("waitopen", a)
    /\ HeadIs("waitopen", a) /\ ~sme[a].opening /\ ~comp[a].open => ~sme[a].session
    /\ ad[a].mode \notin ApModes => ~ad[a].bss
    /\ ad[a].bss => ad[a].listed /\ ~logp
LinkSteps ==
    /\ \A t \in All(prog) : t.s \in Linkless => sme[t.a].link = "idle"
    /\ Ending("notconn") => sme[Last(prog).a].link \in {"idle", "leaving"}
    /\ Ending("roam") =>
         /\ \/ sme[Last(prog).a].link \in {"idle", "leaving"}
            \/ sme[Last(prog).a].link = "joined" /\ Has(prog, "trydisc")
         /\ logp => ~sme[Last(prog).a].session
    /\ Ending("count") \/ Ending("half") \/ Ending("free") => ~ad[Last(prog).a].bss
    /\ Ending("close") /\ ad[P2p].bss => Has(prog, "stop")
LinkInv == Prompt => LinkSteps /\ \A a \in Adapters : LinkOk(a)

(* The active counters: the links and BSSs.                                *)
Acts(a, m) ==
    /\ ad[a].mode = m
    /\ IF m \in ApModes THEN ad[a].bss
       ELSE ad[a].conn = "Associated" /\ sme[a].link \in {"joined", "leaving"}
ActiveInv ==
    Prompt => \A m \in CountedModes : active[m] = One(Acts(Wlan, m)) + One(Acts(P2p, m))

(* Sessions.                                                               *)
Kept(a) == ad[a].listed \/ Pends(prog, "count", a)
SessionOk(a) ==
    /\ sme[a].opening => HeadIs("waitopen", a) /\ ~comp[a].open
    /\ sme[a].closing => HeadIs("waitclose", a) /\ ~sme[a].session /\ ~comp[a].close
    /\ sme[a].session /\ Kept(a) => ad[a].sess
    /\ ad[a].sess /\ Kept(a) /\ ~logp /\ "ssr" \notin mishap => sme[a].session \/ sme[a].closing
SessionInv == Prompt => \A a \in Adapters : SessionOk(a)

(* Power saves: why they may be off.                                       *)
Excuse ==
    \/ ad[P2p].listed
    \/ ad[Wlan].mode \notin {"sta", "client"}
    \/ Has(prog, "enable") \/ Has(prog, "half")
    \/ \E t \in All(prog) : TakesAp(t)
    \/ Has(prog, "list") /\ Has(unwind, "enable")
PowerInv ==
    mishap \intersect {"half", "alloc", "privacy", "late"} = {} =>
      ps = {"bmps", "imps"} \/ Excuse

Inv == Control /\ OpenInv /\ LinkInv /\ ActiveInv /\ SessionInv /\ PowerInv

-----------------------------------------------------------------------------
(* Sequences of steps.                                                     *)
LEMMA NoLength ==
    ASSUME NEW S, NEW s \in Seq(S)
    PROVE  s = <<>> <=> Len(s) = 0
  OBVIOUS

LEMMA Decomposed ==
    ASSUME NEW p \in Seq(StepRecords), p # <<>>
    PROVE  /\ Head(p) \in StepRecords /\ Tail(p) \in Seq(StepRecords)
           /\ All(p) = {Head(p)} \union All(Tail(p))
           /\ Last(p) \in All(p)
           /\ Tail(p) = <<>> => Last(p) = Head(p)
           /\ Tail(p) # <<>> => Last(Tail(p)) = Last(p) /\ Last(p) \in All(Tail(p))
<1> DEFINE n == Len(p)
           q == Tail(p)
<1>1. /\ n \in Nat \ {0} /\ p = [i \in 1..n |-> p[i]] /\ \A i \in 1..n : p[i] \in StepRecords
      /\ Head(p) = p[1] /\ Head(p) \in StepRecords
  OBVIOUS
<1>2. q \in Seq(StepRecords) /\ Len(q) = n - 1 /\ \A i \in 1..(n - 1) : q[i] = p[i + 1]
  OBVIOUS
<1> HIDE DEF n, q
<1>3. q = <<>> <=> n = 1
  <2>1. q = <<>> <=> Len(q) = 0
    BY <1>2, NoLength
  <2> QED
    BY <1>1, <1>2, <2>1
<1>4. All(p) = {p[1]} \union All(q)
  <2>1. ASSUME NEW t \in All(p) PROVE t \in {p[1]} \union All(q)
    <3>1. PICK i \in 1..n : t = p[i]
      BY <2>1 DEF All, n
    <3>2. CASE i = 1
      BY <3>1, <3>2
    <3>3. CASE i # 1
      <4>1. i - 1 \in 1..(n - 1) /\ (i - 1) + 1 = i
        BY <1>1, <3>3
      <4>2. q[i - 1] = p[i]
        BY <1>2, <4>1
      <4> QED
        BY <1>2, <3>1, <4>1, <4>2 DEF All
    <3> QED
      BY <3>2, <3>3
  <2>2. ASSUME NEW t \in All(q) PROVE t \in All(p)
    <3>1. PICK i \in 1..(n - 1) : t = q[i]
      BY <1>2, <2>2 DEF All
    <3>2. i + 1 \in 1..n /\ t = p[i + 1]
      <4>1. n \in Nat /\ i \in 1..(n - 1)
        BY <1>1
      <4> QED
        BY <1>2, <3>1, <4>1
    <3> QED
      BY <3>2 DEF All, n
  <2>3. p[1] \in All(p)
    BY <1>1 DEF All, n
  <2> QED
    BY <2>1, <2>2, <2>3
<1>5. Last(p) \in All(p)
  BY <1>1 DEF Last, All, n
<1>6. CASE q = <<>>
  BY <1>1, <1>2, <1>3, <1>4, <1>5, <1>6 DEF Last, n, q
<1>7. CASE q # <<>>
  <2>1. n - 1 \in 1..(n - 1) /\ q[n - 1] = p[n]
    <3>1. n \in Nat /\ n > 1
      BY <1>1, <1>3, <1>7
    <3>2. n - 1 \in 1..(n - 1) /\ (n - 1) + 1 = n
      BY <3>1
    <3> QED
      BY <1>2, <3>2
  <2>2. Last(q) = Last(p) /\ Last(q) \in All(q)
    BY <1>2, <2>1 DEF Last, All, n
  <2> QED
    BY <1>1, <1>2, <1>4, <1>5, <1>7, <2>2, Zenon DEF q
<1> QED
  BY <1>6, <1>7

LEMMA NoSteps == All(<<>>) = {} /\ Ordered(<<>>) /\ ProgOk(<<>>)
  BY DEF All, Ordered, ProgOk

LEMMA OrderedTail ==
    ASSUME NEW p \in Seq(StepRecords), p # <<>>, Ordered(p)
    PROVE  Ordered(Tail(p)) /\ \A u \in All(Tail(p)) : InOrder(Head(p), u)
<1> DEFINE n == Len(p)
           q == Tail(p)
<1>1. n \in Nat \ {0} /\ Head(p) = p[1]
  OBVIOUS
<1>2. Len(q) = n - 1 /\ \A i \in 1..(n - 1) : q[i] = p[i + 1]
  OBVIOUS
<1>3. \A i, j \in 1..n : i < j => InOrder(p[i], p[j])
  BY DEF Ordered
<1> HIDE DEF n, q
<1>4. Ordered(q)
  <2> SUFFICES ASSUME NEW i \in 1..(n - 1), NEW j \in 1..(n - 1), i < j
               PROVE  InOrder(q[i], q[j])
    BY <1>2 DEF Ordered
  <2>1. i + 1 \in 1..n /\ j + 1 \in 1..n /\ i + 1 < j + 1
    BY <1>1
  <2>2. InOrder(p[i + 1], p[j + 1])
    BY <1>3, <2>1
  <2> QED
    BY <1>2, <2>2
<1>5. ASSUME NEW u \in All(q) PROVE InOrder(p[1], u)
  <2>1. PICK i \in 1..(n - 1) : u = q[i]
    BY <1>2, <1>5 DEF All
  <2>2. 1 \in 1..n /\ i + 1 \in 1..n /\ 1 < i + 1 /\ u = p[i + 1]
    BY <1>1, <1>2, <2>1
  <2> QED
    BY <1>3, <2>2
<1> QED
  BY <1>1, <1>4, <1>5 DEF q

LEMMA Joined ==
    ASSUME NEW p \in Seq(StepRecords), NEW q \in Seq(StepRecords)
    PROVE  /\ p \o q \in Seq(StepRecords)
           /\ All(p \o q) = All(p) \union All(q)
           /\ q # <<>> => p \o q # <<>> /\ Last(p \o q) = Last(q)
           /\ p # <<>> => p \o q # <<>> /\ Head(p \o q) = Head(p)
           /\ Ordered(p) /\ Ordered(q) /\ (\A t \in All(p), u \in All(q) : InOrder(t, u))
                => Ordered(p \o q)
<1> DEFINE m == Len(p)
           n == Len(q)
           r == p \o q
<1>1. /\ m \in Nat /\ n \in Nat /\ r \in Seq(StepRecords) /\ Len(r) = m + n
      /\ \A i \in 1..m : r[i] = p[i]
      /\ \A i \in 1..n : r[m + i] = q[i]
      /\ p # <<>> => m > 0 /\ Head(r) = r[1] /\ Head(p) = p[1] /\ r # <<>>
      /\ q # <<>> => n > 0 /\ r # <<>>
  OBVIOUS
<1> HIDE DEF m, n, r
<1>2. ASSUME NEW k \in 1..(m + n), ~(k \in 1..m) PROVE k - m \in 1..n /\ r[k] = q[k - m]
  <2>1. k - m \in 1..n /\ m + (k - m) = k
    BY <1>1, <1>2
  <2> QED
    BY <1>1, <2>1
<1>3. All(r) = All(p) \union All(q)
  <2>1. ASSUME NEW t \in All(r) PROVE t \in All(p) \union All(q)
    <3>1. PICK k \in 1..(m + n) : t = r[k]
      BY <1>1, <2>1 DEF All
    <3> QED
      BY <1>1, <1>2, <3>1 DEF All, m, n
  <2>2. ASSUME NEW t \in All(p) PROVE t \in All(r)
    <3>1. PICK k \in 1..m : t = p[k]
      BY <2>2 DEF All, m
    <3>2. k \in 1..(m + n) /\ t = r[k]
      BY <1>1, <3>1
    <3> QED
      BY <1>1, <3>2 DEF All
  <2>3. ASSUME NEW t \in All(q) PROVE t \in All(r)
    <3>1. PICK k \in 1..n : t = q[k]
      BY <2>3 DEF All, n
    <3>2. m + k \in 1..(m + n) /\ t = r[m + k]
      BY <1>1, <3>1
    <3> QED
      BY <1>1, <3>2 DEF All
  <2> QED
    BY <2>1, <2>2, <2>3
<1>4. q # <<>> => Last(r) = Last(q)
  <2>1. q # <<>> => n \in 1..n /\ r[m + n] = q[n]
    BY <1>1
  <2> QED
    BY <1>1, <2>1 DEF Last, n
<1>5. p # <<>> => Head(r) = Head(p)
  BY <1>1
<1>6. ASSUME Ordered(p), Ordered(q), \A t \in All(p), u \in All(q) : InOrder(t, u)
      PROVE  Ordered(r)
  <2> SUFFICES ASSUME NEW i \in 1..(m + n), NEW j \in 1..(m + n), i < j
               PROVE  InOrder(r[i], r[j])
    BY <1>1 DEF Ordered
  <2>1. CASE i \in 1..m /\ j \in 1..m
    BY <1>1, <1>6, <2>1 DEF Ordered, m
  <2>2. CASE i \in 1..m /\ j \notin 1..m
    <3>1. p[i] \in All(p) /\ q[j - m] \in All(q)
      BY <1>2, <2>2 DEF All, m, n
    <3> QED
      BY <1>1, <1>2, <1>6, <2>2, <3>1
  <2>3. CASE i \notin 1..m
    <3>1. j \notin 1..m
      BY <1>1, <2>3
    <3>2. i - m \in 1..n /\ j - m \in 1..n /\ r[i] = q[i - m] /\ r[j] = q[j - m] /\ i - m < j - m
      BY <1>1, <1>2, <2>3, <3>1
    <3> QED
      BY <1>6, <3>2 DEF Ordered, n
  <2> QED
    BY <2>1, <2>2, <2>3
<1> QED
  BY <1>1, <1>3, <1>4, <1>5, <1>6 DEF r

LEMMA Pushed ==
    ASSUME NEW s \in StepRecords, NEW p \in Seq(StepRecords)
    PROVE  LET q == <<s>> \o p
           IN /\ q \in Seq(StepRecords) /\ q # <<>> /\ Head(q) = s /\ Tail(q) = p
              /\ All(q) = {s} \union All(p)
              /\ p # <<>> => Last(q) = Last(p)
              /\ Ordered(p) /\ (\A u \in All(p) : InOrder(s, u)) => Ordered(q)
<1> DEFINE one == <<s>>
           q == one \o p
<1>1. one \in Seq(StepRecords) /\ one # <<>> /\ Len(one) = 1 /\ one[1] = s /\ Head(one) = s
  OBVIOUS
<1>2. All(one) = {s} /\ Ordered(one)
  BY <1>1 DEF All, Ordered
<1>3. Tail(q) = p
  OBVIOUS
<1> HIDE DEF one
<1> QED
  BY <1>1, <1>2, <1>3, Joined DEF one

-----------------------------------------------------------------------------
(* The program under way: its head, what remains, its end.                 *)
Rest == All(Tail(prog))

LEMMA Underway ==
    ASSUME ProgOk(prog), prog # <<>>
    PROVE  /\ Head(prog) \in StepRecords /\ Tail(prog) \in Seq(StepRecords)
           /\ All(prog) = {Head(prog)} \union Rest
           /\ Last(prog) \in All(prog) /\ All(prog) \subseteq StepRecords
           /\ \A t \in All(prog) : StepOk(t, Last(prog))
           /\ \A u \in Rest : InOrder(Head(prog), u)
           /\ Tail(prog) = <<>> => Last(prog) = Head(prog) /\ Rest = {}
           /\ Tail(prog) # <<>> => Last(Tail(prog)) = Last(prog) /\ Last(prog) \in Rest
           /\ ProgOk(Tail(prog))
<1>1. prog \in Seq(StepRecords) /\ Ordered(prog) /\ \A t \in All(prog) : StepOk(t, Last(prog))
  BY DEF ProgOk
<1>2. All(prog) \subseteq StepRecords
  BY <1>1 DEF All
<1>3. ProgOk(Tail(prog))
  BY <1>1, Decomposed, OrderedTail DEF ProgOk
<1> QED
  BY <1>1, <1>2, <1>3, Decomposed, OrderedTail, NoSteps DEF Rest

(* Steps that an action puts before what remains.                          *)
Extras == {"waitdisc", "closesess", "waitclose", "waitopen"}
Follows(p) ==
    /\ ProgOk(prog')
    /\ All(p) \subseteq All(prog')
    /\ \A t \in All(prog') : t \in All(p) \/ t.s \in Extras
    /\ p = <<>> => prog' = <<>>
    /\ p # <<>> => prog' # <<>> /\ Last(prog') = Last(p)

LEMMA Simply ==
    ASSUME NEW p, ProgOk(p), prog' = p
    PROVE  Follows(p)
  BY DEF Follows

LEMMA Preceded ==
    ASSUME NEW s \in StepRecords, NEW p, ProgOk(p), p # <<>>, StepOk(s, Last(p)),
           s.s \in Extras, \A u \in All(p) : u.s \notin Waits
    PROVE  LET q == <<s>> \o p
           IN /\ ProgOk(q) /\ q # <<>> /\ Last(q) = Last(p)
              /\ All(q) = {s} \union All(p) /\ Head(q) = s /\ Tail(q) = p
<1>1. p \in Seq(StepRecords) /\ Ordered(p) /\ \A t \in All(p) : StepOk(t, Last(p))
  BY DEF ProgOk
<1>2. \A u \in All(p) : InOrder(s, u)
  BY DEF InOrder, Extras, Ends
<1> DEFINE q == <<s>> \o p
<1>3. /\ q \in Seq(StepRecords) /\ q # <<>> /\ Head(q) = s /\ Tail(q) = p
      /\ All(q) = {s} \union All(p) /\ Last(q) = Last(p) /\ Ordered(q)
  BY <1>1, <1>2, Pushed
<1> HIDE DEF q
<1>4. ProgOk(q)
  BY <1>1, <1>3 DEF ProgOk
<1> QED
  BY <1>3, <1>4 DEF q

(* One more step, then the rest.                                           *)
LEMMA With ==
    ASSUME NEW s \in StepRecords, NEW p, ProgOk(p), p # <<>>, StepOk(s, Last(p)),
           s.s \in Extras, \A u \in All(p) : u.s \notin Waits, prog' = <<s>> \o p
    PROVE  /\ Follows(p)
           /\ Head(prog') = s /\ All(prog') = {s} \union All(p) /\ Tail(prog') = p
  BY Preceded DEF Follows

(* What the error path is made of.                                         *)
LEMMA Unwinding ==
    ASSUME UnwindOk, prog # <<>>, Ending("count") \/ Ending("roam")
    PROVE  /\ ProgOk(unwind)
           /\ All(unwind) \subseteq StepRecords
           /\ \A t \in All(unwind) : t.s \in {"half", "free", "enable"} /\ t.a = Last(prog).a
           /\ unwind # <<>> => Last(unwind) \in All(unwind)
           /\ unwind = <<>> => All(unwind) = {}
           /\ Ending("count") => unwind # <<>>
<1>1. ProgOk(unwind) /\ unwind \in Seq(StepRecords)
  BY DEF UnwindOk, ProgOk
<1>2. All(unwind) \subseteq StepRecords
  BY <1>1 DEF All
<1> QED
  BY <1>1, <1>2, Decomposed, NoSteps DEF UnwindOk

-----------------------------------------------------------------------------
(* Types, field by field.                                                  *)
LEMMA AdField ==
    ASSUME NEW r \in AdRecords
    PROVE  /\ \A c \in Conns : [r EXCEPT !.conn = c] \in AdRecords
           /\ \A m \in Modes : [r EXCEPT !.mode = m] \in AdRecords
           /\ \A b \in BOOLEAN : /\ [r EXCEPT !.listed = b] \in AdRecords
                                 /\ [r EXCEPT !.up = b] \in AdRecords
                                 /\ [r EXCEPT !.sess = b] \in AdRecords
                                 /\ [r EXCEPT !.init = b] \in AdRecords
                                 /\ [r EXCEPT !.bss = b] \in AdRecords
                                 /\ [r EXCEPT !.beacon = b] \in AdRecords
  BY DEF AdRecords

LEMMA SmeField ==
    ASSUME NEW r \in SmeRecords
    PROVE  /\ \A l \in Links : [r EXCEPT !.link = l] \in SmeRecords
           /\ \A b \in BOOLEAN : /\ [r EXCEPT !.session = b] \in SmeRecords
                                 /\ [r EXCEPT !.opening = b] \in SmeRecords
                                 /\ [r EXCEPT !.closing = b] \in SmeRecords
  BY DEF SmeRecords

LEMMA CompField ==
    ASSUME NEW r \in CompRecords
    PROVE  \A b \in BOOLEAN : /\ [r EXCEPT !.disc = b] \in CompRecords
                              /\ [r EXCEPT !.open = b] \in CompRecords
                              /\ [r EXCEPT !.close = b] \in CompRecords
  BY DEF CompRecords

(* One interface's record changes.                                         *)
LEMMA OneChanged ==
    ASSUME NEW S, NEW f \in [Adapters -> S], NEW a \in Adapters, NEW r \in S
    PROVE  [f EXCEPT ![a] = r] \in [Adapters -> S]
  OBVIOUS

(* A step that leaves the interfaces their places and modes keeps Control, *)
(* whether the request goes on, fails or ends.                             *)
SameShape == \A a \in Adapters : ad'[a].listed = ad[a].listed /\ ad'[a].mode = ad[a].mode
ModesFit ==
    /\ \A a \in Adapters : ad'[a].listed = ad[a].listed
    /\ ad'[Wlan].mode \in {"sta", "client", "ibss", "sap"}
    /\ ad'[P2p].mode \in {"p2pdev", "client", "ibss", "go"}
    /\ \/ SameShape
       \/ Ending("count") /\ (ad'[P2p].mode = ad[P2p].mode \/ ~Has(prog', "close"))
Stepped == prog # <<>> /\ unwind' = unwind /\ mishap \subseteq mishap'

LEMMA ControlModes ==
    ASSUME Control, Stepped, AdTypeOK', ModesFit, Follows(Tail(prog)), Head(prog).s # "list"
    PROVE  Control'
<1> USE DEF Stepped
<1> DEFINE h == Head(prog)
           e == Last(prog)
           R == Rest
           S == All(prog')
<1>1. ProgOk(prog) /\ UnwindOk /\ ModesOk
  BY DEF Control
<1>2. /\ All(prog) = {h} \union R /\ e \in All(prog) /\ All(prog) \subseteq StepRecords
      /\ \A t \in All(prog) : StepOk(t, e)
      /\ \A u \in R : InOrder(h, u)
      /\ Tail(prog) = <<>> => e = h /\ R = {}
      /\ Tail(prog) # <<>> => Last(Tail(prog)) = e /\ e \in R
  BY <1>1, Underway
<1>3. /\ ProgOk(prog') /\ R \subseteq S
      /\ \A t \in S : t \in R \/ t.s \in Extras
      /\ Tail(prog) = <<>> => prog' = <<>>
      /\ Tail(prog) # <<>> => prog' # <<>> /\ Last(prog') = e
  BY <1>2 DEF Follows, Rest
<1> HIDE DEF h, e, R, S
<1>4. prog' # <<>> => Last(prog') = e /\ \A s : Ending(s)' <=> Ending(s)
  BY <1>2, <1>3 DEF Ending, e
<1>5. UnwindOk'
  <2> SUFFICES ASSUME prog' # <<>> PROVE UnwindOk'
    BY DEF UnwindOk
  <2>1. (\E t \in S : t.s # "count") => (\E t \in All(prog) : t.s # "count")
    <3>1. CASE \E t \in S : t \in R /\ t.s # "count"
      BY <1>2, <3>1
    <3>2. CASE \E t \in S : t.s \in Extras
      <4>1. h.s \notin Ends
        BY <1>2, <1>3 DEF InOrder
      <4> QED
        BY <1>2, <4>1 DEF Ends
    <3> QED
      BY <1>3, <3>1, <3>2
  <2>2. \A a \in Adapters : ad'[a].listed = ad[a].listed
    BY DEF ModesFit
  <2>3. e.a \in Adapters
    BY <1>2 DEF StepRecords
  <2>4. Has(prog', "enable") => Has(prog, "enable")
    BY <1>2, <1>3 DEF Has, Extras, S
  <2> QED
    BY <1>1, <1>4, <2>1, <2>2, <2>3, <2>4 DEF UnwindOk, e, S, Adapters
<1>6. ModesOk'
  <2>2. /\ ad'[Wlan].listed = ad[Wlan].listed /\ ad'[P2p].listed = ad[P2p].listed
        /\ \A a \in Adapters : ad'[a].listed = ad[a].listed
    BY DEF ModesFit, Adapters
  <2>3. \A t \in S : t.s \notin Extras => t \in R /\ t \in All(prog) /\ t.a \in Adapters
    BY <1>2, <1>3 DEF StepRecords
  <2>4. ASSUME NEW t \in S
        PROVE  /\ t.s = "close" => ad'[P2p].listed
               /\ t.s \in Building \union {"free"} => ~ad'[P2p].listed
               /\ t.s = "disable" => ad'[t.a].listed
    BY <1>1, <2>2, <2>3 DEF ModesOk, Extras, Building
  <2>5. ASSUME Has(prog', "close") \/ Has(prog', "disable"), \E t \in All(prog) : TakesAp(t)
        PROVE  \E t \in S : TakesAp(t)
    <3>1. PICK u \in R : u.s \in {"close", "disable"}
      BY <2>3, <2>5 DEF Has, Extras, S
    <3>2. h.s # "mode"
      BY <1>2, <3>1 DEF InOrder
    <3> QED
      BY <1>2, <1>3, <2>5, <3>2 DEF TakesAp
  <2>6. ASSUME NEW t \in S, t.s = "mode"
        PROVE  ad'[t.a].listed /\ (TakesAp(t) \/ t.a = P2p \/ Has(prog', "enable"))
    <3>1. t \in R /\ t.a \in Adapters /\ t \in All(prog)
      BY <2>3, <2>6 DEF Extras
    <3>2. h.s # "enable"
      BY <1>2, <2>6, <3>1 DEF InOrder
    <3>3. ad[t.a].listed /\ (TakesAp(t) \/ t.a = P2p \/ Has(prog, "enable"))
      BY <1>1, <2>6, <3>1 DEF ModesOk
    <3> QED
      BY <1>2, <1>3, <2>2, <3>1, <3>2, <3>3 DEF Has, S
  <2>7. ASSUME Ending("count")'
        PROVE  /\ ad'[Last(prog').a].listed \/ Has(prog', "list")
               /\ Has(prog', "close") => ad'[P2p].mode = "p2pdev"
               /\ Has(prog', "close") \/ Has(prog', "disable") =>
                    Last(prog').a = P2p \/ \E t \in S : TakesAp(t)
    <3>1. Ending("count") /\ Last(prog') = e /\ e = Last(prog) /\ e.a \in Adapters
      BY <1>2, <1>4, <2>7 DEF Ending, e, StepRecords
    <3>2. /\ Has(prog', "close") => Has(prog, "close")
          /\ Has(prog', "disable") => Has(prog, "disable")
          /\ Has(prog, "list") => Has(prog', "list")
      BY <1>2, <1>3, <2>3 DEF Has, Extras, S, h
    <3> QED
      BY <1>1, <2>2, <2>5, <3>1, <3>2 DEF ModesOk, ModesFit, SameShape, Adapters
  <2>8. /\ Ending("roam")' \/ Ending("standby")' \/ Ending("notconn")' => ad'[Last(prog').a].listed
        /\ Ending("roam")' \/ Ending("notconn")' => ad'[Last(prog').a].mode \in {"sta", "client"}
        /\ Ending("ready")' => "ssr" \in mishap'
    <3>1. e.a \in Adapters
      BY <1>2 DEF StepRecords
    <3>2. prog' = <<>> => \A s : ~Ending(s)'
      BY DEF Ending
    <3> QED
      BY <1>1, <1>4, <2>2, <3>1, <3>2 DEF ModesOk, ModesFit, SameShape, e, Ending
  <2> QED
    BY <1>1, <2>2, <2>4, <2>6, <2>7, <2>8 DEF ModesOk, ModesFit, S
<1> QED
  BY <1>3, <1>5, <1>6 DEF Control

LEMMA ControlOn ==
    ASSUME Control, Stepped, AdTypeOK', SameShape, Follows(Tail(prog)), Head(prog).s # "list"
    PROVE  Control'
<1>1. ModesFit
  BY DEF ModesFit, SameShape, Control, ModesOk, Adapters
<1> QED
  BY <1>1, ControlModes

LEMMA ControlEnds ==
    ASSUME Control, AdTypeOK', SameShape, prog' = <<>>
    PROVE  Control'
<1>1. ProgOk(prog') /\ All(prog') = {} /\ \A s : ~Ending(s)'
  BY NoSteps DEF Ending
<1>2. /\ ad'[Wlan].listed = ad[Wlan].listed /\ ad'[P2p].listed = ad[P2p].listed
      /\ ad'[Wlan].mode = ad[Wlan].mode /\ ad'[P2p].mode = ad[P2p].mode
  BY DEF SameShape, Adapters
<1>3. UnwindOk' /\ ModesOk'
  BY <1>1, <1>2 DEF Control, UnwindOk, ModesOk
<1> QED
  BY <1>1, <1>3 DEF Control

(* The ends of the error path.                                             *)
LEMMA EndOfUnwind ==
    ASSUME UnwindOk, prog # <<>>, Ending("count") \/ Ending("roam"), Follows(unwind)
    PROVE  /\ unwind = <<>> => prog' = <<>> /\ All(prog') = {}
           /\ prog' # <<>> => /\ Last(prog') = Last(unwind) /\ Last(prog') \in All(unwind)
                              /\ Last(prog').a = Last(prog).a
                              /\ Last(prog').s \in {"half", "free", "enable"}
           /\ \A s : Ending(s)' => s \in {"half", "free", "enable"}
           /\ \A t \in All(prog') : t \in All(unwind) \/ t.s \in Extras
           /\ All(unwind) \subseteq All(prog')
  BY Unwinding, NoSteps DEF Follows, Ending

LEMMA ControlFails ==
    ASSUME Control, Stepped, AdTypeOK', SameShape, Follows(unwind),
           Ending("count") \/ Ending("roam"), Head(prog).s # "count"
    PROVE  Control'
<1> USE DEF Stepped
<1>1. ProgOk(prog) /\ UnwindOk /\ ModesOk
  BY DEF Control
<1>2. /\ Last(prog) \in StepRecords /\ Head(prog) \in All(prog)
  BY <1>1, Underway
<1>3. /\ ad'[Wlan].listed = ad[Wlan].listed /\ ad'[P2p].listed = ad[P2p].listed
      /\ ad'[Wlan].mode = ad[Wlan].mode /\ ad'[P2p].mode = ad[P2p].mode
  BY DEF SameShape, Adapters
<1>4. \A s : Ending(s)' => s \in {"half", "free", "enable"}
  BY <1>1, EndOfUnwind
<1>5. UnwindOk'
  BY <1>1, <1>4 DEF UnwindOk, Ending
<1>6. ASSUME NEW t \in All(prog')
      PROVE  t.s \in {"half", "enable"} \union Extras \/ (t.s = "free" /\ ~ad[P2p].listed)
  <2>1. t.s \in {"half", "free", "enable"} \union Extras
    BY <1>1, <1>6, EndOfUnwind, Unwinding
  <2>2. ASSUME t.s = "free" PROVE ~ad[P2p].listed
    <3>1. t \in All(unwind)
      BY <1>1, <1>6, <2>2, EndOfUnwind DEF Extras
    <3>2. \E u \in All(prog) : u.s # "count"
      BY <1>2
    <3> QED
      BY <1>1, <2>2, <3>1, <3>2 DEF UnwindOk
  <2> QED
    BY <2>1, <2>2
<1>7. ModesOk'
  BY <1>1, <1>3, <1>4, <1>6 DEF ModesOk, Building, Extras
<1>8. ProgOk(prog')
  BY DEF Follows
<1> QED
  BY <1>5, <1>7, <1>8 DEF Control

-----------------------------------------------------------------------------
(* The open counters depend on who is listed, in which mode, and on the    *)
(* end of the request.                                                     *)
LEMMA OpenCounted ==
    ASSUME OpenInv, mishap \subseteq mishap', open' = open,
           \A a \in Adapters, m \in CountedModes : Counted(a, m)' <=> Counted(a, m)
    PROVE  OpenInv'
<1>1. \A m \in CountedModes : One(Counted(Wlan, m))' = One(Counted(Wlan, m))
                              /\ One(Counted(P2p, m))' = One(Counted(P2p, m))
  BY DEF One, Adapters
<1> QED
  BY <1>1 DEF OpenInv

LEMMA OpenSame ==
    ASSUME OpenInv, mishap \subseteq mishap', SameShape, open' = open,
           \A a \in Adapters : ad[a].listed => (Pending(a)' <=> Pending(a))
    PROVE  OpenInv'
<1>1. \A a \in Adapters : ad'[a].listed = ad[a].listed /\ ad'[a].mode = ad[a].mode
  BY DEF SameShape
<1>2. \A a \in Adapters, m \in CountedModes : Counted(a, m)' <=> Counted(a, m)
  BY <1>1 DEF Counted
<1> QED
  BY <1>2, OpenCounted

LEMMA OpenOn ==
    ASSUME Control, OpenInv, Stepped, SameShape, Follows(Tail(prog)), open' = open,
           Head(prog).s \notin {"count", "half"}
    PROVE  OpenInv'
<1>1. ASSUME NEW a \in Adapters PROVE Pending(a)' <=> Pending(a)
  <2>1. CASE Tail(prog) # <<>>
    <3>1. Last(prog') = Last(prog) /\ prog' # <<>>
      BY <2>1, Underway DEF Control, Follows, Stepped
    <3> QED
      BY <3>1 DEF Pending, Pends, Stepped
  <2>2. CASE Tail(prog) = <<>>
    <3>1. prog' = <<>> /\ Last(prog) = Head(prog)
      BY <2>2, Underway DEF Control, Follows, Stepped
    <3> QED
      BY <3>1 DEF Pending, Pends
  <2> QED
    BY <2>1, <2>2
<1> QED
  BY <1>1, OpenSame DEF Stepped

LEMMA OpenFails ==
    ASSUME Control, OpenInv, Stepped, SameShape, Follows(unwind), open' = open,
           Ending("count") \/ Ending("roam"), Head(prog).s # "count"
    PROVE  OpenInv'
<1> USE DEF Stepped
<1>1. UnwindOk /\ Head(prog) \in All(prog)
  BY Underway DEF Control
<1>2. ASSUME NEW a \in Adapters, ad[a].listed PROVE Pending(a)' <=> Pending(a)
  <2>1. CASE Ending("roam")
    <3>1. ~Ending("half")' /\ ~Ending("count")'
      <4>1. \A t \in All(unwind) : t.s = "enable"
        BY <1>1, <2>1 DEF UnwindOk
      <4>2. unwind # <<>> => Last(unwind).s = "enable"
        BY <1>1, <2>1, <4>1, Unwinding
      <4> QED
        BY <4>2 DEF Follows, Ending
    <3> QED
      BY <2>1, <3>1 DEF Pending, Pends, Ending
  <2>2. CASE Ending("count")
    <3>1. unwind # <<>> /\ Last(unwind) \in All(unwind) /\ prog' # <<>> /\ Last(prog') = Last(unwind)
      BY <1>1, <2>2, Unwinding DEF Follows
    <3>2. \E u \in All(prog) : u.s # "count"
      BY <1>1
    <3>3. CASE \A t \in All(unwind) : t.s = "half" /\ t.a = Last(prog).a
      BY <2>2, <3>1, <3>3 DEF Pending, Pends, Ending
    <3>4. CASE /\ Last(prog).a = P2p /\ ~ad[P2p].listed
               /\ \A t \in All(unwind) : t.s \in {"free", "enable"} /\ t.a = P2p
      BY <1>2, <2>2, <3>1, <3>4 DEF Pending, Pends, Ending
    <3> QED
      BY <1>1, <2>2, <3>2, <3>3, <3>4 DEF UnwindOk
  <2> QED
    BY <2>1, <2>2
<1> QED
  BY <1>2, OpenSame

LEMMA OpenEnds ==
    ASSUME OpenInv, mishap \subseteq mishap', SameShape, open' = open, prog' = <<>>,
           "half" \in mishap' \/ \A a \in Adapters : ad[a].listed => ~Pending(a)
    PROVE  OpenInv'
<1>1. \A a \in Adapters : ~Pending(a)'
  BY DEF Pending, Pends
<1> QED
  BY <1>1, OpenSame DEF OpenInv

-----------------------------------------------------------------------------
(* Power saves: the excuse stays with the steps that are left.             *)
LEMMA PowerOn ==
    ASSUME Control, PowerInv, Stepped, Follows(Tail(prog)), ps' = ps,
           ad'[P2p].listed = ad[P2p].listed, ad'[Wlan].mode = ad[Wlan].mode,
           Head(prog).s \notin {"enable", "half", "list", "mode"}
    PROVE  PowerInv'
<1> USE DEF Stepped
<1>1. /\ All(prog) = {Head(prog)} \union All(Tail(prog))
      /\ All(Tail(prog)) \subseteq All(prog')
  BY Underway DEF Control, Follows, Rest
<1>3. \A s \in {"enable", "half", "list"} : Has(prog, s) => Has(prog', s)
  BY <1>1 DEF Has
<1>4. (\E t \in All(prog) : TakesAp(t)) => \E t \in All(prog') : TakesAp(t)
  BY <1>1 DEF TakesAp
<1>5. Excuse => Excuse'
  BY <1>3, <1>4 DEF Excuse
<1> QED
  BY <1>5 DEF PowerInv

LEMMA PowerFails ==
    ASSUME Control, PowerInv, Stepped, SameShape, Follows(unwind), ps' = ps,
           Ending("count") \/ Ending("roam"), Head(prog).s # "count"
    PROVE  PowerInv'
<1> USE DEF Stepped
<1>1. /\ UnwindOk /\ Head(prog) \in All(prog) /\ All(unwind) \subseteq All(prog')
      /\ \A t \in All(prog) : StepOk(t, Last(prog))
  BY Underway DEF Control, Follows
<1>2. ad'[P2p].listed = ad[P2p].listed /\ ad'[Wlan].mode = ad[Wlan].mode
  BY DEF SameShape, Adapters
<1>3. CASE Ending("roam")
  <2>1. \A t \in All(prog) : t.s \in {"trydisc", "waitdisc", "privacy", "roam"}
    BY <1>1, <1>3 DEF StepOk, Parts, Ending
  <2>2. ~Has(prog, "enable") /\ ~Has(prog, "half") /\ ~Has(prog, "list") /\ \A t \in All(prog) : ~TakesAp(t)
    BY <2>1 DEF Has, TakesAp
  <2>3. Excuse => Excuse'
    BY <1>2, <2>2 DEF Excuse
  <2> QED
    BY <2>3 DEF PowerInv
<1>4. CASE Ending("count")
  <2>1. unwind # <<>> /\ Last(unwind) \in All(unwind) /\ Last(unwind) \in All(prog')
    BY <1>1, <1>4, Unwinding
  <2>2. CASE \A t \in All(unwind) : t.s = "half" /\ t.a = Last(prog).a
    BY <2>1, <2>2 DEF PowerInv, Excuse, Has
  <2>3. CASE /\ Last(prog).a = P2p /\ ~Has(prog, "enable")
             /\ \A t \in All(unwind) : t.s \in {"free", "enable"} /\ t.a = P2p
    <3>1. \A t \in All(prog) : t.s # "half" /\ ~TakesAp(t)
      BY <1>1, <1>4, <2>3, PersonasAssumption DEF StepOk, Parts, TakesAp, OfPeer, Ending
    <3>2. Has(unwind, "enable") => Has(prog', "enable")
      BY <1>1 DEF Has
    <3>3. Excuse => Excuse'
      BY <1>2, <2>3, <3>1, <3>2 DEF Excuse, Has
    <3> QED
      BY <3>3 DEF PowerInv
  <2> QED
    BY <1>1, <1>4, <2>2, <2>3 DEF UnwindOk
<1> QED
  BY <1>3, <1>4

LEMMA PowerEnds ==
    ASSUME PowerInv, mishap \subseteq mishap', SameShape, ps' = ps,
           mishap' \intersect {"half", "alloc", "privacy", "late"} # {}
             \/ \A t \in All(prog) : t.s \notin {"enable", "half", "list", "mode"}
    PROVE  PowerInv'
<1>1. ad'[P2p].listed = ad[P2p].listed /\ ad'[Wlan].mode = ad[Wlan].mode
  BY DEF SameShape, Adapters
<1>2. CASE \A t \in All(prog) : t.s \notin {"enable", "half", "list", "mode"}
  <2>1. Excuse => Excuse'
    BY <1>1, <1>2 DEF Excuse, Has, TakesAp
  <2> QED
    BY <2>1 DEF PowerInv
<1> QED
  BY <1>2 DEF PowerInv

-----------------------------------------------------------------------------
(* Links, when a step leaves them alone and is no wait.                    *)
SameLink(a) ==
    /\ ad'[a].conn = ad[a].conn /\ ad'[a].bss = ad[a].bss
    /\ ad'[a].listed = ad[a].listed /\ ad'[a].mode = ad[a].mode
    /\ sme'[a].link = sme[a].link /\ sme'[a].session = sme[a].session
    /\ sme'[a].opening = sme[a].opening
    /\ comp'[a].disc = comp[a].disc /\ comp'[a].open = comp[a].open
SameLinks == (logp' => logp) /\ \A a \in Adapters : SameLink(a)
NoWaits(p) == \A t \in All(p) : t.s \notin Waits

LEMMA HeadOf ==
    ASSUME NEW p, ProgOk(p), p # <<>>
    PROVE  Head(p) \in All(p) /\ Head(p) \in StepRecords /\ Last(p) \in All(p)
  BY Decomposed DEF ProgOk

LEMMA NoWait ==
    ASSUME ProgOk(prog'), NoWaits(prog')
    PROVE  \A a : ~HeadIs("waitdisc", a)' /\ ~HeadIs("waitopen", a)' /\ ~HeadIs("waitclose", a)'
  BY HeadOf DEF HeadIs, NoWaits, Waits

LEMMA LinkQuiet ==
    ASSUME LinkInv, Prompt, NEW a \in Adapters, SameLink(a), logp' => logp,
           ProgOk(prog'), NoWaits(prog'), prog # <<>> => Head(prog).s \notin {"waitdisc", "waitopen"}
    PROVE  LinkOk(a)'
<1>1. ~HeadIs("waitdisc", a) /\ ~HeadIs("waitopen", a)
  BY DEF HeadIs
<1>2. LinkOk(a)
  BY DEF LinkInv
<1>3. ~HeadIs("waitopen", a)' /\ ~HeadIs("waitdisc", a)'
  BY NoWait
<1> QED
  BY <1>1, <1>2, <1>3 DEF LinkOk, SameLink

LEMMA RestQuiet ==
    ASSUME ProgOk(prog), prog # <<>>
    PROVE  NoWaits(Tail(prog))
  BY Underway DEF NoWaits, InOrder, Rest

(* What the steps to come expect of links and BSSs stays true when links   *)
(* and BSSs only go.                                                       *)
Calmer ==
    /\ logp' => logp
    /\ \A a \in Adapters :
         /\ sme'[a].link \in {sme[a].link, "idle"}
         /\ sme'[a].session => sme[a].session
         /\ ad'[a].bss => ad[a].bss
LEMMA SameIsCalmer == SameLinks => Calmer
  BY DEF SameLinks, SameLink, Calmer

LEMMA StepsOn ==
    ASSUME Control, LinkInv, Prompt, prog # <<>>, Calmer, Follows(Tail(prog)),
           \A t \in All(prog') : t.s \in Extras \intersect Linkless => sme'[t.a].link = "idle",
           Head(prog).s = "stop" => ~ad'[P2p].bss \/ ~Ending("close"),
           Head(prog).s = "trydisc" => sme'[Last(prog).a].link # "joined"
    PROVE  LinkSteps'
<1>1. /\ All(prog) = {Head(prog)} \union Rest /\ Rest \subseteq All(prog')
      /\ \A t \in All(prog') : t \in Rest \/ t.s \in Extras
      /\ prog' # <<>> => Last(prog') = Last(prog)
      /\ All(prog) \subseteq StepRecords /\ Last(prog) \in All(prog) /\ Last(prog).a \in Adapters
  BY Underway DEF Control, Rest, Follows, StepRecords
<1>2. LinkSteps
  BY DEF LinkInv
<1>3. ASSUME NEW t \in All(prog'), t.s \in Linkless PROVE sme'[t.a].link = "idle"
  <2>1. CASE t \in Rest
    <3>1. sme[t.a].link = "idle" /\ t.a \in Adapters
      BY <1>1, <1>2, <1>3, <2>1 DEF LinkSteps, StepRecords
    <3> QED
      BY <3>1 DEF Calmer
  <2>2. CASE t.s \in Extras
    BY <1>3, <2>2
  <2> QED
    BY <1>1, <2>1, <2>2
<1>4. \A s : Ending(s)' => Ending(s) /\ Last(prog') = Last(prog)
  BY <1>1 DEF Ending
<1>5. \A s \in {"stop", "trydisc"} : Has(prog, s) => Has(prog', s) \/ Head(prog).s = s
  BY <1>1 DEF Has
<1>6. /\ Ending("notconn")' => sme'[Last(prog').a].link \in {"idle", "leaving"}
      /\ Ending("roam")' =>
           /\ \/ sme'[Last(prog').a].link \in {"idle", "leaving"}
              \/ sme'[Last(prog').a].link = "joined" /\ Has(prog', "trydisc")
           /\ logp' => ~sme'[Last(prog').a].session
  BY <1>1, <1>2, <1>4, <1>5 DEF LinkSteps, Calmer
<1>7. /\ Ending("count")' \/ Ending("half")' \/ Ending("free")' => ~ad'[Last(prog').a].bss
      /\ Ending("close")' /\ ad'[P2p].bss => Has(prog', "stop")
  BY <1>1, <1>2, <1>4, <1>5 DEF LinkSteps, Calmer, Adapters
<1> QED
  BY <1>3, <1>6, <1>7 DEF LinkSteps

LEMMA StepsStill ==
    ASSUME Control, LinkInv, Prompt, prog' = prog, Calmer
    PROVE  LinkSteps'
<1>1. /\ All(prog) \subseteq StepRecords
      /\ prog # <<>> => Last(prog) \in All(prog) /\ Last(prog).a \in Adapters
  BY Underway, NoSteps DEF Control, StepRecords
<1>2. LinkSteps
  BY DEF LinkInv
<1>3. \A t \in All(prog') : t.s \in Linkless => sme'[t.a].link = "idle"
  BY <1>1, <1>2 DEF LinkSteps, Calmer, StepRecords
<1>4. \A s : Ending(s)' <=> Ending(s)
  BY DEF Ending
<1>5. /\ Ending("notconn") => sme'[Last(prog).a].link \in {"idle", "leaving"}
      /\ Ending("roam") =>
           /\ \/ sme'[Last(prog).a].link \in {"idle", "leaving"}
              \/ sme'[Last(prog).a].link = "joined" /\ Has(prog, "trydisc")
           /\ logp' => ~sme'[Last(prog).a].session
  BY <1>1, <1>2 DEF LinkSteps, Calmer, Ending
<1>6. /\ Ending("count") \/ Ending("half") \/ Ending("free") => ~ad'[Last(prog).a].bss
      /\ Ending("close") /\ ad'[P2p].bss => Has(prog, "stop")
  BY <1>1, <1>2 DEF LinkSteps, Calmer, Adapters, Ending
<1> QED
  BY <1>3, <1>4, <1>5, <1>6 DEF LinkSteps

LEMMA StepsFail ==
    ASSUME Control, LinkInv, Prompt, prog # <<>>, Calmer, Follows(unwind),
           Ending("count") \/ Ending("roam"),
           \A t \in All(prog') : t.s \in Extras \intersect Linkless => sme'[t.a].link = "idle"
    PROVE  LinkSteps'
<1>1. /\ Last(prog) \in All(prog) /\ All(prog) \subseteq StepRecords
      /\ \A t \in All(unwind) : t.s \in {"half", "free", "enable"} /\ t.a = Last(prog).a
      /\ Last(prog).a \in Adapters
      /\ \A t \in All(prog') : t \in All(unwind) \/ t.s \in Extras
  BY Underway, Unwinding DEF Control, StepRecords, Follows
<1>2. ASSUME NEW t \in All(prog'), t.s \in Linkless PROVE sme'[t.a].link = "idle"
  <2>1. CASE t \in All(unwind)
    <3>1. Ending("count") /\ Last(prog).s = "count"
      BY <1>1, <1>2, <2>1 DEF Control, UnwindOk, Ending, Linkless
    <3>2. sme[Last(prog).a].link = "idle"
      BY <1>1, <3>1 DEF LinkInv, LinkSteps, Linkless
    <3> QED
      BY <1>1, <2>1, <3>2 DEF Calmer
  <2> QED
    BY <1>1, <1>2, <2>1
<1>3. \A s : Ending(s)' => s \in {"half", "free", "enable"} /\ Last(prog').a = Last(prog).a
  BY EndOfUnwind DEF Control, Ending
<1>4. Ending("half")' \/ Ending("free")' => Ending("count")
  <2>1. prog' # <<>> => Last(prog') \in All(unwind)
    BY EndOfUnwind DEF Control
  <2> QED
    BY <2>1 DEF Control, UnwindOk, Ending
<1>5. Ending("half")' \/ Ending("free")' => ~ad'[Last(prog').a].bss
  BY <1>1, <1>3, <1>4 DEF LinkInv, LinkSteps, Calmer
<1> QED
  BY <1>2, <1>3, <1>5 DEF LinkSteps

LEMMA StepsEnd ==
    ASSUME prog' = <<>>
    PROVE  LinkSteps'
  BY NoSteps DEF LinkSteps, Ending

LEMMA LinkOn ==
    ASSUME Control, LinkInv, Stepped, SameLinks, prog' = Tail(prog),
           Head(prog).s \notin {"waitdisc", "waitopen", "stop", "trydisc"}
    PROVE  LinkInv'
<1> SUFFICES ASSUME Prompt' PROVE LinkInv'
  BY DEF LinkInv
<1>1. Prompt
  BY DEF Prompt, Stepped
<1>2. Follows(Tail(prog)) /\ ProgOk(prog') /\ NoWaits(prog')
  BY Underway, RestQuiet, Simply DEF Control, Stepped
<1>3. \A a \in Adapters : LinkOk(a)'
  BY <1>1, <1>2, LinkQuiet DEF SameLinks
<1>4. \A t \in All(prog') : t.s \in Extras \intersect Linkless => sme'[t.a].link = "idle"
  <2>1. \A t \in All(prog') : t \in All(prog) /\ t.a \in Adapters
    BY Underway DEF Control, Stepped, Rest, StepRecords
  <2> QED
    BY <1>1, <2>1 DEF LinkInv, LinkSteps, SameLinks, SameLink
<1>5. LinkSteps'
  BY <1>1, <1>2, <1>4, SameIsCalmer, StepsOn DEF Stepped
<1> QED
  BY <1>3, <1>5 DEF LinkInv

LEMMA LinkFails ==
    ASSUME Control, LinkInv, Stepped, SameLinks, prog' = unwind,
           Ending("count") \/ Ending("roam"), Head(prog).s \notin {"waitdisc", "waitopen"}
    PROVE  LinkInv'
<1> SUFFICES ASSUME Prompt' PROVE LinkInv'
  BY DEF LinkInv
<1>1. Prompt
  BY DEF Prompt, Stepped
<1>2. /\ Follows(unwind) /\ ProgOk(prog') /\ NoWaits(prog')
      /\ \A t \in All(prog') : t.s \notin Extras
  BY Unwinding, Simply DEF Control, Stepped, NoWaits, Waits, Extras
<1>3. \A a \in Adapters : LinkOk(a)'
  BY <1>1, <1>2, LinkQuiet DEF SameLinks
<1>4. LinkSteps'
  BY <1>1, <1>2, SameIsCalmer, StepsFail DEF Stepped
<1> QED
  BY <1>3, <1>4 DEF LinkInv

LEMMA LinkEnds ==
    ASSUME LinkInv, mishap \subseteq mishap', SameLinks, prog' = <<>>,
           prog # <<>> => Head(prog).s \notin {"waitdisc", "waitopen"}
    PROVE  LinkInv'
<1>1. ProgOk(prog') /\ NoWaits(prog')
  BY NoSteps DEF NoWaits
<1>2. Prompt' => Prompt
  BY DEF Prompt
<1>3. Prompt => \A a \in Adapters : LinkOk(a)'
  BY <1>1, LinkQuiet DEF SameLinks
<1> QED
  BY <1>2, <1>3, StepsEnd DEF LinkInv

LEMMA ActiveSame ==
    ASSUME ActiveInv, mishap \subseteq mishap', active' = active,
           \A a \in Adapters, m \in CountedModes : Acts(a, m)' <=> Acts(a, m)
    PROVE  ActiveInv'
<1>1. Prompt' => Prompt
  BY DEF Prompt
<1>2. \A m \in CountedModes : One(Acts(Wlan, m))' = One(Acts(Wlan, m))
                              /\ One(Acts(P2p, m))' = One(Acts(P2p, m))
  BY DEF One, Adapters
<1> QED
  BY <1>1, <1>2 DEF ActiveInv

LEMMA ActsSame ==
    ASSUME SameShape, SameLinks
    PROVE  \A a \in Adapters, m \in CountedModes : Acts(a, m)' <=> Acts(a, m)
  BY DEF SameShape, SameLinks, SameLink, Acts

-----------------------------------------------------------------------------
(* Sessions, when a step leaves them alone and is no wait.                 *)
SameSessions ==
    /\ \A a \in Adapters :
         /\ ad'[a].listed = ad[a].listed /\ ad'[a].sess = ad[a].sess
         /\ sme'[a].session = sme[a].session
         /\ sme'[a].opening = sme[a].opening /\ sme'[a].closing = sme[a].closing
         /\ comp'[a].open = comp[a].open /\ comp'[a].close = comp[a].close
    /\ logp' = logp \/ "ssr" \in mishap'
CountsSame == \A a \in Adapters : Pends(prog, "count", a)' => Pends(prog, "count", a)

LEMMA SessionQuiet ==
    ASSUME SessionInv, mishap \subseteq mishap', SameSessions, CountsSame,
           prog # <<>> => Head(prog).s \notin {"waitopen", "waitclose"}
    PROVE  SessionInv'
<1> SUFFICES ASSUME Prompt', NEW a \in Adapters PROVE SessionOk(a)'
  BY DEF SessionInv
<1>1. SessionOk(a)
  BY DEF SessionInv, Prompt
<1>2. ~HeadIs("waitopen", a) /\ ~HeadIs("waitclose", a)
  BY DEF HeadIs
<1>3. Kept(a)' => Kept(a)
  BY DEF Kept, SameSessions, CountsSame
<1> QED
  BY <1>1, <1>2, <1>3 DEF SessionOk, SameSessions

LEMMA CountsOn ==
    ASSUME Control, prog # <<>>, Follows(Tail(prog)) PROVE CountsSame
  BY Underway DEF Control, Follows, CountsSame, Pends

LEMMA CountsFail ==
    ASSUME Control, prog # <<>>, Follows(unwind), Ending("count") \/ Ending("roam")
    PROVE  CountsSame
<1>1. ~Ending("count")'
  BY EndOfUnwind DEF Control
<1> QED
  BY <1>1 DEF CountsSame, Pends, Ending

LEMMA CountsEnd ==
    ASSUME prog' = <<>> PROVE CountsSame
  BY DEF CountsSame, Pends

-----------------------------------------------------------------------------
(* Steps that only move on, and calls that fail.                           *)
OnlyProgram == UNCHANGED <<ad, sme, comp, open, active, ps, logp>>
Aside == {"list", "count", "half", "enable", "mode", "waitdisc", "waitopen", "waitclose", "stop", "trydisc"}

LEMMA Same ==
    ASSUME AdTypeOK, OnlyProgram
    PROVE  AdTypeOK' /\ SameShape /\ SameLinks /\ SameSessions
  BY DEF AdTypeOK, OnlyProgram, SameShape, SameLinks, SameLink, SameSessions

LEMMA Onward ==
    ASSUME Inv, Stepped, AdTypeOK', SameShape, SameLinks, SameSessions,
           UNCHANGED <<open, active, ps>>, prog' = Tail(prog), Head(prog).s \notin Aside
    PROVE  Inv'
<1>1. Follows(Tail(prog))
  BY Simply, Underway DEF Inv, Control, Stepped
<1>2. Control' /\ OpenInv' /\ LinkInv'
  BY <1>1, ControlOn, OpenOn, LinkOn DEF Inv, Aside
<1>3. ActiveInv' /\ PowerInv'
  BY <1>1, ActsSame, ActiveSame, PowerOn DEF Inv, Aside, Stepped, SameShape, Adapters
<1>4. SessionInv'
  BY <1>1, CountsOn, SessionQuiet DEF Inv, Aside, Stepped
<1> QED
  BY <1>2, <1>3, <1>4 DEF Inv

LEMMA MovesOn ==
    ASSUME Inv, Stepped, OnlyProgram, prog' = Tail(prog), Head(prog).s \notin Aside
    PROVE  Inv'
  BY Onward, Same DEF Inv, Control, OnlyProgram

LEMMA Unwinds ==
    ASSUME Inv, Stepped, OnlyProgram, prog' = unwind, Ending("count") \/ Ending("roam"),
           Head(prog).s \notin {"count", "waitdisc", "waitopen", "waitclose"}
    PROVE  Inv'
<1>1. Follows(unwind)
  BY Simply, Unwinding DEF Inv, Control, Stepped
<1>2. AdTypeOK' /\ SameShape /\ SameLinks /\ SameSessions
  BY Same DEF Inv, Control
<1>3. Control' /\ OpenInv' /\ LinkInv'
  BY <1>1, <1>2, ControlFails, OpenFails, LinkFails DEF Inv, OnlyProgram
<1>4. ActiveInv' /\ PowerInv'
  BY <1>1, <1>2, ActsSame, ActiveSame, PowerFails DEF Inv, OnlyProgram, Stepped
<1>5. SessionInv'
  BY <1>1, <1>2, CountsFail, SessionQuiet DEF Inv, Stepped
<1> QED
  BY <1>3, <1>4, <1>5 DEF Inv

LEMMA Stops ==
    ASSUME Inv, Stepped, OnlyProgram, prog' = <<>>,
           Head(prog).s \notin {"waitdisc", "waitopen", "waitclose"},
           "half" \in mishap' \/ \A a \in Adapters : ad[a].listed => ~Pending(a),
           \/ mishap' \intersect {"half", "alloc", "privacy", "late"} # {}
           \/ \A t \in All(prog) : t.s \notin {"enable", "half", "list", "mode"}
    PROVE  Inv'
<1>1. AdTypeOK' /\ SameShape /\ SameLinks /\ SameSessions
  BY Same DEF Inv, Control
<1>2. Control' /\ OpenInv' /\ LinkInv'
  BY <1>1, ControlEnds, OpenEnds, LinkEnds DEF Inv, OnlyProgram, Stepped
<1>3. ActiveInv' /\ PowerInv'
  BY <1>1, ActsSame, ActiveSame, PowerEnds DEF Inv, OnlyProgram, Stepped
<1>4. SessionInv'
  BY <1>1, CountsEnd, SessionQuiet DEF Inv, Stepped
<1> QED
  BY <1>2, <1>3, <1>4 DEF Inv

LEMMA HeadEnd ==
    ASSUME Control, prog # <<>>
    PROVE  /\ StepOk(Head(prog), Last(prog)) /\ Head(prog) \in StepRecords
           /\ Last(prog) \in StepRecords
           /\ Head(prog).s \in {"tdls", "initap", "register", "country", "alloc"} => Ending("count")
           /\ Head(prog).s \in {"privacy", "roam", "trydisc"} => Ending("roam")
           /\ Head(prog).s \notin {"initsta", "waitopen"} => Arg # "ignore"
<1>1. StepOk(Head(prog), Last(prog)) /\ Head(prog) \in StepRecords /\ Last(prog) \in StepRecords
  BY Underway DEF Control
<1> QED
  BY <1>1 DEF StepOk, Parts, Ending, Arg

LEMMA CallKeeps ==
    ASSUME Inv, NEW s \in {"tdls", "initap", "register"}, NEW k, Call(s, k)
    PROVE  Inv'
<1>1. prog # <<>> /\ Head(prog).s = s /\ OnlyProgram /\ unwind' = unwind
  BY DEF Call, At, OnlyProgram
<1>2. CASE Next1 /\ UNCHANGED <<left, mishap>>
  BY <1>1, <1>2, MovesOn DEF Next1, Stepped, Aside
<1>3. CASE Fail(k)
  <2>1. Ending("count") /\ prog' = unwind
    BY <1>1, <1>3, HeadEnd DEF Inv, Fail, ErrorPath
  <2>2. Stepped
    BY <1>1, <1>3 DEF Fail, Trouble, Stepped
  <2> QED
    BY <1>1, <2>1, <2>2, Unwinds
<1> QED
  BY <1>2, <1>3 DEF Call

LEMMA CountryKeeps == Inv /\ Country => Inv'
<1> SUFFICES ASSUME Inv, Country PROVE Inv'
  OBVIOUS
<1>1. prog # <<>> /\ Head(prog).s = "country" /\ OnlyProgram /\ unwind' = unwind
  BY DEF Country, At, OnlyProgram
<1>2. CASE Next1 /\ UNCHANGED <<left, mishap>>
  BY <1>1, <1>2, MovesOn DEF Next1, Stepped, Aside
<1>3. CASE (prog' = ErrorPath /\ UNCHANGED <<left, mishap>>) \/ Fail("country")
  <2>1. Ending("count") /\ prog' = unwind
    BY <1>1, <1>3, HeadEnd DEF Inv, Fail, ErrorPath
  <2>2. Stepped
    BY <1>1, <1>3 DEF Fail, Trouble, Stepped
  <2> QED
    BY <1>1, <2>1, <2>2, Unwinds
<1> QED
  BY <1>2, <1>3 DEF Country

LEMMA RoamSteps ==
    ASSUME Control, Ending("roam")
    PROVE  /\ \A t \in All(prog) : t.s \in {"trydisc", "waitdisc", "privacy", "roam"}
           /\ \A a : ~Pending(a)
<1>1. \A t \in All(prog) : StepOk(t, Last(prog))
  BY Underway DEF Control, Ending
<1> QED
  BY <1>1 DEF StepOk, Parts, Ending, Pending, Pends

LEMMA SimpleStepsKeep ==
    ASSUME Inv, Standby \/ SetPrivacy \/ HalfWay \/ Alloc
    PROVE  Inv'
<1>1. CASE Standby
  BY <1>1, MovesOn DEF Standby, At, Next1, OnlyProgram, Stepped, Aside
<1>2. CASE SetPrivacy
  <2>1. prog # <<>> /\ Head(prog).s = "privacy" /\ OnlyProgram /\ unwind' = unwind
    BY <1>2 DEF SetPrivacy, At, OnlyProgram
  <2>2. CASE Next1 /\ UNCHANGED <<left, mishap>>
    BY <2>1, <2>2, MovesOn DEF Next1, Stepped, Aside
  <2>3. CASE Trouble("privacy") /\ prog' = <<>>
    <3>1. Ending("roam")
      BY <2>1, HeadEnd DEF Inv
    <3>2. Stepped /\ "privacy" \in mishap'
      BY <2>1, <2>3 DEF Trouble, Stepped
    <3> QED
      BY <2>1, <2>3, <3>1, <3>2, RoamSteps, Stops DEF Inv
  <2> QED
    BY <1>2, <2>2, <2>3 DEF SetPrivacy
<1>3. CASE HalfWay
  <2>1. /\ prog # <<>> /\ Head(prog).s = "half" /\ OnlyProgram /\ Stepped /\ prog' = <<>>
        /\ "half" \in mishap'
    BY <1>3 DEF HalfWay, At, OnlyProgram, Stepped
  <2> QED
    BY <2>1, Stops
<1>4. CASE Alloc
  <2>1. prog # <<>> /\ Head(prog).s = "alloc" /\ OnlyProgram /\ unwind' = unwind
    BY <1>4 DEF Alloc, At, OnlyProgram
  <2>2. CASE Next1 /\ UNCHANGED <<left, mishap>>
    BY <2>1, <2>2, MovesOn DEF Next1, Stepped, Aside
  <2>3. CASE Trouble("alloc") /\ prog' = <<>>
    <3>1. Stepped /\ "alloc" \in mishap'
      BY <2>1, <2>3 DEF Trouble, Stepped
    <3>2. ~ad[P2p].listed
      BY <2>1, Underway DEF Inv, Control, ModesOk, Building
    <3>3. Ending("count") /\ Last(prog).a = P2p
      BY <2>1, HeadEnd DEF Inv, StepOk, Building
    <3>4. \A a \in Adapters : ad[a].listed => ~Pending(a)
      BY <3>2, <3>3 DEF Pending, Pends, Ending
    <3> QED
      BY <2>1, <2>3, <3>1, <3>4, Stops
  <2> QED
    BY <1>4, <2>2, <2>3 DEF Alloc
<1> QED
  BY <1>1, <1>2, <1>3, <1>4

-----------------------------------------------------------------------------
(* Steps that switch power saves, count, or change a mode or a list.       *)
LEMMA EnableKeeps == Inv /\ Enable => Inv'
<1> SUFFICES ASSUME Inv, Enable PROVE Inv'
  OBVIOUS
<1>1. /\ prog # <<>> /\ Head(prog).s = "enable" /\ Stepped /\ prog' = Tail(prog)
      /\ UNCHANGED <<ad, sme, comp, open, active, logp>> /\ ps' = {"bmps", "imps"}
  BY DEF Enable, At, Next1, Stepped
<1>2. Follows(Tail(prog))
  BY <1>1, Simply, Underway DEF Inv, Control
<1>3. AdTypeOK' /\ SameShape /\ SameLinks /\ SameSessions
  BY <1>1 DEF Inv, Control, AdTypeOK, SameShape, SameLinks, SameLink, SameSessions
<1>4. Control' /\ OpenInv' /\ LinkInv'
  BY <1>1, <1>2, <1>3, ControlOn, OpenOn, LinkOn DEF Inv
<1>5. ActiveInv' /\ SessionInv'
  BY <1>1, <1>2, <1>3, ActsSame, ActiveSame, CountsOn, SessionQuiet DEF Inv, Stepped
<1>6. PowerInv'
  BY <1>1 DEF PowerInv
<1> QED
  BY <1>4, <1>5, <1>6 DEF Inv

LEMMA DisableKeeps == Inv /\ Disable => Inv'
<1> SUFFICES ASSUME Inv, Disable PROVE Inv'
  OBVIOUS
<1>1. /\ prog # <<>> /\ Head(prog).s = "disable" /\ Stepped /\ prog' = Tail(prog)
      /\ UNCHANGED <<ad, sme, comp, open, active, logp>> /\ ps' \subseteq ps
  BY DEF Disable, At, Next1, Stepped, AfterDisable
<1>2. Follows(Tail(prog))
  BY <1>1, Simply, Underway DEF Inv, Control
<1>3. AdTypeOK' /\ SameShape /\ SameLinks /\ SameSessions
  BY <1>1 DEF Inv, Control, AdTypeOK, SameShape, SameLinks, SameLink, SameSessions
<1>4. Control' /\ OpenInv' /\ LinkInv'
  BY <1>1, <1>2, <1>3, ControlOn, OpenOn, LinkOn DEF Inv
<1>5. ActiveInv' /\ SessionInv'
  BY <1>1, <1>2, <1>3, ActsSame, ActiveSame, CountsOn, SessionQuiet DEF Inv, Stepped
<1>6. PowerInv'
  <2>1. /\ Head(prog) \in All(prog) /\ All(prog) = {Head(prog)} \union All(prog')
        /\ StepOk(Head(prog), Last(prog)) /\ Last(prog) \in StepRecords
    BY <1>1, Underway, HeadEnd DEF Inv, Control, Rest
  <2>2. Ending("count") /\ Head(prog).a = Last(prog).a
    BY <1>1, <2>1 DEF StepOk, Parts, OfPeer, Ending
  <2>3. Has(prog, "disable") /\ ad[Head(prog).a].listed
    BY <1>1, <2>1 DEF Has, Inv, Control, ModesOk
  <2>4. Last(prog).a = P2p \/ \E t \in All(prog) : TakesAp(t)
    BY <2>2, <2>3 DEF Inv, Control, ModesOk
  <2>5. ad'[P2p].listed \/ \E t \in All(prog') : TakesAp(t)
    BY <1>1, <2>1, <2>2, <2>3, <2>4 DEF TakesAp
  <2> QED
    BY <2>5 DEF PowerInv, Excuse
<1> QED
  BY <1>4, <1>5, <1>6 DEF Inv

LEMMA Bytes ==
    ASSUME NEW o \in [CountedModes -> 0..255], NEW m
    PROVE  /\ SetConcurrency(o, m) \in [CountedModes -> 0..255]
           /\ ClearConcurrency(o, m) \in [CountedModes -> 0..255]
<1>1. \A k \in 0..255 : (k + 1) % 256 \in 0..255 /\ (k + 255) % 256 \in 0..255
  OBVIOUS
<1>2. CASE m \in CountedModes
  <2>1. (o[m] + 1) % 256 \in 0..255 /\ (o[m] + 255) % 256 \in 0..255
    BY <1>1, <1>2
  <2>2. [o EXCEPT ![m] = (o[m] + 1) % 256] \in [CountedModes -> 0..255]
    BY <2>1, Zenon
  <2>3. [o EXCEPT ![m] = (o[m] + 255) % 256] \in [CountedModes -> 0..255]
    BY <2>1, Zenon
  <2> QED
    BY <1>2, <2>2, <2>3 DEF SetConcurrency, ClearConcurrency
<1>3. CASE m \notin CountedModes
  BY <1>3 DEF SetConcurrency, ClearConcurrency
<1> QED
  BY <1>2, <1>3

(* The last step of a program stands alone.                                *)
LEMMA Alone ==
    ASSUME Control, prog # <<>>, Head(prog).s \in Ends
    PROVE  Tail(prog) = <<>> /\ Last(prog) = Head(prog) /\ All(prog) = {Head(prog)}
  BY Underway DEF Control, InOrder

LEMMA CountKeeps == Inv /\ Count => Inv'
<1> SUFFICES ASSUME Inv, Count PROVE Inv'
  OBVIOUS
<1> DEFINE a == Head(prog).a
           m == ad[a].mode
<1>1. /\ prog # <<>> /\ Head(prog).s = "count" /\ Stepped /\ prog' = Tail(prog)
      /\ UNCHANGED <<ad, sme, comp, active, ps, logp>> /\ open' = SetConcurrency(open, m)
  BY DEF Count, At, Next1, Stepped, Me
<1>2. /\ prog' = <<>> /\ Last(prog) = Head(prog) /\ All(prog) = {Head(prog)} /\ a \in Adapters
  BY <1>1, Alone, HeadEnd DEF Inv, Ends, StepRecords
<1>3. AdTypeOK' /\ SameShape /\ SameLinks /\ SameSessions
  <2>1. open' \in [CountedModes -> 0..255]
    <3>1. open \in [CountedModes -> 0..255]
      BY DEF Inv, Control, AdTypeOK
    <3>2. SetConcurrency(open, ad[Head(prog).a].mode) \in [CountedModes -> 0..255]
      <4> HIDE DEF a, m
      <4> QED
        BY <3>1, Bytes
    <3> QED
      BY <1>1, <3>2
  <2>2. AdTypeOK'
    <3>1. AdTypeOK
      BY DEF Inv, Control
    <3> QED
      BY <1>1, <2>1, <3>1 DEF AdTypeOK
  <2>3. SameShape /\ SameLinks /\ SameSessions
    BY <1>1 DEF SameShape, SameLinks, SameLink, SameSessions
  <2> QED
    BY <2>2, <2>3
<1>4. Control' /\ LinkInv'
  BY <1>1, <1>2, <1>3, ControlEnds, LinkEnds DEF Inv, Stepped
<1>5. ActiveInv' /\ SessionInv' /\ PowerInv'
  BY <1>1, <1>2, <1>3, ActsSame, ActiveSame, CountsEnd, SessionQuiet, PowerEnds DEF Inv, Stepped
<1>6. OpenInv'
  <2> SUFFICES ASSUME "half" \notin mishap', NEW n \in CountedModes
               PROVE  open'[n] = One(Counted(Wlan, n))' + One(Counted(P2p, n))'
    BY DEF OpenInv
  <2>1. open[n] = One(Counted(Wlan, n)) + One(Counted(P2p, n)) /\ open \in [CountedModes -> 0..255]
    BY <1>1 DEF Inv, Control, AdTypeOK, OpenInv, Stepped
  <2>2. ad[a].listed
    BY <1>1, <1>2 DEF Inv, Control, ModesOk, Has, Ending
  <2>3. /\ \A b \in Adapters : Pending(b) <=> b = a
        /\ \A b \in Adapters : ~Pending(b)'
    BY <1>1, <1>2 DEF Pending, Pends
  <2>4. \A b \in Adapters : Counted(b, n)' <=> (IF b = a THEN m = n ELSE Counted(b, n))
    BY <1>1, <2>2, <2>3 DEF Counted
  <2>5. ~Counted(a, n)
    BY <1>2, <2>3 DEF Counted
  <2>6. open'[n] = IF m = n THEN open[n] + 1 ELSE open[n]
    <3>1. open[n] \in 0..2
      BY <2>1 DEF One
    <3>2. open'[n] = IF m = n THEN (open[n] + 1) % 256 ELSE open[n]
      BY <1>1, <2>1 DEF SetConcurrency
    <3> QED
      BY <3>1, <3>2
  <2>7. CASE a = Wlan
    BY <2>1, <2>4, <2>5, <2>6, <2>7, PersonasAssumption DEF One, Adapters
  <2>8. CASE a = P2p
    BY <2>1, <2>4, <2>5, <2>6, <2>8, PersonasAssumption DEF One, Adapters
  <2> QED
    BY <1>2, <2>7, <2>8 DEF Adapters
<1> QED
  BY <1>4, <1>5, <1>6 DEF Inv

(* A change of mode: the link and the BSS are gone.                        *)
LEMMA NewMode ==
    ASSUME Inv, prog # <<>>, Head(prog).s \in {"mode", "ibss"}
    PROVE  /\ Ending("count") /\ Last(prog).a = Head(prog).a /\ Head(prog).a \in Adapters
           /\ Tail(prog) # <<>> /\ Head(prog) \in All(prog)
           /\ All(prog) = {Head(prog)} \union All(Tail(prog))
           /\ \A u \in All(Tail(prog)) : InOrder(Head(prog), u)
           /\ Prompt => sme[Head(prog).a].link = "idle" /\ ~ad[Head(prog).a].bss
<1>1. /\ StepOk(Head(prog), Last(prog)) /\ Head(prog) \in StepRecords /\ Head(prog) \in All(prog)
      /\ Tail(prog) = <<>> => Last(prog) = Head(prog)
      /\ All(prog) = {Head(prog)} \union All(Tail(prog))
      /\ \A u \in All(Tail(prog)) : InOrder(Head(prog), u)
  BY Underway, HeadEnd DEF Inv, Control, Rest
<1>2. Ending("count") /\ Last(prog).a = Head(prog).a
  BY <1>1 DEF StepOk, Parts, OfPeer, Ending
<1>3. Tail(prog) # <<>> /\ Head(prog).a \in Adapters
  BY <1>1, <1>2 DEF Ending, StepRecords
<1>4. Prompt => sme[Head(prog).a].link = "idle" /\ ~ad[Head(prog).a].bss
  BY <1>1, <1>2 DEF Inv, LinkInv, LinkSteps, Linkless
<1> QED
  BY <1>1, <1>2, <1>3, <1>4

LEMMA ModeKeeps ==
    ASSUME Inv, NEW x, NEW a, a = Head(prog).a, Head(prog).s \in {"mode", "ibss"}, Stepped, prog' = Tail(prog),
           UNCHANGED <<sme, comp, open, active, ps, logp>>,
           x \in IF a = Wlan THEN {"sta", "client", "sap", "ibss"} ELSE {"p2pdev", "client", "go", "ibss"},
           AdTypeOK', \A b \in Adapters : b # a => ad'[b] = ad[b],
           ad'[a].listed = ad[a].listed, ad'[a].mode = x,
           ad'[a].conn \in {ad[a].conn, "NotConnected"},
           ad'[a].bss = ad[a].bss,
           ad'[a].sess = ad[a].sess,
           Head(prog).s = "ibss" => x = "ibss", Head(prog).s = "mode" => x = Head(prog).x
    PROVE  Inv'
<1>1. /\ prog # <<>> /\ Ending("count") /\ Last(prog).a = a /\ a \in Adapters
      /\ Tail(prog) # <<>> /\ Head(prog) \in All(prog)
      /\ All(prog) = {Head(prog)} \union All(prog')
      /\ \A u \in All(prog') : InOrder(Head(prog), u)
      /\ Prompt => sme[a].link = "idle" /\ ~ad[a].bss
  BY NewMode DEF Stepped
<1>2. Follows(Tail(prog)) /\ ProgOk(prog') /\ NoWaits(prog') /\ Last(prog') = Last(prog)
  BY <1>1, Simply, Underway, RestQuiet DEF Inv, Control
<1>3. \A b \in Adapters : /\ ad'[b].listed = ad[b].listed /\ ad'[b].bss = ad[b].bss
                          /\ ad'[b].sess = ad[b].sess
  BY <1>1
<1>4. Control'
  <2>1. Head(prog).s = "mode" => \A u \in All(prog') : u.s # "close"
    BY <1>1 DEF InOrder
  <2>2. Head(prog).s = "ibss" => a = Wlan \/ ~Has(prog', "close")
    BY <1>1, Underway DEF Inv, Control, StepOk, Has, Ending
  <2>3. ad'[P2p].mode = ad[P2p].mode \/ ~Has(prog', "close")
    BY <1>1, <2>1, <2>2, PersonasAssumption DEF Has, Adapters
  <2>4. ModesFit
    BY <1>1, <1>3, <2>3, PersonasAssumption DEF ModesFit, Inv, Control, ModesOk, Adapters
  <2> QED
    BY <1>2, <2>4, ControlModes DEF Inv
<1>5. OpenInv'
  <2>1. \A b \in Adapters : Pending(b)' <=> Pending(b)
    BY <1>1, <1>2 DEF Pending, Pends
  <2>2. Pending(a)
    BY <1>1 DEF Pending, Pends, Ending
  <2>3. \A b \in Adapters, m \in CountedModes : Counted(b, m)' <=> Counted(b, m)
    BY <1>3, <2>1, <2>2 DEF Counted
  <2> QED
    BY <2>3, OpenCounted DEF Inv, Stepped
<1>6. LinkInv'
  <2> SUFFICES ASSUME Prompt' PROVE LinkInv'
    BY DEF LinkInv
  <2>1. Prompt
    BY DEF Prompt, Stepped
  <2>2. LinkOk(a)'
    <3>1. LinkOk(a) /\ ~HeadIs("waitopen", a)
      BY <1>1, <2>1 DEF Inv, LinkInv, HeadIs
    <3>2. ~HeadIs("waitopen", a)' /\ ~HeadIs("waitdisc", a)'
      BY <1>2, NoWait
    <3> QED
      BY <1>1, <1>3, <2>1, <3>1, <3>2 DEF LinkOk
  <2>3. ASSUME NEW b \in Adapters, b # a PROVE LinkOk(b)'
    BY <1>2, <2>1, <2>3, LinkQuiet DEF Inv, SameLink
  <2>4. \A t \in All(prog') : t.s \in Extras \intersect Linkless => sme'[t.a].link = "idle"
    BY <1>1, <2>1 DEF Inv, LinkInv, LinkSteps
  <2>5. LinkSteps'
    BY <1>1, <1>2, <1>3, <2>1, <2>4, StepsOn DEF Inv, Calmer
  <2> QED
    BY <2>2, <2>3, <2>5 DEF LinkInv
<1>7. ActiveInv'
  <2>1. Prompt => \A b \in Adapters, m \in CountedModes : Acts(b, m)' <=> Acts(b, m)
    BY <1>1, <1>3 DEF Acts
  <2>2. Prompt' => Prompt
    BY DEF Prompt, Stepped
  <2> QED
    BY <2>1, <2>2, ActiveSame DEF Inv, Stepped, ActiveInv
<1>8. SessionInv'
  BY <1>1, <1>2, <1>3, CountsOn, SessionQuiet DEF Inv, Stepped, SameSessions
<1>9. PowerInv'
  <2>1. CASE a = Wlan /\ x \notin {"sta", "client"}
    BY <2>1 DEF PowerInv, Excuse
  <2>2. CASE a = Wlan /\ x \in {"sta", "client"}
    <3>1. Head(prog).s = "mode" /\ ~TakesAp(Head(prog)) /\ a # P2p
      BY <2>2, PersonasAssumption DEF TakesAp, ApModes
    <3>2. Has(prog, "enable")
      BY <1>1, <3>1 DEF Inv, Control, ModesOk
    <3>3. Has(prog', "enable")
      BY <1>1, <3>1, <3>2 DEF Has
    <3> QED
      BY <3>3 DEF PowerInv, Excuse
  <2>3. CASE a = P2p /\ ad[P2p].listed
    BY <1>3, <2>3 DEF PowerInv, Excuse, Adapters
  <2>4. CASE a = P2p /\ ~ad[P2p].listed
    <3>1. Head(prog).s # "mode"
      BY <1>1, <2>4 DEF Inv, Control, ModesOk
    <3>2. ad'[P2p].listed = ad[P2p].listed /\ ad'[Wlan].mode = ad[Wlan].mode
      BY <1>3, <2>4, PersonasAssumption DEF Adapters
    <3> QED
      BY <1>2, <3>1, <3>2, PowerOn DEF Inv
  <2> QED
    BY <1>1, <2>1, <2>2, <2>3, <2>4 DEF Adapters
<1> QED
  BY <1>4, <1>5, <1>6, <1>7, <1>8, <1>9 DEF Inv

LEMMA SetModeKeeps == Inv /\ (SetMode \/ SetIbss) => Inv'
<1> SUFFICES ASSUME Inv, SetMode \/ SetIbss PROVE Inv'
  OBVIOUS
<1>1. /\ prog # <<>> /\ Head(prog).s \in {"mode", "ibss"} /\ Stepped /\ prog' = Tail(prog)
      /\ UNCHANGED <<sme, comp, open, active, ps, logp>>
  BY DEF SetMode, SetIbss, At, Next1, Stepped
<1>2. PICK a \in Adapters : a = Head(prog).a
  BY <1>1, NewMode
<1>3. StepOk(Head(prog), Last(prog)) /\ Head(prog) \in StepRecords
  BY <1>1, HeadEnd DEF Inv
<1>4. ad \in [Adapters -> AdRecords]
  BY DEF Inv, Control, AdTypeOK
<1>5. CASE SetMode
  <2>1. PICK k \in BOOLEAN : ad' = [ad EXCEPT ![a].mode = Head(prog).x, ![a].conn = "NotConnected", ![a].beacon = k]
    <3>1. ad[a].beacon \in BOOLEAN
      BY <1>4 DEF AdRecords
    <3> QED
      BY <1>2, <1>5, <3>1 DEF SetMode, Me, Arg
  <2>2. Head(prog).s = "mode" /\ Head(prog).x \in IF a = Wlan THEN {"sta", "client", "sap"} ELSE {"p2pdev", "client", "go"}
    BY <1>2, <1>3, <1>5 DEF SetMode, At, StepOk
  <2>3. AdTypeOK'
    <3> DEFINE r == [ad[a] EXCEPT !.mode = Head(prog).x]
    <3>1. r \in AdRecords
      BY <1>4, <2>2, AdField DEF Modes
    <3>2. [[r EXCEPT !.conn = "NotConnected"] EXCEPT !.beacon = k] \in AdRecords
      BY <3>1, AdField DEF Conns
    <3>3. ad' \in [Adapters -> AdRecords]
      BY <1>4, <2>1, <3>2, OneChanged
    <3> QED
      BY <1>1, <3>3 DEF Inv, Control, AdTypeOK
  <2>4. /\ \A b \in Adapters : b # a => ad'[b] = ad[b]
        /\ ad'[a].listed = ad[a].listed /\ ad'[a].mode = Head(prog).x
        /\ ad'[a].conn = "NotConnected" /\ ad'[a].bss = ad[a].bss /\ ad'[a].sess = ad[a].sess
    BY <1>4, <2>1 DEF AdRecords
  <2> QED
    BY <1>1, <1>2, <2>2, <2>3, <2>4, ModeKeeps
<1>6. CASE SetIbss
  <2>1. ad' = [ad EXCEPT ![a].mode = "ibss"] /\ Head(prog).s = "ibss"
    BY <1>2, <1>6 DEF SetIbss, Me, At
  <2>2. AdTypeOK'
    <3>1. [ad[a] EXCEPT !.mode = "ibss"] \in AdRecords
      BY <1>4, AdField DEF Modes
    <3>2. ad' \in [Adapters -> AdRecords]
      BY <1>4, <2>1, <3>1, OneChanged
    <3> QED
      BY <1>1, <3>2 DEF Inv, Control, AdTypeOK
  <2>3. /\ \A b \in Adapters : b # a => ad'[b] = ad[b]
        /\ ad'[a].listed = ad[a].listed /\ ad'[a].mode = "ibss"
        /\ ad'[a].conn = ad[a].conn /\ ad'[a].bss = ad[a].bss /\ ad'[a].sess = ad[a].sess
    BY <1>4, <2>1 DEF AdRecords
  <2> QED
    BY <1>1, <1>2, <2>1, <2>2, <2>3, ModeKeeps
<1> QED
  BY <1>5, <1>6

LEMMA DeinitKeeps == Inv /\ (Deinit \/ Ready) => Inv'
<1> SUFFICES ASSUME Inv, Deinit \/ Ready PROVE Inv'
  OBVIOUS
<1>1. AdTypeOK /\ ad \in [Adapters -> AdRecords]
  BY DEF Inv, Control, AdTypeOK
<1>2. CASE Deinit
  <2>1. PICK a \in Adapters : a = Head(prog).a
    BY <1>2, HeadEnd DEF Inv, Deinit, At, StepRecords
  <2>2. /\ prog # <<>> /\ Head(prog).s = "deinit" /\ Stepped /\ prog' = Tail(prog)
        /\ UNCHANGED <<sme, comp, open, active, ps, logp>>
        /\ ad' = [ad EXCEPT ![a].init = FALSE]
    BY <1>2, <2>1 DEF Deinit, At, Next1, Stepped, Me
  <2>3. AdTypeOK'
    <3>1. [ad[a] EXCEPT !.init = FALSE] \in AdRecords
      BY <1>1, AdField
    <3>2. ad' \in [Adapters -> AdRecords]
      BY <1>1, <2>2, <3>1, OneChanged
    <3> QED
      BY <1>1, <2>2, <3>2 DEF AdTypeOK
  <2>4. SameShape /\ SameLinks /\ SameSessions
    BY <1>1, <2>2 DEF AdRecords, SameShape, SameLinks, SameLink, SameSessions
  <2> QED
    BY <2>2, <2>3, <2>4, Onward DEF Aside
<1>3. CASE Ready
  <2>1. /\ prog # <<>> /\ Head(prog).s = "ready" /\ Stepped /\ prog' = Tail(prog)
        /\ UNCHANGED <<ad, sme, comp, open, active, ps, mishap>> /\ logp' = FALSE
    BY <1>3 DEF Ready, At, Next1, Stepped
  <2>2. Ending("ready")
    BY <2>1, Alone DEF Inv, Ends, Ending
  <2>3. "ssr" \in mishap'
    BY <2>1, <2>2 DEF Inv, Control, ModesOk
  <2>4. AdTypeOK' /\ SameShape /\ SameLinks /\ SameSessions
    BY <1>1, <2>1, <2>3 DEF AdTypeOK, SameShape, SameLinks, SameLink, SameSessions
  <2> QED
    BY <2>1, <2>4, Onward DEF Aside
<1> QED
  BY <1>2, <1>3

(* An interface that has no link forgets its state.                        *)
LEMMA LinkGone ==
    ASSUME LinkInv, Prompt, NEW a \in Adapters, sme[a].link = "idle",
           ad'[a].conn = "NotConnected", sme'[a] = sme[a], ad'[a].bss => ad[a].bss,
           ad'[a].listed = ad[a].listed, ad'[a].mode = ad[a].mode, logp' => logp,
           ~HeadIs("waitopen", a)'
    PROVE  LinkOk(a)'
<1>1. LinkOk(a)
  BY DEF LinkInv
<1> QED
  BY <1>1 DEF LinkOk

LEMMA NotConnectedKeeps == Inv /\ SetNotConnected => Inv'
<1> SUFFICES ASSUME Inv, SetNotConnected PROVE Inv'
  OBVIOUS
<1>1. AdTypeOK /\ ad \in [Adapters -> AdRecords]
  BY DEF Inv, Control, AdTypeOK
<1>2. PICK a \in Adapters : a = Head(prog).a
  BY HeadEnd DEF Inv, SetNotConnected, At, StepRecords
<1>3. /\ prog # <<>> /\ Head(prog).s = "notconn" /\ Stepped /\ prog' = Tail(prog)
      /\ UNCHANGED <<sme, comp, open, active, ps, logp>>
      /\ ad' = [ad EXCEPT ![a].conn = "NotConnected"]
  BY <1>2 DEF SetNotConnected, At, Next1, Stepped, Me
<1>4. prog' = <<>> /\ Ending("notconn") /\ Last(prog) = Head(prog) /\ All(prog) = {Head(prog)}
  BY <1>3, Alone DEF Inv, Ends, Ending
<1>5. AdTypeOK'
  <2>1. [ad[a] EXCEPT !.conn = "NotConnected"] \in AdRecords
    BY <1>1, AdField DEF Conns
  <2>2. ad' \in [Adapters -> AdRecords]
    BY <1>1, <1>3, <2>1, OneChanged
  <2> QED
    BY <1>1, <1>3, <2>2 DEF AdTypeOK
<1>6. /\ SameShape /\ SameSessions
      /\ \A b \in Adapters : b # a => ad'[b] = ad[b]
      /\ ad'[a].bss = ad[a].bss /\ ad'[a].conn = "NotConnected"
  BY <1>1, <1>3 DEF AdRecords, SameShape, SameSessions
<1>7. Prompt => sme[a].link = "idle"
  <2> SUFFICES ASSUME Prompt PROVE sme[a].link = "idle"
    OBVIOUS
  <2>1. sme[a].link \in {"idle", "leaving"}
    BY <1>2, <1>4 DEF Inv, LinkInv, LinkSteps
  <2>2. ~HeadIs("waitdisc", a) /\ LinkOk(a)
    BY <1>3 DEF HeadIs, Inv, LinkInv
  <2> QED
    BY <2>1, <2>2 DEF LinkOk
<1>8. Control' /\ OpenInv' /\ PowerInv' /\ SessionInv'
  <2>1. \A b \in Adapters : ~Pending(b)
    BY <1>4 DEF Pending, Pends, Ending
  <2> QED
    BY <1>3, <1>4, <1>5, <1>6, <2>1, ControlEnds, OpenEnds, PowerEnds, CountsEnd, SessionQuiet
       DEF Inv, Stepped
<1>9. LinkInv' /\ ActiveInv'
  <2>1. CASE Prompt
    <3>1. ProgOk(prog') /\ NoWaits(prog')
      BY <1>4, NoSteps DEF NoWaits
    <3>2. LinkOk(a)'
      BY <1>3, <1>6, <1>7, <2>1, <3>1, LinkGone, NoWait DEF Inv, SameShape
    <3>3. ASSUME NEW b \in Adapters, b # a PROVE LinkOk(b)'
      BY <1>3, <1>6, <2>1, <3>1, <3>3, LinkQuiet DEF Inv, SameLink
    <3>4. \A b \in Adapters, m \in CountedModes : Acts(b, m)' <=> Acts(b, m)
      BY <1>3, <1>6, <1>7, <2>1 DEF Acts, SameShape
    <3> QED
      BY <1>3, <1>4, <3>2, <3>3, <3>4, StepsEnd, ActiveSame DEF Inv, LinkInv, Stepped
  <2>2. CASE ~Prompt
    BY <1>3, <2>2 DEF LinkInv, ActiveInv, Prompt, Stepped
  <2> QED
    BY <2>1, <2>2
<1> QED
  BY <1>5, <1>8, <1>9 DEF Inv

LEMMA ListKeeps == Inv /\ List => Inv'
<1> SUFFICES ASSUME Inv, List PROVE Inv'
  OBVIOUS
<1>1. ad \in [Adapters -> AdRecords] /\ P2p \in Adapters /\ Wlan \in Adapters /\ Wlan # P2p
  BY PersonasAssumption DEF Inv, Control, AdTypeOK, Adapters
<1>2. /\ prog # <<>> /\ Head(prog).s = "list" /\ Stepped /\ prog' = Tail(prog)
      /\ UNCHANGED <<sme, comp, open, active, ps, logp>>
      /\ ad' = [ad EXCEPT ![Head(prog).a].listed = TRUE]
  BY DEF List, At, Next1, Stepped, Me
<1>3. /\ Head(prog) \in All(prog) /\ StepOk(Head(prog), Last(prog))
      /\ All(prog) = {Head(prog)} \union All(prog')
      /\ \A u \in All(prog') : InOrder(Head(prog), u)
      /\ ProgOk(prog') /\ NoWaits(prog')
      /\ prog' = <<>> => Last(prog) = Head(prog)
      /\ prog' # <<>> => Last(prog') = Last(prog)
  BY <1>2, Underway, RestQuiet DEF Inv, Control, Rest
<1>4. Ending("count") /\ Last(prog).a = P2p /\ Head(prog).a = P2p /\ ~ad[P2p].listed
  BY <1>2, <1>3 DEF StepOk, Parts, Building, OfPeer, Ending, Inv, Control, ModesOk
<1>5. prog' # <<>> /\ Last(prog') = Last(prog) /\ \A u \in All(prog') : u.s = "count"
  BY <1>2, <1>3, <1>4 DEF Ending, InOrder
<1>6. /\ ad'[Wlan] = ad[Wlan] /\ ad'[P2p].listed
      /\ ad'[P2p].mode = ad[P2p].mode /\ ad'[P2p].conn = ad[P2p].conn
      /\ ad'[P2p].bss = ad[P2p].bss /\ ad'[P2p].sess = ad[P2p].sess
  BY <1>1, <1>2, <1>4 DEF AdRecords
<1>7. AdTypeOK'
  <2>1. [ad[P2p] EXCEPT !.listed = TRUE] \in AdRecords
    BY <1>1, AdField
  <2>2. ad' \in [Adapters -> AdRecords]
    BY <1>1, <1>2, <1>4, <2>1, OneChanged
  <2> QED
    BY <1>2, <2>2 DEF Inv, Control, AdTypeOK
<1>8. Control'
  <2>1. ~(ad[Last(prog).a].listed /\ \A t \in All(unwind) : t.s = "half" /\ t.a = Last(prog).a)
    BY <1>4
  <2>2. ~Has(prog', "enable") /\ unwind' = unwind
    BY <1>2, <1>5 DEF Has, Stepped
  <2>3. \A s : Ending(s)' <=> s = "count"
    BY <1>4, <1>5 DEF Ending
  <2>4. UnwindOk'
    BY <1>2, <1>4, <1>5, <2>1, <2>2, <2>3 DEF Inv, Control, UnwindOk
  <2>5. ModesOk'
    BY <1>4, <1>5, <1>6, <2>3 DEF Inv, Control, ModesOk, Has, Building
  <2> QED
    BY <1>3, <1>7, <2>4, <2>5 DEF Control
<1>9. OpenInv'
  <2>1. \A b \in Adapters : Pending(b)' <=> Pending(b)
    BY <1>2, <1>5 DEF Pending, Pends
  <2>2. Pending(P2p)
    BY <1>4 DEF Pending, Pends, Ending
  <2>3. \A b \in Adapters, m \in CountedModes : Counted(b, m)' <=> Counted(b, m)
    BY <1>6, <2>1, <2>2 DEF Counted, Adapters
  <2> QED
    BY <1>2, <2>3, OpenCounted DEF Inv, Stepped
<1>10. LinkInv'
  <2> SUFFICES ASSUME Prompt' PROVE LinkInv'
    BY DEF LinkInv
  <2>1. Prompt
    BY <1>2 DEF Prompt, Stepped
  <2>2. LinkOk(P2p) /\ ~HeadIs("waitopen", P2p) /\ sme[P2p].link = "idle"
    BY <1>1, <1>2, <1>3, <1>4, <2>1 DEF Inv, LinkInv, LinkSteps, Linkless, HeadIs
  <2>3. ~HeadIs("waitopen", P2p)' /\ ~HeadIs("waitdisc", P2p)'
    BY <1>3, NoWait
  <2>4. LinkOk(P2p)'
    BY <1>2, <1>6, <2>2, <2>3 DEF LinkOk
  <2>5. LinkOk(Wlan)'
    BY <1>1, <1>2, <1>3, <1>6, <2>1, LinkQuiet DEF Inv, SameLink
  <2>6. Calmer
    BY <1>2, <1>6 DEF Calmer, Adapters
  <2>7. Follows(Tail(prog))
    BY <1>2, <1>3, Simply
  <2>8. LinkSteps'
    BY <1>2, <1>5, <2>1, <2>6, <2>7, StepsOn DEF Inv, Control, Extras
  <2> QED
    BY <2>4, <2>5, <2>8 DEF LinkInv, Adapters
<1>11. ActiveInv'
  <2>1. \A b \in Adapters, m \in CountedModes : Acts(b, m)' <=> Acts(b, m)
    BY <1>2, <1>6 DEF Acts, Adapters
  <2> QED
    BY <1>2, <2>1, ActiveSame DEF Inv, Stepped
<1>12. SessionInv'
  <2> SUFFICES ASSUME Prompt', NEW b \in Adapters PROVE SessionOk(b)'
    BY DEF SessionInv
  <2>1. SessionOk(b) /\ mishap \subseteq mishap'
    BY <1>2 DEF Inv, SessionInv, Prompt, Stepped
  <2>2. ~HeadIs("waitopen", b) /\ ~HeadIs("waitclose", b)
    BY <1>2 DEF HeadIs
  <2>3. Kept(b)' <=> Kept(b)
    BY <1>2, <1>4, <1>5, <1>6 DEF Kept, Pends, Ending, Adapters
  <2> QED
    BY <1>2, <1>6, <2>1, <2>2, <2>3 DEF SessionOk, Adapters
<1>13. PowerInv'
  BY <1>6 DEF PowerInv, Excuse
<1> QED
  BY <1>8, <1>9, <1>10, <1>11, <1>12, <1>13 DEF Inv

LEMMA FreeKeeps == Inv /\ FreeNetdev => Inv'
<1> SUFFICES ASSUME Inv, FreeNetdev PROVE Inv'
  OBVIOUS
<1>1. ad \in [Adapters -> AdRecords] /\ P2p \in Adapters /\ Wlan \in Adapters /\ Wlan # P2p
  BY PersonasAssumption DEF Inv, Control, AdTypeOK, Adapters
<1>2. /\ prog # <<>> /\ Head(prog).s = "free" /\ Stepped /\ prog' = Tail(prog)
      /\ UNCHANGED <<sme, open, active, ps, logp>>
      /\ ad' = [ad EXCEPT ![Head(prog).a] = Fresh(@.mode)]
      /\ comp' = [comp EXCEPT ![Head(prog).a] = NoComp]
  BY DEF FreeNetdev, At, Next1, Stepped, Me
<1>3. /\ Head(prog) \in All(prog) /\ StepOk(Head(prog), Last(prog))
      /\ ProgOk(prog') /\ NoWaits(prog') /\ Follows(Tail(prog))
      /\ \A t \in All(prog') : t \in All(prog)
  BY <1>2, Underway, RestQuiet, Simply DEF Inv, Control, Rest
<1>4. Head(prog).a = P2p /\ ~ad[P2p].listed /\ ~Ending("count") /\ ad[P2p].mode \in Modes
  BY <1>1, <1>2, <1>3 DEF StepOk, Parts, Ending, Inv, Control, ModesOk, AdRecords
<1>5. /\ ad'[Wlan] = ad[Wlan] /\ comp'[Wlan] = comp[Wlan] /\ ~ad'[P2p].listed
      /\ ad'[P2p].mode = ad[P2p].mode /\ ad'[P2p].conn = "NotConnected"
      /\ ad'[P2p].bss = FALSE
  BY <1>1, <1>2, <1>4 DEF Fresh, Inv, Control, AdTypeOK
<1>6. AdTypeOK'
  <2>1. Fresh(ad[P2p].mode) \in AdRecords /\ NoComp \in CompRecords
    BY <1>4 DEF Fresh, NoComp, AdRecords, CompRecords, Conns
  <2>2. ad' \in [Adapters -> AdRecords]
    BY <1>1, <1>2, <1>4, <2>1, OneChanged
  <2>3. comp' \in [Adapters -> CompRecords]
    BY <1>1, <1>2, <1>4, <2>1, OneChanged DEF Inv, Control, AdTypeOK
  <2> QED
    BY <1>2, <2>2, <2>3 DEF Inv, Control, AdTypeOK
<1>7. SameShape
  <2>1. ad[P2p].listed = FALSE /\ ad'[P2p].listed = FALSE
    BY <1>1, <1>2, <1>4 DEF Fresh, AdRecords
  <2> QED
    BY <1>5, <2>1 DEF SameShape, Adapters
<1>8. Control' /\ OpenInv' /\ PowerInv'
  BY <1>1, <1>2, <1>3, <1>6, <1>7, ControlOn, OpenOn, PowerOn DEF Inv, SameShape
<1>9. LinkInv' /\ ActiveInv'
  <2>1. CASE Prompt
    <3>1. LinkOk(P2p) /\ sme[P2p].link = "idle" /\ ~ad[P2p].bss
      BY <1>1, <1>4, <2>1 DEF Inv, LinkInv, LinkOk
    <3>2. LinkOk(P2p)'
      BY <1>1, <1>2, <1>3, <1>4, <1>5, <1>7, <2>1, <3>1, LinkGone, NoWait DEF Inv, SameShape
    <3>3. LinkOk(Wlan)'
      BY <1>1, <1>2, <1>3, <1>5, <2>1, LinkQuiet DEF Inv, SameLink
    <3>4. Calmer
      BY <1>2, <1>5 DEF Calmer, Adapters
    <3>5. \A t \in All(prog') : t.s \in Extras \intersect Linkless => sme'[t.a].link = "idle"
      BY <1>2, <1>3, <2>1 DEF Inv, LinkInv, LinkSteps
    <3>6. LinkSteps'
      BY <1>2, <1>3, <2>1, <3>4, <3>5, StepsOn DEF Inv
    <3>7. \A b \in Adapters, m \in CountedModes : Acts(b, m)' <=> Acts(b, m)
      BY <1>2, <1>5, <3>1 DEF Acts, Adapters
    <3> QED
      BY <1>2, <3>2, <3>3, <3>6, <3>7, ActiveSame DEF Inv, LinkInv, Stepped, Adapters
  <2>2. CASE ~Prompt
    BY <1>2, <2>2 DEF LinkInv, ActiveInv, Prompt, Stepped
  <2> QED
    BY <2>1, <2>2
<1>10. SessionInv'
  <2> SUFFICES ASSUME Prompt', NEW b \in Adapters PROVE SessionOk(b)'
    BY DEF SessionInv
  <2>1. SessionOk(b) /\ mishap \subseteq mishap'
    BY <1>2 DEF Inv, SessionInv, Prompt, Stepped
  <2>2. ~HeadIs("waitopen", b) /\ ~HeadIs("waitclose", b)
    BY <1>2 DEF HeadIs
  <2>3. CountsSame
    BY <1>2, <1>3, CountsOn DEF Inv
  <2>4. ~Kept(P2p)'
    BY <1>1, <1>4, <1>5, <2>3 DEF Kept, CountsSame, Pends, Ending
  <2>5. CASE b = P2p
    BY <1>2, <2>1, <2>2, <2>4, <2>5 DEF SessionOk
  <2>6. CASE b = Wlan
    <3>1. Kept(Wlan)' => Kept(Wlan)
      BY <1>1, <1>5, <2>3 DEF Kept, CountsSame
    <3> QED
      BY <1>2, <1>5, <2>1, <2>2, <2>6, <3>1 DEF SessionOk
  <2> QED
    BY <2>5, <2>6 DEF Adapters
<1> QED
  BY <1>8, <1>9, <1>10 DEF Inv

(* hdd_close_adapter: p2p0 goes, and what was left of it is gone before.   *)
LEMMA CloseKeeps == Inv /\ CloseAdapter => Inv'
<1> SUFFICES ASSUME Inv, CloseAdapter PROVE Inv'
  OBVIOUS
<1>1. /\ ad \in [Adapters -> AdRecords] /\ comp \in [Adapters -> CompRecords]
      /\ P2p \in Adapters /\ Wlan \in Adapters /\ Wlan # P2p /\ P2p # Wlan
  BY PersonasAssumption DEF Inv, Control, AdTypeOK, Adapters
<1>2. /\ prog # <<>> /\ Head(prog).s = "close" /\ Stepped /\ prog' = Tail(prog)
      /\ UNCHANGED <<sme, active, logp, mishap>> /\ unwind' = unwind
      /\ open' = ClearConcurrency(open, ad[Head(prog).a].mode)
      /\ ad' = [ad EXCEPT ![Head(prog).a] = Fresh(@.mode)]
      /\ comp' = [comp EXCEPT ![Head(prog).a] = NoComp]
      /\ ps' = IF Resumed(open') THEN {"bmps", "imps"} ELSE ps
  BY DEF CloseAdapter, At, Next1, Stepped, Me
<1>3. /\ Head(prog) \in All(prog) /\ StepOk(Head(prog), Last(prog))
      /\ All(prog) = {Head(prog)} \union All(prog')
      /\ \A u \in All(prog') : InOrder(Head(prog), u) /\ StepOk(u, Last(prog))
      /\ ProgOk(prog') /\ NoWaits(prog') /\ Follows(Tail(prog))
      /\ prog' = <<>> => Last(prog) = Head(prog)
      /\ prog' # <<>> => Last(prog') = Last(prog) /\ Last(prog') \in All(prog')
      /\ Last(prog) \in StepRecords
  BY <1>2, Underway, RestQuiet, Simply, HeadEnd DEF Inv, Control, Rest
<1>4. /\ Head(prog).a = P2p /\ ad[P2p].listed /\ ad[P2p].mode \in Modes
      /\ \A u \in All(prog') : u.s # "close"
  BY <1>1, <1>2, <1>3 DEF StepOk, InOrder, Inv, Control, ModesOk, AdRecords
<1>5. \/ Last(prog).s = "close" /\ Last(prog).a = P2p /\ prog' = <<>>
      \/ Last(prog).s = "count" /\ Last(prog).a = Wlan /\ prog' # <<>> /\ ad[P2p].mode = "p2pdev"
         /\ \E t \in All(prog') : TakesAp(t)
  <2>1. Last(prog).s \in {"close", "count"}
    BY <1>2, <1>3 DEF StepOk, Parts
  <2>2. CASE Last(prog).s = "close"
    <3>1. prog' = <<>>
      BY <1>3, <1>4, <2>2
    <3> QED
      BY <1>2, <1>3, <1>4, <2>2, <3>1 DEF StepOk, OfPeer
  <2>3. CASE Last(prog).s = "count"
    <3>1. Last(prog).a = Wlan /\ prog' # <<>> /\ Ending("count") /\ Has(prog, "close")
      BY <1>2, <1>3, <2>3 DEF StepOk, Ending, Has
    <3>2. ad[P2p].mode = "p2pdev" /\ \E t \in All(prog) : TakesAp(t)
      BY <1>1, <3>1 DEF Inv, Control, ModesOk
    <3>3. ~TakesAp(Head(prog))
      BY <1>2 DEF TakesAp
    <3> QED
      BY <1>3, <2>3, <3>1, <3>2, <3>3
  <2> QED
    BY <2>1, <2>2, <2>3
<1>6. /\ ad'[Wlan] = ad[Wlan] /\ comp'[Wlan] = comp[Wlan] /\ ad'[P2p].listed = FALSE
      /\ ad'[P2p].mode = ad[P2p].mode /\ ad'[P2p].conn = "NotConnected"
      /\ ad'[P2p].bss = FALSE /\ ad'[P2p].sess = FALSE
  <2>1. ad' = [ad EXCEPT ![P2p] = Fresh(ad[P2p].mode)] /\ comp' = [comp EXCEPT ![P2p] = NoComp]
    BY <1>2, <1>4
  <2>2. /\ ad'[Wlan] = ad[Wlan] /\ comp'[Wlan] = comp[Wlan]
        /\ ad'[P2p] = Fresh(ad[P2p].mode)
    BY <1>1, <2>1
  <2> QED
    BY <2>2 DEF Fresh
<1>7. AdTypeOK'
  <2>1. Fresh(ad[P2p].mode) \in AdRecords /\ NoComp \in CompRecords
    BY <1>4 DEF Fresh, NoComp, AdRecords, CompRecords, Conns
  <2>2. ad' \in [Adapters -> AdRecords]
    <3>1. ad' = [ad EXCEPT ![P2p] = Fresh(ad[P2p].mode)]
      BY <1>2, <1>4
    <3> QED
      BY <1>1, <2>1, <3>1, OneChanged
  <2>3. comp' \in [Adapters -> CompRecords]
    <3>1. comp' = [comp EXCEPT ![P2p] = NoComp]
      BY <1>2, <1>4
    <3> QED
      BY <1>1, <2>1, <3>1, OneChanged
  <2>4. open' \in [CountedModes -> 0..255]
    <3>1. open \in [CountedModes -> 0..255]
      BY DEF Inv, Control, AdTypeOK
    <3>2. \A k : ClearConcurrency(open, k) \in [CountedModes -> 0..255]
      BY <3>1, Bytes
    <3> QED
      BY <1>2, <3>2
  <2>5. ps' \subseteq {"bmps", "imps"}
    BY <1>2 DEF Inv, Control, AdTypeOK
  <2> QED
    BY <1>2, <2>2, <2>3, <2>4, <2>5 DEF Inv, Control, AdTypeOK
<1>8. Control'
  <2>1. UnwindOk'
    BY <1>1, <1>2, <1>3, <1>5, <1>6 DEF Inv, Control, UnwindOk, Ending
  <2>2. ASSUME NEW t \in All(prog')
        PROVE  /\ t.s # "close"
               /\ t.s = "disable" => ad'[t.a].listed
               /\ t.s = "mode" => ad'[t.a].listed /\ (TakesAp(t) \/ t.a = P2p \/ Has(prog', "enable"))
    <3>1. Last(prog).s = "count" /\ Last(prog).a = Wlan
      BY <1>5, <2>2, NoSteps
    <3>2. t \in All(prog) /\ StepOk(t, Last(prog)) /\ t.s # "close"
      BY <1>3, <1>4, <2>2
    <3>3. t.s \in {"disable", "mode"} => t.a = Wlan
      BY <3>1, <3>2 DEF StepOk, OfPeer
    <3>4. Has(prog, "enable") => Has(prog', "enable")
      BY <1>2, <1>3 DEF Has
    <3> QED
      BY <1>6, <3>2, <3>3, <3>4 DEF Inv, Control, ModesOk
  <2>3. Ending("count")' =>
         /\ ad'[Last(prog').a].listed
         /\ ~Has(prog', "close")
         /\ \E t \in All(prog') : TakesAp(t)
    <3>1. ad[Wlan].listed
      BY DEF Inv, Control, ModesOk
    <3> QED
      BY <1>3, <1>4, <1>5, <1>6, <3>1 DEF Ending, Has
  <2>4. \A s : Ending(s)' => s = "count"
    BY <1>3, <1>5 DEF Ending
  <2>5. \A t \in All(prog') : t.s \notin Building \union {"free"}
    <3>1. ASSUME NEW t \in All(prog')
          PROVE  StepOk(t, Last(prog)) /\ Last(prog).s = "count" /\ Last(prog).a = Wlan
      <4>1. prog' # <<>>
        BY <3>1, NoSteps
      <4> QED
        BY <1>3, <1>5, <3>1, <4>1
    <3> QED
      BY <1>1, <3>1 DEF StepOk, Parts, Building
  <2>6. ModesOk'
    BY <1>1, <1>2, <1>4, <1>6, <2>2, <2>3, <2>4, <2>5 DEF Inv, Control, ModesOk
  <2> QED
    BY <1>3, <1>7, <2>1, <2>6 DEF Control
<1>9. OpenInv'
  <2> SUFFICES ASSUME "half" \notin mishap', NEW n \in CountedModes
               PROVE  open'[n] = One(Counted(Wlan, n))' + One(Counted(P2p, n))'
    BY DEF OpenInv
  <2>1. open[n] = One(Counted(Wlan, n)) + One(Counted(P2p, n)) /\ open \in [CountedModes -> 0..255]
    BY <1>2 DEF Inv, Control, AdTypeOK, OpenInv
  <2>2. \A b \in Adapters : Pending(b)' <=> Pending(b)
    BY <1>3, <1>5, <1>2 DEF Pending, Pends
  <2>3. ~Pending(P2p)
    BY <1>1, <1>5 DEF Pending, Pends
  <2>4. Counted(P2p, n) <=> ad[P2p].mode = n
    BY <1>4, <2>3 DEF Counted
  <2>5. ~Counted(P2p, n)' /\ (Counted(Wlan, n)' <=> Counted(Wlan, n))
    BY <1>1, <1>6, <2>2 DEF Counted
  <2>6. open'[n] = IF ad[P2p].mode = n THEN open[n] - 1 ELSE open[n]
    <3>1. \A x \in 1..255 : (x + 255) % 256 = x - 1
      OBVIOUS
    <3>2. ad[P2p].mode = n => open[n] \in 1..255
      BY <2>1, <2>4 DEF One
    <3>3. CASE ad[P2p].mode = n
      BY <1>2, <1>4, <2>1, <3>1, <3>2, <3>3 DEF ClearConcurrency
    <3>4. CASE ad[P2p].mode # n
      BY <1>2, <1>4, <2>1, <3>4 DEF ClearConcurrency
    <3> QED
      BY <3>3, <3>4
  <2> QED
    BY <2>1, <2>4, <2>5, <2>6 DEF One
<1>10. Prompt => ~ad[P2p].bss /\ sme[P2p].link = "idle"
  <2> SUFFICES ASSUME Prompt PROVE ~ad[P2p].bss /\ sme[P2p].link = "idle"
    OBVIOUS
  <2>1. LinkSteps /\ LinkOk(P2p) /\ Head(prog).s \in Linkless
    BY <1>1, <1>2 DEF Inv, LinkInv, Linkless
  <2>2. sme[P2p].link = "idle"
    BY <1>3, <1>4, <2>1 DEF LinkSteps
  <2>3. ~ad[P2p].bss
    <3>1. CASE Last(prog).s = "close"
      <4>1. ~Has(prog, "stop")
        BY <1>2, <1>3, <1>5, <3>1, NoSteps DEF Has
      <4> QED
        BY <1>2, <2>1, <3>1, <4>1 DEF LinkSteps, Ending
    <3>2. CASE ad[P2p].mode = "p2pdev"
      BY <2>1, <3>2 DEF LinkOk, ApModes
    <3> QED
      BY <1>5, <3>1, <3>2
  <2> QED
    BY <2>2, <2>3
<1>11. LinkInv' /\ ActiveInv'
  <2>1. CASE Prompt
    <3>1. LinkOk(P2p) /\ sme[P2p].link = "idle" /\ ~ad[P2p].bss
      BY <1>1, <1>10, <2>1 DEF Inv, LinkInv
    <3>2. LinkOk(P2p)'
      BY <1>2, <1>3, <1>6, <3>1, NoWait DEF LinkOk
    <3>3. LinkOk(Wlan)'
      BY <1>1, <1>2, <1>3, <1>6, <2>1, LinkQuiet DEF Inv, SameLink
    <3>4. Calmer
      BY <1>2, <1>6 DEF Calmer, Adapters
    <3>5. \A t \in All(prog') : t.s \in Extras \intersect Linkless => sme'[t.a].link = "idle"
      BY <1>2, <1>3, <2>1 DEF Inv, LinkInv, LinkSteps
    <3>6. LinkSteps'
      BY <1>2, <1>3, <2>1, <3>4, <3>5, StepsOn DEF Inv
    <3>7. \A b \in Adapters, m \in CountedModes : Acts(b, m)' <=> Acts(b, m)
      BY <1>2, <1>6, <3>1 DEF Acts, Adapters
    <3> QED
      BY <1>2, <3>2, <3>3, <3>6, <3>7, ActiveSame DEF Inv, LinkInv, Stepped, Adapters
  <2>2. CASE ~Prompt
    BY <1>2, <2>2 DEF LinkInv, ActiveInv, Prompt, Stepped
  <2> QED
    BY <2>1, <2>2
<1>12. SessionInv'
  <2> SUFFICES ASSUME Prompt', NEW b \in Adapters PROVE SessionOk(b)'
    BY DEF SessionInv
  <2>1. SessionOk(b) /\ mishap \subseteq mishap'
    BY <1>2 DEF Inv, SessionInv, Prompt, Stepped
  <2>2. ~HeadIs("waitopen", b) /\ ~HeadIs("waitclose", b)
    BY <1>2 DEF HeadIs
  <2>3. CountsSame
    BY <1>2, <1>3, CountsOn DEF Inv
  <2>4. CASE b = P2p
    <3>1. ~Kept(P2p)'
      BY <1>1, <1>3, <1>5, <1>6 DEF Kept, Pends
    <3> QED
      BY <1>2, <2>1, <2>2, <2>4, <3>1 DEF SessionOk
  <2>6. CASE b = Wlan
    <3>1. Kept(Wlan)' => Kept(Wlan)
      BY <1>1, <1>6, <2>3 DEF Kept, CountsSame
    <3> QED
      BY <1>2, <1>6, <2>1, <2>2, <2>6, <3>1 DEF SessionOk
  <2> QED
    BY <2>4, <2>6 DEF Adapters
<1>13. PowerInv'
  <2>1. CASE Last(prog).s = "count"
    BY <1>5, <2>1 DEF PowerInv, Excuse
  <2>2. CASE Last(prog).s = "close" /\ ad[Wlan].mode \notin {"sta", "client"}
    BY <1>6, <2>2 DEF PowerInv, Excuse
  <2>3. CASE Last(prog).s = "close" /\ ad[Wlan].mode \in {"sta", "client"} /\ "half" \notin mishap'
    <3>1. prog' = <<>> /\ ad[Wlan].listed
      BY <1>5, <2>3 DEF Inv, Control, ModesOk
    <3>2. \A b \in Adapters : ~Pending(b)'
      BY <3>1 DEF Pending, Pends
    <3>3. \A n \in CountedModes : open'[n] = IF n = ad[Wlan].mode THEN 1 ELSE 0
      <4> TAKE n \in CountedModes
      <4>1. Counted(Wlan, n)' <=> n = ad[Wlan].mode
        BY <1>1, <1>6, <3>1, <3>2 DEF Counted
      <4>2. ~Counted(P2p, n)'
        BY <1>6 DEF Counted
      <4> QED
        BY <1>9, <2>3, <4>1, <4>2 DEF OpenInv, One
    <3>4. Resumed(open')
      BY <2>3, <3>3 DEF Resumed, Total, CountedModes
    <3> QED
      BY <1>2, <3>4 DEF PowerInv
  <2> QED
    BY <1>5, <2>1, <2>2, <2>3 DEF PowerInv
<1> QED
  BY <1>8, <1>9, <1>11, <1>12, <1>13 DEF Inv

-----------------------------------------------------------------------------
(* Waits, disconnections and sessions.                                     *)

LEMMA WaitDisconnectKeeps == Inv /\ WaitDisconnect => Inv'
<1> SUFFICES ASSUME Inv, WaitDisconnect PROVE Inv'
  OBVIOUS
<1>1. /\ comp \in [Adapters -> CompRecords]
  BY DEF Inv, Control, AdTypeOK
<1>2. PICK a \in Adapters : a = Head(prog).a
  BY HeadEnd DEF Inv, WaitDisconnect, At, StepRecords
<1>3. /\ prog # <<>> /\ Head(prog).s = "waitdisc" /\ Stepped
      /\ UNCHANGED <<ad, sme, open, active, ps, logp>>
      /\ comp' \in {comp, [comp EXCEPT ![a].disc = FALSE]}
      /\ prog' \in {Tail(prog), <<>>}
      /\ prog' = <<>> => prog' = Tail(prog) \/ Head(prog).x = "already"
  BY <1>2 DEF WaitDisconnect, At, Next1, Stepped, Me, Arg, GiveUp
<1>4. Prompt' => sme[a].link # "leaving" \/ (comp[a].disc /\ sme[a].link # "leaving")
  <2> SUFFICES ASSUME Prompt' PROVE sme[a].link # "leaving"
    OBVIOUS
  <2>1. CASE comp[a].disc
    BY <1>3, <2>1 DEF Inv, LinkInv, LinkOk, Prompt, Stepped
  <2>2. CASE ~comp[a].disc
    BY <1>2, <2>2 DEF WaitDisconnect, GiveUp, Me, Prompt
  <2> QED
    BY <2>1, <2>2
<1>5. AdTypeOK'
  <2>1. comp' \in [Adapters -> CompRecords]
    <3>1. [comp[a] EXCEPT !.disc = FALSE] \in CompRecords
      BY <1>1, CompField
    <3> QED
      BY <1>1, <1>3, <3>1, OneChanged
  <2> QED
    BY <1>3, <2>1 DEF Inv, Control, AdTypeOK
<1>6. /\ \A b \in Adapters : comp'[b].open = comp[b].open /\ comp'[b].close = comp[b].close
      /\ \A b \in Adapters : b # a => comp'[b] = comp[b]
  BY <1>1, <1>3 DEF CompRecords
<1>7. SameShape /\ SameSessions
  BY <1>3, <1>6 DEF SameShape, SameSessions
<1>8. CASE prog' = Tail(prog)
  <2>1. Follows(Tail(prog)) /\ ProgOk(prog') /\ NoWaits(prog')
    BY <1>3, <1>8, Simply, Underway, RestQuiet DEF Inv, Control
  <2>2. Control' /\ OpenInv' /\ PowerInv' /\ SessionInv'
    BY <1>3, <1>5, <1>7, <2>1, ControlOn, OpenOn, PowerOn, CountsOn, SessionQuiet
       DEF Inv, Stepped, SameShape, Adapters
  <2>3. LinkInv' /\ ActiveInv'
    <3>1. CASE Prompt'
      <4>1. Prompt /\ ~HeadIs("waitopen", a)
        BY <1>3, <3>1 DEF Prompt, Stepped, HeadIs
      <4>2. ASSUME NEW b \in Adapters PROVE LinkOk(b)'
        <5>1. LinkOk(b) /\ ~HeadIs("waitopen", b) /\ (b # a => ~HeadIs("waitdisc", b))
          BY <1>2, <1>3, <4>1 DEF Inv, LinkInv, HeadIs
        <5>2. ~HeadIs("waitdisc", b)' /\ ~HeadIs("waitopen", b)'
          BY <2>1, NoWait
        <5>3. sme[b].link # "leaving"
          BY <1>4, <3>1, <5>1 DEF LinkOk
        <5> QED
          BY <1>3, <1>6, <5>1, <5>2, <5>3 DEF LinkOk
      <4>3. Calmer
        BY <1>3 DEF Calmer
      <4>4. \A t \in All(prog') : t.s \in Extras \intersect Linkless => sme'[t.a].link = "idle"
        BY <1>3, <1>8, <4>1, Underway DEF Inv, Control, LinkInv, LinkSteps, Rest
      <4>5. LinkSteps'
        BY <1>3, <2>1, <4>1, <4>3, <4>4, StepsOn DEF Inv
      <4>6. \A b \in Adapters, m \in CountedModes : Acts(b, m)' <=> Acts(b, m)
        BY <1>3 DEF Acts
      <4> QED
        BY <1>3, <4>2, <4>5, <4>6, ActiveSame DEF Inv, LinkInv, Stepped
    <3>2. CASE ~Prompt'
      BY <3>2 DEF LinkInv, ActiveInv
    <3> QED
      BY <3>1, <3>2
  <2> QED
    BY <2>2, <2>3 DEF Inv
<1>9. CASE prog' = <<>> /\ Head(prog).x = "already"
  <2>1. Ending("roam")
    BY <1>3, <1>9, HeadEnd DEF Inv, StepOk, Ending
  <2>2. Control' /\ OpenInv' /\ PowerInv' /\ SessionInv'
    BY <1>3, <1>5, <1>7, <1>9, <2>1, RoamSteps, ControlEnds, OpenEnds, PowerEnds, CountsEnd, SessionQuiet
       DEF Inv, Stepped
  <2>3. LinkInv' /\ ActiveInv'
    <3>1. CASE Prompt'
      <4>1. Prompt /\ ~HeadIs("waitopen", a)
        BY <1>3, <3>1 DEF Prompt, Stepped, HeadIs
      <4>2. ASSUME NEW b \in Adapters PROVE LinkOk(b)'
        <5>1. LinkOk(b) /\ ~HeadIs("waitopen", b) /\ (b # a => ~HeadIs("waitdisc", b))
          BY <1>2, <1>3, <4>1 DEF Inv, LinkInv, HeadIs
        <5>2. ~HeadIs("waitdisc", b)' /\ ~HeadIs("waitopen", b)'
          BY <1>9 DEF HeadIs
        <5>3. sme[b].link # "leaving"
          BY <1>4, <3>1, <5>1 DEF LinkOk
        <5> QED
          BY <1>3, <1>6, <5>1, <5>2, <5>3 DEF LinkOk
      <4>6. \A b \in Adapters, m \in CountedModes : Acts(b, m)' <=> Acts(b, m)
        BY <1>3 DEF Acts
      <4> QED
        BY <1>3, <1>9, <4>2, <4>6, StepsEnd, ActiveSame DEF Inv, LinkInv, Stepped
    <3>2. CASE ~Prompt'
      BY <3>2 DEF LinkInv, ActiveInv
    <3> QED
      BY <3>1, <3>2
  <2> QED
    BY <2>2, <2>3 DEF Inv
<1> QED
  BY <1>3, <1>8, <1>9

(* A link that a step leaves alone, whatever comes next.                   *)
LEMMA LinkAside ==
    ASSUME LinkInv, Prompt, NEW a \in Adapters, SameLink(a), logp' => logp,
           ~HeadIs("waitdisc", a) \/ HeadIs("waitdisc", a)',
           ~HeadIs("waitopen", a), ~HeadIs("waitopen", a)'
    PROVE  LinkOk(a)'
<1>1. LinkOk(a)
  BY DEF LinkInv
<1> QED
  BY <1>1 DEF LinkOk, SameLink

LEMMA Middle ==
    ASSUME Control, prog # <<>>, Head(prog).s \in {"closesess", "initsta", "waitopen", "stop", "trydisc"}
    PROVE  /\ Tail(prog) # <<>> /\ Last(Tail(prog)) = Last(prog)
           /\ ProgOk(Tail(prog)) /\ \A u \in All(Tail(prog)) : u.s \notin Waits
           /\ \A u \in All(Tail(prog)) : u \in All(prog)
<1>1. Tail(prog) # <<>>
  BY Underway, HeadEnd DEF Control, StepOk, Parts
<1> QED
  BY <1>1, Underway, RestQuiet DEF Control, Rest, NoWaits

LEMMA TryDisconnectKeeps == Inv /\ TryDisconnect => Inv'
<1> SUFFICES ASSUME Inv, TryDisconnect PROVE Inv'
  OBVIOUS
<1>1. /\ comp \in [Adapters -> CompRecords] /\ sme \in [Adapters -> SmeRecords]
      /\ ad \in [Adapters -> AdRecords]
  BY DEF Inv, Control, AdTypeOK
<1>2. PICK a \in Adapters : a = Head(prog).a
  BY HeadEnd DEF Inv, TryDisconnect, At, StepRecords
<1>3. PICK w \in StepRecords : w = Step("waitdisc", a, "already")
  BY <1>2 DEF Step, StepRecords, StepNames, StepArgs
<1>4. /\ prog # <<>> /\ Head(prog).s = "trydisc" /\ Stepped
      /\ UNCHANGED <<ad, open, active, ps, logp>>
      /\ comp' = (IF ad[a].conn = "Associated" THEN [comp EXCEPT ![a].disc = FALSE] ELSE comp)
      /\ sme' = (IF ad[a].conn = "Associated" /\ sme[a].link # "idle"
                 THEN [sme EXCEPT ![a].link = "leaving"] ELSE sme)
      /\ prog' = (IF (ad[a].conn = "Associated" /\ sme[a].link # "idle") \/ ad[a].conn = "Disconnecting"
                  THEN <<w>> \o Tail(prog) ELSE Tail(prog))
  BY <1>2, <1>3 DEF TryDisconnect, At, Stepped, Me
<1>5. /\ Ending("roam") /\ Last(prog).a = a
      /\ Tail(prog) # <<>> /\ Last(Tail(prog)) = Last(prog)
      /\ ProgOk(Tail(prog)) /\ \A u \in All(Tail(prog)) : u.s \notin Waits
      /\ \A u \in All(Tail(prog)) : u \in All(prog)
  BY <1>2, <1>4, HeadEnd, Middle DEF Inv, StepOk, Ending
<1>6. StepOk(w, Last(prog)) /\ w.s = "waitdisc" /\ w.a = a
  BY <1>3, <1>5 DEF StepOk, Step, Parts, Ending, Building
<1>7. /\ Follows(Tail(prog))
      /\ \A t \in All(prog') : t.s \in {"trydisc", "waitdisc", "privacy", "roam"}
      /\ \A b : ~HeadIs("waitopen", b)'
      /\ prog' = <<w>> \o Tail(prog) => HeadIs("waitdisc", a)'
  <2>1. \A t \in All(prog) : t.s \in {"trydisc", "waitdisc", "privacy", "roam"}
    BY <1>5, RoamSteps DEF Inv
  <2>2. CASE prog' = <<w>> \o Tail(prog)
    <3>1. Follows(Tail(prog)) /\ Head(prog') = w /\ All(prog') = {w} \union All(Tail(prog))
      BY <1>5, <1>6, <2>2, With DEF Extras
    <3>2. prog' # <<>>
      BY <1>5, <3>1 DEF Follows
    <3> QED
      BY <1>5, <1>6, <2>1, <3>1, <3>2 DEF HeadIs
  <2>3. CASE prog' = Tail(prog) /\ prog' # <<w>> \o Tail(prog)
    <3>1. Follows(Tail(prog))
      BY <1>5, <2>3, Simply
    <3>2. NoWaits(prog') /\ ProgOk(prog')
      BY <1>5, <2>3 DEF NoWaits
    <3> QED
      BY <1>5, <2>1, <2>3, <3>1, <3>2, NoWait
  <2> QED
    BY <1>4, <2>2, <2>3
<1>8. AdTypeOK'
  <2>1. [comp[a] EXCEPT !.disc = FALSE] \in CompRecords /\ [sme[a] EXCEPT !.link = "leaving"] \in SmeRecords
    BY <1>1, CompField, SmeField DEF Links
  <2>2. comp' \in [Adapters -> CompRecords] /\ sme' \in [Adapters -> SmeRecords]
    BY <1>1, <1>4, <2>1, OneChanged
  <2> QED
    BY <1>4, <2>2 DEF Inv, Control, AdTypeOK
<1>9. /\ SameShape /\ SameSessions
      /\ \A b \in Adapters : b # a => sme'[b] = sme[b] /\ comp'[b] = comp[b]
      /\ comp'[a].open = comp[a].open /\ sme'[a].session = sme[a].session /\ sme'[a].opening = sme[a].opening
  BY <1>1, <1>4 DEF SameShape, SameSessions, CompRecords, SmeRecords
<1>10. Control' /\ OpenInv' /\ PowerInv' /\ SessionInv'
  BY <1>4, <1>7, <1>8, <1>9, ControlOn, OpenOn, PowerOn, CountsOn, SessionQuiet DEF Inv, Stepped
<1>11. LinkInv' /\ ActiveInv'
  <2>1. CASE Prompt
    <3>1. LinkOk(a) /\ LinkSteps /\ ~HeadIs("waitopen", a) /\ \A b : ~HeadIs("waitdisc", b)
      BY <1>4, <2>1 DEF Inv, LinkInv, HeadIs
    <3>2. sme[a].link \in {"idle", "joined"}
      BY <1>5, <3>1 DEF LinkSteps, LinkOk
    <3>3. LinkOk(a)'
      <4>1. CASE ad[a].conn = "Associated" /\ sme[a].link # "idle"
        <5>1. sme'[a].link = "leaving" /\ ~comp'[a].disc /\ HeadIs("waitdisc", a)'
          BY <1>1, <1>4, <1>7, <4>1 DEF CompRecords, SmeRecords
        <5> QED
          BY <1>4, <1>7, <1>9, <3>1, <4>1, <5>1 DEF LinkOk
      <4>2. CASE ~(ad[a].conn = "Associated" /\ sme[a].link # "idle")
        BY <1>4, <1>7, <1>9, <3>1, <4>2 DEF LinkOk
      <4> QED
        BY <4>1, <4>2
    <3>4. ASSUME NEW b \in Adapters, b # a PROVE LinkOk(b)'
      <4>1. ~HeadIs("waitopen", b)
        BY <1>4 DEF HeadIs
      <4> QED
        BY <1>4, <1>7, <1>9, <2>1, <3>1, <3>4, <4>1, LinkAside DEF Inv, SameLink
    <3>5. sme'[a].link \in {"idle", "leaving"}
      BY <1>1, <1>4, <3>1, <3>2 DEF LinkOk, SmeRecords
    <3>6. LinkSteps'
      <4>1. \A s : Ending(s)' => s = "roam" /\ Last(prog') = Last(prog)
        BY <1>5, <1>7 DEF Ending, Follows
      <4>2. \A t \in All(prog') : t.s \notin Linkless
        BY <1>7 DEF Linkless
      <4>3. Ending("roam")' =>
              /\ sme'[Last(prog').a].link \in {"idle", "leaving"}
              /\ logp' => ~sme'[Last(prog').a].session
        BY <1>4, <1>5, <1>9, <3>1, <3>5, <4>1 DEF LinkSteps, Stepped
      <4>4. ~Ending("notconn")' /\ ~Ending("count")' /\ ~Ending("half")' /\ ~Ending("free")' /\ ~Ending("close")'
        BY <4>1
      <4> QED
        BY <4>2, <4>3, <4>4 DEF LinkSteps
    <3>7. \A b \in Adapters, m \in CountedModes : Acts(b, m)' <=> Acts(b, m)
      <4>1. sme[a].link \in {"joined", "leaving"} => sme'[a].link \in {"joined", "leaving"}
        BY <1>1, <1>4 DEF SmeRecords
      <4>2. sme'[a].link \in {"joined", "leaving"} => sme[a].link \in {"joined", "leaving"}
        BY <1>4, <3>2
      <4> QED
        BY <1>4, <1>9, <4>1, <4>2 DEF Acts
    <3> QED
      BY <1>4, <3>3, <3>4, <3>6, <3>7, ActiveSame DEF Inv, LinkInv, Stepped
  <2>2. CASE ~Prompt
    BY <1>4, <2>2 DEF LinkInv, ActiveInv, Prompt, Stepped
  <2> QED
    BY <2>1, <2>2
<1> QED
  BY <1>10, <1>11 DEF Inv

LEMMA ConnectStartKeeps == Inv /\ ConnectStart => Inv'
<1> SUFFICES ASSUME Inv, ConnectStart PROVE Inv'
  OBVIOUS
<1>1. sme \in [Adapters -> SmeRecords] /\ ad \in [Adapters -> AdRecords]
  BY DEF Inv, Control, AdTypeOK
<1>2. PICK a \in Adapters : a = Head(prog).a
  BY HeadEnd DEF Inv, ConnectStart, At, StepRecords
<1>3. /\ prog # <<>> /\ Head(prog).s = "roam" /\ Stepped
      /\ UNCHANGED <<comp, open, active, ps, logp>>
  BY DEF ConnectStart, At, Stepped, Trouble
<1>4. /\ Tail(prog) = <<>> /\ Last(prog) = Head(prog) /\ All(prog) = {Head(prog)} /\ Ending("roam")
      /\ Arg # "ignore"
  BY <1>3, Alone, HeadEnd DEF Inv, Ends, Ending
<1>5. /\ ad[a].listed /\ ad[a].mode \in {"sta", "client"}
      /\ \A b : ~Pending(b)
  BY <1>2, <1>4, RoamSteps DEF Inv, Control, ModesOk
<1>6. Prompt => sme[a].link = "idle" /\ (logp => ~sme[a].session) /\ LinkOk(a)
  <2> SUFFICES ASSUME Prompt PROVE sme[a].link = "idle" /\ (logp => ~sme[a].session) /\ LinkOk(a)
    OBVIOUS
  <2>1. LinkSteps /\ LinkOk(a) /\ ~HeadIs("waitdisc", a)
    BY <1>3 DEF Inv, LinkInv, HeadIs
  <2>2. ~Has(prog, "trydisc")
    BY <1>3, <1>4 DEF Has
  <2> QED
    BY <1>2, <1>4, <2>1, <2>2 DEF LinkSteps, LinkOk
<1>7. CASE UNCHANGED <<ad, sme>> /\ prog' = unwind
  BY <1>3, <1>4, <1>7, Unwinds DEF OnlyProgram
<1>12. CASE \E c \in {"Connecting", "NotConnected"} :
        /\ ad' = [ad EXCEPT ![a].conn = c] /\ prog' = <<>>
        /\ c = "Connecting" => sme[a].session /\ sme' = [sme EXCEPT ![a].link = "joining"]
        /\ c = "NotConnected" => sme' = sme
  <2>7. PICK c \in {"Connecting", "NotConnected"} :
        /\ ad' = [ad EXCEPT ![a].conn = c] /\ prog' = <<>>
        /\ c = "Connecting" => sme[a].session /\ sme' = [sme EXCEPT ![a].link = "joining"]
        /\ c = "NotConnected" => sme' = sme
    BY <1>12
  <2>8. /\ SameShape
        /\ \A b \in Adapters : ad'[b].sess = ad[b].sess /\ ad'[b].bss = ad[b].bss
        /\ \A b \in Adapters : b # a => ad'[b] = ad[b]
        /\ ad'[a].conn = c
    BY <1>1, <2>7 DEF SameShape, AdRecords
  <2>9. ad' \in [Adapters -> AdRecords]
    <3>1. [ad[a] EXCEPT !.conn = c] \in AdRecords
      BY <1>1, AdField DEF Conns
    <3> QED
      BY <1>1, <2>7, <3>1, OneChanged
  <2>10. CASE c = "Connecting"
    <3>1. /\ sme[a].session /\ sme' = [sme EXCEPT ![a].link = "joining"] /\ prog' = <<>>
      BY <2>7, <2>10
    <3>2. sme' \in [Adapters -> SmeRecords]
      <4>1. [sme[a] EXCEPT !.link = "joining"] \in SmeRecords
        BY <1>1, SmeField DEF Links
      <4> QED
        BY <1>1, <3>1, <4>1, OneChanged
    <3>3. /\ SameSessions
          /\ \A b \in Adapters : b # a => sme'[b] = sme[b]
          /\ sme'[a].link = "joining" /\ sme'[a].session
      <4>1. \A b \in Adapters : /\ sme'[b].session = sme[b].session /\ sme'[b].opening = sme[b].opening
                                /\ sme'[b].closing = sme[b].closing
        BY <1>1, <3>1 DEF SmeRecords
      <4>2. \A b \in Adapters : ad'[b].listed = ad[b].listed
        BY <2>8 DEF SameShape
      <4>3. SameSessions
        BY <1>3, <2>8, <4>1, <4>2 DEF SameSessions
      <4> QED
        BY <1>1, <3>1, <4>3 DEF SmeRecords
    <3>4. Control' /\ OpenInv' /\ PowerInv' /\ SessionInv'
      <4>1. AdTypeOK'
        BY <1>3, <2>9, <3>2 DEF Inv, Control, AdTypeOK
      <4> QED
        BY <1>3, <1>4, <1>5, <2>8, <3>1, <3>3, <4>1, ControlEnds, OpenEnds, PowerEnds, CountsEnd, SessionQuiet
           DEF Inv, Stepped
    <3>5. LinkInv' /\ ActiveInv'
      <4>1. CASE Prompt
        <5>1. LinkOk(a)'
          BY <1>3, <1>5, <1>6, <2>8, <2>10, <3>1, <3>3, <4>1 DEF LinkOk, SameShape, HeadIs
        <5>2. ASSUME NEW b \in Adapters, b # a PROVE LinkOk(b)'
          BY <1>3, <2>8, <3>1, <3>3, <4>1, <5>2, LinkAside DEF Inv, SameLink, HeadIs
        <5>3. \A b \in Adapters, m \in CountedModes : Acts(b, m)' <=> Acts(b, m)
          BY <1>5, <1>6, <2>8, <2>10, <3>3, <4>1 DEF Acts, ApModes, SameShape
        <5> QED
          BY <1>3, <3>1, <5>1, <5>2, <5>3, StepsEnd, ActiveSame DEF Inv, LinkInv, Stepped
      <4>2. CASE ~Prompt
        BY <1>3, <4>2 DEF LinkInv, ActiveInv, Prompt, Stepped
      <4> QED
        BY <4>1, <4>2
    <3> QED
      BY <3>4, <3>5 DEF Inv
  <2>11. CASE c = "NotConnected"
    <3>1. sme' = sme /\ prog' = <<>>
      BY <2>7, <2>11
    <3>2. ProgOk(prog') /\ NoWaits(prog')
      BY <3>1, NoSteps DEF NoWaits
    <3>3. Control' /\ OpenInv' /\ PowerInv' /\ SessionInv'
      <4>1. AdTypeOK' /\ SameSessions
        BY <1>3, <2>8, <2>9, <3>1 DEF Inv, Control, AdTypeOK, SameSessions, SameShape
      <4> QED
        BY <1>3, <1>4, <1>5, <2>8, <3>1, <4>1, ControlEnds, OpenEnds, PowerEnds, CountsEnd, SessionQuiet
           DEF Inv, Stepped
    <3>4. LinkInv' /\ ActiveInv'
      <4>1. CASE Prompt
        <5>1. LinkOk(a)'
          BY <1>3, <1>6, <2>8, <2>11, <3>1, <3>2, <4>1, LinkGone, NoWait DEF Inv, SameShape
        <5>2. ASSUME NEW b \in Adapters, b # a PROVE LinkOk(b)'
          BY <1>3, <2>8, <3>1, <3>2, <4>1, <5>2, LinkQuiet DEF Inv, SameLink
        <5>3. \A b \in Adapters, m \in CountedModes : Acts(b, m)' <=> Acts(b, m)
          BY <1>5, <1>6, <2>8, <2>11, <3>1, <4>1 DEF Acts, ApModes, SameShape
        <5> QED
          BY <1>3, <3>1, <5>1, <5>2, <5>3, StepsEnd, ActiveSame DEF Inv, LinkInv, Stepped
      <4>2. CASE ~Prompt
        BY <1>3, <4>2 DEF LinkInv, ActiveInv, Prompt, Stepped
      <4> QED
        BY <4>1, <4>2
    <3> QED
      BY <3>3, <3>4 DEF Inv
  <2> QED
    BY <2>10, <2>11
<1> QED
  BY <1>2, <1>4, <1>7, <1>12 DEF ConnectStart, Me, Next1

LEMMA CloseSessionKeeps == Inv /\ CloseSession => Inv'
<1> SUFFICES ASSUME Inv, CloseSession PROVE Inv'
  OBVIOUS
<1>1. comp \in [Adapters -> CompRecords] /\ sme \in [Adapters -> SmeRecords]
  BY DEF Inv, Control, AdTypeOK
<1>2. PICK a \in Adapters : a = Head(prog).a
  BY HeadEnd DEF Inv, CloseSession, At, StepRecords
<1>3. PICK w \in StepRecords : w = Step("waitclose", a, "-")
  BY <1>2 DEF Step, StepRecords, StepNames, StepArgs
<1>4. /\ prog # <<>> /\ Head(prog).s = "closesess" /\ Stepped
      /\ UNCHANGED <<ad, open, active, ps, logp, mishap>>
  BY DEF CloseSession, At, Stepped
<1>5. \/ /\ sme' = [sme EXCEPT ![a].session = FALSE, ![a].closing = TRUE, ![a].link = "idle"]
         /\ comp' = [comp EXCEPT ![a].close = FALSE] /\ prog' = <<w>> \o Tail(prog)
      \/ sme' = sme /\ comp' \in {comp, [comp EXCEPT ![a].close = FALSE]} /\ prog' = Tail(prog)
  BY <1>2, <1>3 DEF CloseSession, Me, AfterClose, Next1
<1>6. /\ Tail(prog) # <<>> /\ Last(Tail(prog)) = Last(prog)
      /\ ProgOk(Tail(prog)) /\ \A u \in All(Tail(prog)) : u.s \notin Waits
      /\ \A u \in All(Tail(prog)) : u \in All(prog)
      /\ Head(prog) \in All(prog) /\ StepOk(Head(prog), Last(prog))
  BY <1>4, HeadEnd, Middle, Underway DEF Inv, Control
<1>7. StepOk(w, Last(prog)) /\ w.s = "waitclose" /\ w.a = a
  BY <1>2, <1>3, <1>4, <1>6 DEF StepOk, Step, Parts, Building, OfPeer
<1>8. /\ Follows(Tail(prog))
      /\ \A t \in All(prog') : t \in All(prog) \/ t = w
      /\ \A b : ~HeadIs("waitopen", b)' /\ ~HeadIs("waitdisc", b)'
      /\ prog' = <<w>> \o Tail(prog) => HeadIs("waitclose", a)'
  <2>1. CASE prog' = <<w>> \o Tail(prog)
    <3>1. Follows(Tail(prog)) /\ Head(prog') = w /\ All(prog') = {w} \union All(Tail(prog))
      BY <1>6, <1>7, <2>1, With DEF Extras
    <3>2. prog' # <<>>
      BY <1>6, <3>1 DEF Follows
    <3> QED
      BY <1>6, <1>7, <3>1, <3>2 DEF HeadIs
  <2>2. CASE prog' = Tail(prog) /\ prog' # <<w>> \o Tail(prog)
    <3>1. Follows(Tail(prog))
      BY <1>6, <2>2, Simply
    <3>2. NoWaits(prog') /\ ProgOk(prog')
      BY <1>6, <2>2 DEF NoWaits
    <3> QED
      BY <1>6, <2>2, <3>1, <3>2, NoWait
  <2> QED
    BY <1>5, <2>1, <2>2
<1>9. AdTypeOK'
  <2>1. [comp[a] EXCEPT !.close = FALSE] \in CompRecords
    BY <1>1, CompField
  <2>2. [[[sme[a] EXCEPT !.session = FALSE] EXCEPT !.closing = TRUE] EXCEPT !.link = "idle"] \in SmeRecords
    BY <1>1, SmeField DEF Links
  <2>3. comp' \in [Adapters -> CompRecords]
    BY <1>1, <1>5, <2>1, OneChanged
  <2>4. sme' \in [Adapters -> SmeRecords]
    BY <1>1, <1>5, <2>2, OneChanged
  <2> QED
    BY <1>4, <2>3, <2>4 DEF Inv, Control, AdTypeOK
<1>10. /\ SameShape
       /\ \A b \in Adapters : b # a => sme'[b] = sme[b] /\ comp'[b] = comp[b]
       /\ comp'[a].open = comp[a].open /\ comp'[a].disc = comp[a].disc
       /\ sme'[a].opening = sme[a].opening
       /\ sme' = sme \/ (~sme'[a].session /\ sme'[a].link = "idle" /\ sme'[a].closing)
       /\ comp'[a].close => comp[a].close
       /\ prog' = <<w>> \o Tail(prog) => ~comp'[a].close
  BY <1>1, <1>4, <1>5 DEF SameShape, CompRecords, SmeRecords
<1>11. Control' /\ OpenInv' /\ PowerInv'
  BY <1>4, <1>8, <1>9, <1>10, ControlOn, OpenOn, PowerOn DEF Inv, Stepped
<1>12. LinkInv' /\ ActiveInv'
  <2>1. CASE Prompt
    <3>1. LinkOk(a) /\ LinkSteps /\ sme[a].link = "idle"
      BY <1>2, <1>4, <1>6, <2>1 DEF Inv, LinkInv, LinkSteps, Linkless
    <3>2. LinkOk(a)'
      <4>1. ~HeadIs("waitopen", a)
        BY <1>4 DEF HeadIs
      <4>2. CASE sme' = sme
        BY <1>4, <1>8, <1>10, <3>1, <4>1, <4>2 DEF LinkOk
      <4>3. CASE ~sme'[a].session /\ sme'[a].link = "idle"
        BY <1>4, <1>8, <1>10, <3>1, <4>3 DEF LinkOk
      <4> QED
        BY <1>10, <4>2, <4>3
    <3>3. ASSUME NEW b \in Adapters, b # a PROVE LinkOk(b)'
      <4>1. ~HeadIs("waitopen", b) /\ ~HeadIs("waitdisc", b)
        BY <1>4 DEF HeadIs
      <4> QED
        BY <1>4, <1>8, <1>10, <2>1, <3>3, <4>1, LinkAside DEF Inv, SameLink
    <3>4. sme'[a].link = "idle" /\ Calmer
      BY <1>4, <1>10, <3>1 DEF Calmer
    <3>5. \A t \in All(prog') : t.s \in Extras \intersect Linkless => sme'[t.a].link = "idle"
      <4> TAKE t \in All(prog')
      <4>1. CASE t = w
        BY <1>7, <3>4, <4>1
      <4>2. CASE t \in All(prog)
        <5>1. t.a \in Adapters
          BY <1>4, <4>2, Underway DEF Inv, Control, StepRecords
        <5> QED
          BY <1>10, <3>1, <3>4, <4>2, <5>1 DEF LinkSteps
      <4> QED
        BY <1>8, <4>1, <4>2
    <3>6. LinkSteps'
      BY <1>4, <1>8, <2>1, <3>4, <3>5, StepsOn DEF Inv
    <3>7. \A b \in Adapters, m \in CountedModes : Acts(b, m)' <=> Acts(b, m)
      BY <1>4, <1>10, <3>1, <3>4 DEF Acts
    <3> QED
      BY <1>4, <3>2, <3>3, <3>6, <3>7, ActiveSame DEF Inv, LinkInv, Stepped
  <2>2. CASE ~Prompt
    BY <1>4, <2>2 DEF LinkInv, ActiveInv, Prompt, Stepped
  <2> QED
    BY <2>1, <2>2
<1>13. SessionInv'
  <2> SUFFICES ASSUME Prompt', NEW b \in Adapters PROVE SessionOk(b)'
    BY DEF SessionInv
  <2>1. /\ SessionOk(b) /\ ~HeadIs("waitopen", b) /\ ~HeadIs("waitclose", b)
        /\ Kept(b)' => Kept(b)
    BY <1>4, <1>8, CountsOn DEF Inv, SessionInv, Prompt, Stepped, HeadIs, Kept, CountsSame
  <2>2. CASE sme'[b] = sme[b]
    BY <1>4, <1>10, <2>1, <2>2 DEF SessionOk
  <2>3. CASE b = a /\ prog' = <<w>> \o Tail(prog) /\ sme' # sme
    BY <1>4, <1>8, <1>10, <2>1, <2>3 DEF SessionOk
  <2> QED
    BY <1>5, <1>10, <2>2, <2>3
<1> QED
  BY <1>11, <1>12, <1>13 DEF Inv

LEMMA WaitCloseKeeps == Inv /\ WaitClose => Inv'
<1> SUFFICES ASSUME Inv, WaitClose PROVE Inv'
  OBVIOUS
<1>1. comp \in [Adapters -> CompRecords]
  BY DEF Inv, Control, AdTypeOK
<1>2. PICK a \in Adapters : a = Head(prog).a
  BY HeadEnd DEF Inv, WaitClose, At, StepRecords
<1>3. /\ prog # <<>> /\ Head(prog).s = "waitclose" /\ Stepped /\ prog' = Tail(prog)
      /\ UNCHANGED <<ad, sme, open, active, ps, logp>>
      /\ comp' \in {comp, [comp EXCEPT ![a].close = FALSE]}
  BY <1>2 DEF WaitClose, At, Next1, Stepped, Me, GiveUp
<1>4. Prompt' => ~sme[a].closing
  <2> SUFFICES ASSUME Prompt' PROVE ~sme[a].closing
    OBVIOUS
  <2>1. CASE comp[a].close
    BY <1>3, <2>1 DEF Inv, SessionInv, SessionOk, Prompt, Stepped
  <2>2. CASE ~comp[a].close
    BY <1>2, <2>2 DEF WaitClose, GiveUp, Me, Prompt
  <2> QED
    BY <2>1, <2>2
<1>5. /\ AdTypeOK'
      /\ \A b \in Adapters : /\ comp'[b].open = comp[b].open /\ comp'[b].disc = comp[b].disc
                             /\ comp'[b].close => comp[b].close
  <2>1. [comp[a] EXCEPT !.close = FALSE] \in CompRecords
    BY <1>1, CompField
  <2>2. comp' \in [Adapters -> CompRecords]
    BY <1>1, <1>3, <2>1, OneChanged
  <2>3. AdTypeOK'
    BY <1>3, <2>2 DEF Inv, Control, AdTypeOK
  <2> QED
    BY <1>1, <1>3, <2>3 DEF CompRecords
<1>6. SameShape /\ SameLinks
  BY <1>3, <1>5 DEF SameShape, SameLinks, SameLink
<1>7. Follows(Tail(prog))
  BY <1>3, Simply, Underway DEF Inv, Control
<1>8. Control' /\ OpenInv' /\ PowerInv' /\ LinkInv' /\ ActiveInv'
  BY <1>3, <1>5, <1>6, <1>7, ControlOn, OpenOn, PowerOn, LinkOn, ActsSame, ActiveSame DEF Inv, Stepped
<1>9. SessionInv'
  <2> SUFFICES ASSUME Prompt', NEW b \in Adapters PROVE SessionOk(b)'
    BY DEF SessionInv
  <2>1. /\ SessionOk(b) /\ ~HeadIs("waitopen", b) /\ (b # a => ~HeadIs("waitclose", b))
        /\ Kept(b)' => Kept(b)
    BY <1>2, <1>3, <1>7, CountsOn DEF Inv, SessionInv, Prompt, Stepped, HeadIs, Kept, CountsSame
  <2>2. ~sme[b].closing
    BY <1>4, <2>1 DEF SessionOk
  <2> QED
    BY <1>3, <1>5, <2>1, <2>2 DEF SessionOk, Stepped
<1> QED
  BY <1>8, <1>9 DEF Inv

(* hdd_init_station_mode and its wait: on, or along the error path.        *)
LEMMA ErrorPathOk ==
    ASSUME Control, prog # <<>>, Head(prog).s \in {"initsta", "waitopen"}
    PROVE  /\ ProgOk(ErrorPath) /\ ErrorPath # <<>>
           /\ \A u \in All(ErrorPath) : u.s \notin Waits
           /\ \A u \in All(ErrorPath) : u \in All(prog) \/ u \in All(unwind)
           /\ \/ ErrorPath = Tail(prog) /\ Ending("ready")
              \/ ErrorPath = unwind /\ Ending("count")
           /\ \A w : w.s = "closesess" /\ w.a = Head(prog).a /\ w.x = "-" => StepOk(w, Last(ErrorPath))
           /\ Head(prog) \in All(prog)
<1>1. /\ Tail(prog) # <<>> /\ Last(Tail(prog)) = Last(prog) /\ ProgOk(Tail(prog))
      /\ \A u \in All(Tail(prog)) : u.s \notin Waits
      /\ \A u \in All(Tail(prog)) : u \in All(prog)
  BY Middle
<1>2. StepOk(Head(prog), Last(prog)) /\ Head(prog) \in All(prog)
  BY HeadEnd, Underway DEF Control
<1>3. Arg = "ignore" <=> Ending("ready")
  BY <1>2 DEF StepOk, Ending, Arg
<1>4. CASE Arg = "ignore"
  <2>1. ErrorPath = Tail(prog) /\ Ending("ready")
    BY <1>3, <1>4 DEF ErrorPath
  <2>2. \A w : w.s = "closesess" /\ w.x = "-" => StepOk(w, Last(Tail(prog)))
    BY <1>1, <2>1 DEF StepOk, Ending, Parts, Building
  <2> QED
    BY <1>1, <1>2, <2>1, <2>2
<1>5. CASE Arg # "ignore"
  <2>1. ErrorPath = unwind /\ Ending("count") /\ Head(prog).a = Last(prog).a
    BY <1>2, <1>3, <1>5 DEF ErrorPath, StepOk, Parts, Ending, OfPeer
  <2>2. /\ ProgOk(unwind) /\ unwind # <<>> /\ Last(unwind) \in All(unwind)
        /\ \A t \in All(unwind) : t.s \in {"half", "free", "enable"} /\ t.a = Last(prog).a
    BY <2>1, Unwinding DEF Control
  <2>3. \A w : w.s = "closesess" /\ w.a = Head(prog).a /\ w.x = "-" => StepOk(w, Last(unwind))
    BY <2>1, <2>2 DEF StepOk, Parts, Building
  <2> QED
    BY <1>2, <2>1, <2>2, <2>3 DEF Waits
<1> QED
  BY <1>4, <1>5

LEMMA GoesOn ==
    ASSUME Inv, Stepped, AdTypeOK', SameShape, UNCHANGED <<open, ps>>,
           Follows(Tail(prog)) \/ (Follows(unwind) /\ Ending("count")),
           Head(prog).s \in {"initsta", "waitopen"}
    PROVE  Control' /\ OpenInv' /\ PowerInv' /\ CountsSame
<1>1. CASE Follows(Tail(prog))
  BY <1>1, ControlOn, OpenOn, PowerOn, CountsOn DEF Inv, SameShape, Adapters, Stepped
<1>2. CASE Follows(unwind) /\ Ending("count")
  BY <1>2, ControlFails, OpenFails, PowerFails, CountsFail DEF Inv, Stepped
<1> QED
  BY <1>1, <1>2

LEMMA InitStationKeeps == Inv /\ InitStation => Inv'
<1> SUFFICES ASSUME Inv, InitStation PROVE Inv'
  OBVIOUS
<1>1. comp \in [Adapters -> CompRecords] /\ sme \in [Adapters -> SmeRecords]
  BY DEF Inv, Control, AdTypeOK
<1>2. PICK a \in Adapters : a = Head(prog).a
  BY HeadEnd DEF Inv, InitStation, At, StepRecords
<1>3. PICK w \in StepRecords : w = Step("waitopen", a, Arg)
  BY <1>2, HeadEnd DEF Inv, InitStation, At, Step, StepRecords, StepNames, Arg
<1>4. /\ prog # <<>> /\ Head(prog).s = "initsta" /\ Stepped
      /\ UNCHANGED <<ad, open, active, ps, logp>>
      /\ comp' = [comp EXCEPT ![a].open = FALSE]
  BY <1>2 DEF InitStation, At, Stepped, Me, Fail, Trouble
<1>5. \/ sme' = [sme EXCEPT ![a].opening = TRUE] /\ prog' = <<w>> \o Tail(prog)
      \/ sme' = sme /\ prog' = ErrorPath
  BY <1>2, <1>3 DEF InitStation, Me, Fail
<1>6. /\ Tail(prog) # <<>> /\ Last(Tail(prog)) = Last(prog)
      /\ ProgOk(Tail(prog)) /\ \A u \in All(Tail(prog)) : u.s \notin Waits
      /\ \A u \in All(Tail(prog)) : u \in All(prog)
      /\ Head(prog) \in All(prog) /\ StepOk(Head(prog), Last(prog))
  BY <1>4, HeadEnd, Middle, Underway DEF Inv, Control
<1>7. StepOk(w, Last(prog)) /\ w.s = "waitopen" /\ w.a = a
  BY <1>2, <1>3, <1>4, <1>6 DEF StepOk, Step, Parts, Building, OfPeer, Arg
<1>8. /\ Follows(Tail(prog)) \/ (Follows(unwind) /\ Ending("count"))
      /\ \A t \in All(prog') : t \in All(prog) \/ t.s \notin Extras \/ t = w
      /\ \A b : ~HeadIs("waitclose", b)' /\ ~HeadIs("waitdisc", b)'
      /\ \A b : b # a => ~HeadIs("waitopen", b)'
      /\ sme' = sme \/ HeadIs("waitopen", a)'
      /\ HeadIs("waitopen", a)' => sme'[a].opening
  <2>1. CASE sme' = [sme EXCEPT ![a].opening = TRUE] /\ prog' = <<w>> \o Tail(prog)
    <3>1. Follows(Tail(prog)) /\ Head(prog') = w /\ All(prog') = {w} \union All(Tail(prog))
      BY <1>6, <1>7, <2>1, With DEF Extras
    <3>2. prog' # <<>>
      BY <1>6, <3>1 DEF Follows
    <3>3. sme'[a].opening
      BY <1>1, <2>1 DEF SmeRecords
    <3> QED
      BY <1>6, <1>7, <3>1, <3>2, <3>3 DEF HeadIs
  <2>2. CASE sme' = sme /\ prog' = ErrorPath
    <3>0. Ending("count") => \A t \in All(unwind) : t.s \notin Extras
      BY <1>4, Unwinding DEF Inv, Control, Extras
    <3>1. NoWaits(prog') /\ ProgOk(prog')
      BY <1>4, <2>2, ErrorPathOk DEF NoWaits, Inv
    <3>2. Follows(Tail(prog)) \/ (Follows(unwind) /\ Ending("count"))
      BY <1>4, <2>2, ErrorPathOk, Simply DEF Inv
    <3> QED
      BY <1>4, <1>6, <2>2, <3>0, <3>1, <3>2, ErrorPathOk, NoWait DEF Inv
  <2> QED
    BY <1>5, <2>1, <2>2
<1>9. /\ \A b \in Adapters : b # a => sme'[b] = sme[b] /\ comp'[b] = comp[b]
      /\ comp'[a].disc = comp[a].disc /\ ~comp'[a].open /\ comp'[a].close = comp[a].close
      /\ sme'[a].session = sme[a].session /\ sme'[a].link = sme[a].link
      /\ sme'[a].closing = sme[a].closing
  BY <1>1, <1>4, <1>5 DEF CompRecords, SmeRecords
<1>10. AdTypeOK'
  <2>1. [comp[a] EXCEPT !.open = FALSE] \in CompRecords /\ [sme[a] EXCEPT !.opening = TRUE] \in SmeRecords
    BY <1>1, CompField, SmeField
  <2>2. comp' \in [Adapters -> CompRecords]
    BY <1>1, <1>4, <2>1, OneChanged
  <2>3. sme' \in [Adapters -> SmeRecords]
    BY <1>1, <1>5, <2>1, OneChanged
  <2> QED
    BY <1>4, <2>2, <2>3 DEF Inv, Control, AdTypeOK
<1>11. Control' /\ OpenInv' /\ PowerInv' /\ CountsSame
  BY <1>4, <1>8, <1>10, GoesOn DEF SameShape
<1>12. LinkInv' /\ ActiveInv'
  <2>1. CASE Prompt
    <3>1. LinkOk(a) /\ LinkSteps /\ sme[a].link = "idle" /\ ~HeadIs("waitopen", a)
      BY <1>2, <1>4, <1>6, <2>1 DEF Inv, LinkInv, LinkSteps, Linkless, HeadIs
    <3>2. LinkOk(a)'
      BY <1>4, <1>8, <1>9, <3>1 DEF LinkOk
    <3>3. ASSUME NEW b \in Adapters, b # a PROVE LinkOk(b)'
      <4>1. ~HeadIs("waitopen", b) /\ ~HeadIs("waitdisc", b)
        BY <1>4 DEF HeadIs
      <4> QED
        BY <1>4, <1>8, <1>9, <2>1, <3>3, <4>1, LinkAside DEF Inv, SameLink
    <3>4. Calmer
      BY <1>4, <1>9 DEF Calmer
    <3>5. \A t \in All(prog') : t.s \in Extras \intersect Linkless => sme'[t.a].link = "idle"
      <4> TAKE t \in All(prog')
      <4>1. CASE t = w
        BY <1>7, <1>9, <3>1, <4>1
      <4>2. CASE t \in All(prog)
        <5>1. t.a \in Adapters
          BY <1>4, <4>2, Underway DEF Inv, Control, StepRecords
        <5> QED
          BY <1>9, <3>1, <4>2, <5>1 DEF LinkSteps
      <4> QED
        BY <1>8, <4>1, <4>2
    <3>6. LinkSteps'
      BY <1>4, <1>8, <2>1, <3>4, <3>5, StepsOn, StepsFail DEF Inv
    <3>7. \A b \in Adapters, m \in CountedModes : Acts(b, m)' <=> Acts(b, m)
      BY <1>4, <1>9 DEF Acts
    <3> QED
      BY <1>4, <3>2, <3>3, <3>6, <3>7, ActiveSame DEF Inv, LinkInv, Stepped
  <2>2. CASE ~Prompt
    BY <1>4, <2>2 DEF LinkInv, ActiveInv, Prompt, Stepped
  <2> QED
    BY <2>1, <2>2
<1>13. SessionInv'
  <2> SUFFICES ASSUME Prompt', NEW b \in Adapters PROVE SessionOk(b)'
    BY DEF SessionInv
  <2>1. /\ SessionOk(b) /\ ~HeadIs("waitopen", b) /\ ~HeadIs("waitclose", b)
        /\ Kept(b)' => Kept(b)
    BY <1>4, <1>11 DEF Inv, SessionInv, Prompt, Stepped, HeadIs, Kept, CountsSame
  <2>2. CASE b # a \/ sme' = sme
    BY <1>4, <1>9, <2>1, <2>2 DEF SessionOk, Stepped
  <2>3. CASE b = a /\ HeadIs("waitopen", a)'
    BY <1>4, <1>9, <2>1, <2>3 DEF SessionOk, Stepped
  <2> QED
    BY <1>8, <2>2, <2>3
<1> QED
  BY <1>11, <1>12, <1>13 DEF Inv

LEMMA WaitOpenKeeps == Inv /\ WaitOpen => Inv'
<1> SUFFICES ASSUME Inv, WaitOpen PROVE Inv'
  OBVIOUS
<1>1. comp \in [Adapters -> CompRecords] /\ ad \in [Adapters -> AdRecords]
  BY DEF Inv, Control, AdTypeOK
<1>2. PICK a \in Adapters : a = Head(prog).a
  BY HeadEnd DEF Inv, WaitOpen, At, StepRecords
<1>3. PICK w \in StepRecords : w = Step("closesess", a, "-")
  BY <1>2 DEF Step, StepRecords, StepNames, StepArgs
<1>4. /\ prog # <<>> /\ Head(prog).s = "waitopen" /\ Stepped
      /\ UNCHANGED <<sme, open, active, ps, logp>>
  BY DEF WaitOpen, At, Stepped, Trouble, GiveUp
<1>5. \/ /\ comp[a].open /\ comp' = [comp EXCEPT ![a].open = FALSE]
         /\ \E i \in BOOLEAN : ad' = [ad EXCEPT ![a].conn = "NotConnected", ![a].init = i]
         /\ prog' \in {Tail(prog), <<w>> \o ErrorPath}
      \/ /\ Prompt' => ~comp[a].open /\ ~sme[a].opening
         /\ prog' = ErrorPath /\ UNCHANGED <<ad, comp>>
  BY <1>2, <1>3 DEF WaitOpen, Me, GiveUp, Prompt, Next1
<1>6. /\ Tail(prog) # <<>>
      /\ ProgOk(Tail(prog)) /\ \A u \in All(Tail(prog)) : u.s \notin Waits
      /\ \A u \in All(Tail(prog)) : u \in All(prog)
  BY <1>4, Middle DEF Inv
<1>7. /\ ProgOk(ErrorPath) /\ ErrorPath # <<>>
      /\ \A u \in All(ErrorPath) : u.s \notin Waits
      /\ \A u \in All(ErrorPath) : u \in All(prog) \/ u \in All(unwind)
      /\ \/ ErrorPath = Tail(prog) /\ Ending("ready")
         \/ ErrorPath = unwind /\ Ending("count")
      /\ StepOk(w, Last(ErrorPath)) /\ w.s = "closesess" /\ w.a = a
      /\ Head(prog) \in All(prog)
  BY <1>2, <1>3, <1>4, ErrorPathOk DEF Inv, Step
<1>8. /\ Follows(Tail(prog)) \/ (Follows(unwind) /\ Ending("count"))
      /\ \A t \in All(prog') : t \in All(prog) \/ t = w \/ t.s \notin Extras
      /\ \A b : ~HeadIs("waitclose", b)' /\ ~HeadIs("waitdisc", b)' /\ ~HeadIs("waitopen", b)'
  <2>0. Ending("count") => \A t \in All(unwind) : t.s \notin Extras
    BY <1>4, Unwinding DEF Inv, Control, Extras
  <2>1. CASE prog' = <<w>> \o ErrorPath
    <3>1. Follows(ErrorPath) /\ Head(prog') = w /\ All(prog') = {w} \union All(ErrorPath)
      BY <1>7, <2>1, With DEF Extras
    <3>2. \A t \in All(ErrorPath) : t \in All(prog) \/ t.s \notin Extras
      BY <1>6, <1>7, <2>0
    <3>3. Follows(Tail(prog)) \/ (Follows(unwind) /\ Ending("count"))
      BY <1>7, <3>1
    <3> QED
      BY <1>7, <3>1, <3>2, <3>3 DEF HeadIs
  <2>2. CASE prog' = Tail(prog)
    BY <1>6, <2>2, Simply, NoWait DEF NoWaits
  <2>3. CASE prog' = ErrorPath
    <3>1. NoWaits(prog') /\ ProgOk(prog')
      BY <1>7, <2>3 DEF NoWaits
    <3>2. Follows(Tail(prog)) \/ (Follows(unwind) /\ Ending("count"))
      BY <1>7, <2>3, Simply
    <3> QED
      BY <1>6, <1>7, <2>0, <2>3, <3>1, <3>2, NoWait
  <2> QED
    BY <1>5, <2>1, <2>2, <2>3
<1>9. /\ AdTypeOK' /\ SameShape
      /\ \A b \in Adapters : /\ ad'[b].sess = ad[b].sess /\ ad'[b].bss = ad[b].bss
                             /\ comp'[b].disc = comp[b].disc /\ comp'[b].close = comp[b].close
      /\ \A b \in Adapters : b # a => ad'[b] = ad[b] /\ comp'[b] = comp[b]
      /\ \/ comp[a].open /\ ~comp'[a].open /\ ad'[a].conn = "NotConnected"
         \/ (Prompt' => ~comp[a].open /\ ~sme[a].opening) /\ UNCHANGED <<ad, comp>>
  <2>1. CASE /\ comp[a].open /\ comp' = [comp EXCEPT ![a].open = FALSE]
             /\ \E i \in BOOLEAN : ad' = [ad EXCEPT ![a].conn = "NotConnected", ![a].init = i]
    <3>1. PICK i \in BOOLEAN : ad' = [ad EXCEPT ![a].conn = "NotConnected", ![a].init = i]
      BY <2>1
    <3>2. [comp[a] EXCEPT !.open = FALSE] \in CompRecords
      BY <1>1, CompField
    <3>3. [[ad[a] EXCEPT !.conn = "NotConnected"] EXCEPT !.init = i] \in AdRecords
      BY <1>1, AdField DEF Conns
    <3>4. comp' \in [Adapters -> CompRecords] /\ ad' \in [Adapters -> AdRecords]
      BY <1>1, <2>1, <3>1, <3>2, <3>3, OneChanged
    <3>5. AdTypeOK'
      BY <1>4, <3>4 DEF Inv, Control, AdTypeOK
    <3>6. /\ \A b \in Adapters : /\ comp'[b].disc = comp[b].disc /\ comp'[b].close = comp[b].close
                                 /\ b # a => comp'[b] = comp[b]
          /\ ~comp'[a].open
      BY <1>1, <2>1 DEF CompRecords
    <3>7. /\ \A b \in Adapters : /\ ad'[b].sess = ad[b].sess /\ ad'[b].bss = ad[b].bss
                                 /\ ad'[b].listed = ad[b].listed /\ ad'[b].mode = ad[b].mode
                                 /\ b # a => ad'[b] = ad[b]
          /\ ad'[a].conn = "NotConnected"
      BY <1>1, <3>1 DEF AdRecords
    <3> QED
      BY <2>1, <3>5, <3>6, <3>7 DEF SameShape
  <2>2. CASE (Prompt' => ~comp[a].open /\ ~sme[a].opening) /\ UNCHANGED <<ad, comp>>
    BY <1>4, <2>2 DEF Inv, Control, AdTypeOK, SameShape
  <2> QED
    BY <1>5, <2>1, <2>2
<1>11. Control' /\ OpenInv' /\ PowerInv' /\ CountsSame
  BY <1>4, <1>8, <1>9, GoesOn
<1>12. LinkInv' /\ ActiveInv'
  <2>1. CASE Prompt'
    <3>0. Prompt
      BY <1>4, <2>1 DEF Prompt, Stepped
    <3>1. LinkOk(a) /\ LinkSteps /\ sme[a].link = "idle" /\ HeadIs("waitopen", a)
      BY <1>2, <1>4, <1>7, <3>0 DEF Inv, LinkInv, LinkSteps, Linkless, HeadIs
    <3>2. LinkOk(a)'
      <4>1. CASE ad'[a].conn = "NotConnected"
        BY <1>4, <1>8, <1>9, <3>0, <3>1, <4>1, LinkGone DEF Inv, SameShape
      <4>2. CASE ~comp[a].open /\ ~sme[a].opening /\ UNCHANGED <<ad, comp>>
        BY <1>4, <1>8, <3>1, <4>2 DEF LinkOk
      <4> QED
        BY <1>9, <2>1, <4>1, <4>2
    <3>3. ASSUME NEW b \in Adapters, b # a PROVE LinkOk(b)'
      <4>1. ~HeadIs("waitopen", b) /\ ~HeadIs("waitdisc", b)
        BY <1>2, <1>4, <3>3 DEF HeadIs
      <4> QED
        BY <1>4, <1>8, <1>9, <3>0, <3>3, <4>1, LinkAside DEF Inv, SameLink
    <3>4. Calmer
      BY <1>4, <1>9 DEF Calmer
    <3>5. \A t \in All(prog') : t.s \in Extras \intersect Linkless => sme'[t.a].link = "idle"
      BY <1>4, <1>7, <1>8, <3>1 DEF LinkSteps
    <3>6. LinkSteps'
      BY <1>4, <1>8, <3>0, <3>4, <3>5, StepsOn, StepsFail DEF Inv
    <3>7. \A b \in Adapters, m \in CountedModes : Acts(b, m)' <=> Acts(b, m)
      BY <1>4, <1>9, <3>1 DEF Acts, SameShape
    <3> QED
      BY <1>4, <3>2, <3>3, <3>6, <3>7, ActiveSame DEF Inv, LinkInv, Stepped
  <2>2. CASE ~Prompt'
    BY <2>2 DEF LinkInv, ActiveInv
  <2> QED
    BY <2>1, <2>2
<1>13. SessionInv'
  <2> SUFFICES ASSUME Prompt', NEW b \in Adapters PROVE SessionOk(b)'
    BY DEF SessionInv
  <2>1. /\ SessionOk(b) /\ ~HeadIs("waitclose", b) /\ (b # a => ~HeadIs("waitopen", b))
        /\ Kept(b)' => Kept(b)
    BY <1>2, <1>4, <1>9, <1>11 DEF Inv, SessionInv, Prompt, Stepped, HeadIs, Kept, CountsSame, SameShape
  <2>2. ~sme[b].opening /\ ~sme[b].closing
    BY <1>9, <2>1 DEF SessionOk
  <2> QED
    BY <1>4, <1>9, <2>1, <2>2 DEF SessionOk, Stepped
<1> QED
  BY <1>11, <1>12, <1>13 DEF Inv

-----------------------------------------------------------------------------
(* hdd_stop_adapter: the link or the BSS goes.                             *)

LEMMA Counts ==
    ASSUME Control, NEW m
    PROVE  DecrActive(active, m) \in [CountedModes -> Nat] /\ IncrActive(active, m) \in [CountedModes -> Nat]
<1>1. active \in [CountedModes -> Nat]
  BY DEF Control, AdTypeOK
<1>2. \A k \in Nat : k + 1 \in Nat /\ (k > 0 => k - 1 \in Nat)
  OBVIOUS
<1>3. CASE m \in CountedModes
  <2>1. [active EXCEPT ![m] = active[m] + 1] \in [CountedModes -> Nat]
    BY <1>1, <1>2, <1>3
  <2>2. active[m] > 0 => [active EXCEPT ![m] = active[m] - 1] \in [CountedModes -> Nat]
    BY <1>1, <1>2, <1>3
  <2> QED
    BY <1>1, <1>3, <2>1, <2>2 DEF DecrActive, IncrActive
<1>4. CASE m \notin CountedModes
  BY <1>1, <1>4 DEF DecrActive, IncrActive
<1> QED
  BY <1>3, <1>4

(* One interface leaves the active count.                                  *)
LEMMA Leaves ==
    ASSUME ActiveInv, Prompt, Control, NEW a \in Adapters, ad[a].mode \in CountedModes => Acts(a, ad[a].mode),
           active' = DecrActive(active, ad[a].mode),
           \A m \in CountedModes : ~Acts(a, m)',
           \A b \in Adapters, m \in CountedModes : b # a => (Acts(b, m)' <=> Acts(b, m))
    PROVE  ActiveInv' /\ active' \in [CountedModes -> Nat]
<1>1. active \in [CountedModes -> Nat] /\ Wlan # P2p
  BY PersonasAssumption DEF Control, AdTypeOK
<1>2. \A m \in CountedModes : active[m] = One(Acts(Wlan, m)) + One(Acts(P2p, m))
  BY DEF ActiveInv
<1>3. \A m \in CountedModes : Acts(a, m) <=> ad[a].mode = m
  BY DEF Acts
<1>4. CASE ad[a].mode \in CountedModes
  <2>1. active[ad[a].mode] > 0
    BY <1>1, <1>2, <1>3, <1>4 DEF One, Adapters
  <2>2. active' = [active EXCEPT ![ad[a].mode] = @ - 1]
    BY <1>4, <2>1 DEF DecrActive
  <2>3. active' \in [CountedModes -> Nat]
    BY Counts
  <2>4. \A m \in CountedModes : active'[m] = IF m = ad[a].mode THEN active[m] - 1 ELSE active[m]
    BY <1>1, <2>2
  <2>5. \A m \in CountedModes : active'[m] = One(Acts(Wlan, m))' + One(Acts(P2p, m))'
    <3>1. CASE a = Wlan
      BY <1>1, <1>2, <1>3, <2>4, <3>1 DEF One, Adapters
    <3>2. CASE a = P2p
      BY <1>1, <1>2, <1>3, <2>4, <3>2 DEF One, Adapters
    <3> QED
      BY <3>1, <3>2 DEF Adapters
  <2> QED
    BY <2>3, <2>5 DEF ActiveInv
<1>5. CASE ad[a].mode \notin CountedModes
  <2>1. active' = active
    BY <1>5 DEF DecrActive
  <2>2. \A m \in CountedModes : ~Acts(a, m)
    BY <1>3, <1>5
  <2>3. \A m \in CountedModes : active'[m] = One(Acts(Wlan, m))' + One(Acts(P2p, m))'
    <3>1. CASE a = Wlan
      BY <1>1, <1>2, <2>1, <2>2, <3>1 DEF One, Adapters
    <3>2. CASE a = P2p
      BY <1>1, <1>2, <2>1, <2>2, <3>2 DEF One, Adapters
    <3> QED
      BY <3>1, <3>2 DEF Adapters
  <2> QED
    BY <1>1, <2>1, <2>3 DEF ActiveInv
<1> QED
  BY <1>4, <1>5

LEMMA Enters ==
    ASSUME ActiveInv, Prompt, Control, NEW a \in Adapters, ad[a].mode \in CountedModes,
           active' = IncrActive(active, ad[a].mode),
           \A m \in CountedModes : ~Acts(a, m),
           \A m \in CountedModes : Acts(a, m)' <=> m = ad[a].mode,
           \A b \in Adapters, m \in CountedModes : b # a => (Acts(b, m)' <=> Acts(b, m))
    PROVE  ActiveInv'
<1>1. active \in [CountedModes -> Nat] /\ Wlan # P2p
  BY PersonasAssumption DEF Control, AdTypeOK
<1>2. \A m \in CountedModes : active[m] = One(Acts(Wlan, m)) + One(Acts(P2p, m))
  BY DEF ActiveInv
<1>3. \A m \in CountedModes : active'[m] = IF m = ad[a].mode THEN active[m] + 1 ELSE active[m]
  BY <1>1 DEF IncrActive
<1>4. CASE a = Wlan
  BY <1>1, <1>2, <1>3, <1>4 DEF One, Adapters, ActiveInv
<1>5. CASE a = P2p
  BY <1>1, <1>2, <1>3, <1>5 DEF One, Adapters, ActiveInv
<1> QED
  BY <1>4, <1>5 DEF Adapters

LEMMA Concat ==
    ASSUME NEW w \in StepRecords, NEW c \in StepRecords, NEW p \in Seq(StepRecords)
    PROVE  /\ (<<w>> \o <<c>>) \o p = <<w>> \o (<<c>> \o p)
           /\ (<<w>> \o <<>>) \o p = <<w>> \o p
           /\ (<<>> \o <<c>>) \o p = <<c>> \o p
           /\ (<<>> \o <<>>) \o p = p
  OBVIOUS

LEMMA StopKeeps == Inv /\ StopAdapter => Inv'
<1> SUFFICES ASSUME Inv, StopAdapter PROVE Inv'
  OBVIOUS
<1>1. sme \in [Adapters -> SmeRecords] /\ ad \in [Adapters -> AdRecords]
  BY DEF Inv, Control, AdTypeOK
<1>2. PICK a \in Adapters : a = Head(prog).a
  BY HeadEnd DEF Inv, StopAdapter, At, StepRecords
<1>3. PICK w \in StepRecords : w = Step("waitdisc", a, "go")
  BY <1>2 DEF Step, StepRecords, StepNames, StepArgs
<1>4. PICK c \in StepRecords : c = Step("closesess", a, "-")
  BY <1>2 DEF Step, StepRecords, StepNames, StepArgs
<1>5. /\ prog # <<>> /\ Head(prog).s = "stop" /\ Stepped
      /\ UNCHANGED <<comp, open, ps, logp, mishap>>
  BY DEF StopAdapter, At, Stepped
<1>6. /\ Tail(prog) # <<>> /\ Last(Tail(prog)) = Last(prog)
      /\ ProgOk(Tail(prog)) /\ \A u \in All(Tail(prog)) : u.s \notin Waits
      /\ \A u \in All(Tail(prog)) : u \in All(prog)
      /\ Head(prog) \in All(prog) /\ StepOk(Head(prog), Last(prog))
  BY <1>5, HeadEnd, Middle, Underway DEF Inv, Control
<1>7. PICK q : q = IF Head(prog).x = "close" THEN <<c>> \o Tail(prog) ELSE Tail(prog)
  OBVIOUS
<1>8. /\ ProgOk(q) /\ q # <<>> /\ Last(q) = Last(prog)
      /\ All(Tail(prog)) \subseteq All(q)
      /\ \A t \in All(q) : t \in All(Tail(prog)) \/ t = c
      /\ StepOk(w, Last(q)) /\ w.s = "waitdisc" /\ w.a = a
      /\ c.s = "closesess" /\ c.a = a
  <2>1. StepOk(w, Last(prog)) /\ w.s = "waitdisc" /\ w.a = a
    <3>1. w.s = "waitdisc" /\ w.a = a
      BY <1>3 DEF Step
    <3>2. "stop" \in Parts(Last(prog).s)
      BY <1>5, <1>6 DEF StepOk
    <3>3. "waitdisc" \in Parts(Last(prog).s) /\ Last(prog).s # "roam"
      BY <3>2 DEF Parts, OfPeer
    <3> QED
      BY <1>2, <1>3, <1>5, <1>6, <3>1, <3>3 DEF StepOk, Step, Building, OfPeer
  <2>2. c.s = "closesess" /\ c.a = a
    BY <1>4 DEF Step
  <2>3. CASE Head(prog).x = "close"
    <3>1. StepOk(c, Last(prog))
      BY <1>2, <1>4, <1>5, <1>6, <2>3 DEF StepOk, Step, Parts, Building, OfPeer
    <3>2. q = <<c>> \o Tail(prog)
      BY <1>7, <2>3
    <3> QED
      BY <1>6, <2>1, <2>2, <3>1, <3>2, Preceded DEF Extras
  <2>4. CASE Head(prog).x # "close"
    BY <1>6, <1>7, <2>1, <2>2, <2>4
  <2> QED
    BY <2>3, <2>4
<1>9. \/ /\ logp \/ ad[a].mode = "ibss"
         /\ prog' = Tail(prog) /\ UNCHANGED <<ad, active, sme>>
      \/ /\ ~logp /\ ad[a].mode \in StaModes
         /\ \E l \in Links : sme' = [sme EXCEPT ![a].link = l] /\ (sme[a].link = "idle" => l = "idle")
         /\ prog' \in {q, <<w>> \o q} /\ UNCHANGED <<ad, active>>
      \/ /\ ~logp /\ ad[a].mode \in ApModes
         /\ active' = (IF ad[a].bss THEN DecrActive(active, ad[a].mode) ELSE active)
         /\ ad' = [ad EXCEPT ![a].bss = FALSE, ![a].beacon = FALSE]
         /\ prog' = Tail(prog) /\ UNCHANGED sme
  <2>1. CASE logp /\ Next1 /\ UNCHANGED <<ad, active, sme>>
    BY <2>1 DEF Next1
  <2>2. CASE ~logp /\ ad[a].mode = "ibss" /\ Next1 /\ UNCHANGED <<ad, active, sme>>
    BY <2>2 DEF Next1
  <2>3. CASE /\ ~logp /\ ad[a].mode \in ApModes
             /\ active' = IF ad[a].bss THEN DecrActive(active, ad[a].mode) ELSE active
             /\ ad' = [ad EXCEPT ![a].bss = FALSE, ![a].beacon = FALSE]
             /\ Next1 /\ UNCHANGED sme
    BY <2>3 DEF Next1
  <2>4. CASE /\ ~logp /\ ad[a].mode \in StaModes
             /\ sme' = [sme EXCEPT ![a].link =
                          IF ad[a].conn \in {"Associated", "Connecting"} /\ @ # "idle" THEN "leaving" ELSE @]
             /\ prog' = (IF \/ ad[a].conn \in {"Associated", "Connecting"} /\ sme[a].link # "idle"
                            \/ ad[a].conn = "Disconnecting"
                         THEN <<w>> ELSE <<>>)
                        \o (IF Arg = "close" THEN <<c>> ELSE <<>>) \o Tail(prog)
             /\ UNCHANGED <<ad, active>>
    <3>1. \E l \in Links : sme' = [sme EXCEPT ![a].link = l] /\ (sme[a].link = "idle" => l = "idle")
      <4>1. sme[a].link \in Links /\ "leaving" \in Links
        BY <1>1 DEF SmeRecords, Links
      <4> QED
        BY <2>4, <4>1
    <3>2. prog' \in {q, <<w>> \o q}
      <4>1. Tail(prog) \in Seq(StepRecords)
        BY <1>6 DEF ProgOk
      <4> QED
        BY <1>7, <2>4, <4>1, Concat DEF Arg
    <3> QED
      BY <2>4, <3>1, <3>2
  <2> QED
    BY <1>2, <1>3, <1>4, <2>1, <2>2, <2>3, <2>4 DEF StopAdapter, Me
<1>10. /\ Follows(Tail(prog))
       /\ \A t \in All(prog') : t \in All(prog) \/ t = c \/ t = w
       /\ \A b : ~HeadIs("waitclose", b)' /\ ~HeadIs("waitopen", b)'
  <2>1. CASE prog' = Tail(prog)
    BY <1>6, <2>1, Simply, NoWait DEF NoWaits
  <2>2. CASE prog' = q
    <3>1. Follows(Tail(prog))
      BY <1>6, <1>8, <2>2 DEF Follows, Extras
    <3>2. NoWaits(prog') /\ ProgOk(prog')
      BY <1>6, <1>8, <2>2 DEF NoWaits, Waits
    <3> QED
      BY <1>6, <1>8, <2>2, <3>1, <3>2, NoWait
  <2>3. CASE prog' = <<w>> \o q
    <3>1. \A u \in All(q) : u.s \notin Waits
      BY <1>6, <1>8 DEF Waits
    <3>2. Follows(q) /\ Head(prog') = w /\ All(prog') = {w} \union All(q)
      BY <1>8, <2>3, <3>1, With DEF Extras
    <3>3. Follows(Tail(prog))
      BY <1>6, <1>8, <3>2 DEF Follows, Extras
    <3> QED
      BY <1>6, <1>8, <3>2, <3>3 DEF HeadIs
  <2> QED
    BY <1>9, <2>1, <2>2, <2>3
<1>11. AdTypeOK'
  <2>1. [[ad[a] EXCEPT !.bss = FALSE] EXCEPT !.beacon = FALSE] \in AdRecords
    BY <1>1, AdField
  <2>2. \A l \in Links : [sme[a] EXCEPT !.link = l] \in SmeRecords
    BY <1>1, SmeField
  <2>3. ad' \in [Adapters -> AdRecords]
    BY <1>1, <1>9, <2>1, OneChanged
  <2>4. sme' \in [Adapters -> SmeRecords]
    BY <1>1, <1>9, <2>2, OneChanged
  <2>5. active' \in [CountedModes -> Nat]
    BY <1>9, Counts DEF Inv, Control, AdTypeOK
  <2> QED
    BY <1>5, <2>3, <2>4, <2>5 DEF Inv, Control, AdTypeOK
<1>12. /\ SameShape /\ SameSessions
       /\ \A b \in Adapters : b # a => ad'[b] = ad[b] /\ sme'[b] = sme[b]
       /\ \A b \in Adapters : ad'[b].conn = ad[b].conn /\ (ad'[b].bss => ad[b].bss)
       /\ sme'[a].session = sme[a].session /\ sme'[a].opening = sme[a].opening
       /\ sme[a].link = "idle" => sme'[a].link = "idle"
       /\ ad[a].mode \in ApModes /\ ~logp => ad'[a].bss = FALSE
       /\ \/ ad' = ad /\ active' = active
          \/ /\ ad[a].mode \in ApModes /\ ad'[a].bss = FALSE /\ sme' = sme
             /\ active' = IF ad[a].bss THEN DecrActive(active, ad[a].mode) ELSE active
  <2>1. CASE (logp \/ ad[a].mode = "ibss") /\ UNCHANGED <<ad, active, sme>>
    BY <1>5, <2>1 DEF SameShape, SameSessions, ApModes
  <2>2. CASE /\ ad[a].mode \in StaModes
             /\ \E l \in Links : sme' = [sme EXCEPT ![a].link = l] /\ (sme[a].link = "idle" => l = "idle")
             /\ UNCHANGED <<ad, active>>
    <3>1. PICK l \in Links : sme' = [sme EXCEPT ![a].link = l] /\ (sme[a].link = "idle" => l = "idle")
      BY <2>2
    <3>2. /\ \A b \in Adapters : /\ b # a => sme'[b] = sme[b]
                                 /\ sme'[b].session = sme[b].session /\ sme'[b].opening = sme[b].opening
                                 /\ sme'[b].closing = sme[b].closing
          /\ sme[a].link = "idle" => sme'[a].link = "idle"
      BY <1>1, <3>1 DEF SmeRecords
    <3> QED
      BY <1>5, <2>2, <3>2 DEF SameShape, SameSessions, StaModes, ApModes
  <2>3. CASE /\ ad[a].mode \in ApModes /\ UNCHANGED sme
             /\ active' = IF ad[a].bss THEN DecrActive(active, ad[a].mode) ELSE active
             /\ ad' = [ad EXCEPT ![a].bss = FALSE, ![a].beacon = FALSE]
    <3>1. /\ \A b \in Adapters : /\ b # a => ad'[b] = ad[b]
                                 /\ ad'[b].listed = ad[b].listed /\ ad'[b].mode = ad[b].mode
                                 /\ ad'[b].conn = ad[b].conn /\ ad'[b].sess = ad[b].sess
                                 /\ ad'[b].bss => ad[b].bss
          /\ ad'[a].bss = FALSE
      BY <1>1, <2>3 DEF AdRecords
    <3> QED
      BY <1>5, <2>3, <3>1 DEF SameShape, SameSessions
  <2> QED
    BY <1>9, <2>1, <2>2, <2>3
<1>13. Control' /\ OpenInv' /\ PowerInv' /\ SessionInv'
  BY <1>5, <1>10, <1>11, <1>12, ControlOn, OpenOn, PowerOn, CountsOn, SessionQuiet
     DEF Inv, Stepped, SameShape, Adapters
<1>14. LinkInv' /\ ActiveInv'
  <2>1. CASE Prompt
    <3>1. /\ LinkOk(a) /\ LinkSteps /\ sme[a].link = "idle"
          /\ \A b : ~HeadIs("waitopen", b) /\ ~HeadIs("waitdisc", b)
      BY <1>2, <1>5, <1>6, <2>1 DEF Inv, LinkInv, LinkSteps, Linkless, HeadIs
    <3>2. LinkOk(a)'
      BY <1>5, <1>10, <1>12, <3>1 DEF LinkOk, SameShape
    <3>3. ASSUME NEW b \in Adapters, b # a PROVE LinkOk(b)'
      BY <1>5, <1>10, <1>12, <2>1, <3>1, <3>3, LinkAside DEF Inv, SameLink
    <3>4. sme'[a].link = "idle" /\ Calmer
      BY <1>5, <1>12, <3>1 DEF Calmer
    <3>5. \A t \in All(prog') : t.s \in Extras \intersect Linkless => sme'[t.a].link = "idle"
      <4> TAKE t \in All(prog')
      <4>1. CASE t = w \/ t = c
        BY <1>8, <3>4, <4>1
      <4>2. CASE t \in All(prog)
        <5>1. t.a \in Adapters
          BY <1>5, <4>2, Underway DEF Inv, Control, StepRecords
        <5> QED
          BY <1>12, <3>1, <3>4, <4>2, <5>1 DEF LinkSteps
      <4> QED
        BY <1>10, <4>1, <4>2
    <3>6. Ending("close") => ~ad'[P2p].bss
      <4> SUFFICES ASSUME Ending("close") PROVE ~ad'[P2p].bss
        OBVIOUS
      <4>1. a = P2p
        BY <1>2, <1>5, <1>6, HeadEnd, Underway DEF Ending, StepOk, Inv, Control
      <4> QED
        BY <1>12, <3>1, <4>1 DEF LinkOk
    <3>7. LinkSteps'
      BY <1>5, <1>10, <2>1, <3>4, <3>5, <3>6, StepsOn DEF Inv
    <3>8. \A b \in Adapters, m \in CountedModes : b # a => (Acts(b, m)' <=> Acts(b, m))
      BY <1>12 DEF Acts
    <3>9. ActiveInv'
      <4>1. CASE ad[a].mode \in ApModes /\ ad[a].bss /\ ad' # ad
        <5>1. Acts(a, ad[a].mode)
          BY <4>1 DEF Acts
        <5>2. \A m \in CountedModes : ~Acts(a, m)'
          BY <1>12, <4>1 DEF Acts, SameShape
        <5> QED
          BY <1>12, <2>1, <3>8, <4>1, <5>1, <5>2, Leaves DEF Inv
      <4>2. CASE ~(ad[a].mode \in ApModes /\ ad[a].bss /\ ad' # ad)
        <5>1. active' = active /\ ad'[a].bss = ad[a].bss
          BY <1>1, <1>12, <4>2 DEF AdRecords
        <5>2. \A m \in CountedModes : Acts(a, m)' <=> Acts(a, m)
          BY <1>12, <3>1, <3>4, <5>1 DEF Acts, SameShape
        <5> QED
          BY <1>5, <3>8, <5>1, <5>2, ActiveSame DEF Inv, Stepped
      <4> QED
        BY <4>1, <4>2
    <3> QED
      BY <3>2, <3>3, <3>7, <3>9 DEF LinkInv
  <2>2. CASE ~Prompt
    BY <1>5, <2>2 DEF LinkInv, ActiveInv, Prompt, Stepped
  <2> QED
    BY <2>1, <2>2
<1> QED
  BY <1>13, <1>14 DEF Inv

-----------------------------------------------------------------------------
(* Answers of SME: the program stays as it is.                             *)
LEMMA Still ==
    ASSUME Inv, UNCHANGED <<prog, unwind, mishap, open, ps>>, AdTypeOK', SameShape
    PROVE  Control' /\ OpenInv' /\ PowerInv'
<1>1. /\ \A a \in Adapters : ad'[a].listed = ad[a].listed /\ ad'[a].mode = ad[a].mode
      /\ ad'[P2p].listed = ad[P2p].listed /\ ad'[P2p].mode = ad[P2p].mode
      /\ ad'[Wlan].listed = ad[Wlan].listed /\ ad'[Wlan].mode = ad[Wlan].mode
  BY DEF SameShape, Adapters
<1>2. /\ All(prog) \subseteq StepRecords
      /\ prog # <<>> => Last(prog) \in StepRecords
  BY Underway, NoSteps DEF Inv, Control
<1>3. UnwindOk'
  BY <1>1, <1>2 DEF Inv, Control, UnwindOk, Ending, Has, StepRecords
<1>4. ModesOk'
  <2>1. \A t \in All(prog) : t.a \in Adapters
    BY <1>2 DEF StepRecords
  <2>2. prog # <<>> => Last(prog).a \in Adapters
    BY <1>2 DEF StepRecords
  <2> QED
    BY <1>1, <2>1, <2>2 DEF Inv, Control, ModesOk, Ending, Has, TakesAp
<1>5. Control'
  BY <1>3, <1>4 DEF Inv, Control
<1>6. OpenInv'
  BY OpenSame DEF Inv, Pending, Pends
<1>7. PowerInv'
  BY <1>1 DEF Inv, PowerInv, Excuse, Has, TakesAp
<1> QED
  BY <1>5, <1>6, <1>7

LEMMA LinkStill ==
    ASSUME LinkInv, Prompt, NEW a \in Adapters, SameLink(a), logp' => logp, prog' = prog
    PROVE  LinkOk(a)'
<1>1. LinkOk(a)
  BY DEF LinkInv
<1> QED
  BY <1>1 DEF LinkOk, SameLink, HeadIs

LEMMA SessionStill ==
    ASSUME SessionInv, UNCHANGED <<prog, mishap, logp>>, SameSessions
    PROVE  SessionInv'
<1> SUFFICES ASSUME Prompt', NEW a \in Adapters PROVE SessionOk(a)'
  BY DEF SessionInv
<1>1. SessionOk(a)
  BY DEF SessionInv, Prompt
<1> QED
  BY <1>1 DEF SessionOk, SameSessions, Kept, HeadIs, Pends

LEMMA SessionOpenedKeeps ==
    ASSUME Inv, NEW a \in Adapters, SessionOpened(a)
    PROVE  Inv'
<1>1. /\ ad \in [Adapters -> AdRecords] /\ sme \in [Adapters -> SmeRecords] /\ comp \in [Adapters -> CompRecords]
  BY DEF Inv, Control, AdTypeOK
<1>2. /\ sme[a].opening
      /\ sme' = [sme EXCEPT ![a].opening = FALSE, ![a].session = TRUE]
      /\ ad' = [ad EXCEPT ![a].sess = TRUE] /\ comp' = [comp EXCEPT ![a].open = TRUE]
      /\ UNCHANGED <<open, active, ps, logp, prog, unwind, mishap>>
  BY DEF SessionOpened
<1>3. AdTypeOK'
  <2>1. /\ [[sme[a] EXCEPT !.opening = FALSE] EXCEPT !.session = TRUE] \in SmeRecords
        /\ [ad[a] EXCEPT !.sess = TRUE] \in AdRecords /\ [comp[a] EXCEPT !.open = TRUE] \in CompRecords
    BY <1>1, SmeField, AdField, CompField
  <2>2. sme' \in [Adapters -> SmeRecords]
    BY <1>1, <1>2, <2>1, OneChanged
  <2>3. ad' \in [Adapters -> AdRecords]
    BY <1>1, <1>2, <2>1, OneChanged
  <2>4. comp' \in [Adapters -> CompRecords]
    BY <1>1, <1>2, <2>1, OneChanged
  <2> QED
    BY <1>2, <2>2, <2>3, <2>4 DEF Inv, Control, AdTypeOK
<1>4. /\ \A b \in Adapters : b # a => ad'[b] = ad[b] /\ sme'[b] = sme[b] /\ comp'[b] = comp[b]
      /\ \A b \in Adapters : /\ ad'[b].listed = ad[b].listed /\ ad'[b].mode = ad[b].mode
                             /\ ad'[b].conn = ad[b].conn /\ ad'[b].bss = ad[b].bss
                             /\ sme'[b].link = sme[b].link /\ sme'[b].closing = sme[b].closing
                             /\ comp'[b].disc = comp[b].disc /\ comp'[b].close = comp[b].close
      /\ ad'[a].sess /\ sme'[a].session /\ ~sme'[a].opening /\ comp'[a].open
  BY <1>1, <1>2 DEF AdRecords, SmeRecords, CompRecords
<1>5. Control' /\ OpenInv' /\ PowerInv'
  BY <1>2, <1>3, <1>4, Still DEF SameShape
<1>6. CASE Prompt
  <2>1. SessionOk(a) /\ LinkOk(a) /\ LinkSteps
    BY <1>6 DEF Inv, SessionInv, LinkInv
  <2>2. HeadIs("waitopen", a) /\ ~HeadIs("waitclose", a)
    BY <1>2, <2>1 DEF SessionOk, HeadIs
  <2>3. Head(prog) \in All(prog) /\ prog # <<>> /\ Last(prog) \in StepRecords /\ All(prog) \subseteq StepRecords
    BY <2>2, Underway DEF HeadIs, Inv, Control
  <2>4. ~Ending("roam")
    BY <2>2, <2>3, RoamSteps DEF HeadIs, Inv
  <2>5. sme[a].link = "idle"
    BY <2>1, <2>2, <2>3 DEF LinkSteps, Linkless, HeadIs
  <2>6. LinkSteps'
    <3>1. \A t \in All(prog) : t.a \in Adapters
      BY <2>3 DEF StepRecords
    <3>2. Last(prog).a \in Adapters /\ P2p \in Adapters
      BY <2>3 DEF StepRecords, Adapters
    <3>3. \A t \in All(prog') : t.s \in Linkless => sme'[t.a].link = "idle"
      <4>1. \A t \in All(prog) : t.s \in Linkless => sme[t.a].link = "idle"
        BY <2>1 DEF LinkSteps
      <4>2. \A b \in Adapters : sme'[b].link = sme[b].link
        BY <1>4
      <4>3. prog' = prog
        BY <1>2
      <4> QED
        BY <3>1, <4>1, <4>2, <4>3
    <3>4. \A s : Ending(s)' <=> Ending(s)
      BY <1>2 DEF Ending
    <3>5. Ending("notconn") => sme'[Last(prog).a].link \in {"idle", "leaving"}
      BY <1>4, <2>1, <3>2 DEF LinkSteps
    <3>6. /\ Ending("count") \/ Ending("half") \/ Ending("free") => ~ad'[Last(prog).a].bss
          /\ Ending("close") /\ ad'[P2p].bss => Has(prog, "stop")
      BY <1>4, <2>1, <3>2 DEF LinkSteps
    <3> QED
      BY <1>2, <2>4, <3>3, <3>4, <3>5, <3>6 DEF LinkSteps
  <2>7. LinkOk(a)'
    <3>1. HeadIs("waitopen", a)' /\ ~HeadIs("waitdisc", a)
      BY <1>2, <2>2 DEF HeadIs
    <3>2. sme'[a].link = "idle" /\ ad'[a].bss = ad[a].bss /\ ad'[a].listed = ad[a].listed
          /\ ad'[a].mode = ad[a].mode
      BY <1>4, <2>5
    <3> QED
      BY <1>2, <1>4, <2>1, <3>1, <3>2 DEF LinkOk
  <2>8. ASSUME NEW b \in Adapters, b # a PROVE LinkOk(b)'
    BY <1>2, <1>4, <1>6, <2>8, LinkStill DEF Inv, SameLink
  <2>9. \A b \in Adapters, m \in CountedModes : Acts(b, m)' <=> Acts(b, m)
    BY <1>4 DEF Acts
  <2>10. SessionOk(a)'
    BY <1>2, <1>4, <2>1, <2>2 DEF SessionOk
  <2>11. ASSUME NEW b \in Adapters, b # a PROVE SessionOk(b)'
    <3>1. SessionOk(b) /\ ~HeadIs("waitopen", b) /\ ~HeadIs("waitclose", b)
      BY <1>6, <2>2, <2>11 DEF Inv, SessionInv, HeadIs
    <3> QED
      BY <1>2, <1>4, <2>11, <3>1 DEF SessionOk, Kept, Pends
  <2> QED
    BY <1>2, <1>5, <2>6, <2>7, <2>8, <2>9, <2>10, <2>11, ActiveSame DEF Inv, LinkInv, SessionInv
<1>7. CASE ~Prompt
  BY <1>2, <1>5, <1>7 DEF Inv, LinkInv, ActiveInv, SessionInv, Prompt
<1> QED
  BY <1>6, <1>7

LEMMA SessionClosedKeeps ==
    ASSUME Inv, NEW a \in Adapters, CloseSessionCallback(a)
    PROVE  Inv'
<1>1. /\ ad \in [Adapters -> AdRecords] /\ sme \in [Adapters -> SmeRecords] /\ comp \in [Adapters -> CompRecords]
  BY DEF Inv, Control, AdTypeOK
<1>2. /\ sme[a].closing
      /\ sme' = [sme EXCEPT ![a].closing = FALSE]
      /\ \/ ad' = [ad EXCEPT ![a].sess = FALSE] /\ comp' = [comp EXCEPT ![a].close = TRUE]
         \/ ~Magic(a) /\ UNCHANGED <<ad, comp>>
      /\ UNCHANGED <<open, active, ps, logp, prog, unwind, mishap>>
  BY DEF CloseSessionCallback
<1>3. AdTypeOK'
  <2>1. /\ [sme[a] EXCEPT !.closing = FALSE] \in SmeRecords
        /\ [ad[a] EXCEPT !.sess = FALSE] \in AdRecords /\ [comp[a] EXCEPT !.close = TRUE] \in CompRecords
    BY <1>1, SmeField, AdField, CompField
  <2>2. sme' \in [Adapters -> SmeRecords]
    BY <1>1, <1>2, <2>1, OneChanged
  <2>3. ad' \in [Adapters -> AdRecords]
    BY <1>1, <1>2, <2>1, OneChanged
  <2>4. comp' \in [Adapters -> CompRecords]
    BY <1>1, <1>2, <2>1, OneChanged
  <2> QED
    BY <1>2, <2>2, <2>3, <2>4 DEF Inv, Control, AdTypeOK
<1>4. /\ \A b \in Adapters : b # a => ad'[b] = ad[b] /\ sme'[b] = sme[b] /\ comp'[b] = comp[b]
      /\ \A b \in Adapters : /\ ad'[b].listed = ad[b].listed /\ ad'[b].mode = ad[b].mode
                             /\ ad'[b].conn = ad[b].conn /\ ad'[b].bss = ad[b].bss
                             /\ sme'[b].link = sme[b].link /\ sme'[b].session = sme[b].session
                             /\ sme'[b].opening = sme[b].opening
                             /\ comp'[b].disc = comp[b].disc /\ comp'[b].open = comp[b].open
      /\ ~sme'[a].closing
      /\ Magic(a) => ~ad'[a].sess
  BY <1>1, <1>2 DEF AdRecords, SmeRecords, CompRecords
<1>5. Control' /\ OpenInv' /\ PowerInv'
  BY <1>2, <1>3, <1>4, Still DEF SameShape
<1>6. CASE Prompt
  <2>1. SessionOk(a) /\ HeadIs("waitclose", a) /\ ~HeadIs("waitopen", a) /\ ~sme[a].session
    BY <1>2, <1>6 DEF Inv, SessionInv, SessionOk, HeadIs
  <2>2. Magic(a)
    <3>1. prog # <<>> /\ prog \in Seq(StepRecords) /\ Head(prog).a = a
      BY <2>1 DEF HeadIs, Inv, Control, ProgOk
    <3>2. 1 \in 1..Len(prog) /\ Head(prog) = prog[1]
      BY <3>1
    <3> QED
      BY <3>1, <3>2 DEF Magic
  <2>3. LinkSteps'
    BY <1>2, <1>4, <1>6, StepsStill DEF Inv, Calmer
  <2>4. \A b \in Adapters : LinkOk(b)'
    BY <1>2, <1>4, <1>6, LinkStill DEF Inv, SameLink
  <2>5. \A b \in Adapters, m \in CountedModes : Acts(b, m)' <=> Acts(b, m)
    BY <1>4 DEF Acts
  <2>6. SessionOk(a)'
    BY <1>2, <1>4, <2>1, <2>2 DEF SessionOk
  <2>7. ASSUME NEW b \in Adapters, b # a PROVE SessionOk(b)'
    <3>1. SessionOk(b) /\ ~HeadIs("waitopen", b) /\ ~HeadIs("waitclose", b)
      BY <1>6, <2>1, <2>7 DEF Inv, SessionInv, HeadIs
    <3> QED
      BY <1>2, <1>4, <2>7, <3>1 DEF SessionOk, Kept, Pends
  <2> QED
    BY <1>2, <1>5, <2>3, <2>4, <2>5, <2>6, <2>7, ActiveSame DEF Inv, LinkInv, SessionInv
<1>7. CASE ~Prompt
  BY <1>2, <1>5, <1>7 DEF Inv, LinkInv, ActiveInv, SessionInv, Prompt
<1> QED
  BY <1>6, <1>7

(* The answer to a join: the link was counted nowhere, now it is.          *)
LEMMA ConnectResultKeeps ==
    ASSUME Inv, NEW a \in Adapters, NEW ok \in BOOLEAN, ConnectResult(a, ok)
    PROVE  Inv'
<1>1. /\ ad \in [Adapters -> AdRecords] /\ sme \in [Adapters -> SmeRecords]
  BY DEF Inv, Control, AdTypeOK
<1>2. PICK l \in Links, c \in Conns :
        /\ ok => l = "joined" /\ c = "Associated"
        /\ ~ok => l = "idle" /\ c = "NotConnected"
  BY DEF Links, Conns
<1>3. /\ sme[a].link = "joining" /\ sme[a].session
      /\ sme' = [sme EXCEPT ![a].link = l] /\ ad' = [ad EXCEPT ![a].conn = c]
      /\ active' = (IF ok THEN IncrActive(active, ad[a].mode) ELSE active)
      /\ UNCHANGED <<comp, open, ps, logp, prog, unwind, mishap>>
  BY <1>2 DEF ConnectResult
<1>4. AdTypeOK'
  <2>1. [sme[a] EXCEPT !.link = l] \in SmeRecords /\ [ad[a] EXCEPT !.conn = c] \in AdRecords
    BY <1>1, SmeField, AdField
  <2>2. sme' \in [Adapters -> SmeRecords]
    BY <1>1, <1>3, <2>1, OneChanged
  <2>3. ad' \in [Adapters -> AdRecords]
    BY <1>1, <1>3, <2>1, OneChanged
  <2>4. active' \in [CountedModes -> Nat]
    BY <1>3, Counts DEF Inv, Control, AdTypeOK
  <2> QED
    BY <1>3, <2>2, <2>3, <2>4 DEF Inv, Control, AdTypeOK
<1>5. /\ \A b \in Adapters : b # a => ad'[b] = ad[b] /\ sme'[b] = sme[b]
      /\ \A b \in Adapters : /\ ad'[b].listed = ad[b].listed /\ ad'[b].mode = ad[b].mode
                             /\ ad'[b].sess = ad[b].sess /\ ad'[b].bss = ad[b].bss
      /\ \A b \in Adapters : /\ sme'[b].session = sme[b].session /\ sme'[b].opening = sme[b].opening
                             /\ sme'[b].closing = sme[b].closing
      /\ ad'[a].conn = c /\ sme'[a].link = l
  BY <1>1, <1>3 DEF AdRecords, SmeRecords
<1>6. Control' /\ OpenInv' /\ PowerInv' /\ SessionInv'
  BY <1>3, <1>4, <1>5, Still, SessionStill DEF SameShape, SameSessions, Inv
<1>7. CASE Prompt
  <2>1. LinkOk(a) /\ LinkSteps
    BY <1>7 DEF Inv, LinkInv
  <2>2. prog # <<>> => Head(prog) \in All(prog) /\ Last(prog) \in StepRecords
    BY Underway DEF Inv, Control
  <2>3. \A t \in All(prog) : t.s \in Linkless => t.a # a
    BY <1>3, <2>1 DEF LinkSteps
  <2>4. ~HeadIs("waitopen", a)
    BY <2>2, <2>3 DEF HeadIs, Linkless
  <2>5. LinkOk(a)'
    BY <1>2, <1>3, <1>5, <2>1, <2>4 DEF LinkOk, HeadIs
  <2>6. ASSUME NEW b \in Adapters, b # a PROVE LinkOk(b)'
    BY <1>3, <1>5, <1>7, <2>6, LinkStill DEF Inv, SameLink
  <2>7. LinkSteps'
    <3>1. \A t \in All(prog) : t.a \in Adapters
      BY Underway, NoSteps DEF Inv, Control, StepRecords
    <3>2. prog # <<>> => Last(prog).a \in Adapters
      BY <2>2 DEF StepRecords
    <3>3. \A t \in All(prog') : t.s \in Linkless => sme'[t.a].link = "idle"
      BY <1>3, <1>5, <2>1, <2>3, <3>1 DEF LinkSteps
    <3>4. Ending("notconn") \/ Ending("roam") => Last(prog).a # a
      BY <1>3, <2>1 DEF LinkSteps
    <3>5. P2p \in Adapters
      BY DEF Adapters
    <3> QED
      BY <1>3, <1>5, <2>1, <3>2, <3>3, <3>4, <3>5 DEF LinkSteps, Ending, Has
  <2>8. ad[a].mode \in {"sta", "client"} /\ ad[a].conn = "Connecting"
    BY <1>3, <2>1 DEF LinkOk
  <2>9. /\ \A m \in CountedModes : ~Acts(a, m)
        /\ \A m \in CountedModes : Acts(a, m)' <=> ok /\ m = ad[a].mode
        /\ \A b \in Adapters, m \in CountedModes : b # a => (Acts(b, m)' <=> Acts(b, m))
    BY <1>2, <1>5, <2>8 DEF Acts, ApModes
  <2>10. ActiveInv'
    <3>1. CASE ok
      BY <1>3, <1>7, <2>8, <2>9, <3>1, Enters DEF Inv, CountedModes
    <3>2. CASE ~ok
      BY <1>3, <2>9, <3>2, ActiveSame DEF Inv
    <3> QED
      BY <3>1, <3>2
  <2> QED
    BY <1>6, <2>5, <2>6, <2>7, <2>10 DEF Inv, LinkInv
<1>8. CASE ~Prompt
  BY <1>3, <1>6, <1>8 DEF Inv, LinkInv, ActiveInv, Prompt
<1> QED
  BY <1>7, <1>8

LEMMA DisconnectedKeeps ==
    ASSUME Inv, NEW a \in Adapters, DisconnectHandler(a)
    PROVE  Inv'
<1>1. /\ ad \in [Adapters -> AdRecords] /\ sme \in [Adapters -> SmeRecords] /\ comp \in [Adapters -> CompRecords]
  BY DEF Inv, Control, AdTypeOK
<1>2. /\ sme[a].link \in {"leaving", "joined"}
      /\ sme' = [sme EXCEPT ![a].link = "idle"] /\ ad' = [ad EXCEPT ![a].conn = "NotConnected"]
      /\ comp' = [comp EXCEPT ![a].disc = TRUE]
      /\ active' = (IF ad[a].conn = "Associated" THEN DecrActive(active, ad[a].mode) ELSE active)
      /\ UNCHANGED <<open, ps, logp, prog, unwind, mishap>>
  BY DEF DisconnectHandler
<1>3. AdTypeOK'
  <2>1. /\ [sme[a] EXCEPT !.link = "idle"] \in SmeRecords
        /\ [ad[a] EXCEPT !.conn = "NotConnected"] \in AdRecords
        /\ [comp[a] EXCEPT !.disc = TRUE] \in CompRecords
    BY <1>1, SmeField, AdField, CompField DEF Links, Conns
  <2>2. sme' \in [Adapters -> SmeRecords]
    BY <1>1, <1>2, <2>1, OneChanged
  <2>3. ad' \in [Adapters -> AdRecords]
    BY <1>1, <1>2, <2>1, OneChanged
  <2>4. comp' \in [Adapters -> CompRecords]
    BY <1>1, <1>2, <2>1, OneChanged
  <2>5. active' \in [CountedModes -> Nat]
    BY <1>2, Counts DEF Inv, Control, AdTypeOK
  <2> QED
    BY <1>2, <2>2, <2>3, <2>4, <2>5 DEF Inv, Control, AdTypeOK
<1>4. /\ \A b \in Adapters : b # a => ad'[b] = ad[b] /\ sme'[b] = sme[b] /\ comp'[b] = comp[b]
      /\ \A b \in Adapters : /\ ad'[b].listed = ad[b].listed /\ ad'[b].mode = ad[b].mode
                             /\ ad'[b].sess = ad[b].sess /\ ad'[b].bss = ad[b].bss
      /\ \A b \in Adapters : /\ sme'[b].session = sme[b].session /\ sme'[b].opening = sme[b].opening
                             /\ sme'[b].closing = sme[b].closing
      /\ \A b \in Adapters : comp'[b].open = comp[b].open /\ comp'[b].close = comp[b].close
      /\ ad'[a].conn = "NotConnected" /\ sme'[a].link = "idle"
  BY <1>1, <1>2 DEF AdRecords, SmeRecords, CompRecords
<1>5. Control' /\ OpenInv' /\ PowerInv' /\ SessionInv'
  BY <1>2, <1>3, <1>4, Still, SessionStill DEF SameShape, SameSessions, Inv
<1>6. CASE Prompt
  <2>1. LinkOk(a) /\ LinkSteps
    BY <1>6 DEF Inv, LinkInv
  <2>2. ~HeadIs("waitopen", a)
    BY <1>2, <2>1, Underway DEF LinkSteps, Linkless, HeadIs, Inv, Control
  <2>3. LinkOk(a)'
    BY <1>2, <1>4, <2>1, <2>2 DEF LinkOk, HeadIs
  <2>4. ASSUME NEW b \in Adapters, b # a PROVE LinkOk(b)'
    BY <1>2, <1>4, <1>6, <2>4, LinkStill DEF Inv, SameLink
  <2>5. Calmer
    <3> SUFFICES ASSUME NEW b \in Adapters
                 PROVE  sme'[b].link \in {sme[b].link, "idle"}
      BY <1>2, <1>4 DEF Calmer
    <3> QED
      BY <1>4
  <2>6. LinkSteps'
    BY <1>2, <1>6, <2>5, StepsStill DEF Inv
  <2>7. ad[a].mode \in {"sta", "client"}
    BY <1>2, <2>1 DEF LinkOk
  <2>8. /\ \A m \in CountedModes : ~Acts(a, m)'
        /\ \A m \in CountedModes : Acts(a, m) <=> ad[a].conn = "Associated" /\ m = ad[a].mode
        /\ \A b \in Adapters, m \in CountedModes : b # a => (Acts(b, m)' <=> Acts(b, m))
    BY <1>2, <1>4, <2>7 DEF Acts, ApModes
  <2>9. ActiveInv'
    <3>1. CASE ad[a].conn = "Associated"
      BY <1>2, <1>6, <2>8, <3>1, Leaves DEF Inv
    <3>2. CASE ad[a].conn # "Associated"
      BY <1>2, <2>8, <3>2, ActiveSame DEF Inv
    <3> QED
      BY <3>1, <3>2
  <2> QED
    BY <1>5, <2>3, <2>4, <2>6, <2>9 DEF Inv, LinkInv
<1>7. CASE ~Prompt
  BY <1>2, <1>5, <1>7 DEF Inv, LinkInv, ActiveInv, Prompt
<1> QED
  BY <1>6, <1>7

-----------------------------------------------------------------------------
(* Requests: nothing is under way, a new program starts.                   *)
LEMMA AtRest ==
    ASSUME Inv, Idle
    PROVE  /\ All(prog) = {}
           /\ \A s : ~Ending(s) /\ ~Has(prog, s)
           /\ \A a : ~Pending(a) /\ \A s : ~Pends(prog, s, a) /\ ~HeadIs(s, a)
  BY NoSteps DEF Idle, Ending, Has, Pending, Pends, HeadIs

(* Nobody leaves a link between requests; a link that cfg80211 knows       *)
(* nothing of is none.                                                     *)
LEMMA LinkAtRest ==
    ASSUME Inv, Idle, Prompt, NEW a \in Adapters
    PROVE  /\ LinkOk(a) /\ sme[a].link # "leaving"
           /\ NoLink(a) => sme[a].link = "idle"
           /\ ~NoLink(a) => sme[a].link \in {"joining", "joined"}
<1>1. LinkOk(a) /\ ~HeadIs("waitdisc", a) /\ ~HeadIs("waitopen", a) /\ sme[a].link \in Links
  BY AtRest DEF Inv, LinkInv, Control, AdTypeOK, SmeRecords
<1> QED
  BY <1>1 DEF LinkOk, NoLink, Links

(* Short programs.                                                         *)
LEMMA OneStep ==
    ASSUME NEW s \in StepRecords, StepOk(s, s)
    PROVE  LET p == <<s>> IN ProgOk(p) /\ p # <<>> /\ All(p) = {s} /\ Last(p) = s
<1> DEFINE p == <<s>>
<1>1. p \in Seq(StepRecords) /\ p # <<>> /\ Len(p) = 1 /\ p[1] = s
  OBVIOUS
<1> HIDE DEF p
<1>2. All(p) = {s} /\ Last(p) = s /\ Ordered(p)
  BY <1>1 DEF All, Last, Ordered
<1> QED
  BY <1>1, <1>2 DEF ProgOk, p

LEMMA MoreSteps ==
    ASSUME NEW s \in StepRecords, NEW p, ProgOk(p), p # <<>>, StepOk(s, Last(p)),
           \A u \in All(p) : InOrder(s, u)
    PROVE  LET q == <<s>> \o p
           IN ProgOk(q) /\ q # <<>> /\ Last(q) = Last(p) /\ All(q) = {s} \union All(p)
<1>1. p \in Seq(StepRecords) /\ Ordered(p) /\ \A t \in All(p) : StepOk(t, Last(p))
  BY DEF ProgOk
<1> DEFINE q == <<s>> \o p
<1>2. /\ q \in Seq(StepRecords) /\ q # <<>> /\ All(q) = {s} \union All(p) /\ Last(q) = Last(p) /\ Ordered(q)
  BY <1>1, Pushed
<1> HIDE DEF q
<1>3. ProgOk(q)
  BY <1>1, <1>2 DEF ProgOk
<1> QED
  BY <1>2, <1>3 DEF q

LEMMA SameSeq ==
    ASSUME NEW p \in Seq(StepRecords), NEW q \in Seq(StepRecords), Len(p) = Len(q),
           \A i \in 1..Len(p) : p[i] = q[i]
    PROVE  p = q
  OBVIOUS

LEMMA Pair ==
    ASSUME NEW s \in StepRecords, NEW t \in StepRecords, InOrder(s, t)
    PROVE  LET p == <<s, t>>
           IN p \in Seq(StepRecords) /\ p # <<>> /\ Ordered(p) /\ All(p) = {s, t} /\ Last(p) = t
<1> DEFINE p == <<s, t>>
<1>1. p \in Seq(StepRecords) /\ Len(p) = 2 /\ p[1] = s /\ p[2] = t
  OBVIOUS
<1> HIDE DEF p
<1>2. All(p) = {s, t} /\ Last(p) = t /\ Ordered(p) /\ p # <<>>
  BY <1>1 DEF All, Last, Ordered
<1> QED
  BY <1>1, <1>2 DEF p

LEMMA Triple ==
    ASSUME NEW r \in StepRecords, NEW s \in StepRecords, NEW t \in StepRecords,
           InOrder(s, t), InOrder(r, s), InOrder(r, t)
    PROVE  LET p == <<r, s, t>>
           IN p \in Seq(StepRecords) /\ p # <<>> /\ Ordered(p) /\ All(p) = {r, s, t} /\ Last(p) = t
<1> DEFINE p == <<r, s, t>>
<1>1. p \in Seq(StepRecords) /\ Len(p) = 3 /\ p[1] = r /\ p[2] = s /\ p[3] = t
  OBVIOUS
<1> HIDE DEF p
<1>2. All(p) = {r, s, t} /\ Last(p) = t /\ p # <<>>
  BY <1>1 DEF All, Last
<1>3. Ordered(p)
  BY <1>1 DEF Ordered
<1> QED
  BY <1>1, <1>2, <1>3 DEF p

LEMMA TwoSteps ==
    ASSUME NEW s \in StepRecords, NEW t \in StepRecords, StepOk(t, t), StepOk(s, t), InOrder(s, t)
    PROVE  LET p == <<s, t>> IN ProgOk(p) /\ p # <<>> /\ All(p) = {s, t} /\ Last(p) = t
<1> DEFINE p == <<s, t>>
<1>1. p \in Seq(StepRecords) /\ p # <<>> /\ Ordered(p) /\ All(p) = {s, t} /\ Last(p) = t
  BY Pair
<1> HIDE DEF p
<1>2. ProgOk(p)
  BY <1>1 DEF ProgOk
<1> QED
  BY <1>1, <1>2 DEF p

LEMMA ThreeSteps ==
    ASSUME NEW r \in StepRecords, NEW s \in StepRecords, NEW t \in StepRecords,
           StepOk(t, t), StepOk(s, t), StepOk(r, t), InOrder(s, t), InOrder(r, s), InOrder(r, t)
    PROVE  LET p == <<r, s, t>> IN ProgOk(p) /\ p # <<>> /\ All(p) = {r, s, t} /\ Last(p) = t
<1> DEFINE p == <<r, s, t>>
<1>1. p \in Seq(StepRecords) /\ p # <<>> /\ Ordered(p) /\ All(p) = {r, s, t} /\ Last(p) = t
  BY Triple
<1> HIDE DEF p
<1>2. ProgOk(p)
  BY <1>1 DEF ProgOk
<1> QED
  BY <1>1, <1>2 DEF p

LEMMA PowerAtRest ==
    ASSUME Inv, Idle, mishap \subseteq mishap', ps' = ps,
           ad'[P2p].listed = ad[P2p].listed, ad'[Wlan].mode = ad[Wlan].mode
    PROVE  PowerInv'
<1>1. Excuse => Excuse'
  BY AtRest DEF Excuse
<1> QED
  BY <1>1 DEF Inv, PowerInv

(* A request that counts nothing.                                          *)
LEMMA Begins ==
    ASSUME Inv, Idle, Control', mishap \subseteq mishap', SameShape, SameLinks, SameSessions,
           UNCHANGED <<open, active>>, NoWaits(prog'), PowerInv',
           prog' # <<>> => Last(prog').s \notin {"count", "half"}, Prompt => LinkSteps'
    PROVE  Inv'
<1>1. OpenInv'
  BY AtRest, OpenSame DEF Inv, Pending, Pends
<1>2. ProgOk(prog')
  BY DEF Control
<1>3. LinkInv'
  BY <1>2, LinkQuiet DEF Inv, LinkInv, Prompt, SameLinks, Idle
<1>4. ActiveInv'
  BY ActsSame, ActiveSame DEF Inv
<1>5. SessionInv'
  BY SessionQuiet DEF Inv, CountsSame, Pends, Idle
<1> QED
  BY <1>1, <1>3, <1>4, <1>5 DEF Inv

(* Nothing starts, and only an interface's flags change.                   *)
LEMMA Untouched ==
    ASSUME Inv, UNCHANGED <<sme, comp, open, active, ps, logp, prog, unwind, mishap>>, AdTypeOK',
           \A a \in Adapters : /\ ad'[a].listed = ad[a].listed /\ ad'[a].mode = ad[a].mode
                               /\ ad'[a].conn = ad[a].conn /\ ad'[a].bss = ad[a].bss
                               /\ ad'[a].sess = ad[a].sess
    PROVE  Inv'
<1>1. SameShape /\ SameLinks /\ SameSessions
  BY DEF SameShape, SameLinks, SameLink, SameSessions
<1>2. Control' /\ OpenInv' /\ PowerInv' /\ SessionInv'
  BY <1>1, Still, SessionStill DEF Inv
<1>3. ActiveInv'
  BY <1>1, ActsSame, ActiveSame DEF Inv
<1>4. LinkInv'
  BY <1>1, LinkStill, SameIsCalmer, StepsStill DEF Inv, LinkInv, Prompt, SameLinks
<1> QED
  BY <1>2, <1>3, <1>4 DEF Inv

LEMMA IfUpKeeps ==
    ASSUME Inv, NEW a \in Adapters, IfUp(a)
    PROVE  Inv'
<1>1. ad \in [Adapters -> AdRecords]
  BY DEF Inv, Control, AdTypeOK
<1>2. /\ ad' = [ad EXCEPT ![a].up = TRUE]
      /\ UNCHANGED <<sme, comp, open, active, ps, logp, prog, unwind, mishap>>
  BY DEF IfUp
<1>3. AdTypeOK'
  <2>1. [ad[a] EXCEPT !.up = TRUE] \in AdRecords
    BY <1>1, AdField
  <2>2. ad' \in [Adapters -> AdRecords]
    BY <1>1, <1>2, <2>1, OneChanged
  <2> QED
    BY <1>2, <2>2 DEF Inv, Control, AdTypeOK
<1>4. \A b \in Adapters : /\ ad'[b].listed = ad[b].listed /\ ad'[b].mode = ad[b].mode
                          /\ ad'[b].conn = ad[b].conn /\ ad'[b].bss = ad[b].bss
                          /\ ad'[b].sess = ad[b].sess
  BY <1>1, <1>2 DEF AdRecords
<1> QED
  BY <1>2, <1>3, <1>4, Untouched

LEMMA ApRequestsKeep ==
    ASSUME Inv, NEW a \in Adapters, StartAp(a) \/ StopAp(a)
    PROVE  Inv'
<1>1. ad \in [Adapters -> AdRecords]
  BY DEF Inv, Control, AdTypeOK
<1>2. /\ Idle /\ ~logp /\ ad[a].listed /\ ad[a].mode \in ApModes
      /\ UNCHANGED <<open, ps, logp, sme, comp, prog, unwind, mishap>>
  BY DEF StartAp, StopAp, Request
<1>3. PICK b \in BOOLEAN, k \in BOOLEAN :
        /\ ad' = [ad EXCEPT ![a].beacon = k, ![a].bss = b]
        /\ \/ b /\ ~ad[a].bss /\ active' = IncrActive(active, ad[a].mode)
           \/ ~b /\ ad[a].bss /\ active' = DecrActive(active, ad[a].mode)
           \/ b = ad[a].bss /\ active' = active
  <2>1. ad[a].bss \in BOOLEAN
    BY <1>1 DEF AdRecords
  <2>2. CASE StartAp(a)
    <3>1. CASE ~ad[a].bss /\ ~MaxReached
      BY <2>2, <3>1 DEF StartAp
    <3>2. CASE ~(~ad[a].bss /\ ~MaxReached)
      BY <2>1, <2>2, <3>2 DEF StartAp
    <3> QED
      BY <3>1, <3>2
  <2>3. CASE StopAp(a)
    <3>1. ad' = [ad EXCEPT ![a].beacon = FALSE, ![a].bss = FALSE]
      BY <1>1, <2>3 DEF StopAp, AdRecords
    <3> QED
      BY <2>1, <2>3, <3>1 DEF StopAp
  <2> QED
    BY <2>2, <2>3
<1>4. AdTypeOK'
  <2>1. [[ad[a] EXCEPT !.beacon = k] EXCEPT !.bss = b] \in AdRecords
    BY <1>1, AdField
  <2>2. ad' \in [Adapters -> AdRecords]
    BY <1>1, <1>3, <2>1, OneChanged
  <2>3. active' \in [CountedModes -> Nat]
    BY <1>3, Counts DEF Inv, Control, AdTypeOK
  <2> QED
    BY <1>2, <2>2, <2>3 DEF Inv, Control, AdTypeOK
<1>5. /\ \A c \in Adapters : c # a => ad'[c] = ad[c]
      /\ \A c \in Adapters : /\ ad'[c].listed = ad[c].listed /\ ad'[c].mode = ad[c].mode
                             /\ ad'[c].conn = ad[c].conn /\ ad'[c].sess = ad[c].sess
      /\ ad'[a].bss = b
  BY <1>1, <1>3 DEF AdRecords
<1>6. Control' /\ OpenInv' /\ PowerInv' /\ SessionInv'
  BY <1>2, <1>4, <1>5, Still, SessionStill DEF SameShape, SameSessions, Inv
<1>7. CASE Prompt
  <2>1. LinkOk(a) /\ sme[a].link = "idle"
    BY <1>2, <1>7, LinkAtRest DEF LinkOk, ApModes
  <2>2. LinkOk(a)'
    BY <1>2, <1>5, <2>1 DEF LinkOk, HeadIs
  <2>3. ASSUME NEW c \in Adapters, c # a PROVE LinkOk(c)'
    BY <1>2, <1>5, <1>7, <2>3, LinkStill DEF Inv, SameLink
  <2>4. LinkSteps'
    BY <1>2, StepsEnd DEF Idle
  <2>5. /\ \A m \in CountedModes : Acts(a, m)' <=> b /\ m = ad[a].mode
        /\ \A m \in CountedModes : Acts(a, m) <=> ad[a].bss /\ m = ad[a].mode
        /\ \A c \in Adapters, m \in CountedModes : c # a => (Acts(c, m)' <=> Acts(c, m))
    BY <1>2, <1>5 DEF Acts
  <2>6. ad[a].mode \in CountedModes
    BY <1>2 DEF ApModes, CountedModes
  <2>7. ActiveInv'
    <3>1. CASE b /\ ~ad[a].bss /\ active' = IncrActive(active, ad[a].mode)
      BY <1>7, <2>5, <2>6, <3>1, Enters DEF Inv
    <3>2. CASE ~b /\ ad[a].bss /\ active' = DecrActive(active, ad[a].mode)
      BY <1>7, <2>5, <2>6, <3>2, Leaves DEF Inv
    <3>3. CASE b = ad[a].bss /\ active' = active
      BY <1>2, <2>5, <3>3, ActiveSame DEF Inv
    <3> QED
      BY <1>3, <3>1, <3>2, <3>3
  <2> QED
    BY <1>6, <2>2, <2>3, <2>4, <2>7 DEF Inv, LinkInv
<1>8. CASE ~Prompt
  BY <1>2, <1>6, <1>8 DEF Inv, LinkInv, ActiveInv, Prompt
<1> QED
  BY <1>7, <1>8

LEMMA IfDownKeeps ==
    ASSUME Inv, NEW a \in Adapters, IfDown(a)
    PROVE  Inv'
<1>1. ad \in [Adapters -> AdRecords]
  BY DEF Inv, Control, AdTypeOK
<1>2. PICK r \in StepRecords, s \in StepRecords, t \in StepRecords :
        r = Step("stop", a, "keep") /\ s = Step("deinit", a, "-") /\ t = Step("standby", a, "-")
  BY DEF Step, StepRecords, StepNames, StepArgs
<1>3. /\ Idle /\ ~logp /\ ad[a].listed /\ NoLink(a)
      /\ ad' = [ad EXCEPT ![a].up = FALSE] /\ prog' = <<r, s, t>> /\ unwind' = <<>>
      /\ UNCHANGED <<open, active, ps, logp, sme, comp, mishap>>
  BY <1>2 DEF IfDown, Request
<1>4. ProgOk(prog') /\ prog' # <<>> /\ All(prog') = {r, s, t} /\ Last(prog') = t
  <2>1. /\ StepOk(t, t) /\ StepOk(s, t) /\ StepOk(r, t)
        /\ InOrder(s, t) /\ InOrder(r, s) /\ InOrder(r, t)
    BY <1>2 DEF Step, StepOk, InOrder, Parts, Ends, Waits, Building
  <2> QED
    BY <1>3, <2>1, ThreeSteps
<1>5. AdTypeOK'
  <2>1. [ad[a] EXCEPT !.up = FALSE] \in AdRecords
    BY <1>1, AdField
  <2>2. ad' \in [Adapters -> AdRecords]
    BY <1>1, <1>3, <2>1, OneChanged
  <2> QED
    BY <1>3, <2>2 DEF Inv, Control, AdTypeOK
<1>6. \A b \in Adapters : /\ ad'[b].listed = ad[b].listed /\ ad'[b].mode = ad[b].mode
                          /\ ad'[b].conn = ad[b].conn /\ ad'[b].bss = ad[b].bss
                          /\ ad'[b].sess = ad[b].sess
  BY <1>1, <1>3 DEF AdRecords
<1>7. SameShape /\ SameLinks /\ SameSessions
  BY <1>3, <1>6 DEF SameShape, SameLinks, SameLink, SameSessions
<1>8. /\ r.s = "stop" /\ s.s = "deinit" /\ t.s = "standby" /\ r.a = a /\ s.a = a /\ t.a = a
  BY <1>2 DEF Step
<1>9. Control'
  <2>1. \A u \in {"count", "roam", "notconn", "ready"} : ~Ending(u)'
    BY <1>4, <1>8 DEF Ending
  <2>2. UnwindOk'
    BY <1>3, <2>1, NoSteps DEF UnwindOk
  <2>3. ModesOk'
    BY <1>3, <1>4, <1>6, <1>8, <2>1 DEF Inv, Control, ModesOk, Building, Adapters
  <2> QED
    BY <1>4, <1>5, <2>2, <2>3 DEF Control
<1>10. NoWaits(prog')
  BY <1>4, <1>8 DEF NoWaits, Waits
<1>11. Prompt => LinkSteps'
  <2> SUFFICES ASSUME Prompt PROVE LinkSteps'
    OBVIOUS
  <2>1. sme'[a].link = "idle"
    BY <1>3, LinkAtRest
  <2>2. \A u \in {"count", "half", "free", "close", "roam", "notconn"} : ~Ending(u)'
    BY <1>4, <1>8 DEF Ending
  <2> QED
    BY <1>4, <1>8, <2>1, <2>2 DEF LinkSteps
<1>12. PowerInv'
  BY <1>3, <1>6, PowerAtRest DEF Adapters
<1> QED
  BY <1>3, <1>4, <1>7, <1>8, <1>9, <1>10, <1>11, <1>12, Begins

LEMMA DelAdapterKeeps == Inv /\ DelAdapter => Inv'
<1> SUFFICES ASSUME Inv, DelAdapter PROVE Inv'
  OBVIOUS
<1>1. P2p \in Adapters
  BY DEF Adapters
<1>2. PICK r \in StepRecords, s \in StepRecords, t \in StepRecords :
        r = Step("stop", P2p, "close") /\ s = Step("deinit", P2p, "-") /\ t = Step("close", P2p, "-")
  BY <1>1 DEF Step, StepRecords, StepNames, StepArgs
<1>3. /\ Idle /\ ~logp /\ ad[P2p].listed /\ NoLink(P2p)
      /\ prog' = <<r, s, t>> /\ unwind' = <<>>
      /\ UNCHANGED <<ad, open, active, ps, logp, sme, comp, mishap>>
  BY <1>2 DEF DelAdapter, Request
<1>4. ProgOk(prog') /\ prog' # <<>> /\ All(prog') = {r, s, t} /\ Last(prog') = t
  <2>1. /\ StepOk(t, t) /\ StepOk(s, t) /\ StepOk(r, t)
        /\ InOrder(s, t) /\ InOrder(r, s) /\ InOrder(r, t)
    BY <1>2 DEF Step, StepOk, InOrder, Parts, Ends, Waits, Building
  <2> QED
    BY <1>3, <2>1, ThreeSteps
<1>5. AdTypeOK' /\ SameShape /\ SameLinks /\ SameSessions
  BY <1>3 DEF Inv, Control, AdTypeOK, SameShape, SameLinks, SameLink, SameSessions
<1>8. /\ r.s = "stop" /\ s.s = "deinit" /\ t.s = "close" /\ r.a = P2p /\ s.a = P2p /\ t.a = P2p
  BY <1>2 DEF Step
<1>9. Control'
  <2>1. \A u \in {"count", "roam", "notconn", "ready", "standby"} : ~Ending(u)'
    BY <1>4, <1>8 DEF Ending
  <2>2. UnwindOk'
    BY <1>3, <2>1, NoSteps DEF UnwindOk
  <2>3. ModesOk'
    BY <1>3, <1>4, <1>8, <2>1 DEF Inv, Control, ModesOk, Building
  <2> QED
    BY <1>4, <1>5, <2>2, <2>3 DEF Control
<1>10. NoWaits(prog')
  BY <1>4, <1>8 DEF NoWaits, Waits
<1>11. Prompt => LinkSteps'
  <2> SUFFICES ASSUME Prompt PROVE LinkSteps'
    OBVIOUS
  <2>1. sme'[P2p].link = "idle"
    BY <1>1, <1>3, LinkAtRest
  <2>2. \A u \in {"count", "half", "free", "roam", "notconn"} : ~Ending(u)'
    BY <1>4, <1>8 DEF Ending
  <2> QED
    BY <1>4, <1>8, <2>1, <2>2 DEF LinkSteps, Has
<1>12. PowerInv'
  BY <1>3, PowerAtRest
<1> QED
  BY <1>3, <1>4, <1>5, <1>8, <1>9, <1>10, <1>11, <1>12, Begins

(* More than one open session means that p2p0 is there.                    *)
LEMMA TwoOpen ==
    ASSUME Inv, ConcurrentOpen, "half" \notin mishap
    PROVE  ad[P2p].listed
<1>1. \A m \in CountedModes : open[m] = One(Counted(Wlan, m)) + One(Counted(P2p, m))
  BY DEF Inv, OpenInv
<1>2. \A a \in Adapters, m \in CountedModes : Counted(a, m) => ad[a].listed /\ ad[a].mode = m
  BY DEF Counted
<1>3. CASE ~ad[P2p].listed
  <2>1. \A m \in CountedModes : open[m] = One(Counted(Wlan, m))
    BY <1>1, <1>2, <1>3 DEF One, Adapters
  <2>2. \A m \in CountedModes : Counted(Wlan, m) => ad[Wlan].mode = m
    BY <1>2 DEF Adapters
  <2>3. Total(open) <= 1
    BY <2>1, <2>2 DEF Total, One, CountedModes
  <2> QED
    BY <2>1, <2>3 DEF ConcurrentOpen, Total, One, CountedModes
<1> QED
  BY <1>3

LEMMA ConnectKeeps ==
    ASSUME Inv, NEW a \in Adapters, Connect(a)
    PROVE  Inv'
<1>2. PICK r \in StepRecords, s \in StepRecords, t \in StepRecords, u \in StepRecords :
        /\ r = Step("trydisc", a, "-") /\ s = Step("privacy", a, "-") /\ t = Step("roam", a, "-")
        /\ u = Step("enable", a, "-")
  BY DEF Step, StepRecords, StepNames, StepArgs
<1>3. /\ Idle /\ ~logp /\ ad[a].listed /\ (ad[a].conn # "Connecting" \/ NoLink(a))
      /\ ad[a].mode \in {"sta", "client"}
      /\ ps' = ps \/ ConcurrentOpen
      /\ ps' \subseteq ps
      /\ prog' = <<r, s, t>> /\ unwind' \in {<<>>, <<u>>}
      /\ UNCHANGED <<ad, open, active, logp, sme, comp, mishap>>
  BY <1>2 DEF Connect, Request, AfterDisable
<1>4. ProgOk(prog') /\ prog' # <<>> /\ All(prog') = {r, s, t} /\ Last(prog') = t
  <2>1. /\ StepOk(t, t) /\ StepOk(s, t) /\ StepOk(r, t)
        /\ InOrder(s, t) /\ InOrder(r, s) /\ InOrder(r, t)
    BY <1>2 DEF Step, StepOk, InOrder, Parts, Ends, Waits, Building
  <2> QED
    BY <1>3, <2>1, ThreeSteps
<1>5. AdTypeOK' /\ SameShape /\ SameLinks /\ SameSessions
  BY <1>3 DEF Inv, Control, AdTypeOK, SameShape, SameLinks, SameLink, SameSessions
<1>8. /\ r.s = "trydisc" /\ s.s = "privacy" /\ t.s = "roam" /\ r.a = a /\ s.a = a /\ t.a = a
      /\ u.s = "enable" /\ u.a = a
  BY <1>2 DEF Step
<1>9. Control'
  <2>1. \A e \in {"count", "notconn", "ready", "standby"} : ~Ending(e)'
    BY <1>4, <1>8 DEF Ending
  <2>2. ProgOk(unwind') /\ \A e \in All(unwind') : e = u
    <3>1. StepOk(u, u)
      BY <1>2 DEF Step, StepOk, Parts, Building
    <3>2. CASE unwind' = <<>>
      BY <3>2, NoSteps
    <3>3. CASE unwind' = <<u>>
      BY <3>1, <3>3, OneStep
    <3> QED
      BY <1>3, <3>2, <3>3
  <2>3. UnwindOk'
    BY <1>4, <1>8, <2>1, <2>2 DEF UnwindOk
  <2>4. ModesOk'
    BY <1>3, <1>4, <1>8, <2>1 DEF Inv, Control, ModesOk, Building
  <2> QED
    BY <1>4, <1>5, <2>3, <2>4 DEF Control
<1>10. NoWaits(prog')
  BY <1>4, <1>8 DEF NoWaits, Waits
<1>11. Prompt => LinkSteps'
  <2> SUFFICES ASSUME Prompt PROVE LinkSteps'
    OBVIOUS
  <2>1. sme[a].link \in {"idle", "joined"}
    <3>1. LinkOk(a) /\ sme[a].link # "leaving" /\ (NoLink(a) => sme[a].link = "idle") /\ sme[a].link \in Links
      BY <1>3, LinkAtRest DEF Inv, Control, AdTypeOK, SmeRecords
    <3> QED
      BY <1>3, <3>1 DEF LinkOk, Links
  <2>2. \A e \in {"count", "half", "free", "close", "notconn"} : ~Ending(e)'
    BY <1>4, <1>8 DEF Ending
  <2>3. Has(prog', "trydisc")
    BY <1>4, <1>8 DEF Has
  <2> QED
    BY <1>3, <1>4, <1>8, <2>1, <2>2, <2>3 DEF LinkSteps, Linkless
<1>12. PowerInv'
  <2>1. CASE ps' = ps
    BY <1>3, <2>1, PowerAtRest
  <2>2. CASE ConcurrentOpen
    BY <1>3, <2>2, TwoOpen DEF PowerInv, Excuse
  <2> QED
    BY <1>3, <2>1, <2>2
<1> QED
  BY <1>3, <1>4, <1>5, <1>8, <1>9, <1>10, <1>11, <1>12, Begins

(* The request to leave takes the link out of the count at once.           *)
LEMMA DisconnectKeeps ==
    ASSUME Inv, NEW a \in Adapters, Disconnect(a)
    PROVE  Inv'
<1>1. /\ ad \in [Adapters -> AdRecords] /\ sme \in [Adapters -> SmeRecords] /\ comp \in [Adapters -> CompRecords]
  BY DEF Inv, Control, AdTypeOK
<1>2. PICK s \in StepRecords, t \in StepRecords :
        s = Step("waitdisc", a, "go") /\ t = Step("notconn", a, "-")
  BY DEF Step, StepRecords, StepNames, StepArgs
<1>3. PICK l \in Links :
      /\ Idle /\ ~logp /\ ad[a].listed /\ ~NoLink(a) /\ ad[a].mode \in {"sta", "client"}
      /\ active' = (IF ad[a].conn = "Associated" THEN DecrActive(active, ad[a].mode) ELSE active)
      /\ ad' = [ad EXCEPT ![a].conn = "Disconnecting"]
      /\ comp' = [comp EXCEPT ![a].disc = FALSE]
      /\ sme' = [sme EXCEPT ![a].link = l] /\ (sme[a].link # "idle" => l = "leaving")
      /\ prog' = <<s, t>> /\ unwind' = <<>>
      /\ UNCHANGED <<open, ps, logp, mishap>>
  <2>1. sme[a].link \in Links /\ "leaving" \in Links
    BY <1>1 DEF SmeRecords, Links
  <2> QED
    BY <1>2, <2>1 DEF Disconnect, DisconnectBody, Request
<1>4. /\ ProgOk(prog') /\ prog' # <<>> /\ All(prog') = {s, t} /\ Last(prog') = t
      /\ s.s = "waitdisc" /\ t.s = "notconn" /\ s.a = a /\ t.a = a
      /\ HeadIs("waitdisc", a)' /\ \A b : ~HeadIs("waitopen", b)' /\ ~HeadIs("waitclose", b)'
  <2>1. StepOk(t, t) /\ StepOk(s, t) /\ InOrder(s, t)
    BY <1>2 DEF Step, StepOk, InOrder, Parts, Ends, Waits, Building
  <2>2. ProgOk(prog') /\ prog' # <<>> /\ All(prog') = {s, t} /\ Last(prog') = t
    BY <1>3, <2>1, TwoSteps
  <2>3. Head(prog') = s
    BY <1>3
  <2>4. s.s = "waitdisc" /\ t.s = "notconn" /\ s.a = a /\ t.a = a
    BY <1>2 DEF Step
  <2> QED
    BY <2>2, <2>3, <2>4 DEF HeadIs
<1>5. AdTypeOK'
  <2>1. /\ [sme[a] EXCEPT !.link = l] \in SmeRecords
        /\ [ad[a] EXCEPT !.conn = "Disconnecting"] \in AdRecords
        /\ [comp[a] EXCEPT !.disc = FALSE] \in CompRecords
    BY <1>1, SmeField, AdField, CompField DEF Conns
  <2>2. sme' \in [Adapters -> SmeRecords]
    BY <1>1, <1>3, <2>1, OneChanged
  <2>3. ad' \in [Adapters -> AdRecords]
    BY <1>1, <1>3, <2>1, OneChanged
  <2>4. comp' \in [Adapters -> CompRecords]
    BY <1>1, <1>3, <2>1, OneChanged
  <2>5. active' \in [CountedModes -> Nat]
    BY <1>3, Counts DEF Inv, Control, AdTypeOK
  <2> QED
    BY <1>3, <2>2, <2>3, <2>4, <2>5 DEF Inv, Control, AdTypeOK
<1>6. /\ \A b \in Adapters : b # a => ad'[b] = ad[b] /\ sme'[b] = sme[b] /\ comp'[b] = comp[b]
      /\ \A b \in Adapters : /\ ad'[b].listed = ad[b].listed /\ ad'[b].mode = ad[b].mode
                             /\ ad'[b].sess = ad[b].sess /\ ad'[b].bss = ad[b].bss
      /\ \A b \in Adapters : /\ sme'[b].session = sme[b].session /\ sme'[b].opening = sme[b].opening
                             /\ sme'[b].closing = sme[b].closing
      /\ \A b \in Adapters : comp'[b].open = comp[b].open /\ comp'[b].close = comp[b].close
      /\ ad'[a].conn = "Disconnecting" /\ sme'[a].link = l /\ ~comp'[a].disc
  BY <1>1, <1>3 DEF AdRecords, SmeRecords, CompRecords
<1>7. Control'
  <2>1. \A e \in {"count", "roam", "ready", "standby"} : ~Ending(e)'
    BY <1>4 DEF Ending
  <2>2. UnwindOk'
    BY <1>3, <2>1, NoSteps DEF UnwindOk
  <2>3. ModesOk'
    BY <1>3, <1>4, <1>6, <2>1 DEF Inv, Control, ModesOk, Building, Adapters
  <2> QED
    BY <1>4, <1>5, <2>2, <2>3 DEF Control
<1>8. OpenInv' /\ PowerInv' /\ SessionInv'
  <2>1. \A b : ~Pending(b)' /\ ~Pending(b) /\ ~Pends(prog, "count", b)'
    BY <1>3, <1>4, AtRest DEF Pending, Pends
  <2>2. OpenInv' /\ PowerInv'
    BY <1>3, <1>6, <2>1, OpenSame, PowerAtRest DEF Inv, SameShape, Adapters
  <2>3. SameSessions /\ CountsSame
    BY <1>3, <1>6, <2>1 DEF SameSessions, CountsSame
  <2> QED
    BY <1>3, <2>2, <2>3, SessionQuiet DEF Inv, Idle
<1>9. CASE Prompt
  <2>1. LinkOk(a) /\ sme[a].link \in {"joining", "joined"}
    BY <1>3, <1>9, LinkAtRest
  <2>2. LinkOk(a)'
    BY <1>3, <1>4, <1>6, <2>1 DEF LinkOk
  <2>3. ASSUME NEW b \in Adapters, b # a PROVE LinkOk(b)'
    <3>1. ~HeadIs("waitopen", b) /\ ~HeadIs("waitdisc", b)
      BY <1>3 DEF HeadIs, Idle
    <3> QED
      BY <1>3, <1>4, <1>6, <1>9, <2>3, <3>1, LinkAside DEF Inv, SameLink
  <2>4. LinkSteps'
    <3>1. \A e \in {"count", "half", "free", "close", "roam"} : ~Ending(e)'
      BY <1>4 DEF Ending
    <3> QED
      BY <1>3, <1>4, <1>6, <2>1, <3>1 DEF LinkSteps, Linkless
  <2>5. /\ \A m \in CountedModes : ~Acts(a, m)'
        /\ \A m \in CountedModes : Acts(a, m) <=> ad[a].conn = "Associated" /\ m = ad[a].mode
        /\ \A b \in Adapters, m \in CountedModes : b # a => (Acts(b, m)' <=> Acts(b, m))
    BY <1>3, <1>6, <2>1 DEF Acts, ApModes, LinkOk
  <2>6. ActiveInv'
    <3>1. CASE ad[a].conn = "Associated"
      BY <1>3, <1>9, <2>5, <3>1, Leaves DEF Inv
    <3>2. CASE ad[a].conn # "Associated"
      BY <1>3, <2>5, <3>2, ActiveSame DEF Inv
    <3> QED
      BY <3>1, <3>2
  <2> QED
    BY <1>7, <1>8, <2>2, <2>3, <2>4, <2>6 DEF Inv, LinkInv
<1>10. CASE ~Prompt
  BY <1>3, <1>7, <1>8, <1>10 DEF Inv, LinkInv, ActiveInv, Prompt
<1> QED
  BY <1>9, <1>10

-----------------------------------------------------------------------------
(* Change of type.                                                         *)
LEMMA Quadruple ==
    ASSUME NEW r \in StepRecords, NEW s \in StepRecords, NEW t \in StepRecords, NEW u \in StepRecords,
           InOrder(r, s), InOrder(r, t), InOrder(r, u), InOrder(s, t), InOrder(s, u), InOrder(t, u)
    PROVE  LET p == <<r, s, t, u>>
           IN p \in Seq(StepRecords) /\ p # <<>> /\ Ordered(p) /\ All(p) = {r, s, t, u} /\ Last(p) = u
<1> DEFINE p == <<r, s, t, u>>
<1>1. p \in Seq(StepRecords) /\ p # <<>> /\ Len(p) = 4 /\ p[1] = r /\ p[2] = s /\ p[3] = t /\ p[4] = u
  OBVIOUS
<1> HIDE DEF p
<1>2. All(p) = {r, s, t, u} /\ Last(p) = u /\ p # <<>>
  <2>1. \A i \in 1..Len(p) : i = 1 \/ i = 2 \/ i = 3 \/ i = 4
    BY <1>1
  <2>2. All(p) \subseteq {r, s, t, u}
    BY <1>1, <2>1 DEF All
  <2>3. {r, s, t, u} \subseteq All(p)
    BY <1>1 DEF All
  <2> QED
    <3>1. Last(p) = u
      BY <1>1 DEF Last
    <3>2. p # <<>>
      BY <1>1
    <3> QED
      BY <2>2, <2>3, <3>1, <3>2
<1>3. Ordered(p)
  BY <1>1 DEF Ordered
<1> QED
  BY <1>1, <1>2, <1>3 DEF p

(* What the program of a change of type is made of.                        *)
ChangeProgram(p, a) ==
    /\ ProgOk(p) /\ p # <<>> /\ Last(p).a = a /\ Last(p).s \in {"count", "half"}
    /\ \A t \in All(p) :
         /\ t.s \notin Waits \union Building \union {"free"}
         /\ t.a = a \/ (t.a = P2p /\ ad[P2p].listed /\ ad[P2p].mode = "p2pdev")
         /\ t.s = "close" => t.a # a
         /\ t.s = "mode" => t.a = a /\ (TakesAp(t) \/ a = P2p \/ Has(p, "enable"))
         /\ t.s \in {"close", "disable"} => a = P2p \/ \E u \in All(p) : TakesAp(u)

LEMMA ChangeStarts ==
    ASSUME Inv, NEW a \in Adapters, Idle, ad[a].listed, ~ad[a].bss, ad[a].mode \in StaModes => NoLink(a),
           ChangeProgram(prog', a), unwind' = <<Step("half", a, "-")>>,
           open' = ClearConcurrency(open, ad[a].mode),
           UNCHANGED <<active, ps, logp, sme, comp, mishap>>,
           ad' \in [Adapters -> AdRecords], \A b \in Adapters : b # a => ad'[b] = ad[b],
           ad'[a].listed = ad[a].listed, ad'[a].conn = ad[a].conn, ad'[a].bss = ad[a].bss,
           ad'[a].sess = ad[a].sess,
           \/ ad'[a].mode = ad[a].mode
           \/ ad[a].mode \in StaModes /\ ad'[a].mode \in IF a = Wlan THEN {"sta", "client"} ELSE {"p2pdev", "client"}
    PROVE  Inv'
<1>1. /\ ProgOk(prog') /\ prog' # <<>> /\ Last(prog').a = a /\ Last(prog').s \in {"count", "half"}
      /\ \A e : Ending(e)' => e \in {"count", "half"}
      /\ \A b : Pending(b)' <=> b = a
      /\ \A b : ~Pending(b)
      /\ NoWaits(prog')
  BY AtRest DEF ChangeProgram, Ending, Pending, Pends, NoWaits
<1>2. AdTypeOK'
  BY Bytes DEF Inv, Control, AdTypeOK
<1>3. Control'
  <2>1. UnwindOk'
    <3>1. PICK h \in StepRecords : h = Step("half", a, "-")
      BY DEF Step, StepRecords, StepNames, StepArgs
    <3>2. StepOk(h, h) /\ h.s = "half" /\ h.a = a
      BY <3>1 DEF Step, StepOk, Parts, Building
    <3>3. ProgOk(unwind') /\ unwind' # <<>> /\ All(unwind') = {h}
      BY <3>1, <3>2, OneStep
    <3>4. ~Ending("roam")'
      BY <1>1
    <3>6. ad'[Last(prog').a].listed
      BY <1>1
    <3>5. \A t \in All(unwind') : t.s = "half" /\ t.a = Last(prog').a
      BY <1>1, <3>2, <3>3
    <3> QED
      BY <3>3, <3>4, <3>5, <3>6 DEF UnwindOk
  <2>2. ModesOk'
    <3>1. /\ ad[Wlan].listed /\ ad[Wlan].mode \in {"sta", "client", "ibss", "sap"}
          /\ ad[P2p].mode \in {"p2pdev", "client", "ibss", "go"}
      BY DEF Inv, Control, ModesOk
    <3>2. /\ ad'[Wlan].listed /\ ad'[Wlan].mode \in {"sta", "client", "ibss", "sap"}
          /\ ad'[P2p].mode \in {"p2pdev", "client", "ibss", "go"}
      <4>1. CASE a = Wlan
        BY <3>1, <4>1, PersonasAssumption DEF Adapters
      <4>2. CASE a = P2p
        BY <3>1, <4>2, PersonasAssumption DEF Adapters
      <4> QED
        BY <4>1, <4>2 DEF Adapters
    <3>3. \A t \in All(prog') :
            /\ t.s = "close" => ad'[P2p].listed
            /\ t.s \notin Building \union {"free"}
            /\ t.s = "disable" => ad'[t.a].listed
      BY PersonasAssumption DEF ChangeProgram, Adapters
    <3>4. /\ Has(prog', "close") => ad'[P2p].mode = "p2pdev"
          /\ Has(prog', "close") \/ Has(prog', "disable") => a = P2p \/ \E t \in All(prog') : TakesAp(t)
      BY DEF ChangeProgram, Has, Adapters
    <3>5. \A t \in All(prog') : t.s = "mode" =>
            ad'[t.a].listed /\ (TakesAp(t) \/ t.a = P2p \/ Has(prog', "enable"))
      BY DEF ChangeProgram
    <3>6. ~Ending("roam")' /\ ~Ending("standby")' /\ ~Ending("notconn")' /\ ~Ending("ready")'
      BY <1>1
    <3>7. ad'[Last(prog').a].listed /\ Last(prog').a = a
      BY <1>1
    <3> QED
      BY <3>2, <3>3, <3>4, <3>5, <3>6, <3>7 DEF ModesOk
  <2> QED
    BY <1>1, <1>2, <2>1, <2>2 DEF Control
<1>4. OpenInv'
  <2> SUFFICES ASSUME "half" \notin mishap, NEW m \in CountedModes
               PROVE  open'[m] = One(Counted(Wlan, m)') + One(Counted(P2p, m)')
    BY DEF OpenInv
  <2>1. open[m] = One(Counted(Wlan, m)) + One(Counted(P2p, m))
    BY DEF Inv, OpenInv
  <2>2. ~Counted(a, m)' /\ (Counted(a, m) <=> ad[a].mode = m)
    BY <1>1 DEF Counted
  <2>3. \A b \in Adapters : b # a => (Counted(b, m)' <=> Counted(b, m))
    BY <1>1 DEF Counted
  <2>4. open'[m] = IF ad[a].mode = m THEN (open[m] + 255) % 256 ELSE open[m]
    BY DEF ClearConcurrency, Inv, Control, AdTypeOK
  <2> QED
    BY <2>1, <2>2, <2>3, <2>4, PersonasAssumption DEF One, Adapters
<1>5. SessionInv'
  BY <1>1, NoWait, AtRest DEF Inv, SessionInv, SessionOk, Prompt, Kept, Pends, Adapters
<1>6. PowerInv'
  <2>1. Excuse => ad[P2p].listed \/ ad[Wlan].mode \notin {"sta", "client"}
    BY AtRest DEF Excuse
  <2>2. /\ ad'[P2p].listed = ad[P2p].listed
        /\ ad[Wlan].mode \notin {"sta", "client"} => ad'[Wlan].mode = ad[Wlan].mode
    BY PersonasAssumption DEF Adapters, StaModes, Inv, Control, ModesOk
  <2> QED
    BY <2>1, <2>2 DEF Inv, PowerInv, Excuse
<1>7. CASE Prompt
  <2>1. sme[a].link = "idle"
    BY <1>7, LinkAtRest DEF LinkOk, StaModes
  <2>2. ad[P2p].mode = "p2pdev" => sme[P2p].link = "idle"
    BY <1>7, LinkAtRest DEF LinkOk, Adapters
  <2>3. ASSUME NEW b \in Adapters, b # a PROVE LinkOk(b)'
    BY <1>1, <1>7, <2>3, LinkQuiet DEF SameLink, Inv, Idle
  <2>4. LinkOk(a)'
    <3>1. LinkOk(a) /\ \A b : ~HeadIs("waitopen", b) /\ ~HeadIs("waitdisc", b)
      BY <1>7, LinkAtRest, AtRest
    <3>2. \A b : ~HeadIs("waitopen", b)' /\ ~HeadIs("waitdisc", b)'
      BY <1>1, NoWait
    <3> QED
      BY <2>1, <3>1, <3>2 DEF LinkOk
  <2>5. LinkSteps'
    BY <1>1, <2>1, <2>2 DEF LinkSteps, ChangeProgram
  <2>6. ActiveInv'
    <3>1. \A m \in CountedModes : ~Acts(a, m)' /\ ~Acts(a, m)
      BY <2>1 DEF Acts
    <3>2. \A b \in Adapters, m \in CountedModes : b # a => (Acts(b, m)' <=> Acts(b, m))
      BY DEF Acts
    <3> QED
      BY <3>1, <3>2, ActiveSame DEF Inv
  <2> QED
    BY <1>3, <1>4, <1>5, <1>6, <2>3, <2>4, <2>5, <2>6 DEF Inv, LinkInv
<1>8. CASE ~Prompt
  BY <1>3, <1>4, <1>5, <1>6, <1>8 DEF Inv, LinkInv, ActiveInv, Prompt
<1> QED
  BY <1>7, <1>8

(* The request of a restart, once nobody is under way.                     *)
LEMMA StartAllKeeps == Inv /\ StartAll => Inv'
<1> SUFFICES ASSUME Inv, StartAll PROVE Inv'
  OBVIOUS
<1>1. PICK w \in StepRecords, p \in StepRecords, r \in StepRecords :
        /\ w = Step("initsta", Wlan, "ignore") /\ p = Step("initsta", P2p, "ignore")
        /\ r = Step("ready", Wlan, "-")
  BY DEF Step, StepRecords, StepNames, StepArgs, Adapters
<1>2. PICK x \in {<<>>, <<w>>}, y \in {<<>>, <<p>>} :
        /\ logp /\ Idle /\ prog' = (x \o y) \o <<r>> /\ unwind' = <<>>
        /\ mishap' = mishap \union {"ssr"}
        /\ UNCHANGED <<ad, open, active, ps, logp, sme, comp>>
  BY <1>1 DEF StartAll
<1>3. /\ w.s = "initsta" /\ p.s = "initsta" /\ r.s = "ready"
      /\ w.x = "ignore" /\ p.x = "ignore" /\ r.x = "-" /\ w.a = Wlan /\ p.a = P2p /\ r.a = Wlan
  BY <1>1 DEF Step
<1>4. /\ StepOk(w, r) /\ StepOk(p, r) /\ StepOk(r, r)
      /\ InOrder(w, p) /\ InOrder(w, r) /\ InOrder(p, r)
  BY <1>3 DEF StepOk, InOrder, Parts, Ends, Waits, Building
<1>5. ProgOk(prog') /\ prog' # <<>> /\ All(prog') \subseteq {w, p, r} /\ Last(prog') = r
  <2>1. /\ x \in Seq(StepRecords) /\ Ordered(x) /\ All(x) \subseteq {w}
    <3>1. CASE x = <<>>
      BY <3>1, NoSteps
    <3>2. CASE x = <<w>>
      BY <3>2 DEF All, Ordered
    <3> QED
      BY <3>1, <3>2
  <2>2. /\ y \in Seq(StepRecords) /\ Ordered(y) /\ All(y) \subseteq {p}
    <3>1. CASE y = <<>>
      BY <3>1, NoSteps
    <3>2. CASE y = <<p>>
      BY <3>2 DEF All, Ordered
    <3> QED
      BY <3>1, <3>2
  <2>3. x \o y \in Seq(StepRecords) /\ All(x \o y) \subseteq {w, p} /\ Ordered(x \o y)
    BY <1>4, <2>1, <2>2, Joined
  <2> DEFINE z == <<r>>
  <2>4. z \in Seq(StepRecords) /\ z # <<>> /\ Ordered(z) /\ All(z) = {r} /\ Last(z) = r
    <3>1. ProgOk(z) /\ z # <<>> /\ All(z) = {r} /\ Last(z) = r
      BY <1>4, OneStep
    <3> HIDE DEF z
    <3> QED
      BY <3>1 DEF ProgOk
  <2> HIDE DEF z
  <2>5. LET q == (x \o y) \o z
        IN q \in Seq(StepRecords) /\ q # <<>> /\ All(q) \subseteq {w, p, r} /\ Last(q) = r /\ Ordered(q)
    BY <1>4, <2>3, <2>4, Joined
  <2> QED
    BY <1>2, <1>4, <2>5 DEF ProgOk, z
<1>6. AdTypeOK' /\ SameShape /\ SameLinks /\ SameSessions
  BY <1>2 DEF Inv, Control, AdTypeOK, SameShape, SameLinks, SameLink, SameSessions
<1>7. \A e : Ending(e)' => e = "ready"
  BY <1>3, <1>5 DEF Ending
<1>8. Control'
  <2>1. UnwindOk'
    BY <1>2, <1>7, NoSteps DEF UnwindOk
  <2>2. ModesOk'
    BY <1>2, <1>3, <1>5, <1>7 DEF Inv, Control, ModesOk, Building
  <2> QED
    BY <1>5, <1>6, <2>1, <2>2 DEF Control
<1>9. NoWaits(prog')
  BY <1>3, <1>5 DEF NoWaits, Waits
<1>10. Prompt => LinkSteps'
  <2> SUFFICES ASSUME Prompt PROVE LinkSteps'
    OBVIOUS
  <2>1. \A b \in Adapters : sme[b].link = "idle"
    BY <1>2, LinkAtRest DEF LinkOk
  <2> QED
    BY <1>2, <1>3, <1>5, <1>7, <2>1 DEF LinkSteps, Adapters
<1>11. PowerInv'
  BY <1>2, PowerAtRest
<1> QED
  BY <1>2, <1>3, <1>5, <1>6, <1>8, <1>9, <1>10, <1>11, Begins

(* The restart: nobody has a session, a link or a BSS any more.            *)
LEMMA ResetKeeps == Inv /\ ResetAll => Inv'
<1> SUFFICES ASSUME Inv, ResetAll PROVE Inv'
  OBVIOUS
<1>1. ad \in [Adapters -> AdRecords] /\ active \in [CountedModes -> Nat]
  BY DEF Inv, Control, AdTypeOK
<1>2. /\ logp' = TRUE
      /\ sme' = [a \in Adapters |-> NoSme]
      /\ active' = ResetActive(active)
      /\ ad' = [a \in Adapters |-> IF ad[a].listed THEN [ad[a] EXCEPT !.bss = FALSE, !.init = FALSE] ELSE ad[a]]
      /\ UNCHANGED <<open, ps, comp, prog, unwind, mishap>>
  BY DEF ResetAll
<1>3. \A a \in Adapters :
        /\ ad'[a] \in AdRecords
        /\ ad'[a].listed = ad[a].listed /\ ad'[a].mode = ad[a].mode /\ ad'[a].conn = ad[a].conn
        /\ ad'[a].sess = ad[a].sess
        /\ ad'[a].bss = (ad[a].bss /\ ~ad[a].listed)
  BY <1>1, <1>2 DEF AdRecords
<1>4. \A a \in Adapters : ~sme'[a].session /\ ~sme'[a].opening /\ ~sme'[a].closing /\ sme'[a].link = "idle"
  BY <1>2 DEF NoSme
<1>5. AdTypeOK'
  <2>1. sme' \in [Adapters -> SmeRecords]
    BY <1>2 DEF NoSme, SmeRecords, Links
  <2>2. ad' \in [Adapters -> AdRecords]
    BY <1>2, <1>3
  <2>3. active' \in [CountedModes -> Nat]
    <3>1. \A m : \A c \in [CountedModes -> Nat] : DecrActive(c, m) \in [CountedModes -> Nat]
      BY DEF DecrActive
    <3> QED
      BY <1>1, <1>2, <3>1 DEF ResetActive
  <2> QED
    BY <1>2, <2>1, <2>2, <2>3 DEF Inv, Control, AdTypeOK
<1>6. Control' /\ OpenInv' /\ PowerInv'
  BY <1>2, <1>3, <1>5, Still DEF SameShape
<1>7. SessionInv'
  BY <1>2, <1>4 DEF SessionInv, SessionOk
<1>8. CASE Prompt
  <2>1. \A a \in Adapters : LinkOk(a)
    BY <1>8 DEF Inv, LinkInv
  <2>2. \A a \in Adapters : ~ad'[a].bss
    BY <1>3, <2>1 DEF LinkOk
  <2>3. \A a \in Adapters : LinkOk(a)'
    BY <1>2, <1>4, <2>2 DEF LinkOk
  <2>4. LinkSteps'
    <3>1. prog' # <<>> => Last(prog').a \in Adapters /\ \A t \in All(prog') : t.a \in Adapters
      <4>1. prog \in Seq(StepRecords)
        BY DEF Inv, Control, ProgOk
      <4>2. \A t \in All(prog) : t.a \in Adapters
        <5>1. \A i \in 1..Len(prog) : prog[i] \in StepRecords
          BY <4>1
        <5>2. \A r \in StepRecords : r.a \in Adapters
          BY DEF StepRecords
        <5> QED
          BY <5>1, <5>2 DEF All
      <4>3. prog # <<>> => Last(prog) \in All(prog)
        BY <4>1, Decomposed
      <4> QED
        BY <1>2, <4>2, <4>3
    <3>2. \A e : Ending(e)' => ~ad'[Last(prog').a].bss /\ sme'[Last(prog').a].link = "idle" /\ ~sme'[Last(prog').a].session
      BY <1>4, <2>2, <3>1 DEF Ending
    <3>3. \A t \in All(prog') : sme'[t.a].link = "idle"
      BY <1>2, <1>4, <3>1, NoSteps
    <3>4. ~ad'[P2p].bss
      BY <2>2 DEF Adapters
    <3> QED
      BY <3>2, <3>3, <3>4 DEF LinkSteps
  <2>5. ActiveInv'
    <3> SUFFICES ASSUME NEW m \in CountedModes
                 PROVE  active'[m] = One(Acts(Wlan, m)') + One(Acts(P2p, m)')
      BY DEF ActiveInv
    <3>1. \A a \in Adapters : ~Acts(a, m)'
      BY <1>4, <2>2 DEF Acts
    <3>2. active[m] = One(Acts(Wlan, m)) + One(Acts(P2p, m))
      BY <1>8 DEF Inv, ActiveInv
    <3>3. \A a \in Adapters : Acts(a, m) => ad[a].listed /\ ad[a].mode = m
      BY <2>1 DEF Acts, LinkOk
    <3>4. active'[m] = 0
      <4> DEFINE c1 == IF ad[Wlan].listed THEN DecrActive(active, ad[Wlan].mode) ELSE active
      <4>1. c1 \in [CountedModes -> Nat]
        BY <1>1 DEF DecrActive
      <4>2. c1[m] = IF ad[Wlan].listed /\ ad[Wlan].mode = m /\ active[m] > 0 THEN active[m] - 1 ELSE active[m]
        BY <1>1 DEF DecrActive
      <4>3. active' = IF ad[P2p].listed THEN DecrActive(c1, ad[P2p].mode) ELSE c1
        BY <1>2 DEF ResetActive
      <4> HIDE DEF c1
      <4>4. active'[m] = IF ad[P2p].listed /\ ad[P2p].mode = m /\ c1[m] > 0 THEN c1[m] - 1 ELSE c1[m]
        BY <4>1, <4>3 DEF DecrActive
      <4> QED
        BY <1>1, <3>2, <3>3, <4>1, <4>2, <4>4 DEF One, Adapters
    <3> QED
      BY <3>1, <3>4 DEF One, Adapters
  <2> QED
    BY <1>6, <1>7, <2>3, <2>4, <2>5 DEF Inv, LinkInv
<1>9. CASE ~Prompt
  BY <1>2, <1>6, <1>7, <1>9 DEF Inv, LinkInv, ActiveInv, Prompt
<1> QED
  BY <1>8, <1>9

LEMMA IsStep ==
    ASSUME NEW s \in StepNames, NEW a \in Adapters, NEW x \in StepArgs
    PROVE  /\ Step(s, a, x) \in StepRecords
           /\ Step(s, a, x).s = s /\ Step(s, a, x).a = a /\ Step(s, a, x).x = x
  BY DEF Step, StepRecords

(* wlan0 becomes an access point, p2p0 removed first if it only listens;   *)
(* p2p0 becomes a group owner.                                             *)
LEMMA ToApChanges ==
    ASSUME Inv, NEW a \in Adapters, NEW type \in {"ap", "go"}, a = IF type = "ap" THEN Wlan ELSE P2p
    PROVE  ChangeProgram(ToApProgram(a, type), a)
<1>1. PICK s1 \in StepRecords, s2 \in StepRecords, s3 \in StepRecords :
        s1 = Step("stop", P2p, "close") /\ s2 = Step("deinit", P2p, "-") /\ s3 = Step("close", P2p, "-")
  BY DEF Step, StepRecords, StepNames, StepArgs, Adapters
<1>2. PICK t1 \in StepRecords, t2 \in StepRecords, t3 \in StepRecords, t4 \in StepRecords :
        /\ t1 = Step("disable", a, "go") /\ t2 = Step("stop", a, "close") /\ t3 = Step("deinit", a, "-")
        /\ t4 = Step("mode", a, IF type = "ap" THEN "sap" ELSE "go")
  BY DEF Step, StepRecords, StepNames, StepArgs, Modes
<1>3. PICK u \in StepRecords, v \in StepRecords, w \in StepRecords :
        u = Step("country", a, "-") /\ v = Step("initap", a, "-") /\ w = Step("count", a, "-")
  BY DEF Step, StepRecords, StepNames, StepArgs
<1>4. /\ s1.s = "stop" /\ s2.s = "deinit" /\ s3.s = "close" /\ s1.a = P2p /\ s2.a = P2p /\ s3.a = P2p
      /\ s1.x = "close" /\ s2.x = "-" /\ s3.x = "-"
  BY <1>1 DEF Step
<1>5. /\ t1.s = "disable" /\ t2.s = "stop" /\ t3.s = "deinit" /\ t4.s = "mode"
      /\ t1.a = a /\ t2.a = a /\ t3.a = a /\ t4.a = a
      /\ t1.x = "go" /\ t2.x = "close" /\ t3.x = "-" /\ t4.x = IF type = "ap" THEN "sap" ELSE "go"
  BY <1>2 DEF Step
<1>6. /\ u.s = "country" /\ v.s = "initap" /\ w.s = "count" /\ u.a = a /\ v.a = a /\ w.a = a
      /\ u.x = "-" /\ v.x = "-" /\ w.x = "-"
  BY <1>3 DEF Step
<1> DEFINE X0 == <<s1, s2, s3>>
           Y == <<t1, t2, t3, t4>>
           C0 == <<u>>
           Z == <<v, w>>
<1>7. X0 \in Seq(StepRecords) /\ Ordered(X0) /\ All(X0) = {s1, s2, s3}
  BY <1>4, Triple DEF InOrder, Ends, Waits
<1>8. Y \in Seq(StepRecords) /\ Ordered(Y) /\ All(Y) = {t1, t2, t3, t4}
  BY <1>5, Quadruple DEF InOrder, Ends, Waits
<1>9. C0 \in Seq(StepRecords) /\ Ordered(C0) /\ All(C0) = {u}
  <2>1. C0 \in Seq(StepRecords) /\ Len(C0) = 1 /\ C0[1] = u
    OBVIOUS
  <2> HIDE DEF C0
  <2> QED
    BY <2>1 DEF Ordered, All
<1>10. Z \in Seq(StepRecords) /\ Z # <<>> /\ Ordered(Z) /\ All(Z) = {v, w} /\ Last(Z) = w
  BY <1>6, Pair DEF InOrder, Ends, Waits
<1>11. PICK X, C :
         /\ ToApProgram(a, type) = ((X \o Y) \o C) \o Z
         /\ X = <<>> \/ (X = X0 /\ type = "ap" /\ ad[P2p].listed /\ ad[P2p].mode = "p2pdev")
         /\ C = C0 \/ C = <<>>
  <2>1. type = "ap" /\ HasMode("p2pdev") => First("p2pdev") = P2p /\ ad[P2p].listed /\ ad[P2p].mode = "p2pdev"
    BY DEF HasMode, First, Inv, Control, ModesOk, Adapters
  <2> QED
    BY <1>1, <1>2, <1>3, <2>1 DEF ToApProgram
<1> HIDE DEF X0, Y, C0, Z
<1>12. /\ X \in Seq(StepRecords) /\ Ordered(X) /\ All(X) \subseteq {s1, s2, s3}
       /\ All(X) # {} => type = "ap" /\ ad[P2p].listed /\ ad[P2p].mode = "p2pdev"
       /\ C \in Seq(StepRecords) /\ Ordered(C) /\ All(C) \subseteq {u}
  <2>1. <<>> \in Seq(StepRecords) /\ Ordered(<<>>) /\ All(<<>>) = {}
    BY NoSteps
  <2>2. C \in Seq(StepRecords) /\ Ordered(C) /\ All(C) \subseteq {u}
    <3>1. CASE C = <<>>
      BY <2>1, <3>1
    <3>2. CASE C = C0
      BY <1>9, <3>2
    <3> QED
      BY <1>11, <3>1, <3>2
  <2>3. CASE X = <<>>
    BY <2>1, <2>2, <2>3
  <2>4. CASE X = X0 /\ type = "ap" /\ ad[P2p].listed /\ ad[P2p].mode = "p2pdev"
    BY <1>7, <2>2, <2>4
  <2> QED
    BY <1>11, <2>3, <2>4
<1>13. X \o Y \in Seq(StepRecords) /\ Ordered(X \o Y) /\ All(X \o Y) = All(X) \union {t1, t2, t3, t4}
  <2>1. \A t \in {s1, s2, s3}, r \in {t1, t2, t3, t4} : InOrder(t, r)
    BY <1>4, <1>5 DEF InOrder, Ends, Waits
  <2> QED
    BY <1>8, <1>12, <2>1, Joined
<1> DEFINE XY == X \o Y
<1>14. /\ XY \o C \in Seq(StepRecords) /\ Ordered(XY \o C)
       /\ All(XY \o C) = All(X) \union {t1, t2, t3, t4} \union All(C)
  <2>1. \A t \in {s1, s2, s3, t1, t2, t3, t4} : InOrder(t, u)
    BY <1>4, <1>5, <1>6 DEF InOrder, Ends, Waits
  <2>2. XY \in Seq(StepRecords) /\ Ordered(XY) /\ All(XY) = All(X) \union {t1, t2, t3, t4}
    BY <1>13
  <2> HIDE DEF XY
  <2> QED
    BY <1>12, <2>1, <2>2, Joined
<1> DEFINE XYC == XY \o C
<1>15. LET q == XYC \o Z
       IN /\ q \in Seq(StepRecords) /\ q # <<>> /\ Ordered(q) /\ Last(q) = w
          /\ All(q) = All(X) \union {t1, t2, t3, t4} \union All(C) \union {v, w}
  <2>1. \A t \in {s1, s2, s3, t1, t2, t3, t4, u} : InOrder(t, v) /\ InOrder(t, w)
    BY <1>4, <1>5, <1>6 DEF InOrder, Ends, Waits
  <2>2. /\ XYC \in Seq(StepRecords) /\ Ordered(XYC)
        /\ All(XYC) = All(X) \union {t1, t2, t3, t4} \union All(C)
    BY <1>14
  <2> HIDE DEF XYC
  <2> QED
    BY <1>10, <1>12, <2>1, <2>2, Joined
<1> DEFINE q == XYC \o Z
<1>16. /\ ToApProgram(a, type) = q
       /\ q \in Seq(StepRecords) /\ q # <<>> /\ Ordered(q) /\ Last(q) = w
       /\ All(q) = All(X) \union {t1, t2, t3, t4} \union All(C) \union {v, w}
  BY <1>11, <1>15
<1> HIDE DEF q
<1>17. a # P2p => type = "ap" /\ a = Wlan
  BY DEF Adapters
<1>18. type = "ap" => a = Wlan /\ a # P2p
  BY PersonasAssumption
<1>19. \A t \in {t1, t2, t3, t4, u, v, w} : StepOk(t, w)
  <2>1. t4.x \in IF t4.a = Wlan THEN {"sta", "client", "sap"} ELSE {"p2pdev", "client", "go"}
    BY <1>5, PersonasAssumption
  <2>2. StepOk(t4, w)
    BY <1>5, <1>6, <2>1 DEF StepOk, Parts, Building
  <2>3. StepOk(t1, w) /\ StepOk(t2, w) /\ StepOk(t3, w)
    BY <1>5, <1>6 DEF StepOk, Parts, Building
  <2>4. StepOk(u, w) /\ StepOk(v, w) /\ StepOk(w, w)
    BY <1>6 DEF StepOk, Parts, Building
  <2> QED
    BY <2>2, <2>3, <2>4
<1>20. type = "ap" => \A t \in {s1, s2, s3} : StepOk(t, w)
  BY <1>4, <1>6, <1>18 DEF StepOk, Parts, Building, OfPeer
<1>21. ProgOk(q)
  BY <1>12, <1>16, <1>19, <1>20 DEF ProgOk
<1>22. a = P2p \/ TakesAp(t4)
  BY <1>5, <1>17 DEF TakesAp, ApModes
<1>23. \A t \in {t1, t2, t3, t4, u, v, w} :
         /\ t.s \notin Waits \union Building \union {"free", "close"} /\ t.a = a
         /\ t.s = "mode" => t = t4
  BY <1>5, <1>6 DEF Waits, Building
<1>24. \A t \in {s1, s2, s3} : t.s \notin Waits \union Building \union {"free", "mode"} /\ t.a = P2p
  BY <1>4 DEF Waits, Building
<1>25. /\ ProgOk(q) /\ q # <<>> /\ Last(q).a = a /\ Last(q).s = "count"
  BY <1>6, <1>16, <1>21
<1>26. t4 \in All(q)
  BY <1>16
<1>27. ASSUME NEW t \in All(q)
       PROVE  \/ t \in {t1, t2, t3, t4, u, v, w}
              \/ t \in {s1, s2, s3} /\ type = "ap" /\ ad[P2p].listed /\ ad[P2p].mode = "p2pdev"
  <2>1. t \in All(X) \/ t \in All(C) \/ t \in {t1, t2, t3, t4, v, w}
    BY <1>16
  <2>2. CASE t \in All(X)
    BY <1>12, <2>2
  <2>3. CASE t \in All(C)
    BY <1>12, <2>3
  <2> QED
    BY <2>1, <2>2, <2>3
<1>28. ASSUME NEW t \in All(q)
       PROVE  /\ t.s \notin Waits \union Building \union {"free"}
              /\ t.a = a \/ (t.a = P2p /\ ad[P2p].listed /\ ad[P2p].mode = "p2pdev")
              /\ t.s = "close" => t.a # a
              /\ t.s = "mode" => t.a = a /\ (TakesAp(t) \/ a = P2p \/ Has(q, "enable"))
              /\ t.s \in {"close", "disable"} => a = P2p \/ \E x \in All(q) : TakesAp(x)
  <2>1. a = P2p \/ \E x \in All(q) : TakesAp(x)
    BY <1>22, <1>26
  <2>2. CASE t \in {t1, t2, t3, t4, u, v, w}
    <3>1. /\ t.s \notin Waits \union Building \union {"free", "close"} /\ t.a = a
          /\ t.s = "mode" => t = t4
      BY <1>23, <2>2
    <3> QED
      BY <1>22, <2>1, <3>1
  <2>3. CASE t \in {s1, s2, s3} /\ type = "ap" /\ ad[P2p].listed /\ ad[P2p].mode = "p2pdev"
    <3>1. t.s \notin Waits \union Building \union {"free", "mode"} /\ t.a = P2p
      BY <1>24, <2>3
    <3> QED
      BY <1>18, <2>1, <2>3, <3>1
  <2> QED
    BY <1>27, <2>2, <2>3
<1> QED
  BY <1>16, <1>25, <1>28 DEF ChangeProgram

(* An access point becomes a station.                                      *)
LEMMA ToStationChanges ==
    ASSUME Inv, NEW a \in Adapters, NEW type \in Types
    PROVE  ChangeProgram(ToStationProgram(a, type), a)
<1>1. PICK t1 \in StepRecords, t2 \in StepRecords, t3 \in StepRecords :
        /\ t1 = Step("stop", a, "close") /\ t2 = Step("deinit", a, "-")
        /\ t3 = Step("mode", a, StationModeOf(a, type))
  <2>1. StationModeOf(a, type) \in StepArgs
    BY DEF StepArgs, Modes, StationModeOf
  <2> QED
    BY <2>1 DEF Step, StepRecords, StepNames, StepArgs
<1>2. PICK t4 \in StepRecords, t5 \in StepRecords, t6 \in StepRecords :
        t4 = Step("initsta", a, "-") /\ t5 = Step("enable", a, "-") /\ t6 = Step("count", a, "-")
  BY DEF Step, StepRecords, StepNames, StepArgs
<1>3. /\ t1.s = "stop" /\ t2.s = "deinit" /\ t3.s = "mode" /\ t1.a = a /\ t2.a = a /\ t3.a = a
      /\ t1.x = "close" /\ t2.x = "-" /\ t3.x = StationModeOf(a, type)
  BY <1>1 DEF Step
<1>4. /\ t4.s = "initsta" /\ t5.s = "enable" /\ t6.s = "count" /\ t4.a = a /\ t5.a = a /\ t6.a = a
      /\ t4.x = "-" /\ t5.x = "-" /\ t6.x = "-"
  BY <1>2 DEF Step
<1> DEFINE X == <<t1, t2, t3>>
           Y == <<t4, t5, t6>>
           q == X \o Y
           p == <<t1, t2, t3, t4, t5, t6>>
<1>5. X \in Seq(StepRecords) /\ Ordered(X) /\ All(X) = {t1, t2, t3}
  BY <1>3, Triple DEF InOrder, Ends, Waits
<1>6. Y \in Seq(StepRecords) /\ Y # <<>> /\ Ordered(Y) /\ All(Y) = {t4, t5, t6} /\ Last(Y) = t6
  BY <1>4, Triple DEF InOrder, Ends, Waits
<1>7. p = q
  <2>1. /\ p \in Seq(StepRecords) /\ Len(p) = 6
        /\ p[1] = t1 /\ p[2] = t2 /\ p[3] = t3 /\ p[4] = t4 /\ p[5] = t5 /\ p[6] = t6
    OBVIOUS
  <2>2. /\ q \in Seq(StepRecords) /\ Len(q) = 6
        /\ q[1] = t1 /\ q[2] = t2 /\ q[3] = t3 /\ q[4] = t4 /\ q[5] = t5 /\ q[6] = t6
    OBVIOUS
  <2> HIDE DEF p, q
  <2>3. \A i \in 1..Len(p) : p[i] = q[i]
    BY <2>1, <2>2
  <2> QED
    BY <2>1, <2>2, <2>3, SameSeq
<1> HIDE DEF X, Y
<1>8. /\ q \in Seq(StepRecords) /\ q # <<>> /\ Ordered(q) /\ Last(q) = t6
      /\ All(q) = {t1, t2, t3, t4, t5, t6}
  <2>1. \A r \in {t1, t2, t3}, u \in {t4, t5, t6} : InOrder(r, u)
    BY <1>3, <1>4 DEF InOrder, Ends, Waits
  <2> QED
    BY <1>5, <1>6, <2>1, Joined
<1> HIDE DEF q
<1>9. \A r \in {t1, t2, t3, t4, t5, t6} : StepOk(r, t6)
  <2>1. t3.x \in IF t3.a = Wlan THEN {"sta", "client", "sap"} ELSE {"p2pdev", "client", "go"}
    BY <1>3 DEF StationModeOf
  <2>2. StepOk(t3, t6)
    BY <1>3, <1>4, <2>1 DEF StepOk, Parts, Building
  <2>3. StepOk(t1, t6) /\ StepOk(t2, t6)
    BY <1>3, <1>4 DEF StepOk, Parts, Building
  <2>4. StepOk(t4, t6) /\ StepOk(t5, t6) /\ StepOk(t6, t6)
    BY <1>4 DEF StepOk, Parts, Building
  <2> QED
    BY <2>2, <2>3, <2>4
<1>10. ProgOk(q)
  BY <1>8, <1>9 DEF ProgOk
<1>11. Has(q, "enable")
  BY <1>4, <1>8 DEF Has
<1>12. \A r \in {t1, t2, t3, t4, t5, t6} :
         /\ r.s \notin Waits \union Building \union {"free", "close", "disable"} /\ r.a = a
  BY <1>3, <1>4 DEF Waits, Building
<1>13. ChangeProgram(q, a)
  BY <1>4, <1>8, <1>10, <1>11, <1>12 DEF ChangeProgram
<1>14. ToStationProgram(a, type) = p
  BY <1>1, <1>2 DEF ToStationProgram
<1> HIDE DEF p
<1> QED
  BY <1>7, <1>13, <1>14

(* The short ones.                                                         *)
LEMMA ShortChanges ==
    ASSUME NEW a \in Adapters, NEW s \in StepRecords, NEW w \in StepRecords,
           w.s = "count", w.a = a, s.a = a, StepOk(w, w),
           s.s \in {"tdls", "ibss", "mode"}, s.x # "ignore",
           s.s = "mode" => s.x \in IF a = Wlan THEN {"sap"} ELSE {"go"}
    PROVE  ChangeProgram(<<w>>, a) /\ ChangeProgram(<<s, w>>, a)
<1> DEFINE p == <<w>>
           q == <<s, w>>
<1>1. ProgOk(p) /\ p # <<>> /\ All(p) = {w} /\ Last(p) = w
  BY OneStep
<1>2. ProgOk(q) /\ q # <<>> /\ All(q) = {s, w} /\ Last(q) = w
  <2>1. StepOk(s, w) /\ InOrder(s, w)
    BY DEF StepOk, InOrder, Parts, Ends, Waits, Building
  <2> QED
    BY <2>1, TwoSteps
<1> HIDE DEF p, q
<1>3. s.s = "mode" => TakesAp(s) \/ a = P2p
  BY DEF TakesAp, ApModes, Adapters
<1>4. ChangeProgram(p, a)
  BY <1>1 DEF ChangeProgram, Waits, Building
<1>5. ChangeProgram(q, a)
  BY <1>2, <1>3 DEF ChangeProgram, Waits, Building
<1> QED
  BY <1>4, <1>5 DEF p, q

LEMMA ChangeKeeps ==
    ASSUME Inv, NEW a \in Adapters, NEW type \in Types, ChangeIface(a, type)
    PROVE  Inv'
<1>1. ad \in [Adapters -> AdRecords]
  BY DEF Inv, Control, AdTypeOK
<1>2. /\ Idle /\ ad[a].listed /\ ~ad[a].bss /\ (ad[a].mode \in StaModes => NoLink(a))
      /\ type = "ap" => a = Wlan
      /\ type = "go" => a = P2p
      /\ unwind' = <<Step("half", a, "-")>> /\ open' = ClearConcurrency(open, ad[a].mode)
      /\ UNCHANGED <<active, ps, logp, sme, comp, mishap>>
  BY DEF ChangeIface, Request, MayChange
<1>3. PICK c \in StepRecords, h \in StepRecords, d \in StepRecords, i \in StepRecords :
        /\ c = Step("count", a, "-") /\ h = Step("half", a, "-")
        /\ d = Step("tdls", a, "-") /\ i = Step("ibss", a, "-")
  BY DEF Step, StepRecords, StepNames, StepArgs
<1>4. /\ c.s = "count" /\ h.s = "half" /\ d.s = "tdls" /\ i.s = "ibss"
      /\ c.a = a /\ h.a = a /\ d.a = a /\ i.a = a /\ c.x = "-" /\ h.x = "-" /\ d.x = "-" /\ i.x = "-"
  BY <1>3 DEF Step
<1>5. StepOk(c, c) /\ StepOk(h, h)
  BY <1>4 DEF StepOk, Parts, Building
<1>6. CASE ad[a].mode \in StaModes /\ type \in {"station", "client"}
  <2>1. /\ ad' = [ad EXCEPT ![a].mode = StationModeOf(a, type)]
        /\ prog' = (IF type = "client" THEN <<d>> ELSE <<>>) \o <<c>>
    BY <1>3, <1>6 DEF ChangeIface
  <2>2. prog' = <<c>> \/ prog' = <<d, c>>
    <3>1. <<>> \o <<c>> = <<c>>
      OBVIOUS
    <3>2. <<d>> \o <<c>> = <<d, c>>
      <4> DEFINE p == <<d>> \o <<c>>
                 q == <<d, c>>
      <4>1. /\ p \in Seq(StepRecords) /\ q \in Seq(StepRecords) /\ Len(p) = 2 /\ Len(q) = 2
            /\ p[1] = d /\ p[2] = c /\ q[1] = d /\ q[2] = c
        OBVIOUS
      <4> HIDE DEF p, q
      <4>2. p = q
        BY <4>1, SameSeq
      <4> QED
        BY <4>2 DEF p, q
    <3> QED
      BY <2>1, <3>1, <3>2
  <2>3. ChangeProgram(prog', a)
    BY <1>4, <1>5, <2>2, ShortChanges
  <2>4. PICK m \in Modes : /\ ad' = [ad EXCEPT ![a].mode = m]
                           /\ m \in IF a = Wlan THEN {"sta", "client"} ELSE {"p2pdev", "client"}
    BY <2>1 DEF StationModeOf, Modes
  <2>5. ad' \in [Adapters -> AdRecords]
    <3>1. [ad[a] EXCEPT !.mode = m] \in AdRecords
      BY <1>1, AdField
    <3> QED
      BY <1>1, <2>4, <3>1, OneChanged
  <2>6. /\ \A b \in Adapters : b # a => ad'[b] = ad[b]
        /\ ad'[a].listed = ad[a].listed /\ ad'[a].conn = ad[a].conn /\ ad'[a].bss = ad[a].bss
        /\ ad'[a].sess = ad[a].sess /\ ad'[a].mode = m
    BY <1>1, <2>4 DEF AdRecords
  <2> QED
    BY <1>2, <1>6, <2>3, <2>4, <2>5, <2>6, ChangeStarts
<1>7. CASE ~(ad[a].mode \in StaModes /\ type \in {"station", "client"})
  <2>1. ad' = ad
    BY <1>7 DEF ChangeIface
  <2>2. ChangeProgram(prog', a)
    <3>1. CASE ad[a].mode \in StaModes /\ type \in {"ap", "go"}
      <4>1. prog' = ToApProgram(a, type)
        BY <1>7, <3>1 DEF ChangeIface
      <4>2. a = IF type = "ap" THEN Wlan ELSE P2p
        BY <1>2, <3>1
      <4> QED
        BY <3>1, <4>1, <4>2, ToApChanges
    <3>2. CASE ad[a].mode \in StaModes /\ type \notin {"ap", "go"}
      <4>1. prog' = <<i, c>>
        BY <1>3, <1>7, <3>2 DEF ChangeIface
      <4> QED
        BY <1>4, <1>5, <4>1, ShortChanges
    <3>3. CASE ad[a].mode \notin StaModes /\ ad[a].mode \in ApModes /\ type \in {"ap", "go"}
      <4>1. PICK m \in StepRecords : m = Step("mode", a, IF type = "ap" THEN "sap" ELSE "go")
        BY DEF Step, StepRecords, StepNames, StepArgs, Modes
      <4>2. m.s = "mode" /\ m.a = a /\ m.x = IF type = "ap" THEN "sap" ELSE "go"
        BY <4>1 DEF Step
      <4>3. m.x # "ignore" /\ m.x \in IF a = Wlan THEN {"sap"} ELSE {"go"}
        BY <1>2, <3>3, <4>2, PersonasAssumption
      <4>4. prog' = <<m, c>>
        BY <1>3, <1>7, <3>3, <4>1 DEF ChangeIface
      <4> QED
        BY <1>4, <1>5, <4>2, <4>3, <4>4, ShortChanges
    <3>4. CASE ad[a].mode \notin StaModes /\ ad[a].mode \in ApModes /\ type \notin {"ap", "go"}
      <4>1. prog' = ToStationProgram(a, type)
        BY <1>7, <3>4 DEF ChangeIface
      <4> QED
        BY <4>1, ToStationChanges
    <3>5. CASE ad[a].mode \notin StaModes /\ ad[a].mode \notin ApModes
      <4>1. prog' = <<h>>
        BY <1>3, <1>7, <3>5 DEF ChangeIface
      <4>2. ProgOk(prog') /\ prog' # <<>> /\ All(prog') = {h} /\ Last(prog') = h
        BY <1>5, <4>1, OneStep
      <4> QED
        BY <1>4, <4>2 DEF ChangeProgram, Waits, Building
    <3> QED
      BY <3>1, <3>2, <3>3, <3>4, <3>5
  <2> QED
    BY <1>1, <1>2, <2>1, <2>2, ChangeStarts
<1> QED
  BY <1>6, <1>7

(* p2p0 comes back.                                                        *)
LEMMA OpenKeeps ==
    ASSUME Inv, NEW m \in {"p2pdev", "client", "go"}, OpenAdapter(m)
    PROVE  Inv'
<1>1. ad \in [Adapters -> AdRecords] /\ P2p \in Adapters /\ Wlan \in Adapters
  BY DEF Inv, Control, AdTypeOK, Adapters
<1>2. PICK t1 \in StepRecords, i1 \in StepRecords, t2 \in StepRecords, t3 \in StepRecords, t4 \in StepRecords :
        /\ t1 = Step("alloc", P2p, "-") /\ t2 = Step("register", P2p, "-")
        /\ t3 = Step("list", P2p, "-") /\ t4 = Step("count", P2p, "-")
        /\ i1 = IF m \in ApModes THEN Step("initap", P2p, "-") ELSE Step("initsta", P2p, "-")
  <2>1. Step("initap", P2p, "-") \in StepRecords /\ Step("initsta", P2p, "-") \in StepRecords
    BY <1>1, IsStep DEF StepNames, StepArgs
  <2>2. /\ Step("alloc", P2p, "-") \in StepRecords /\ Step("register", P2p, "-") \in StepRecords
        /\ Step("list", P2p, "-") \in StepRecords /\ Step("count", P2p, "-") \in StepRecords
    BY <1>1, IsStep DEF StepNames, StepArgs
  <2> QED
    BY <2>1, <2>2
<1>3. PICK f \in StepRecords, e \in StepRecords :
        f = Step("free", P2p, "-") /\ e = Step("enable", P2p, "-")
  BY <1>1 DEF Step, StepRecords, StepNames, StepArgs
<1>4. /\ t1.s = "alloc" /\ t2.s = "register" /\ t3.s = "list" /\ t4.s = "count" /\ i1.s \in {"initap", "initsta"}
      /\ t1.a = P2p /\ t2.a = P2p /\ t3.a = P2p /\ t4.a = P2p /\ i1.a = P2p
      /\ t1.x = "-" /\ t2.x = "-" /\ t3.x = "-" /\ t4.x = "-" /\ i1.x = "-"
      /\ f.s = "free" /\ e.s = "enable" /\ f.a = P2p /\ e.a = P2p /\ f.x = "-" /\ e.x = "-"
  BY <1>2, <1>3 DEF Step
<1>5. PICK z \in {<<>>, <<e>>} :
        /\ Idle /\ ~logp /\ ~ad[P2p].listed
        /\ ~sme[P2p].session /\ ~sme[P2p].closing /\ ~sme[P2p].opening
        /\ ps' = AfterDisable(m)
        /\ ad' = [ad EXCEPT ![P2p] = Fresh(m)]
        /\ unwind' = <<f>> \o z /\ (DisableDoes(m) => z = <<e>>)
        /\ prog' = (<<t1>> \o <<i1>>) \o <<t2, t3, t4>>
        /\ UNCHANGED <<open, active, logp, sme, comp, mishap>>
  BY <1>2, <1>3 DEF OpenAdapter
<1>6. ProgOk(prog') /\ prog' # <<>> /\ All(prog') = {t1, i1, t2, t3, t4} /\ Last(prog') = t4
  <2> DEFINE A == <<t1>> \o <<i1>>
             B == <<t2, t3, t4>>
  <2>1. A \in Seq(StepRecords) /\ Ordered(A) /\ All(A) = {t1, i1}
    <3>1. A \in Seq(StepRecords) /\ Len(A) = 2 /\ A[1] = t1 /\ A[2] = i1
      OBVIOUS
    <3>2. InOrder(t1, i1)
      BY <1>4 DEF InOrder, Ends, Waits
    <3> HIDE DEF A
    <3> QED
      BY <3>1, <3>2 DEF Ordered, All
  <2>2. B \in Seq(StepRecords) /\ B # <<>> /\ Ordered(B) /\ All(B) = {t2, t3, t4} /\ Last(B) = t4
    BY <1>4, Triple DEF InOrder, Ends, Waits
  <2> HIDE DEF A, B
  <2>3. \A t \in {t1, i1}, u \in {t2, t3, t4} : InOrder(t, u)
    BY <1>4 DEF InOrder, Ends, Waits
  <2>4. LET q == A \o B
        IN q \in Seq(StepRecords) /\ q # <<>> /\ All(q) = {t1, i1, t2, t3, t4} /\ Last(q) = t4 /\ Ordered(q)
    BY <2>1, <2>2, <2>3, Joined
  <2>5. \A t \in {t1, i1, t2, t3, t4} : StepOk(t, t4)
    BY <1>4 DEF StepOk, Parts, Building
  <2> QED
    BY <1>5, <2>4, <2>5 DEF ProgOk, A, B
<1>7. /\ ProgOk(unwind') /\ unwind' # <<>>
      /\ All(unwind') \subseteq {f, e}
      /\ DisableDoes(m) => e \in All(unwind')
  <2>1. StepOk(f, f) /\ StepOk(e, e) /\ StepOk(f, e) /\ InOrder(f, e)
    BY <1>4 DEF StepOk, InOrder, Parts, Ends, Waits, Building
  <2> DEFINE F == <<f>>
             E == <<e>>
  <2>2. ProgOk(F) /\ F # <<>> /\ All(F) = {f} /\ ProgOk(E) /\ E # <<>> /\ All(E) = {e} /\ Last(E) = e
    BY <2>1, OneStep
  <2>3. CASE z = <<>>
    <3>1. unwind' = F
      BY <1>5, <2>3
    <3> QED
      BY <1>5, <2>2, <2>3, <3>1
  <2>4. CASE z = E
    <3> HIDE DEF E
    <3>1. LET q == <<f>> \o E IN ProgOk(q) /\ q # <<>> /\ All(q) = {f} \union All(E)
      BY <2>1, <2>2, MoreSteps
    <3> QED
      BY <1>5, <2>2, <2>4, <3>1
  <2> QED
    BY <1>5, <2>3, <2>4
<1>8. /\ \A b \in Adapters : b # P2p => ad'[b] = ad[b]
      /\ ad'[P2p] = Fresh(m) /\ ad' \in [Adapters -> AdRecords]
      /\ ~ad'[P2p].listed /\ ad'[P2p].mode = m /\ ~ad'[P2p].sess /\ ~ad'[P2p].bss
      /\ ad'[P2p].conn = "NotConnected"
  <2>1. Fresh(m) \in AdRecords
    BY DEF Fresh, AdRecords, Modes, Conns
  <2>2. ad' \in [Adapters -> AdRecords]
    BY <1>1, <1>5, <2>1, OneChanged
  <2> QED
    BY <1>1, <1>5, <2>2 DEF Fresh
<1>9. /\ \A s : Ending(s)' => s = "count"
      /\ \A a : Pending(a)' <=> a = P2p
      /\ \A a : ~Pending(a)
      /\ NoWaits(prog')
  BY <1>4, <1>5, <1>6, AtRest DEF Ending, Pending, Pends, NoWaits, Waits
<1>10. AdTypeOK'
  <2>1. ps' \subseteq {"bmps", "imps"}
    BY <1>5 DEF AfterDisable, Inv, Control, AdTypeOK
  <2> QED
    BY <1>5, <1>8, <2>1 DEF Inv, Control, AdTypeOK
<1>11. Control'
  <2>1. UnwindOk'
    <3>1. Last(prog').a = P2p /\ ~Has(prog', "enable") /\ ~Ending("roam")' /\ ~ad'[P2p].listed
      BY <1>4, <1>6, <1>8, <1>9 DEF Has
    <3>2. \A t \in All(unwind') : t.s \in {"free", "enable"} /\ t.a = P2p
      BY <1>4, <1>7
    <3> QED
      BY <1>7, <3>1, <3>2 DEF UnwindOk
  <2>2. ModesOk'
    <3>1. ad'[Wlan] = ad[Wlan]
      BY <1>1, <1>8, PersonasAssumption
    <3>2. ~Ending("roam")' /\ ~Ending("standby")' /\ ~Ending("notconn")' /\ ~Ending("ready")'
      BY <1>9
    <3>3. \A t \in All(prog') : t.s \notin {"close", "disable", "mode"}
      BY <1>4, <1>6
    <3>4. Has(prog', "list") /\ ~Has(prog', "close") /\ ~Has(prog', "disable")
      BY <1>4, <1>6 DEF Has
    <3> QED
      BY <1>8, <3>1, <3>2, <3>3, <3>4 DEF Inv, Control, ModesOk
  <2> QED
    BY <1>6, <1>10, <2>1, <2>2 DEF Control
<1>12. OpenInv'
  <2>1. \A n \in CountedModes : ~Counted(P2p, n) /\ ~Counted(P2p, n)'
    BY <1>5, <1>8 DEF Counted
  <2>2. \A a \in Adapters, n \in CountedModes : a # P2p => (Counted(a, n)' <=> Counted(a, n))
    BY <1>8, <1>9 DEF Counted
  <2> QED
    BY <1>5, <2>1, <2>2, OpenCounted DEF Inv
<1>13. SessionInv'
  <2> SUFFICES ASSUME Prompt', NEW a \in Adapters PROVE SessionOk(a)'
    BY DEF SessionInv
  <2>1. SessionOk(a) /\ \A s : ~HeadIs(s, a)
    BY <1>5, AtRest DEF Inv, SessionInv, Prompt
  <2>2. CASE a = P2p
    BY <1>5, <1>8, <2>2 DEF SessionOk
  <2>3. CASE a # P2p
    <3>1. ~Pends(prog, "count", a)' /\ ad'[a] = ad[a]
      BY <1>8, <1>9, <2>3 DEF Pending
    <3> QED
      BY <1>5, <2>1, <3>1 DEF SessionOk, Kept
  <2> QED
    BY <2>2, <2>3
<1>14. PowerInv'
  <2>1. CASE DisableDoes(m)
    <3>1. Has(prog', "list") /\ Has(unwind', "enable")
      BY <1>4, <1>6, <1>7, <2>1 DEF Has
    <3> QED
      BY <3>1 DEF PowerInv, Excuse
  <2>2. CASE ~DisableDoes(m)
    <3>1. ps' = ps
      BY <1>5, <2>2 DEF AfterDisable, DisableDoes
    <3>2. ad'[P2p].listed = ad[P2p].listed /\ ad'[Wlan].mode = ad[Wlan].mode
      BY <1>1, <1>5, <1>8, PersonasAssumption DEF AdRecords
    <3> QED
      BY <1>5, <3>1, <3>2, PowerAtRest
  <2> QED
    BY <2>1, <2>2
<1>15. CASE Prompt
  <2>1. sme[P2p].link = "idle" /\ ~ad[P2p].bss
    BY <1>1, <1>5, <1>15, LinkAtRest DEF LinkOk
  <2>2. LinkOk(P2p)'
    BY <1>5, <1>8, <2>1 DEF LinkOk, HeadIs
  <2>3. ASSUME NEW a \in Adapters, a # P2p PROVE LinkOk(a)'
    BY <1>5, <1>6, <1>8, <1>9, <1>15, <2>3, LinkQuiet DEF SameLink, Inv, Idle
  <2>4. LinkSteps'
    <3>1. \A t \in All(prog') : t.a = P2p
      BY <1>4, <1>6
    <3>2. ~Ending("roam")' /\ ~Ending("close")' /\ ~Ending("notconn")' /\ ~ad'[Last(prog').a].bss
      BY <1>4, <1>6, <1>8, <1>9
    <3> QED
      BY <1>5, <2>1, <3>1, <3>2 DEF LinkSteps
  <2>5. ActiveInv'
    <3>1. \A n \in CountedModes : ~Acts(P2p, n)' /\ ~Acts(P2p, n)
      BY <1>5, <1>8, <2>1 DEF Acts
    <3>2. \A b \in Adapters, n \in CountedModes : b # P2p => (Acts(b, n)' <=> Acts(b, n))
      BY <1>5, <1>8 DEF Acts
    <3> QED
      BY <1>5, <3>1, <3>2, ActiveSame DEF Inv
  <2> QED
    BY <1>11, <1>12, <1>13, <1>14, <2>2, <2>3, <2>4, <2>5 DEF Inv, LinkInv
<1>16. CASE ~Prompt
  BY <1>5, <1>11, <1>12, <1>13, <1>14, <1>16 DEF Inv, LinkInv, ActiveInv, Prompt
<1> QED
  BY <1>15, <1>16

-----------------------------------------------------------------------------
(* The invariant.                                                          *)
LEMMA InvInit == Init => Inv
<1> SUFFICES ASSUME Init PROVE Inv
  OBVIOUS
<1>1. /\ prog = <<>> /\ unwind = <<>> /\ mishap = {} /\ logp = FALSE /\ ps = {"bmps", "imps"}
      /\ open = [m \in CountedModes |-> IF m = "sta" THEN 1 ELSE 0]
      /\ active = [m \in CountedModes |-> 0]
      /\ sme = [a \in Adapters |-> [NoSme EXCEPT !.session = TRUE]]
      /\ comp = [a \in Adapters |-> NoComp]
  BY DEF Init
<1>2. \A a \in Adapters :
        /\ ad[a].listed /\ ad[a].mode = (IF a = Wlan THEN "sta" ELSE "p2pdev") /\ ad[a].sess
        /\ ad[a].conn = "NotConnected" /\ ~ad[a].bss
        /\ ad[a] \in AdRecords
  BY DEF Init, Fresh, AdRecords, Modes, Conns
<1>3. \A a \in Adapters : /\ sme[a].session /\ sme[a].link = "idle" /\ ~sme[a].opening /\ ~sme[a].closing
                          /\ sme[a] \in SmeRecords /\ comp[a] \in CompRecords
  BY <1>1 DEF NoSme, SmeRecords, Links, NoComp, CompRecords
<1>4. AdTypeOK
  <2>1. ad \in [Adapters -> AdRecords]
    BY <1>2 DEF Init
  <2>2. sme \in [Adapters -> SmeRecords] /\ comp \in [Adapters -> CompRecords]
    BY <1>1, <1>3
  <2>3. open \in [CountedModes -> 0..255] /\ active \in [CountedModes -> Nat]
    BY <1>1
  <2>4. ps \subseteq {"bmps", "imps"} /\ logp \in BOOLEAN
    BY <1>1
  <2> QED
    BY <2>1, <2>2, <2>3, <2>4 DEF AdTypeOK
<1>5. All(prog) = {} /\ (\A s : ~Ending(s)) /\ (\A a, s : ~HeadIs(s, a)) /\ (\A a : ~Pending(a))
  BY <1>1, NoSteps DEF Ending, HeadIs, Pending, Pends
<1>6. Control
  BY <1>1, <1>2, <1>4, <1>5, NoSteps, PersonasAssumption DEF Control, UnwindOk, ModesOk, Has, Adapters
<1>7. OpenInv
  <2>1. \A m \in CountedModes : /\ Counted(Wlan, m) <=> m = "sta"
                                /\ ~Counted(P2p, m)
    BY <1>2, <1>5, PersonasAssumption DEF Counted, Adapters, CountedModes
  <2> QED
    BY <1>1, <2>1 DEF OpenInv, One
<1>8. LinkInv
  <2>1. \A a \in Adapters : LinkOk(a)
    BY <1>2, <1>3, <1>5 DEF LinkOk
  <2> QED
    BY <1>5, <2>1 DEF LinkInv, LinkSteps
<1>9. ActiveInv
  BY <1>1, <1>2, <1>3 DEF ActiveInv, Acts, One, Adapters
<1>10. SessionInv
  BY <1>2, <1>3 DEF SessionInv, SessionOk
<1> QED
  BY <1>1, <1>6, <1>7, <1>8, <1>9, <1>10 DEF Inv, PowerInv

LEMMA InvStep == Inv /\ [Next]_vars => Inv'
<1> SUFFICES ASSUME Inv, [Next]_vars PROVE Inv'
  OBVIOUS
<1>1. CASE UNCHANGED vars
  BY <1>1, Untouched DEF vars, Inv, Control, AdTypeOK
<1>2. CASE Requests
  <2>1. ASSUME NEW a \in Adapters,
               IfUp(a) \/ IfDown(a) \/ Connect(a) \/ Disconnect(a) \/ StartAp(a) \/ StopAp(a)
        PROVE  Inv'
    BY <2>1, IfUpKeeps, IfDownKeeps, ConnectKeeps, DisconnectKeeps, ApRequestsKeep
  <2>2. ASSUME NEW a \in Adapters, NEW type \in Types, ChangeIface(a, type) PROVE Inv'
    BY <2>2, ChangeKeeps
  <2>3. ASSUME NEW m \in {"p2pdev", "client", "go"}, OpenAdapter(m) PROVE Inv'
    BY <2>3, OpenKeeps
  <2> QED
    BY <1>2, <2>1, <2>2, <2>3, DelAdapterKeeps DEF Requests
<1>3. CASE Steps
  <2>1. ASSUME Standby \/ SetPrivacy \/ HalfWay \/ Alloc PROVE Inv'
    BY <2>1, SimpleStepsKeep
  <2>2. ASSUME TryDisconnect \/ ConnectStart \/ WaitDisconnect \/ SetNotConnected PROVE Inv'
    BY <2>2, TryDisconnectKeeps, ConnectStartKeeps, WaitDisconnectKeeps, NotConnectedKeeps
  <2>3. ASSUME StopAdapter \/ CloseSession \/ WaitClose \/ Deinit \/ CloseAdapter PROVE Inv'
    BY <2>3, StopKeeps, CloseSessionKeeps, WaitCloseKeeps, DeinitKeeps, CloseKeeps
  <2>4. ASSUME InitStation \/ WaitOpen \/ Disable \/ Enable \/ SetMode \/ SetIbss PROVE Inv'
    BY <2>4, InitStationKeeps, WaitOpenKeeps, DisableKeeps, EnableKeeps, SetModeKeeps
  <2>5. ASSUME Count \/ Country \/ FreeNetdev \/ List \/ Ready PROVE Inv'
    BY <2>5, CountKeeps, CountryKeeps, FreeKeeps, ListKeeps, DeinitKeeps
  <2>6. ASSUME Call("tdls", "tdls") \/ Call("initap", "ap") \/ Call("register", "register") PROVE Inv'
    BY <2>6, CallKeeps
  <2> QED
    BY <1>3, <2>1, <2>2, <2>3, <2>4, <2>5, <2>6 DEF Steps
<1>4. ASSUME NEW a \in Adapters, Answers(a) PROVE Inv'
  BY <1>4, SessionOpenedKeeps, SessionClosedKeeps, DisconnectedKeeps, ConnectResultKeeps DEF Answers
<1> QED
  BY <1>1, <1>2, <1>3, <1>4, ResetKeeps, StartAllKeeps DEF Next

(* The bookkeeping holds in every reachable state.                          *)
THEOREM Invariant == Spec => []Inv
<1> QED
  BY InvInit, InvStep, PTL DEF Spec

-----------------------------------------------------------------------------
(* What the invariant says between requests.                               *)
LEMMA OfTheTwo ==
    ASSUME NEW S \in SUBSET Adapters
    PROVE  Cardinality(S) = One(Wlan \in S) + One(P2p \in S)
<1>1. IsFiniteSet({}) /\ Cardinality({}) = 0
  BY FS_EmptySet
<1>2. \A x : IsFiniteSet({x}) /\ Cardinality({x}) = 1
  BY FS_Singleton
<1>3. Cardinality({Wlan} \union {P2p}) = 2
  <2>1. IsFiniteSet({Wlan}) /\ Cardinality({Wlan}) = 1 /\ P2p \notin {Wlan}
    BY <1>2, PersonasAssumption
  <2>2. Cardinality({Wlan} \union {P2p}) = Cardinality({Wlan}) + 1
    BY <2>1, FS_AddElement
  <2> QED
    BY <2>1, <2>2
<1>4. CASE Wlan \in S /\ P2p \in S
  <2>1. S = {Wlan} \union {P2p}
    BY <1>4 DEF Adapters
  <2> QED
    BY <1>3, <1>4, <2>1 DEF One
<1>5. CASE Wlan \in S /\ P2p \notin S
  <2>1. S = {Wlan}
    BY <1>5 DEF Adapters
  <2> QED
    BY <1>2, <1>5, <2>1 DEF One
<1>6. CASE Wlan \notin S /\ P2p \in S
  <2>1. S = {P2p}
    BY <1>6 DEF Adapters
  <2>2. Cardinality(S) = 1
    BY <1>2, <2>1
  <2>3. One(Wlan \in S) = 0 /\ One(P2p \in S) = 1
    BY <1>6 DEF One
  <2> QED
    BY <2>2, <2>3
<1>7. CASE Wlan \notin S /\ P2p \notin S
  <2>1. S = {}
    BY <1>7 DEF Adapters
  <2> QED
    BY <1>1, <1>7, <2>1 DEF One
<1> QED
  BY <1>4, <1>5, <1>6, <1>7

LEMMA InvCounts == Inv => OpenCountsPersonas
<1> SUFFICES ASSUME Inv, Settled, "half" \notin mishap, NEW m \in CountedModes
             PROVE  open[m] = Cardinality({a \in Adapters : ad[a].listed /\ ad[a].mode = m})
  BY DEF OpenCountsPersonas
<1>1. \A a : ~Pending(a)
  BY AtRest DEF Settled
<1>2. open[m] = One(Counted(Wlan, m)) + One(Counted(P2p, m))
  BY DEF Inv, OpenInv
<1> DEFINE S == {a \in Adapters : ad[a].listed /\ ad[a].mode = m}
<1>3. /\ Wlan \in S <=> Counted(Wlan, m)
      /\ P2p \in S <=> Counted(P2p, m)
  BY <1>1 DEF Counted, Adapters
<1>4. S \in SUBSET Adapters
  OBVIOUS
<1> HIDE DEF S
<1>5. Cardinality(S) = One(Wlan \in S) + One(P2p \in S)
  BY <1>4, OfTheTwo
<1>6. Cardinality(S) = open[m]
  BY <1>2, <1>3, <1>5 DEF One
<1> QED
  BY <1>6 DEF S

LEMMA InvActive == Inv => ActiveCountsLinks
<1> SUFFICES ASSUME Inv, Settled, Prompt, NEW m \in CountedModes
             PROVE  active[m] = Cardinality({a \in Adapters : Running(a) /\ ad[a].mode = m})
  BY DEF ActiveCountsLinks, Prompt
<1>1. active[m] = One(Acts(Wlan, m)) + One(Acts(P2p, m))
  BY DEF Inv, ActiveInv
<1>2. ASSUME NEW a \in Adapters PROVE Running(a) /\ ad[a].mode = m <=> Acts(a, m)
  <2>1. LinkOk(a) /\ sme[a].link # "leaving" /\ ~HeadIs("waitopen", a) /\ sme[a].link \in Links
    BY AtRest, LinkAtRest DEF Settled, Inv, Control, AdTypeOK, SmeRecords
  <2>2. CASE m \in ApModes
    BY <2>1, <2>2 DEF Running, Acts, LinkOk
  <2>3. CASE m \notin ApModes
    BY <2>1, <2>3 DEF Running, Acts, LinkOk, Links
  <2> QED
    BY <2>2, <2>3
<1> DEFINE S == {a \in Adapters : Running(a) /\ ad[a].mode = m}
<1>3. /\ Wlan \in S <=> Acts(Wlan, m)
      /\ P2p \in S <=> Acts(P2p, m)
  BY <1>2 DEF Adapters
<1>4. S \in SUBSET Adapters
  OBVIOUS
<1> HIDE DEF S
<1>5. Cardinality(S) = One(Wlan \in S) + One(P2p \in S)
  BY <1>4, OfTheTwo
<1>6. Cardinality(S) = active[m]
  BY <1>1, <1>3, <1>5 DEF One
<1> QED
  BY <1>6 DEF S

LEMMA InvSession == Inv => SessionFlagTrue
<1> SUFFICES ASSUME Inv, Settled, Prompt, NEW a \in Adapters, ad[a].listed
             PROVE  /\ sme[a].session => ad[a].sess
                    /\ ad[a].sess /\ "ssr" \notin mishap => sme[a].session
  BY DEF SessionFlagTrue, Prompt
<1>1. SessionOk(a) /\ ~HeadIs("waitclose", a)
  BY AtRest DEF Inv, SessionInv, Settled
<1> QED
  BY <1>1 DEF SessionOk, Kept, Settled

LEMMA InvPower == Inv => PowerSaveComesBack
<1> SUFFICES ASSUME Inv, Settled, mishap \intersect {"half", "alloc", "privacy", "late"} = {},
                    {a \in Adapters : ad[a].listed} = {Wlan}, ad[Wlan].mode = "sta"
             PROVE  ps = {"bmps", "imps"}
  BY DEF PowerSaveComesBack
<1>1. ~ad[P2p].listed
  BY PersonasAssumption DEF Adapters
<1>2. ~Excuse
  BY <1>1, AtRest DEF Excuse, Settled
<1> QED
  BY <1>2 DEF Inv, PowerInv

(* Between requests wlan_hdd_set/clear_concurrency_mode have counted every *)
(* interface of the list once, whatever failed, timed out or was restarted *)
(* in between, unless a change of type returned early.                     *)
THEOREM Personas == Spec => []OpenCountsPersonas
<1> QED
  BY Invariant, InvCounts, PTL

(* Between requests incr/decr_active_session have counted every link and   *)
(* BSS once, through disconnections by the peer that race with requests    *)
(* and through restarts, as long as no wait gave up on an answer that was  *)
(* under way.                                                              *)
THEOREM Active == Spec => []ActiveCountsLinks
<1> QED
  BY Invariant, InvActive, PTL

(* Between requests SME_SESSION_OPENED is set exactly for the interfaces   *)
(* with a session in SME; no late hdd_smeCloseSessionCallback takes the    *)
(* flag of the session that followed.                                      *)
THEOREM Sessions == Spec => []SessionFlagTrue
<1> QED
  BY Invariant, InvSession, PTL

(* hdd_disable_bmps_imps and hdd_enable_bmps_imps balance: with a single   *)
(* station left both power saves are on, but for the returns that the      *)
(* property names.                                                         *)
THEOREM PowerSaves == Spec => []PowerSaveComesBack
<1> QED
  BY Invariant, InvPower, PTL
=============================================================================
