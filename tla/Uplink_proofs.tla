--------------------------- MODULE Uplink_proofs ---------------------------
(***************************************************************************)
(* Proofs about Uplink for any set of routers, any thresholds and any      *)
(* number of events and failures: when the manager sleeps and nobody is    *)
(* about to wake it, routes and DNS servers are those of the current lease *)
(* and of the decision, although it decides on what it read before its     *)
(* probes.                                                                 *)
(***************************************************************************)
EXTENDS Uplink, TLAPS

\* Somebody has woken the manager, or the DHCP handler has not ended: a cycle that
\* reads everything again is still to come.
Pending == wake \/ dhcp # "idle"

\* Between the reading of the lease and the end of the cycle.
InCycle == pc \in {"probe", "candidate", "decide", "dns"}

\* The handler's steps keep address, routes and lease in order.
LeaseInv ==
  /\ ~addr => r40 = NoGw /\ r100 = NoGw
  /\ addr /\ lease = NoGw => dhcp = "lease"
  /\ dhcp = "lease" => offered # NoGw
  /\ dhcp = "dns" => offered = lease
  /\ staOk => staGw # NoGw
  /\ modemUp <=> rModem # {}

\* What the cycle has read is what the lease says, or it will be read again.
ReadInv ==
  InCycle /\ ~Pending =>
    IF staOk THEN staGw = lease ELSE r40 = NoGw /\ r100 = NoGw

\* What the cycle has written so far.
RouteInv ==
  /\ pc \in {"decide", "dns", "sleep"} /\ ~Pending =>
       r100 \in {NoGw, lease} /\ (policy = "modem" => r100 = NoGw)
  /\ pc \in {"dns", "sleep"} /\ ~Pending =>
       r40 \in {NoGw, lease} /\ (active = "sta" /\ addr => r40 # NoGw)
  /\ pc \in {"dns", "sleep"} => /\ active # "sta" => r40 = NoGw
                                /\ policy = "modem" => active # "sta"
  /\ pc = "dns" /\ active = "sta" => staOk

\* The manager may skip what it wrote last: the handler wrote the same since.
DnsInv ==
  /\ prevDns # NoGw /\ prevDns = Servers(lease) /\ dhcp \in {"idle", "signal"} =>
       dns = prevDns
  /\ pc = "sleep" /\ ~Pending /\ active = "sta" => dns = Servers(lease)

\* The inductive invariant, in its parts.
Inv == TypeOK /\ LeaseInv /\ ReadInv /\ RouteInv /\ DnsInv

-----------------------------------------------------------------------------
\* The flags stay flags.
LEMMA FlagStep ==
  ASSUME FlagTypeOK, [Next]_vars
  PROVE  FlagTypeOK'
<1> USE UplinkAssumption DEF UplinkAssumption, kernel, manager, readings, FlagTypeOK
<1>1. CASE Start
  BY <1>1 DEF Start
<1>2. CASE Top
  BY <1>2 DEF Top
<1>3. CASE Read
  BY <1>3 DEF Read
<1>4. CASE Probe
  BY <1>4 DEF Probe, Lost, Fault
<1>5. CASE CandidateRoute
  BY <1>5 DEF CandidateRoute
<1>6. CASE Decide
  BY <1>6 DEF Decide, Choice, StaHealthy, ModemHealthy
<1>7. CASE ApplyDns
  BY <1>7 DEF ApplyDns
<1>8. CASE Wakes
  BY <1>8 DEF Wakes
<1>9. CASE WriteLease
  BY <1>9 DEF WriteLease
<1>10. CASE WriteDns
  BY <1>10 DEF WriteDns
<1>11. CASE SignalMgr
  BY <1>11 DEF SignalMgr, Signal
<1>12. CASE Killed
  BY <1>12 DEF Killed, Fault
<1>13. ASSUME NEW gw \in Gateways, Bound(gw) PROVE FlagTypeOK'
  BY <1>13 DEF Bound, Flush, Event
<1>14. CASE Deconfig
  BY <1>14 DEF Deconfig, Flush, Event
<1>15. CASE LeaseFail
  BY <1>15 DEF LeaseFail, Event
<1>16. CASE VifLost
  BY <1>16 DEF VifLost, Flush, Fault
<1>17. CASE ModemUp
  BY <1>17 DEF ModemUp
<1>18. CASE ModemDown
  BY <1>18 DEF ModemDown, Fault
<1>19. CASE PathBreaks
  BY <1>19 DEF PathBreaks, Fault
<1>20. CASE PathWorks
  BY <1>20 DEF PathWorks
<1>21. ASSUME NEW p \in Policies, SetPolicy(p) PROVE FlagTypeOK'
  BY <1>21 DEF SetPolicy, Signal, Event
<1>23. CASE Provision
  BY <1>23 DEF Provision
<1>22. CASE UNCHANGED vars
  BY <1>22 DEF vars
<1> QED
  BY <1>1, <1>2, <1>3, <1>4, <1>5, <1>6, <1>7, <1>8, <1>9, <1>10, <1>11, <1>12, <1>13, <1>14, <1>15, <1>16, <1>17, <1>18, <1>19, <1>20, <1>21, <1>22, <1>23 DEF Next, Manager, Handler

\* Routes, leases and servers stay what they are.
LEMMA GwStep ==
  ASSUME GwTypeOK, [Next]_vars
  PROVE  GwTypeOK'
<1> USE UplinkAssumption DEF UplinkAssumption, kernel, manager, readings, GwTypeOK, Gws, Servers
<1>1. CASE Start
  BY <1>1 DEF Start
<1>2. CASE Top
  BY <1>2 DEF Top
<1>3. CASE Read
  BY <1>3 DEF Read
<1>4. CASE Probe
  BY <1>4 DEF Probe, Lost, Fault
<1>5. CASE CandidateRoute
  BY <1>5 DEF CandidateRoute
<1>6. CASE Decide
  BY <1>6 DEF Decide, Choice, StaHealthy, ModemHealthy
<1>7. CASE ApplyDns
  BY <1>7 DEF ApplyDns
<1>8. CASE Wakes
  BY <1>8 DEF Wakes
<1>9. CASE WriteLease
  BY <1>9 DEF WriteLease
<1>10. CASE WriteDns
  BY <1>10 DEF WriteDns
<1>11. CASE SignalMgr
  BY <1>11 DEF SignalMgr, Signal
<1>12. CASE Killed
  BY <1>12 DEF Killed, Fault
<1>13. ASSUME NEW gw \in Gateways, Bound(gw) PROVE GwTypeOK'
  BY <1>13 DEF Bound, Flush, Event
<1>14. CASE Deconfig
  BY <1>14 DEF Deconfig, Flush, Event
<1>15. CASE LeaseFail
  BY <1>15 DEF LeaseFail, Event
<1>16. CASE VifLost
  BY <1>16 DEF VifLost, Flush, Fault
<1>17. CASE ModemUp
  BY <1>17 DEF ModemUp
<1>18. CASE ModemDown
  BY <1>18 DEF ModemDown, Fault
<1>19. CASE PathBreaks
  BY <1>19 DEF PathBreaks, Fault
<1>20. CASE PathWorks
  BY <1>20 DEF PathWorks
<1>21. ASSUME NEW p \in Policies, SetPolicy(p) PROVE GwTypeOK'
  BY <1>21 DEF SetPolicy, Signal, Event
<1>23. CASE Provision
  BY <1>23 DEF Provision
<1>22. CASE UNCHANGED vars
  BY <1>22 DEF vars
<1> QED
  BY <1>1, <1>2, <1>3, <1>4, <1>5, <1>6, <1>7, <1>8, <1>9, <1>10, <1>11, <1>12, <1>13, <1>14, <1>15, <1>16, <1>17, <1>18, <1>19, <1>20, <1>21, <1>22, <1>23 DEF Next, Manager, Handler

\* The counters stay in their ranges, the control points among theirs.
LEMMA CountStep ==
  ASSUME CountTypeOK, [Next]_vars
  PROVE  CountTypeOK'
<1> USE UplinkAssumption DEF UplinkAssumption, kernel, manager, readings, CountTypeOK, Pcs
<1>1. CASE Start
  BY <1>1 DEF Start
<1>2. CASE Top
  BY <1>2 DEF Top
<1>3. CASE Read
  BY <1>3 DEF Read
<1>4. CASE Probe
  BY <1>4 DEF Probe, Lost, Fault
<1>5. CASE CandidateRoute
  BY <1>5 DEF CandidateRoute
<1>6. CASE Decide
  BY <1>6 DEF Decide, Choice, StaHealthy, ModemHealthy
<1>7. CASE ApplyDns
  BY <1>7 DEF ApplyDns
<1>8. CASE Wakes
  BY <1>8 DEF Wakes
<1>9. CASE WriteLease
  BY <1>9 DEF WriteLease
<1>10. CASE WriteDns
  BY <1>10 DEF WriteDns
<1>11. CASE SignalMgr
  BY <1>11 DEF SignalMgr, Signal
<1>12. CASE Killed
  BY <1>12 DEF Killed, Fault
<1>13. ASSUME NEW gw \in Gateways, Bound(gw) PROVE CountTypeOK'
  BY <1>13 DEF Bound, Flush, Event
<1>14. CASE Deconfig
  BY <1>14 DEF Deconfig, Flush, Event
<1>15. CASE LeaseFail
  BY <1>15 DEF LeaseFail, Event
<1>16. CASE VifLost
  BY <1>16 DEF VifLost, Flush, Fault
<1>17. CASE ModemUp
  BY <1>17 DEF ModemUp
<1>18. CASE ModemDown
  BY <1>18 DEF ModemDown, Fault
<1>19. CASE PathBreaks
  BY <1>19 DEF PathBreaks, Fault
<1>20. CASE PathWorks
  BY <1>20 DEF PathWorks
<1>21. ASSUME NEW p \in Policies, SetPolicy(p) PROVE CountTypeOK'
  BY <1>21 DEF SetPolicy, Signal, Event
<1>23. CASE Provision
  BY <1>23 DEF Provision
<1>22. CASE UNCHANGED vars
  BY <1>22 DEF vars
<1> QED
  BY <1>1, <1>2, <1>3, <1>4, <1>5, <1>6, <1>7, <1>8, <1>9, <1>10, <1>11, <1>12, <1>13, <1>14, <1>15, <1>16, <1>17, <1>18, <1>19, <1>20, <1>21, <1>22, <1>23 DEF Next, Manager, Handler

\* No route without an address, no address without a lease to come.
LEMMA LeaseStep ==
  ASSUME TypeOK, LeaseInv, [Next]_vars
  PROVE  LeaseInv'
<1> USE UplinkAssumption DEF UplinkAssumption, kernel, manager, readings, TypeOK, GwTypeOK, FlagTypeOK, CountTypeOK, Gws, LeaseInv
<1>1. CASE Start
  BY <1>1 DEF Start
<1>2. CASE Top
  BY <1>2 DEF Top
<1>3. CASE Read
  BY <1>3 DEF Read
<1>4. CASE Probe
  BY <1>4 DEF Probe, Lost, Fault
<1>5. CASE CandidateRoute
  BY <1>5 DEF CandidateRoute
<1>6. CASE Decide
  BY <1>6 DEF Decide, Choice, StaHealthy, ModemHealthy
<1>7. CASE ApplyDns
  BY <1>7 DEF ApplyDns
<1>8. CASE Wakes
  BY <1>8 DEF Wakes
<1>9. CASE WriteLease
  BY <1>9 DEF WriteLease
<1>10. CASE WriteDns
  BY <1>10 DEF WriteDns
<1>11. CASE SignalMgr
  BY <1>11 DEF SignalMgr, Signal
<1>12. CASE Killed
  BY <1>12 DEF Killed, Fault
<1>13. ASSUME NEW gw \in Gateways, Bound(gw) PROVE LeaseInv'
  BY <1>13 DEF Bound, Flush, Event
<1>14. CASE Deconfig
  BY <1>14 DEF Deconfig, Flush, Event
<1>15. CASE LeaseFail
  BY <1>15 DEF LeaseFail, Event
<1>16. CASE VifLost
  BY <1>16 DEF VifLost, Flush, Fault
<1>17. CASE ModemUp
  BY <1>17 DEF ModemUp
<1>18. CASE ModemDown
  BY <1>18 DEF ModemDown, Fault
<1>19. CASE PathBreaks
  BY <1>19 DEF PathBreaks, Fault
<1>20. CASE PathWorks
  BY <1>20 DEF PathWorks
<1>21. ASSUME NEW p \in Policies, SetPolicy(p) PROVE LeaseInv'
  BY <1>21 DEF SetPolicy, Signal, Event
<1>23. CASE Provision
  BY <1>23 DEF Provision
<1>22. CASE UNCHANGED vars
  BY <1>22 DEF vars
<1> QED
  BY <1>1, <1>2, <1>3, <1>4, <1>5, <1>6, <1>7, <1>8, <1>9, <1>10, <1>11, <1>12, <1>13, <1>14, <1>15, <1>16, <1>17, <1>18, <1>19, <1>20, <1>21, <1>22, <1>23 DEF Next, Manager, Handler

\* Every change of the lease after the manager has read it leaves a wake-up behind.
LEMMA ReadStep ==
  ASSUME TypeOK, LeaseInv, ReadInv, [Next]_vars
  PROVE  ReadInv'
<1> USE UplinkAssumption DEF UplinkAssumption, kernel, manager, readings, TypeOK, GwTypeOK, FlagTypeOK, CountTypeOK, Gws, LeaseInv, ReadInv, InCycle, Pending
<1>1. CASE Start
  BY <1>1 DEF Start
<1>2. CASE Top
  BY <1>2 DEF Top
<1>3. CASE Read
  BY <1>3 DEF Read
<1>4. CASE Probe
  BY <1>4 DEF Probe, Lost, Fault
<1>5. CASE CandidateRoute
  BY <1>5 DEF CandidateRoute
<1>6. CASE Decide
  BY <1>6 DEF Decide, Choice, StaHealthy, ModemHealthy
<1>7. CASE ApplyDns
  BY <1>7 DEF ApplyDns
<1>8. CASE Wakes
  BY <1>8 DEF Wakes
<1>9. CASE WriteLease
  BY <1>9 DEF WriteLease
<1>10. CASE WriteDns
  BY <1>10 DEF WriteDns
<1>11. CASE SignalMgr
  BY <1>11 DEF SignalMgr, Signal
<1>12. CASE Killed
  BY <1>12 DEF Killed, Fault
<1>13. ASSUME NEW gw \in Gateways, Bound(gw) PROVE ReadInv'
  BY <1>13 DEF Bound, Flush, Event
<1>14. CASE Deconfig
  BY <1>14 DEF Deconfig, Flush, Event
<1>15. CASE LeaseFail
  BY <1>15 DEF LeaseFail, Event
<1>16. CASE VifLost
  BY <1>16 DEF VifLost, Flush, Fault
<1>17. CASE ModemUp
  BY <1>17 DEF ModemUp
<1>18. CASE ModemDown
  BY <1>18 DEF ModemDown, Fault
<1>19. CASE PathBreaks
  BY <1>19 DEF PathBreaks, Fault
<1>20. CASE PathWorks
  BY <1>20 DEF PathWorks
<1>21. ASSUME NEW p \in Policies, SetPolicy(p) PROVE ReadInv'
  BY <1>21 DEF SetPolicy, Signal, Event
<1>23. CASE Provision
  BY <1>23 DEF Provision
<1>22. CASE UNCHANGED vars
  BY <1>22 DEF vars
<1> QED
  BY <1>1, <1>2, <1>3, <1>4, <1>5, <1>6, <1>7, <1>8, <1>9, <1>10, <1>11, <1>12, <1>13, <1>14, <1>15, <1>16, <1>17, <1>18, <1>19, <1>20, <1>21, <1>22, <1>23 DEF Next, Manager, Handler

\* So what the cycle writes is what the lease says, or is written again.
LEMMA RouteStep ==
  ASSUME TypeOK, LeaseInv, ReadInv, RouteInv, [Next]_vars
  PROVE  RouteInv'
<1> USE UplinkAssumption DEF UplinkAssumption, kernel, manager, readings, TypeOK, GwTypeOK, FlagTypeOK, CountTypeOK, Gws, LeaseInv, ReadInv, RouteInv, InCycle, Pending
<1>1. CASE Start
  BY <1>1 DEF Start
<1>2. CASE Top
  BY <1>2 DEF Top
<1>3. CASE Read
  BY <1>3 DEF Read
<1>4. CASE Probe
  BY <1>4 DEF Probe, Lost, Fault
<1>5. CASE CandidateRoute
  BY <1>5 DEF CandidateRoute
<1>6. CASE Decide
  BY <1>6 DEF Decide, Choice, StaHealthy, ModemHealthy
<1>7. CASE ApplyDns
  BY <1>7 DEF ApplyDns
<1>8. CASE Wakes
  BY <1>8 DEF Wakes
<1>9. CASE WriteLease
  BY <1>9 DEF WriteLease
<1>10. CASE WriteDns
  BY <1>10 DEF WriteDns
<1>11. CASE SignalMgr
  BY <1>11 DEF SignalMgr, Signal
<1>12. CASE Killed
  BY <1>12 DEF Killed, Fault
<1>13. ASSUME NEW gw \in Gateways, Bound(gw) PROVE RouteInv'
  BY <1>13 DEF Bound, Flush, Event
<1>14. CASE Deconfig
  BY <1>14 DEF Deconfig, Flush, Event
<1>15. CASE LeaseFail
  BY <1>15 DEF LeaseFail, Event
<1>16. CASE VifLost
  BY <1>16 DEF VifLost, Flush, Fault
<1>17. CASE ModemUp
  BY <1>17 DEF ModemUp
<1>18. CASE ModemDown
  BY <1>18 DEF ModemDown, Fault
<1>19. CASE PathBreaks
  BY <1>19 DEF PathBreaks, Fault
<1>20. CASE PathWorks
  BY <1>20 DEF PathWorks
<1>21. ASSUME NEW p \in Policies, SetPolicy(p) PROVE RouteInv'
  BY <1>21 DEF SetPolicy, Signal, Event
<1>23. CASE Provision
  BY <1>23 DEF Provision
<1>22. CASE UNCHANGED vars
  BY <1>22 DEF vars
<1> QED
  BY <1>1, <1>2, <1>3, <1>4, <1>5, <1>6, <1>7, <1>8, <1>9, <1>10, <1>11, <1>12, <1>13, <1>14, <1>15, <1>16, <1>17, <1>18, <1>19, <1>20, <1>21, <1>22, <1>23 DEF Next, Manager, Handler

\* And what it does not write again the handler has written.
LEMMA DnsStep ==
  ASSUME TypeOK, LeaseInv, ReadInv, RouteInv, DnsInv, [Next]_vars
  PROVE  DnsInv'
<1> USE UplinkAssumption DEF UplinkAssumption, kernel, manager, readings, TypeOK, GwTypeOK, FlagTypeOK, CountTypeOK, Gws, Servers, LeaseInv, ReadInv, RouteInv, DnsInv, InCycle, Pending
<1>1. CASE Start
  BY <1>1 DEF Start
<1>2. CASE Top
  BY <1>2 DEF Top
<1>3. CASE Read
  BY <1>3 DEF Read
<1>4. CASE Probe
  BY <1>4 DEF Probe, Lost, Fault
<1>5. CASE CandidateRoute
  BY <1>5 DEF CandidateRoute
<1>6. CASE Decide
  BY <1>6 DEF Decide, Choice, StaHealthy, ModemHealthy
<1>7. CASE ApplyDns
  <2> DEFINE want == IF active = "sta" THEN Servers(staGw) ELSE NoGw
  <2>1. /\ pc = "dns" /\ pc' = "sleep" /\ prevDns' = want
        /\ dns' = IF want = prevDns THEN dns ELSE want
        /\ UNCHANGED <<lease, dhcp, wake, active>>
    BY <1>7 DEF ApplyDns
  <2>a. active = "sta" => want = Servers(staGw)
    OBVIOUS
  <2> HIDE DEF want
  <2>2. dns' = prevDns' \/ (prevDns' = prevDns /\ dns' = dns)
    BY <2>1
  <2>3. ASSUME prevDns' # NoGw, prevDns' = Servers(lease'), dhcp' \in {"idle", "signal"}
        PROVE  dns' = prevDns'
    BY <2>1, <2>2, <2>3
  <2>4. ASSUME ~Pending', active' = "sta"
        PROVE  dns' = Servers(lease')
    <3>1. want = Servers(lease)
      BY <2>1, <2>4, <2>a
    <3>2. Servers(lease) # NoGw
      BY <2>1, <2>4
    <3> QED
      BY <2>1, <2>2, <2>3, <2>4, <3>1, <3>2
  <2> QED
    BY <2>1, <2>3, <2>4
<1>8. CASE Wakes
  BY <1>8 DEF Wakes
<1>9. CASE WriteLease
  BY <1>9 DEF WriteLease
<1>10. CASE WriteDns
  BY <1>10 DEF WriteDns
<1>11. CASE SignalMgr
  BY <1>11 DEF SignalMgr, Signal
<1>12. CASE Killed
  BY <1>12 DEF Killed, Fault
<1>13. ASSUME NEW gw \in Gateways, Bound(gw) PROVE DnsInv'
  BY <1>13 DEF Bound, Flush, Event
<1>14. CASE Deconfig
  BY <1>14 DEF Deconfig, Flush, Event
<1>15. CASE LeaseFail
  BY <1>15 DEF LeaseFail, Event
<1>16. CASE VifLost
  BY <1>16 DEF VifLost, Flush, Fault
<1>17. CASE ModemUp
  BY <1>17 DEF ModemUp
<1>18. CASE ModemDown
  BY <1>18 DEF ModemDown, Fault
<1>19. CASE PathBreaks
  BY <1>19 DEF PathBreaks, Fault
<1>20. CASE PathWorks
  BY <1>20 DEF PathWorks
<1>21. ASSUME NEW p \in Policies, SetPolicy(p) PROVE DnsInv'
  BY <1>21 DEF SetPolicy, Signal, Event
<1>23. CASE Provision
  BY <1>23 DEF Provision
<1>22. CASE UNCHANGED vars
  BY <1>22 DEF vars
<1> QED
  BY <1>1, <1>2, <1>3, <1>4, <1>5, <1>6, <1>7, <1>8, <1>9, <1>10, <1>11, <1>12, <1>13, <1>14, <1>15, <1>16, <1>17, <1>18, <1>19, <1>20, <1>21, <1>22, <1>23 DEF Next, Manager, Handler

-----------------------------------------------------------------------------
\* The inductive invariant.
LEMMA Invariance == Spec => []Inv
<1>1. Init => Inv
  <2> SUFFICES ASSUME Init PROVE Inv
    OBVIOUS
  <2>1. FlagTypeOK
    BY DEF Init, FlagTypeOK
  <2>2. GwTypeOK
    BY DEF Init, GwTypeOK, Gws
  <2>3. CountTypeOK
    BY UplinkAssumption DEF UplinkAssumption, Init, CountTypeOK, Pcs
  <2>4. LeaseInv
    BY DEF Init, LeaseInv
  <2>5. ReadInv /\ RouteInv /\ DnsInv
    BY DEF Init, ReadInv, RouteInv, DnsInv, InCycle
  <2> QED
    BY <2>1, <2>2, <2>3, <2>4, <2>5 DEF Inv, TypeOK
<1>2. Inv /\ [Next]_vars => Inv'
  <2> SUFFICES ASSUME Inv, [Next]_vars PROVE Inv'
    OBVIOUS
  <2>1. TypeOK'
    BY FlagStep, GwStep, CountStep DEF Inv, TypeOK
  <2>2. LeaseInv' /\ ReadInv' /\ RouteInv' /\ DnsInv'
    BY LeaseStep, ReadStep, RouteStep, DnsStep DEF Inv
  <2> QED
    BY <2>1, <2>2 DEF Inv
<1> QED
  BY <1>1, <1>2, PTL DEF Spec

\* Types, for any routers, thresholds and bounds.
THEOREM Typing == Spec => []TypeOK
<1>1. Inv => TypeOK
  BY DEF Inv
<1> QED
  BY <1>1, Invariance, PTL

\* No route of the station outlives the lease it was made for.
THEOREM LeaseRoutes == Spec => []RoutesFollowLease
<1>1. Inv => RoutesFollowLease
  BY DEF Inv, LeaseInv, RouteInv, RoutesFollowLease, Quiet, Pending
<1> QED
  BY <1>1, Invariance, PTL

\* dnsmasq asks the servers of the current lease while the station is active.
THEOREM LeaseServers == Spec => []StaDnsApplied
<1>1. Inv => StaDnsApplied
  BY DEF Inv, DnsInv, StaDnsApplied, Quiet, Pending
<1> QED
  BY <1>1, Invariance, PTL

\* Policy "modem" leaves the station no default route.
THEOREM NoStation == Spec => []ModemOnly
<1>1. Inv => ModemOnly
  BY DEF Inv, RouteInv, ModemOnly, Quiet, Pending
<1> QED
  BY <1>1, Invariance, PTL

\* The metrics the kernel may have: all are numbers, and none of the modem's is one
\* of the station's.
LEMMA MetricsOK ==
  ASSUME TypeOK
  PROVE  /\ Metrics \subseteq Nat /\ rModem \subseteq Nat
         /\ \A n \in rModem : n # Override /\ n < Candidate
  BY DEF TypeOK, GwTypeOK, Metrics, Override, Candidate, Normal, FirstBoot, Provisioned

\* Best is the link of the lowest metric, whatever the kernel's order.
LEMMA BestIs ==
  ASSUME TypeOK, NEW k \in Metrics, \A n \in Metrics : k <= n
  PROVE  Best = IF k \in {Override, Candidate} THEN "sta" ELSE "modem"
<1> DEFINE best == CHOOSE m \in Metrics : \A n \in Metrics : m <= n
<1>1. best \in Metrics /\ \A n \in Metrics : best <= n
  OBVIOUS
<1> HIDE DEF best
<1>2. best = k
  BY <1>1, MetricsOK
<1> QED
  BY <1>2 DEF Best, best

\* The modem's own lowest metric.
LEMMA LowestOfModem ==
  ASSUME TypeOK, rModem # {}
  PROVE  \E k \in rModem : \A n \in rModem : k <= n
<1>1. CASE Provisioned \in rModem
  BY <1>1 DEF TypeOK, GwTypeOK, Normal, FirstBoot, Provisioned
<1>2. CASE Provisioned \notin rModem
  <2>1. PICK k \in rModem : TRUE
    OBVIOUS
  <2>2. \A n \in rModem : n = Normal
    BY <1>2 DEF TypeOK, GwTypeOK, Normal, FirstBoot
  <2> QED
    BY <2>1, <2>2 DEF Normal
<1> QED
  BY <1>1, <1>2

\* The override wins unless the modem has a route below it, which then wins.
LEMMA OverrideIsBest ==
  ASSUME TypeOK, r40 # NoGw
  PROVE  Best = IF Outranked THEN "modem" ELSE "sta"
<1>0. Override \in Metrics /\ rModem \subseteq Metrics
  BY DEF Metrics
<1>1. CASE Outranked
  <2>1. PICK k \in rModem : \A n \in rModem : k <= n
    BY <1>1, LowestOfModem DEF Outranked
  <2>2. k < Override
    BY <1>1, <2>1, MetricsOK DEF Outranked, Override
  <2>3. \A n \in Metrics : k <= n
    BY <2>1, <2>2, MetricsOK DEF Metrics, Override, Candidate
  <2> QED
    BY <1>0, <1>1, <2>1, <2>2, <2>3, BestIs, MetricsOK DEF Override, Candidate
<1>2. CASE ~Outranked
  <2>1. \A n \in Metrics : Override <= n
    BY <1>2, MetricsOK DEF Outranked, Metrics, Override, Candidate
  <2> QED
    BY <1>0, <1>2, <2>1, BestIs
<1> QED
  BY <1>1, <1>2

\* Without the override the modem's routes are below the station's candidate.
LEMMA ModemIsBest ==
  ASSUME TypeOK, rModem # {}, r40 = NoGw
  PROVE  Best = "modem"
<1>1. PICK k \in rModem : \A n \in rModem : k <= n
  BY LowestOfModem
<1>2. k \in Metrics /\ \A n \in Metrics : k <= n
  BY <1>1, MetricsOK DEF Metrics, Candidate
<1> QED
  BY <1>1, <1>2, BestIs, MetricsOK DEF Candidate

\* The traffic goes where the manager says it goes; only a route of the modem below
\* the override, netifd's on a provisioned device, takes it from a chosen station.
THEOREM Wins == Spec => []ActiveWins
<1>1. Inv => ActiveWins
  <2> SUFFICES ASSUME Inv, Quiet
               PROVE  /\ active = "sta" /\ addr =>
                           Best = (IF Outranked THEN "modem" ELSE "sta")
                      /\ active = "modem" /\ modemUp => Best = "modem"
    BY DEF ActiveWins
  <2>1. active = "sta" /\ addr => r40 # NoGw
    BY DEF Inv, RouteInv, Quiet, Pending
  <2>2. active = "modem" /\ modemUp => r40 = NoGw /\ rModem # {}
    BY DEF Inv, RouteInv, LeaseInv, Quiet, Pending
  <2> QED
    BY <2>1, <2>2, OverrideIsBest, ModemIsBest DEF Inv
<1>2. QED
  BY <1>1, Invariance, PTL

\* Until the carrier is provisioned the modem's routes have the metric of the first
\* boot; and the active link is what the cycle has chosen from its readings.
Unprovisioned ==
  /\ metric = FirstBoot => rModem \subseteq {FirstBoot, Normal}
  /\ pc \in {"dns", "sleep"} => active = Choice

\* Before the carrier is provisioned the modem has no route below the override, and
\* UPLINK_FAILOVER.md's "STA override (40) wins" holds.
THEOREM WinsUnprovisioned == Spec => [](metric = FirstBoot => OverrideWins)
<1>1. Init => Unprovisioned
  BY DEF Init, Unprovisioned
<1>2. Inv /\ Unprovisioned /\ [Next]_vars => Unprovisioned'
  <2> SUFFICES ASSUME Unprovisioned, [Next]_vars
               PROVE  Unprovisioned'
    OBVIOUS
  <2>1. metric' = metric \/ metric' = Provisioned
    BY DEF vars, kernel, manager, readings, Next, Manager, Handler, Start, Top, Read, Probe,
       CandidateRoute, Decide, ApplyDns, Wakes, Killed, Bound, WriteLease, WriteDns, SignalMgr,
       Signal, Deconfig, LeaseFail, VifLost, ModemUp, ModemDown, PathBreaks, PathWorks,
       Provision, SetPolicy
  <2>2. rModem' \subseteq rModem \cup {Normal} \/ rModem' = {metric}
    BY DEF vars, kernel, manager, readings, Next, Manager, Handler, Start, Top, Read, Probe,
       CandidateRoute, Decide, ApplyDns, Wakes, Killed, Bound, WriteLease, WriteDns, SignalMgr,
       Signal, Deconfig, LeaseFail, VifLost, ModemUp, ModemDown, PathBreaks, PathWorks,
       Provision, SetPolicy
  <2>3. metric' = FirstBoot => rModem' \subseteq {FirstBoot, Normal}
    BY <2>1, <2>2 DEF Unprovisioned, FirstBoot, Provisioned, Normal
  <2>4. CASE Decide
    BY <2>3, <2>4 DEF Decide, Unprovisioned, readings, Choice, ModemHealthy, StaHealthy
  <2>5. CASE ~Decide
    <3>1. pc' \in {"dns", "sleep"} =>
            /\ pc \in {"dns", "sleep"}
            /\ UNCHANGED <<active, policy, modemOk, modemBad, staOk, staBad>>
      BY <2>5 DEF vars, kernel, manager, readings, Next, Manager, Handler, Start, Top, Read, Probe,
       CandidateRoute, Decide, ApplyDns, Wakes, Killed, Bound, WriteLease, WriteDns, SignalMgr,
       Signal, Deconfig, LeaseFail, VifLost, ModemUp, ModemDown, PathBreaks, PathWorks,
       Provision, SetPolicy
    <3> QED
      BY <2>3, <3>1 DEF Unprovisioned, Choice, ModemHealthy, StaHealthy
  <2> QED
    BY <2>4, <2>5
<1>3. Inv /\ Unprovisioned => (metric = FirstBoot => OverrideWins)
  <2> SUFFICES ASSUME Inv, Unprovisioned, metric = FirstBoot, Quiet, policy # "modem",
                      ~ModemHealthy, StaHealthy, addr
               PROVE  Best = "sta"
    BY DEF OverrideWins
  <2>1. active = "sta"
    BY DEF Unprovisioned, Quiet, Choice
  <2>2. r40 # NoGw
    BY <2>1 DEF Inv, RouteInv, Quiet, Pending
  <2>3. ~Outranked
    BY DEF Unprovisioned, Outranked, FirstBoot, Normal, Override
  <2> QED
    BY <2>2, <2>3, OverrideIsBest DEF Inv
<1> QED
  BY <1>1, <1>2, <1>3, Invariance, PTL DEF Spec
=============================================================================
