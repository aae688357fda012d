----------------------------- MODULE WlanSap_proofs -----------------------------
(***************************************************************************)
(* Proofs about the access point of the reference driver, for any number   *)
(* of stations, channels, requests and events: what driver, WLANSAP and    *)
(* cfg80211 agree on when nothing runs, the inactivity timer, the removal  *)
(* of stations and the saved group key.                                    *)
(***************************************************************************)
EXTENDS WlanSap, FiniteSetTheorems, TLAPS

-----------------------------------------------------------------------------
(* The inductive invariant, in its parts.                                  *)

Says(s, what) == [of |-> s, says |-> what]
Indications == [of : Stations, says : {"assoc", "disassoc"}]

\* The records have their fields; what is compared has its type.
ApFields ==
  /\ ap = [beacon |-> ap.beacon, started |-> ap.started, event |-> ap.event, bss |-> ap.bss,
           timer |-> ap.timer, shut |-> ap.shut, channel |-> ap.channel,
           operating |-> ap.operating, queues |-> ap.queues, pbc |-> ap.pbc, keys |-> ap.keys]
  /\ {ap.beacon, ap.started, cfg.ap} \subseteq BOOLEAN
  /\ ap.bss \in {"stop", "start"}
  /\ cfg = [ap |-> cfg.ap, restart |-> cfg.restart]
UserFields ==
  user = [at |-> user.at, op |-> user.op, ok |-> user.ok, todo |-> user.todo, one |-> user.one]
FwFields ==
  /\ fw = [bss |-> fw.bss, joined |-> fw.joined, said |-> fw.said, unsafe |-> fw.unsafe,
           picked |-> fw.picked, ies |-> fw.ies, key |-> fw.key, group |-> fw.group,
           auto |-> fw.auto]
  /\ fw.bss \in {"none", "starting", "picked", "up", "stopping"}
SaidTypes == fw.joined \subseteq Stations /\ fw.said \in Seq(Indications)
StaTypes == sta \in [Stations -> [used : BOOLEAN, deauth : BOOLEAN]]
SetTypes == user.one \subseteq Stations /\ user.todo \subseteq Stations
Fields == ApFields /\ UserFields /\ FwFields /\ SaidTypes /\ StaTypes /\ SetTypes

\* The BSS is up or being stopped while the driver says it has started, while stations are
\* joined or registered and while there is something to hear of them.
Running == fw.bss \in {"up", "stopping"}
SomeUsed == \E s \in Stations : sta[s].used
RunningInv ==
  /\ mc = "started" => Running /\ ~SomeUsed
  /\ ap.bss = "start" => Running
  /\ fw.joined # {} => Running
  /\ fw.said # <<>> => Running
  /\ SomeUsed => Running

\* The inactivity timer of a BSS that has started.
TimerInv ==
  ap.bss = "start" =>
    /\ ap.timer \in {"running", "stopped"}
    /\ "register" \notin mishap =>
         IF SomeUsed THEN ap.timer = "stopped" ELSE ap.timer = "running" \/ ap.shut

\* A key is on its way to be saved, or is saved, only while the BSS has not started.
KeyInv ==
  "keyrace" \notin mishap =>
    /\ user.at = "keySave" => ap.bss # "start"
    /\ ap.bss = "start" => "group" \notin ap.keys /\ (ap.keys # {} => "shadowed" \in mishap)

\* A station that was said to have joined is joined, or was said to have left since.
SaidInv ==
  \A i \in 1..Len(fw.said) : fw.said[i].says = "assoc" =>
     \/ fw.said[i].of \in fw.joined
     \/ \E j \in 1..Len(fw.said) : i < j /\ fw.said[j] = Says(fw.said[i].of, "disassoc")

\* A registered station is joined or leaves, and leaves when it is marked, unless the mark was
\* just made and the removal comes next.
Marked(s) == user.at = "deauth" /\ s \in user.one
LeavingInv ==
  /\ SaidInv
  /\ user.at = "deauth" => \E s \in Stations : user.one = {s}
  /\ \A s \in Stations : sta[s].used => s \in fw.joined \/ Leaving(s)
  /\ "rejoined" \notin mishap =>
       \A s \in Stations : sta[s].used /\ sta[s].deauth => Leaving(s) \/ Marked(s)

\* Without a late answer, a failing start or stop, or an event taken for another's:
Clean == \A kind \in {"late", "startfails", "stopfails", "early"} : kind \notin mishap

\* the flag of the adapter follows the BSS, but for the points where a request has the one
\* and not yet the other;
BssInv ==
  /\ user.ok
  /\ user.at = "startWait" => fw.bss \in {"starting", "picked", "up"}
  /\ fw.bss \in {"starting", "picked"} => user.at = "startWait"
  /\ user.at = "startSet" => fw.bss = "up"
  /\ user.at \in {"stopWait", "stopClear", "stopCount"} => fw.bss \in {"stopping", "none"}
  /\ ap.started => user.at \in {"stopWait", "stopClear"} \/ fw.bss = "up"
  /\ ~ap.started => user.at \in {"startWait", "startSet"} \/ fw.bss # "up"
  /\ user.at \in {"startWait", "startSet", "stopCount"} => ~ap.started
  /\ user.at \in {"stopWait", "stopClear"} => ap.started
  /\ fw.bss = "up" /\ mc # "started" => ap.bss = "start"

\* the counter has the flag, counted on and off after it;
CountInv ==
  "between" \notin mishap =>
    /\ user.at = "startCount" => ap.started
    /\ active = IF (ap.started /\ user.at # "startCount") \/ user.at = "stopCount" THEN 1 ELSE 0

\* the queues are closed without a BSS, and closed with one for a restart or a stop;
QueuesInv ==
  /\ ap.queues => Running
  /\ ap.bss = "start" =>
       \/ ap.queues \/ cfg.restart \/ fw.bss = "stopping"
       \/ user.at = "stop" /\ user.op = "stop"

\* an event is there for the request that waits for it, and a stop is under way only for
\* a request;
EventInv ==
  "trig" \notin mishap =>
    /\ ap.event = IF \/ user.at = "startWait" /\ fw.bss = "up"
                     \/ user.at = "stopWait" /\ fw.bss = "none" THEN 1 ELSE 0
    /\ fw.bss = "stopping" => user.at = "stopWait"

\* and the beacon is there with the BSS, with cfg80211's access point, and with the
\* information elements.
Starts == {"startWait", "startSet", "startCount"}
BeaconInv ==
  /\ fw.bss \in {"starting", "picked", "up"} \/ user.at \in Starts => ap.beacon
  /\ user.op = "leave" => user.at \in {"stop", "stopWait", "stopClear", "stopCount"} /\ ~cfg.ap
  /\ (\A kind \in Refusals : kind \notin mishap) =>
       /\ user.at \notin Starts => cfg.ap = ap.beacon
       /\ fw.ies => ap.beacon

AgreeInv == Clean => BssInv /\ CountInv /\ QueuesInv /\ EventInv /\ BeaconInv

SapInv == Fields /\ RunningInv /\ TimerInv /\ KeyInv /\ LeavingInv /\ AgreeInv

-----------------------------------------------------------------------------
\* Removing a station: it is not joined any more, which is said if it was.
LEMMA DeauthedFacts ==
  ASSUME FwFields, SaidTypes, NEW s \in Stations, fw' = Deauthed(fw, s)
  PROVE  /\ FwFields' /\ SaidTypes'
         /\ fw'.bss = fw.bss /\ fw'.ies = fw.ies /\ fw'.joined = fw.joined \ {s}
         /\ s \in fw.joined => fw'.said = Append(fw.said, Says(s, "disassoc"))
         /\ s \notin fw.joined => fw'.said = fw.said
<1>1. Says(s, "disassoc") \in Indications
  BY DEF Says, Indications
<1>2. CASE s \in fw.joined
  <2>1. FwFields' /\ fw'.bss = fw.bss /\ fw'.ies = fw.ies /\ fw'.joined = fw.joined \ {s}
    BY <1>2 DEF Deauthed, FwFields
  <2>2. fw'.said = Append(fw.said, Says(s, "disassoc"))
    BY <1>2 DEF Deauthed, FwFields, Says
  <2>3. SaidTypes'
    BY <1>1, <2>1, <2>2 DEF SaidTypes
  <2> QED
    BY <1>2, <2>1, <2>2, <2>3
<1>3. CASE s \notin fw.joined
  BY <1>3 DEF Deauthed, FwFields, SaidTypes
<1> QED
  BY <1>2, <1>3

\* A mark on a station, a station registered, a station forgotten.
LEMMA StationFacts ==
  ASSUME StaTypes, NEW s \in Stations
  PROVE  /\ \A mark \in BOOLEAN : sta' = [sta EXCEPT ![s].deauth = mark] =>
              /\ StaTypes' /\ sta'[s].deauth = mark
              /\ \A t \in Stations : sta'[t].used = sta[t].used
              /\ \A t \in Stations \ {s} : sta'[t] = sta[t]
         /\ \A use \in BOOLEAN : sta' = [sta EXCEPT ![s] = [used |-> use, deauth |-> FALSE]] =>
              /\ StaTypes' /\ sta'[s].used = use /\ ~sta'[s].deauth
              /\ \A t \in Stations \ {s} : sta'[t] = sta[t]
<1>1. ASSUME NEW mark \in BOOLEAN, sta' = [sta EXCEPT ![s].deauth = mark]
      PROVE  /\ StaTypes' /\ sta'[s].deauth = mark
             /\ \A t \in Stations : sta'[t].used = sta[t].used
             /\ \A t \in Stations \ {s} : sta'[t] = sta[t]
  <2>1. sta[s] \in [used : BOOLEAN, deauth : BOOLEAN]
    BY DEF StaTypes
  <2>2. sta'[s] = [used |-> sta[s].used, deauth |-> mark]
    BY <1>1, <2>1 DEF StaTypes
  <2>3. DOMAIN sta' = Stations /\ \A t \in Stations \ {s} : sta'[t] = sta[t]
    BY <1>1 DEF StaTypes
  <2>4. sta' = [t \in Stations |-> sta'[t]]
    BY <1>1 DEF StaTypes
  <2> QED
    BY <2>1, <2>2, <2>3, <2>4 DEF StaTypes
<1>2. ASSUME NEW use \in BOOLEAN, sta' = [sta EXCEPT ![s] = [used |-> use, deauth |-> FALSE]]
      PROVE  /\ StaTypes' /\ sta'[s].used = use /\ ~sta'[s].deauth
             /\ \A t \in Stations \ {s} : sta'[t] = sta[t]
  BY <1>2 DEF StaTypes
<1> QED
  BY <1>1, <1>2

\* The oldest indication: a station, and what is left when it was heard.
LEMMA HeadFacts ==
  ASSUME SaidTypes, fw.said # <<>>
  PROVE  /\ Head(fw.said) = fw.said[1] /\ fw.said[1].of \in Stations
         /\ fw.said[1].says \in {"assoc", "disassoc"}
         /\ fw.said[1] = Says(fw.said[1].of, fw.said[1].says)
         /\ Tail(fw.said) \in Seq(Indications) /\ Len(Tail(fw.said)) = Len(fw.said) - 1
         /\ \A i \in 1..Len(Tail(fw.said)) : Tail(fw.said)[i] = fw.said[i + 1]
<1>1. fw.said \in Seq(Indications) /\ Len(fw.said) \in Nat \ {0} /\ 1 \in 1..Len(fw.said)
  BY DEF SaidTypes
<1>2. fw.said[1] \in Indications
  BY <1>1
<1> QED
  BY <1>1, <1>2 DEF Indications, Says

\* hdd_clear_all_sta: one indication for each station that goes.
LEMMA ClearFacts ==
  ASSUME FwFields, SaidTypes, ClearAllSta
  PROVE  /\ FwFields' /\ SaidTypes' /\ fw'.bss = fw.bss /\ fw'.ies = fw.ies
         /\ \E going \in SUBSET fw.joined, more \in Seq(Indications) :
              /\ fw'.joined = fw.joined \ going
              /\ fw'.said = fw.said \o more
              /\ \A i \in 1..Len(more) : more[i].says = "disassoc"
              /\ \A s \in going : \E i \in 1..Len(more) : more[i] = Says(s, "disassoc")
<1> DEFINE going == {s \in fw.joined : sta[s].used}
<1>1. PICK order \in SetToSeqs(going) :
        fw' = [fw EXCEPT !.joined = @ \ going,
                         !.said = @ \o [i \in DOMAIN order |->
                                          [of |-> order[i], says |-> "disassoc"]]]
  BY DEF ClearAllSta
<1> DEFINE more == [i \in DOMAIN order |-> [of |-> order[i], says |-> "disassoc"]]
           n == Cardinality(going)
<1>2. going \subseteq Stations /\ IsFiniteSet(going) /\ n \in Nat
  <2>1. going \in SUBSET Stations
    BY DEF SaidTypes
  <2> QED
    BY <2>1, SapAssumption, FS_Subset, FS_CardinalityType DEF SapAssumption
<1>3. order \in [1..n -> going] /\ \A i, j \in 1..n : i # j => order[i] # order[j]
  BY DEF SetToSeqs
<1>4. \A s \in going : \E i \in 1..n : order[i] = s
  <2>1. order \in Injection(1..n, going)
    BY <1>3 DEF Injection, IsInjective
  <2>2. Cardinality(1..n) = n
    BY <1>2, FS_Interval
  <2>3. order \in Surjection(1..n, going)
    BY <1>2, <2>1, <2>2, FS_Injection
  <2> QED
    BY <2>3 DEF Surjection
<1>5. /\ more \in Seq(Indications) /\ Len(more) = n
      /\ \A i \in 1..n : more[i] = Says(order[i], "disassoc")
  <2>1. more \in [1..n -> Indications]
    BY <1>2, <1>3 DEF Indications
  <2>2. \A i \in 1..n : more[i] = Says(order[i], "disassoc")
    BY <1>3 DEF Says
  <2> HIDE DEF more, n
  <2>3. more \in Seq(Indications) /\ Len(more) = n
    BY <1>2, <2>1
  <2> QED
    BY <2>2, <2>3
<1>6. fw'.joined = fw.joined \ going /\ fw'.said = fw.said \o more
  BY <1>1 DEF FwFields
<1>7. FwFields' /\ SaidTypes' /\ fw'.bss = fw.bss /\ fw'.ies = fw.ies
  <2>1. FwFields' /\ fw'.bss = fw.bss /\ fw'.ies = fw.ies
    BY <1>1 DEF FwFields
  <2>2. SaidTypes'
    BY <1>5, <1>6 DEF SaidTypes
  <2> QED
    BY <2>1, <2>2
<1>8. \A s \in going : \E i \in 1..Len(more) : more[i] = Says(s, "disassoc")
  BY <1>4, <1>5
<1>9. \A i \in 1..Len(more) : more[i].says = "disassoc"
  BY <1>5 DEF Says
<1> HIDE DEF more, going
<1> QED
  BY <1>5, <1>6, <1>7, <1>8, <1>9 DEF going

\* A station that joins is not joined yet, and says so.
LEMMA JoinFacts ==
  ASSUME FwFields, SaidTypes, Join
  PROVE  /\ FwFields' /\ SaidTypes' /\ fw'.bss = fw.bss /\ fw'.ies = fw.ies /\ fw.bss = "up"
         /\ \E s \in Stations \ fw.joined :
              /\ fw'.joined = fw.joined \union {s}
              /\ fw'.said = Append(fw.said, Says(s, "assoc"))
<1>1. PICK s \in Stations \ fw.joined :
        fw' = [fw EXCEPT !.joined = @ \union {s},
                         !.said = Append(@, [of |-> s, says |-> "assoc"])]
  BY DEF Join
<1>2. /\ FwFields' /\ fw'.bss = fw.bss /\ fw'.ies = fw.ies /\ fw.bss = "up"
      /\ fw'.joined = fw.joined \union {s} /\ fw'.said = Append(fw.said, Says(s, "assoc"))
  BY <1>1 DEF Join, FwFields, Says
<1>3. Says(s, "assoc") \in Indications
  BY DEF Says, Indications
<1>4. SaidTypes'
  BY <1>2, <1>3 DEF SaidTypes
<1> QED
  BY <1>2, <1>4

LEMMA FieldsStep == Fields /\ Next => Fields'
<1> SUFFICES ASSUME Fields, Next PROVE Fields'
  OBVIOUS
<1>a. UNCHANGED fw => FwFields' /\ SaidTypes'
  BY DEF Fields, FwFields, SaidTypes
<1>b. fw'.said = fw.said /\ fw'.joined \subseteq fw.joined => SaidTypes'
  BY DEF Fields, SaidTypes
<1>c. UNCHANGED sta => StaTypes'
  BY DEF Fields, StaTypes
<1>d. UNCHANGED <<ap, cfg>> => ApFields'
  BY DEF Fields, ApFields
<1>e. UNCHANGED user \/ user' = Idle => UserFields' /\ SetTypes'
  BY DEF Fields, Idle, UserFields, SetTypes
<1>f. \A at, ok : user' = [user EXCEPT !.at = at, !.ok = ok] => UserFields' /\ SetTypes'
  BY DEF Fields, UserFields, SetTypes
<1>g. \A at : Go(at) => UserFields' /\ SetTypes'
  BY DEF Fields, UserFields, SetTypes, Go
<1>1. CASE StartAp \/ ChangeBeacon
  <2>1. PICK op, channel : StartBss(op, channel) /\ UNCHANGED sta
    BY <1>1 DEF StartAp, ChangeBeacon
  <2>2. ApFields'
    BY <2>1 DEF StartBss, Fields, ApFields
  <2>3. FwFields' /\ fw'.said = fw.said /\ fw'.joined = fw.joined
    BY <2>1 DEF StartBss, ApIes, Fields, FwFields
  <2>4. UserFields' /\ SetTypes'
    BY <2>1, <1>e DEF StartBss, Idle, UserFields, SetTypes
  <2> QED
    BY <2>1, <2>2, <2>3, <2>4, <1>b, <1>c DEF Fields
<1>2. CASE StartWaited \/ SetStarted \/ StopWaited \/ ClearStarted
  <2>1. ApFields'
    BY <1>2 DEF StartWaited, SetStarted, StopWaited, ClearStarted, TakeEvent, Fields, ApFields
  <2>2. UserFields' /\ SetTypes'
    BY <1>2, <1>f, <1>g DEF StartWaited, SetStarted, StopWaited, ClearStarted, Fields, UserFields,
       SetTypes
  <2> QED
    BY <1>2, <2>1, <2>2, <1>a, <1>c
    DEF StartWaited, SetStarted, StopWaited, ClearStarted, Fields
<1>3. CASE CountStarted
  <2>1. ApFields'
    BY <1>3 DEF CountStarted, Fields, ApFields
  <2> QED
    BY <1>3, <2>1, <1>a, <1>c, <1>e DEF CountStarted, Fields
<1>4. CASE MarkedFirst
  <2>1. PICK s \in Stations : /\ sta' = [sta EXCEPT ![s].deauth = TRUE]
                              /\ user' = [Idle EXCEPT !.at = "deauth", !.one = {s}]
    BY <1>4 DEF MarkedFirst
  <2>2. StaTypes' /\ UserFields' /\ SetTypes'
    BY <2>1, StationFacts DEF Fields, Idle, UserFields, SetTypes
  <2> QED
    BY <1>4, <2>2, <1>a, <1>d DEF MarkedFirst, Fields
<1>5. CASE DelStation
  <2>1. PICK s \in Stations :
          \/ fw' = Deauthed(fw, s) /\ UNCHANGED sta
          \/ sta' = [sta EXCEPT ![s].deauth = FALSE] /\ UNCHANGED fw
    BY <1>5 DEF DelStation, Unmarked, Fields, SetTypes
  <2>2. FwFields' /\ SaidTypes' /\ StaTypes'
    BY <2>1, DeauthedFacts, StationFacts, <1>a, <1>c DEF Fields
  <2> QED
    BY <1>5, <2>2, <1>d, <1>e DEF DelStation, Fields
<1>6. CASE DelAllStations \/ StopAp \/ StopBssIoctl \/ StopAdapter
  <2>1. UserFields' /\ SetTypes'
    BY <1>6 DEF DelAllStations, StopAp, StopBssIoctl, StopAdapter, Idle, UserFields, SetTypes
  <2> QED
    BY <1>6, <2>1, <1>a, <1>c, <1>d
    DEF DelAllStations, StopAp, StopBssIoctl, StopAdapter, Fields
<1>7. CASE DelDone
  BY <1>7, <1>a, <1>c, <1>d, <1>e DEF DelDone, Fields
<1>8. CASE DelNext
  <2>1. PICK s \in Stations :
          /\ fw' = Deauthed(fw, s) \/ UNCHANGED fw
          /\ \/ user' = [user EXCEPT !.at = "delMark", !.todo = @ \ {s}, !.one = {s}]
             \/ user' = [user EXCEPT !.todo = @ \ {s}]
    BY <1>8 DEF DelNext, Fields, SetTypes
  <2>2. FwFields' /\ SaidTypes'
    BY <2>1, DeauthedFacts, <1>a DEF Fields
  <2>3. UserFields' /\ SetTypes'
    BY <2>1 DEF Fields, UserFields, SetTypes
  <2> QED
    BY <1>8, <2>2, <2>3, <1>c, <1>d DEF DelNext, Fields
<1>9. CASE DelMark
  <2>1. PICK s \in Stations : sta' = [sta EXCEPT ![s].deauth = TRUE]
    BY <1>9 DEF DelMark, Fields, SetTypes
  <2>2. StaTypes'
    BY <2>1, StationFacts DEF Fields
  <2> QED
    BY <1>9, <2>2, <1>a, <1>d, <1>g DEF DelMark, Fields
<1>10. CASE StopApQueues
  <2>1. ApFields' /\ UserFields' /\ SetTypes'
    BY <1>10, <1>e DEF StopApQueues, Fields, ApFields, UserFields, SetTypes
  <2> QED
    BY <1>10, <2>1, <1>a, <1>c DEF StopApQueues, Fields
<1>11. CASE StopBss
  <2>1. ApFields'
    <3>1. /\ ap' = ap \/ ap' = [ap EXCEPT !.beacon = FALSE] \/ ap' = InitApMode
          /\ \/ cfg' = cfg
             \/ cfg' = [cfg EXCEPT !.ap = @ /\ ~Forgotten]
      BY <1>11, Zenon DEF StopBss, StopFinished
    <3>2. cfg' = [ap |-> cfg'.ap, restart |-> cfg'.restart] /\ cfg'.ap \in BOOLEAN
      BY <3>1 DEF Fields, ApFields
    <3>3. CASE ap' = InitApMode
      BY <3>2, <3>3 DEF InitApMode, ApFields
    <3>4. CASE ap' # InitApMode
      BY <3>1, <3>2, <3>4 DEF Fields, ApFields
    <3> QED
      BY <3>3, <3>4
  <2>2. FwFields' /\ fw'.said = fw.said /\ fw'.joined = fw.joined
    BY <1>11 DEF StopBss, IesReset, Fields, FwFields
  <2>3. UserFields' /\ SetTypes'
    <3>1. \/ user' = Idle \/ Go("stopWait")
          \/ user' = [user EXCEPT !.at = "stopClear", !.ok = FALSE]
      BY <1>11 DEF StopBss
    <3> QED
      BY <3>1, <1>e, <1>f, <1>g
  <2> QED
    BY <1>11, <2>1, <2>2, <2>3, <1>b, <1>c DEF StopBss, Fields
<1>12. CASE CountStopped
  <2>1. ApFields'
    BY <1>12 DEF CountStopped, StopFinished, InitApMode, Fields, ApFields
  <2>2. FwFields' /\ fw'.said = fw.said /\ fw'.joined = fw.joined
    BY <1>12 DEF CountStopped, IesReset, Fields, FwFields
  <2> QED
    BY <1>12, <2>1, <2>2, <1>b, <1>c, <1>e DEF CountStopped, Fields
<1>13. CASE HostapdOpen \/ GetProbeRequest \/ SaveKey \/ TimerFires \/ PbcTaken
  <2>1. ApFields'
    BY <1>13 DEF HostapdOpen, GetProbeRequest, SaveKey, TimerFires, PbcTaken, Open, Fields, ApFields
  <2> QED
    BY <1>13, <2>1, <1>a, <1>c, <1>e
    DEF HostapdOpen, GetProbeRequest, SaveKey, TimerFires, PbcTaken, Fields
<1>14. CASE AddKey
  <2>1. FwFields' /\ fw'.said = fw.said /\ fw'.joined = fw.joined
    BY <1>14 DEF AddKey, Fields, FwFields
  <2>2. UserFields' /\ SetTypes'
    BY <1>14, <1>e DEF AddKey, Idle, UserFields, SetTypes
  <2> QED
    BY <1>14, <2>1, <2>2, <1>b, <1>c, <1>d DEF AddKey, Fields
<1>15. CASE PickChannel \/ PbcProbe
  <2>1. FwFields' /\ fw'.said = fw.said /\ fw'.joined = fw.joined
    BY <1>15 DEF PickChannel, PbcProbe, Fields, FwFields
  <2> QED
    BY <1>15, <2>1, <1>b, <1>c, <1>d, <1>e DEF PickChannel, PbcProbe, Fields
<1>16. CASE StartEvent \/ StartDone \/ StopP2pLink \/ ChannelAvoid
  <2>1. ApFields'
    BY <1>16 DEF StartEvent, StartDone, StopP2pLink, ChannelAvoid, Avoid, Stopped, Fields, ApFields
  <2>2. FwFields' /\ fw'.said = fw.said /\ fw'.joined = fw.joined
    BY <1>16 DEF StartEvent, StartDone, StopP2pLink, ChannelAvoid, Fields, FwFields
  <2> QED
    BY <1>16, <2>1, <2>2, <1>b, <1>c, <1>e DEF StartEvent, StartDone, StopP2pLink, ChannelAvoid, Fields
<1>17. CASE StopEvent
  <2>1. ApFields'
    BY <1>17 DEF StopEvent, Stopped, Fields, ApFields
  <2>2. FwFields' /\ fw'.said = fw.said /\ fw'.joined = {}
    BY <1>17 DEF StopEvent, Fields, FwFields
  <2>3. StaTypes'
    BY <1>17 DEF StopEvent, NoStations, StaTypes
  <2> QED
    BY <1>17, <2>1, <2>2, <2>3, <1>b, <1>e DEF StopEvent, Fields
<1>18. CASE AssocEvent \/ DisassocEvent
  <2>1. /\ fw.said # <<>> /\ fw' = [fw EXCEPT !.said = Tail(@)] /\ UNCHANGED <<user, cfg>>
        /\ \/ sta' = [sta EXCEPT ![Head(fw.said).of] = [used |-> TRUE, deauth |-> FALSE]]
           \/ sta' = [sta EXCEPT ![Head(fw.said).of] = NoStations[Head(fw.said).of]]
           \/ UNCHANGED sta
    BY <1>18 DEF AssocEvent, DisassocEvent, Hears, Heard
  <2>2. Head(fw.said).of \in Stations /\ Tail(fw.said) \in Seq(Indications)
    BY <2>1, HeadFacts DEF Fields
  <2>3. NoStations[Head(fw.said).of] = [used |-> FALSE, deauth |-> FALSE]
    BY <2>2 DEF NoStations
  <2>4. StaTypes'
    BY <2>1, <2>2, <2>3, StationFacts, <1>c DEF Fields
  <2>5. FwFields' /\ fw'.said = Tail(fw.said) /\ fw'.joined = fw.joined
    BY <2>1 DEF Fields, FwFields
  <2>6. SaidTypes'
    BY <2>2, <2>5 DEF Fields, SaidTypes
  <2>7. ApFields'
    BY <1>18 DEF AssocEvent, DisassocEvent, Fields, ApFields
  <2> QED
    BY <2>1, <2>4, <2>5, <2>6, <2>7, <1>e DEF Fields
<1>19. CASE ClearAllSta
  <2>1. FwFields' /\ SaidTypes'
    BY <1>19, ClearFacts DEF Fields
  <2> QED
    BY <1>19, <2>1, <1>c, <1>d, <1>e DEF ClearAllSta, Fields
<1>20. CASE Join
  <2>1. FwFields' /\ SaidTypes'
    BY <1>20, JoinFacts DEF Fields
  <2> QED
    BY <1>20, <2>1, <1>c, <1>d, <1>e DEF Join, Fields
<1>21. CASE Leave
  <2>1. PICK s \in Stations : fw' = Deauthed(fw, s)
    BY <1>21 DEF Leave, Fields, SaidTypes
  <2>2. FwFields' /\ SaidTypes'
    BY <2>1, DeauthedFacts DEF Fields
  <2> QED
    BY <1>21, <2>2, <1>c, <1>d, <1>e DEF Leave, Fields
<1> QED
  BY <1>1, <1>2, <1>3, <1>4, <1>5, <1>6, <1>7, <1>8, <1>9, <1>10, <1>11, <1>12, <1>13,
     <1>14, <1>15, <1>16, <1>17, <1>18, <1>19, <1>20, <1>21
  DEF Next

LEMMA RunningStep == Fields /\ RunningInv /\ Next => RunningInv'
<1> SUFFICES ASSUME Fields, RunningInv, Next PROVE RunningInv'
  OBVIOUS
<1> USE DEF RunningInv, Running, SomeUsed
<1>a. ApFields /\ UserFields /\ FwFields /\ SaidTypes /\ StaTypes /\ SetTypes
  BY DEF Fields
<1>1. CASE StartAp \/ ChangeBeacon
  <2>1. PICK op, channel : StartBss(op, channel) /\ UNCHANGED <<sta, mc>>
    BY <1>1 DEF StartAp, ChangeBeacon
  <2>2. /\ fw'.said = fw.said /\ fw'.joined = fw.joined /\ ap'.bss = ap.bss
        /\ fw'.bss = fw.bss \/ (fw.bss = "none" /\ fw'.bss = "starting")
    BY <1>a, <2>1 DEF StartBss, CanStart, ApIes, ApFields, FwFields
  <2> QED
    BY <2>1, <2>2
<1>2. CASE StartWaited \/ SetStarted \/ CountStarted \/ StopWaited \/ ClearStarted
  <2>1. ap'.bss = ap.bss /\ UNCHANGED <<sta, mc, fw>>
    BY <1>2, <1>a DEF StartWaited, SetStarted, CountStarted, StopWaited, ClearStarted, TakeEvent,
       ApFields
  <2> QED
    BY <2>1
<1>3. CASE MarkedFirst \/ DelMark
  <2>1. /\ \E s \in Stations : sta' = [sta EXCEPT ![s].deauth = TRUE]
        /\ UNCHANGED <<ap, mc, fw>>
    BY <1>3, <1>a DEF MarkedFirst, DelMark, SetTypes
  <2>2. \A t \in Stations : sta'[t].used = sta[t].used
    BY <1>a, <2>1, StationFacts
  <2> QED
    BY <2>1, <2>2
<1>4. CASE DelStation
  <2>1. PICK s \in Stations :
          \/ fw' = Deauthed(fw, s) /\ UNCHANGED sta
          \/ sta' = [sta EXCEPT ![s].deauth = FALSE] /\ UNCHANGED fw
    BY <1>4, <1>a DEF DelStation, Unmarked, SetTypes
  <2>2. \A t \in Stations : sta'[t].used = sta[t].used
    BY <1>a, <2>1, StationFacts
  <2>3. /\ fw'.bss = fw.bss /\ fw'.joined \subseteq fw.joined
        /\ fw'.said # fw.said => fw.joined # {}
    BY <1>a, <2>1, DeauthedFacts
  <2> QED
    BY <1>4, <2>2, <2>3 DEF DelStation
<1>5. CASE DelNext \/ Leave
  <2>1. UNCHANGED fw \/ \E s \in Stations : fw' = Deauthed(fw, s)
    BY <1>5, <1>a DEF DelNext, Leave, SetTypes, SaidTypes
  <2>2. /\ fw'.bss = fw.bss /\ fw'.joined \subseteq fw.joined
        /\ fw'.said # fw.said => fw.joined # {}
    BY <1>a, <2>1, DeauthedFacts
  <2> QED
    BY <1>5, <2>2 DEF DelNext, Leave
<1>6. CASE DelAllStations \/ StopAp \/ StopBssIoctl \/ StopAdapter \/ DelDone
  BY <1>6 DEF DelAllStations, StopAp, StopBssIoctl, StopAdapter, DelDone
<1>7. CASE StopApQueues \/ HostapdOpen \/ GetProbeRequest \/ SaveKey \/ TimerFires
  <2>1. ap'.bss = ap.bss /\ UNCHANGED <<sta, mc, fw>>
    BY <1>7, <1>a DEF StopApQueues, HostapdOpen, GetProbeRequest, SaveKey, TimerFires, Open, ApFields
  <2> QED
    BY <2>1
<1>8. CASE StopBss \/ CountStopped
  <2>1. /\ ap' = ap \/ ap' = [ap EXCEPT !.beacon = FALSE] \/ ap' = InitApMode
        /\ UNCHANGED <<sta, mc>>
    BY <1>8, Zenon DEF StopBss, CountStopped, StopFinished
  <2>2. /\ fw'.said = fw.said /\ fw'.joined = fw.joined
        /\ fw'.bss = fw.bss \/ (fw.bss = "up" /\ fw'.bss = "stopping")
    BY <1>8, <1>a DEF StopBss, CountStopped, IesReset, FwFields
  <2>3. ap'.bss \in {ap.bss, "stop"}
    BY <1>a, <2>1 DEF InitApMode, ApFields
  <2> QED
    BY <2>1, <2>2, <2>3
<1>9. CASE AddKey \/ PbcProbe \/ PbcTaken \/ PickChannel \/ ChannelAvoid
  <2>1. /\ fw'.said = fw.said /\ fw'.joined = fw.joined /\ UNCHANGED sta /\ ap'.bss = ap.bss
        /\ fw'.bss = fw.bss \/ {fw.bss, fw'.bss} = {"starting", "picked"}
        /\ mc' = mc \/ mc' # "started"
    BY <1>9, <1>a DEF AddKey, PbcProbe, PbcTaken, PickChannel, ChannelAvoid, Avoid, Unasked,
       ApFields, FwFields
  <2> QED
    BY <2>1
<1>10. CASE StartEvent
  <2>1. /\ fw.bss = "picked" /\ fw.said = <<>> /\ fw'.said = fw.said /\ fw'.joined = fw.joined
        /\ \/ fw'.bss = "up" /\ mc' = "started" /\ ap'.bss = ap.bss
           \/ fw'.bss = "none" /\ mc' = "idle" /\ ap'.bss = "stop"
        /\ UNCHANGED sta
    BY <1>10, <1>a DEF StartEvent, Stopped, ApFields, FwFields
  <2> QED
    BY <2>1
<1>11. CASE StartDone
  <2>1. /\ mc = "started" /\ fw'.said = fw.said /\ fw'.joined = fw.joined /\ fw'.bss = fw.bss
        /\ mc' = "idle" /\ UNCHANGED sta
    BY <1>11, <1>a DEF StartDone, FwFields
  <2> QED
    BY <2>1
<1>12. CASE StopEvent
  <2>1. /\ fw'.bss = "none" /\ fw'.joined = {} /\ fw'.said = <<>> /\ ap'.bss = "stop"
        /\ mc' = "idle" /\ \A s \in Stations : ~sta'[s].used
    BY <1>12, <1>a DEF StopEvent, Stopped, NoStations, ApFields, FwFields
  <2> QED
    BY <2>1
<1>13. CASE AssocEvent \/ DisassocEvent
  <2>1. /\ fw.said # <<>> /\ mc = "idle" /\ mc' = mc
        /\ fw'.bss = fw.bss /\ fw'.joined = fw.joined /\ ap'.bss = ap.bss
    BY <1>13, <1>a DEF AssocEvent, DisassocEvent, Hears, Heard, ApFields, FwFields
  <2> QED
    BY <2>1
<1>14. CASE StopP2pLink
  <2>1. /\ fw.bss = "up" /\ fw'.bss \in {"up", "stopping"} /\ ap'.bss = ap.bss
        /\ mc = "idle" /\ UNCHANGED <<sta, mc>>
    BY <1>14, <1>a DEF StopP2pLink, ApFields, FwFields
  <2> QED
    BY <2>1
<1>15. CASE ClearAllSta
  <2>1. fw'.bss = fw.bss /\ fw.bss = "up"
    BY <1>15, <1>a, ClearFacts DEF ClearAllSta
  <2> QED
    BY <1>15, <2>1 DEF ClearAllSta
<1>16. CASE Join
  <2>1. fw'.bss = "up" /\ fw.bss = "up"
    BY <1>16, <1>a, JoinFacts
  <2> QED
    BY <1>16, <2>1 DEF Join
<1> QED
  BY <1>1, <1>2, <1>3, <1>4, <1>5, <1>6, <1>7, <1>8, <1>9, <1>10, <1>11, <1>12, <1>13,
     <1>14, <1>15, <1>16
  DEF Next

\* The timer runs again when the last station leaves, and is stopped by the first that comes.
LEMMA TimerStep == Fields /\ RunningInv /\ TimerInv /\ Next => TimerInv'
<1> SUFFICES ASSUME Fields, RunningInv, TimerInv, Next PROVE TimerInv'
  OBVIOUS
<1> USE DEF TimerInv, SomeUsed
<1>a. ApFields /\ UserFields /\ FwFields /\ SaidTypes /\ StaTypes /\ SetTypes
  BY DEF Fields
<1>1. CASE \/ StartAp \/ ChangeBeacon \/ StartWaited \/ SetStarted \/ CountStarted
           \/ StopWaited \/ ClearStarted \/ StopApQueues \/ HostapdOpen \/ GetProbeRequest
           \/ SaveKey
  <2>1. \/ StartAp \/ ChangeBeacon => \E op, channel : StartBss(op, channel)
    BY DEF StartAp, ChangeBeacon
  <2>2. /\ ap'.bss = ap.bss /\ ap'.timer = ap.timer /\ ap'.shut = ap.shut
        /\ UNCHANGED sta
    BY <1>1, <1>a, <2>1 DEF StartAp, ChangeBeacon, StartBss, StartWaited, SetStarted, CountStarted,
       StopWaited, ClearStarted, StopApQueues, HostapdOpen, GetProbeRequest, SaveKey, TakeEvent,
       Open, ApFields
  <2>3. mishap \subseteq mishap'
    BY <1>1, <2>1 DEF StartBss, RefusedEarly, RefusedLate, EnterFails, Enter, StartWaited, SetStarted,
       CountStarted, StopWaited, ClearStarted, StopApQueues, HostapdOpen, GetProbeRequest, SaveKey,
       GiveUp, Fails
  <2> QED
    BY <2>2, <2>3
<1>2. CASE MarkedFirst \/ DelMark
  <2>1. /\ \E s \in Stations : sta' = [sta EXCEPT ![s].deauth = TRUE]
        /\ UNCHANGED ap /\ mishap \subseteq mishap'
    BY <1>2, <1>a DEF MarkedFirst, DelMark, SetTypes, Enter
  <2>2. \A t \in Stations : sta'[t].used = sta[t].used
    BY <1>a, <2>1, StationFacts
  <2> QED
    BY <2>1, <2>2
<1>3. CASE DelStation
  <2>1. PICK s \in Stations :
          \/ UNCHANGED <<sta, mishap>>
          \/ sta' = [sta EXCEPT ![s].deauth = FALSE] /\ Fails("deauth")
    BY <1>3, <1>a DEF DelStation, Unmarked, SetTypes
  <2>2. \A t \in Stations : sta'[t].used = sta[t].used
    BY <1>a, <2>1, StationFacts
  <2> QED
    BY <1>3, <2>1, <2>2 DEF DelStation, Fails
<1>4. CASE \/ DelNext \/ DelAllStations \/ StopAp \/ StopBssIoctl \/ StopAdapter \/ DelDone
           \/ AddKey \/ PickChannel \/ PbcProbe \/ ClearAllSta \/ Join \/ Leave
  <2>1. UNCHANGED <<ap, sta>> /\ mishap \subseteq mishap'
    BY <1>4 DEF DelNext, DelAllStations, StopAp, StopBssIoctl, StopAdapter, DelDone,
       AddKey, PickChannel, PbcProbe, ClearAllSta, Join, Leave, Enter, EnterFails, Fails
  <2> QED
    BY <2>1
<1>5. CASE StopBss \/ CountStopped
  <2>1. /\ ap' = ap \/ ap' = [ap EXCEPT !.beacon = FALSE] \/ ap' = InitApMode
        /\ UNCHANGED sta
    BY <1>5, Zenon DEF StopBss, CountStopped, StopFinished
  <2>2. mishap \subseteq mishap'
    BY <1>5 DEF StopBss, CountStopped, Fails
  <2>3. \/ ap'.bss = ap.bss /\ ap'.timer = ap.timer /\ ap'.shut = ap.shut
        \/ ap'.bss = "stop"
    BY <1>a, <2>1 DEF InitApMode, ApFields
  <2> QED
    BY <2>1, <2>2, <2>3
<1>6. CASE StartEvent
  <2>1. /\ \/ ap'.bss = ap.bss /\ ap'.timer = ap.timer /\ ap'.shut = ap.shut
           \/ ap'.bss = "stop"
        /\ UNCHANGED sta /\ mishap \subseteq mishap'
    BY <1>6, <1>a DEF StartEvent, Stopped, ApFields, Fails
  <2> QED
    BY <2>1
<1>7. CASE StartDone
  <2>1. ap'.timer = "running" /\ UNCHANGED sta /\ mc = "started"
    BY <1>7, <1>a DEF StartDone, ApFields
  <2> QED
    BY <2>1 DEF RunningInv
<1>8. CASE StopEvent
  BY <1>8, <1>a DEF StopEvent, Stopped, ApFields
<1>9. CASE AssocEvent
  <2>1. fw.said # <<>> /\ Head(fw.said).of \in Stations
    BY <1>9, <1>a, HeadFacts DEF AssocEvent, Hears
  <2>2. CASE sta' = [sta EXCEPT ![Head(fw.said).of] = [used |-> TRUE, deauth |-> FALSE]]
             /\ ap'.timer = (IF ap.timer = "running" THEN "stopped" ELSE ap.timer)
             /\ ap'.bss = ap.bss /\ mishap' = mishap
    <3>1. sta'[Head(fw.said).of].used
      BY <1>a, <2>1, <2>2, StationFacts
    <3> QED
      BY <2>1, <2>2, <3>1
  <2>3. CASE ap'.timer = (IF ap.timer = "running" THEN "stopped" ELSE ap.timer)
             /\ ap'.bss = ap.bss /\ "register" \in mishap'
    BY <2>3
  <2> QED
    BY <1>9, <1>a, <2>2, <2>3 DEF AssocEvent, Fails, ApFields
<1>10. CASE DisassocEvent
  <2> DEFINE s == Head(fw.said).of
  <2>1. fw.said # <<>> /\ s \in Stations
    BY <1>10, <1>a, HeadFacts DEF DisassocEvent, Hears
  <2>2. mishap' = mishap
    BY <1>10 DEF DisassocEvent
  <2>3. CASE sta[s].used
    <3>1. /\ sta' = [sta EXCEPT ![s] = [used |-> FALSE, deauth |-> FALSE]]
          /\ ap' = [ap EXCEPT !.timer = TimerAfter(ap, sta')]
      BY <1>10, <2>1, <2>3 DEF DisassocEvent, NoStations
    <3>2. ~sta'[s].used /\ \A t \in Stations \ {s} : sta'[t] = sta[t]
      BY <1>a, <2>1, <3>1, StationFacts
    <3>3. ap'.bss = ap.bss /\ ap'.shut = ap.shut /\ ap'.timer = TimerAfter(ap, sta')
      BY <1>a, <3>1 DEF ApFields
    <3>4. CASE \E t \in Stations : sta'[t].used
      BY <2>1, <2>2, <2>3, <3>3, <3>4 DEF TimerAfter
    <3>5. CASE ~\E t \in Stations : sta'[t].used
      BY <2>1, <2>2, <2>3, <3>3, <3>5 DEF TimerAfter
    <3> QED
      BY <3>4, <3>5
  <2>4. CASE ~sta[s].used
    BY <1>10, <2>2, <2>4 DEF DisassocEvent
  <2> QED
    BY <2>3, <2>4
<1>11. CASE TimerFires
  <2>1. /\ ap.timer = "running" /\ ap'.timer = "stopped" /\ ap'.shut /\ ap'.bss = ap.bss
        /\ UNCHANGED <<sta, mishap>>
    BY <1>11, <1>a DEF TimerFires, ApFields
  <2> QED
    BY <2>1
<1>12. CASE PbcTaken \/ StopP2pLink \/ ChannelAvoid
  <2>1. /\ ap'.bss = ap.bss /\ ap'.timer = ap.timer /\ ap'.shut = ap.shut
        /\ UNCHANGED sta /\ mishap \subseteq mishap'
    BY <1>12, <1>a DEF PbcTaken, StopP2pLink, ChannelAvoid, Avoid, ApFields
  <2> QED
    BY <2>1
<1> QED
  BY <1>1, <1>2, <1>3, <1>4, <1>5, <1>6, <1>7, <1>8, <1>9, <1>10, <1>11, <1>12 DEF Next

\* A key saved before the start event is given by it; one that is not saved before it was
\* on its way when it came.
LEMMA KeyStep == Fields /\ KeyInv /\ Next => KeyInv'
<1> SUFFICES ASSUME Fields, KeyInv, Next PROVE KeyInv'
  OBVIOUS
<1> USE DEF KeyInv
<1>a. ApFields /\ UserFields
  BY DEF Fields
<1>b. user' = Idle => user'.at = "idle"
  BY DEF Idle
<1>c. ASSUME NEW at, user' = [user EXCEPT !.at = at] PROVE user'.at = at
  BY <1>a, <1>c DEF UserFields
<1>d. ASSUME NEW at, user' = [user EXCEPT !.at = at, !.ok = FALSE] PROVE user'.at = at
  BY <1>a, <1>d DEF UserFields
<1>1. CASE StartAp \/ ChangeBeacon
  <2>1. PICK op, channel : StartBss(op, channel)
    BY <1>1 DEF StartAp, ChangeBeacon
  <2>2. ap'.bss = ap.bss /\ ap'.keys = ap.keys /\ user'.at \in {user.at, "startWait"}
    BY <1>a, <2>1 DEF StartBss, ApFields, Idle
  <2>3. mishap \subseteq mishap'
    BY <2>1 DEF StartBss, RefusedEarly, RefusedLate, EnterFails, Enter
  <2> QED
    BY <2>2, <2>3
<1>2. CASE StartWaited \/ SetStarted \/ CountStarted \/ StopWaited \/ ClearStarted
  <2>1. /\ ap'.bss = ap.bss /\ ap'.keys = ap.keys /\ mishap \subseteq mishap'
    BY <1>2, <1>a DEF StartWaited, SetStarted, CountStarted, StopWaited, ClearStarted, TakeEvent,
       GiveUp, Fails, ApFields
  <2>2. user'.at # "keySave"
    BY <1>2, <1>b, <1>c, <1>d
    DEF StartWaited, SetStarted, CountStarted, StopWaited, ClearStarted, Go
  <2> QED
    BY <2>1, <2>2
<1>3. CASE \/ MarkedFirst \/ DelStation \/ DelAllStations \/ DelNext \/ DelMark \/ DelDone
           \/ StopAp \/ StopBssIoctl \/ StopAdapter
  <2>1. UNCHANGED ap /\ mishap \subseteq mishap'
    BY <1>3 DEF MarkedFirst, DelStation, DelAllStations, DelNext, DelMark, DelDone, StopAp,
       StopBssIoctl, StopAdapter, Enter, Fails
  <2>2. user'.at # "keySave"
    <3>1. CASE MarkedFirst \/ DelAllStations \/ StopAp \/ StopBssIoctl \/ StopAdapter
      BY <3>1 DEF MarkedFirst, DelAllStations, StopAp, StopBssIoctl, StopAdapter, Idle
    <3>2. CASE DelNext
      BY <3>2, <1>a DEF DelNext, UserFields
    <3>3. CASE DelStation \/ DelMark \/ DelDone
      BY <3>3, <1>a DEF DelStation, DelMark, DelDone, Idle, Go, UserFields
    <3> QED
      BY <1>3, <3>1, <3>2, <3>3
  <2> QED
    BY <2>1, <2>2
<1>4. CASE StopApQueues \/ HostapdOpen \/ GetProbeRequest
  <2>1. /\ ap'.bss = ap.bss /\ ap'.keys = ap.keys
        /\ user'.at # "keySave" /\ mishap \subseteq mishap'
    BY <1>4, <1>a DEF StopApQueues, HostapdOpen, GetProbeRequest, Open, Idle, ApFields, UserFields,
       Enter, CanEnter
  <2> QED
    BY <2>1
<1>5. CASE StopBss \/ CountStopped
  <2>1. /\ ap' = ap \/ ap' = [ap EXCEPT !.beacon = FALSE] \/ ap' = InitApMode
        /\ mishap \subseteq mishap'
    BY <1>5, Zenon DEF StopBss, CountStopped, StopFinished, Fails
  <2>2. (ap'.bss = ap.bss /\ ap'.keys = ap.keys) \/ ap'.bss = "stop"
    BY <1>a, <2>1 DEF InitApMode, ApFields
  <2>3. \/ user' = Idle \/ user' = [user EXCEPT !.at = "stopWait"]
        \/ user' = [user EXCEPT !.at = "stopClear", !.ok = FALSE]
    BY <1>5, Zenon DEF StopBss, CountStopped, Go
  <2>4. user'.at # "keySave"
    BY <1>b, <1>c, <1>d, <2>3
  <2> QED
    BY <2>1, <2>2, <2>4
<1>6. CASE AddKey
  <2>1. UNCHANGED ap /\ mishap \subseteq mishap'
    BY <1>6 DEF AddKey, Enter, EnterFails
  <2>2. UNCHANGED user \/ ap.bss # "start"
    BY <1>6 DEF AddKey, BssRuns
  <2> QED
    BY <2>1, <2>2
<1>7. CASE SaveKey
  <2>1. user.at = "keySave" /\ ap'.bss = ap.bss /\ mishap' = mishap /\ user'.at = "idle"
    BY <1>7, <1>a DEF SaveKey, ApFields, Idle
  <2> QED
    BY <2>1
<1>8. CASE StartEvent
  <2>1. /\ ap'.keys = ap.keys /\ ap'.bss \in {ap.bss, "stop"}
        /\ UNCHANGED user /\ mishap \subseteq mishap'
    BY <1>8, <1>a DEF StartEvent, Stopped, ApFields, Fails
  <2> QED
    BY <2>1
<1>9. CASE StartDone
  <2>1. /\ ap'.keys = ap.keys \ Given /\ UNCHANGED user
        /\ user.at = "keySave" => "keyrace" \in mishap'
        /\ ap.keys \ Given # {} => "shadowed" \in mishap'
    BY <1>9, <1>a DEF StartDone, Given, ApFields
  <2>2. "group" \notin ap.keys \ Given
    BY DEF Given
  <2> QED
    BY <2>1, <2>2
<1>10. CASE StopEvent
  BY <1>10, <1>a DEF StopEvent, Stopped, ApFields
<1>11. CASE \/ AssocEvent \/ DisassocEvent \/ TimerFires \/ PbcTaken \/ StopP2pLink
            \/ ChannelAvoid
  <2>1. /\ ap'.bss = ap.bss /\ ap'.keys = ap.keys /\ UNCHANGED user /\ mishap \subseteq mishap'
    BY <1>11, <1>a DEF AssocEvent, DisassocEvent, TimerFires, PbcTaken, StopP2pLink,
       ChannelAvoid, Avoid, Fails, ApFields
  <2> QED
    BY <2>1
<1>12. CASE PickChannel \/ PbcProbe \/ ClearAllSta \/ Join \/ Leave
  BY <1>12 DEF PickChannel, PbcProbe, ClearAllSta, Join, Leave
<1> QED
  BY <1>1, <1>2, <1>3, <1>4, <1>5, <1>6, <1>7, <1>8, <1>9, <1>10, <1>11, <1>12 DEF Next

-----------------------------------------------------------------------------
\* What leaves, by place.
LEMMA LeavingAt ==
  ASSUME SaidTypes, NEW s
  PROVE  Leaving(s) <=> \E j \in 1..Len(fw.said) : fw.said[j] = Says(s, "disassoc")
<1>1. DOMAIN fw.said = 1..Len(fw.said)
  BY DEF SaidTypes
<1> QED
  BY <1>1 DEF Leaving, ToSet, Says

\* Nobody's leaving is forgotten, and who is joined no more leaves.
Kept ==
  /\ SaidInv'
  /\ \A s \in Stations : Leaving(s) => Leaving(s)'
  /\ \A s \in fw.joined : s \in fw'.joined \/ Leaving(s)'

\* What is said in addition keeps that, if it says who leaves.
LEMMA MoreSaid ==
  ASSUME SaidTypes, SaidTypes', SaidInv, NEW more \in Seq(Indications), fw'.said = fw.said \o more,
         \A i \in 1..Len(more) : more[i].says = "assoc" => more[i].of \in fw'.joined,
         \A s \in fw.joined : \/ s \in fw'.joined
                              \/ \E i \in 1..Len(more) : more[i] = Says(s, "disassoc")
  PROVE  Kept
<1> DEFINE n == Len(fw.said)
<1>1. /\ fw.said \in Seq(Indications) /\ n \in Nat /\ Len(more) \in Nat
      /\ Len(fw'.said) = n + Len(more)
      /\ \A i \in 1..n : fw'.said[i] = fw.said[i]
      /\ \A i \in 1..Len(more) : fw'.said[n + i] = more[i]
  BY DEF SaidTypes
<1> HIDE DEF n
<1>2. \A s \in fw.joined : s \in fw'.joined \/
         \E j \in 1..Len(fw'.said) : n < j /\ fw'.said[j] = Says(s, "disassoc")
  <2> TAKE s \in fw.joined
  <2>1. CASE s \in fw'.joined
    BY <2>1
  <2>2. CASE s \notin fw'.joined
    <3>1. PICK i \in 1..Len(more) : more[i] = Says(s, "disassoc")
      BY <2>2
    <3>2. n + i \in 1..Len(fw'.said) /\ n < n + i
      BY <1>1
    <3>3. fw'.said[n + i] = Says(s, "disassoc")
      BY <1>1, <3>1
    <3> QED
      BY <3>2, <3>3
  <2> QED
    BY <2>1, <2>2
<1>3. SaidInv'
  <2> SUFFICES ASSUME NEW i \in 1..Len(fw'.said), fw'.said[i].says = "assoc"
               PROVE  \/ fw'.said[i].of \in fw'.joined
                      \/ \E j \in 1..Len(fw'.said) :
                           i < j /\ fw'.said[j] = Says(fw'.said[i].of, "disassoc")
    BY DEF SaidInv, Says
  <2>1. CASE i \in 1..n
    <3>1. fw'.said[i] = fw.said[i]
      BY <1>1, <2>1
    <3>2. CASE fw.said[i].of \in fw.joined
      <4>1. \A j \in 1..Len(fw'.said) : n < j => i < j
        BY <1>1, <2>1
      <4> QED
        BY <1>2, <3>1, <3>2, <4>1
    <3>3. CASE fw.said[i].of \notin fw.joined
      <4>1. PICK j \in 1..n : i < j /\ fw.said[j] = Says(fw.said[i].of, "disassoc")
        BY <2>1, <3>1, <3>3 DEF SaidInv, n
      <4>2. j \in 1..Len(fw'.said) /\ fw'.said[j] = fw.said[j]
        BY <1>1
      <4> QED
        BY <3>1, <4>1, <4>2
    <3> QED
      BY <3>2, <3>3
  <2>2. CASE i \notin 1..n
    <3>1. i - n \in 1..Len(more) /\ i = n + (i - n)
      BY <1>1, <2>2
    <3>2. fw'.said[i] = more[i - n]
      BY <1>1, <3>1
    <3> QED
      BY <3>1, <3>2
  <2> QED
    BY <2>1, <2>2
<1>4. ASSUME NEW s \in Stations, Leaving(s) PROVE Leaving(s)'
  <2>1. PICK j \in 1..n : fw.said[j] = Says(s, "disassoc")
    BY <1>4, LeavingAt DEF n
  <2>2. j \in 1..Len(fw'.said) /\ fw'.said[j] = Says(s, "disassoc")
    BY <1>1, <2>1
  <2>3. \E i \in 1..Len(fw'.said) : fw'.said[i] = Says(s, "disassoc")
    BY <2>2
  <2>4. DOMAIN fw'.said = 1..Len(fw'.said)
    BY DEF SaidTypes
  <2> QED
    BY <2>3, <2>4 DEF Leaving, ToSet, Says
<1>5. ASSUME NEW s \in fw.joined, s \notin fw'.joined PROVE Leaving(s)'
  <2>1. \E i \in 1..Len(fw'.said) : fw'.said[i] = Says(s, "disassoc")
    BY <1>2, <1>5
  <2>2. DOMAIN fw'.said = 1..Len(fw'.said)
    BY DEF SaidTypes
  <2> QED
    BY <2>1, <2>2 DEF Leaving, ToSet, Says
<1> QED
  BY <1>3, <1>4, <1>5 DEF Kept

LEMMA SameKeeps ==
  ASSUME SaidTypes, SaidInv, fw'.said = fw.said, fw'.joined = fw.joined
  PROVE  Kept
BY DEF Kept, SaidInv, Leaving

LEMMA DeauthedKeeps ==
  ASSUME FwFields, SaidTypes, SaidInv, NEW s \in Stations, fw' = Deauthed(fw, s)
  PROVE  Kept
<1>1. CASE s \in fw.joined
  <2> DEFINE more == <<Says(s, "disassoc")>>
  <2>1. Says(s, "disassoc") \in Indications
    BY DEF Says, Indications
  <2>2. more \in Seq(Indications) /\ Len(more) = 1 /\ more[1] = Says(s, "disassoc")
    BY <2>1
  <2>3. /\ SaidTypes' /\ fw'.joined = fw.joined \ {s}
        /\ fw'.said = Append(fw.said, Says(s, "disassoc"))
    BY <1>1, DeauthedFacts
  <2>4. fw'.said = fw.said \o more
    BY <2>1, <2>3 DEF SaidTypes
  <2>5. \A i \in 1..Len(more) : i = 1 /\ more[i].says = "disassoc"
    BY <2>2 DEF Says
  <2> HIDE DEF more
  <2>6. \A t \in fw.joined : \/ t \in fw'.joined
                             \/ \E i \in 1..Len(more) : more[i] = Says(t, "disassoc")
    BY <2>2, <2>3
  <2>7. \A i \in 1..Len(more) : more[i].says = "assoc" => more[i].of \in fw'.joined
    BY <2>5
  <2> QED
    BY <2>2, <2>3, <2>4, <2>6, <2>7, MoreSaid
<1>2. CASE s \notin fw.joined
  <2>1. fw'.joined = fw.joined /\ fw'.said = fw.said
    BY <1>2, DeauthedFacts
  <2> QED
    BY <2>1, SameKeeps
<1> QED
  BY <1>1, <1>2

LEMMA ClearKeeps ==
  ASSUME FwFields, SaidTypes, SaidInv, ClearAllSta
  PROVE  Kept
<1>1. SaidTypes'
  BY ClearFacts
<1>2. PICK going \in SUBSET fw.joined, more \in Seq(Indications) :
        /\ fw'.joined = fw.joined \ going
        /\ fw'.said = fw.said \o more
        /\ \A i \in 1..Len(more) : more[i].says = "disassoc"
        /\ \A s \in going : \E i \in 1..Len(more) : more[i] = Says(s, "disassoc")
  BY ClearFacts
<1> QED
  BY <1>1, <1>2, MoreSaid

LEMMA JoinKeeps ==
  ASSUME FwFields, SaidTypes, SaidInv, Join
  PROVE  Kept
<1>1. SaidTypes'
  BY JoinFacts
<1>2. PICK s \in Stations : /\ fw'.joined = fw.joined \union {s}
                            /\ fw'.said = Append(fw.said, Says(s, "assoc"))
  BY JoinFacts
<1> DEFINE more == <<Says(s, "assoc")>>
<1>3. Says(s, "assoc") \in Indications
  BY DEF Says, Indications
<1>4. more \in Seq(Indications) /\ Len(more) = 1 /\ more[1] = Says(s, "assoc")
  BY <1>3
<1>5. fw'.said = fw.said \o more
  BY <1>2, <1>3 DEF SaidTypes
<1>6. \A i \in 1..Len(more) : more[i].of \in fw'.joined
  BY <1>2, <1>4 DEF Says
<1> HIDE DEF more
<1> QED
  BY <1>1, <1>2, <1>4, <1>5, <1>6, MoreSaid

\* Hearing the oldest indication loses only what it says.
LEMMA HeardKeeps ==
  ASSUME SaidTypes, SaidInv, fw.said # <<>>, fw'.said = Tail(fw.said), fw'.joined = fw.joined
  PROVE  /\ SaidInv'
         /\ \A s \in Stations : Leaving(s) => Leaving(s)' \/ fw.said[1] = Says(s, "disassoc")
         /\ \A s \in Stations : fw.said[1] = Says(s, "assoc") => s \in fw.joined \/ Leaving(s)'
<1> DEFINE n == Len(fw.said)
<1>1. /\ fw.said \in Seq(Indications) /\ n \in Nat \ {0} /\ Len(fw'.said) = n - 1
      /\ \A i \in 1..(n - 1) : fw'.said[i] = fw.said[i + 1]
      /\ DOMAIN fw'.said = 1..Len(fw'.said)
  BY HeadFacts DEF SaidTypes
<1> HIDE DEF n
<1>2. ASSUME NEW j \in 1..n, j # 1
      PROVE  j - 1 \in 1..Len(fw'.said) /\ fw'.said[j - 1] = fw.said[j]
  BY <1>1, <1>2
<1>3. SaidInv'
  <2> SUFFICES ASSUME NEW i \in 1..Len(fw'.said), fw'.said[i].says = "assoc"
               PROVE  \/ fw'.said[i].of \in fw'.joined
                      \/ \E j \in 1..Len(fw'.said) :
                           i < j /\ fw'.said[j] = Says(fw'.said[i].of, "disassoc")
    BY DEF SaidInv, Says
  <2>1. i + 1 \in 1..n /\ fw'.said[i] = fw.said[i + 1]
    BY <1>1
  <2>2. CASE fw.said[i + 1].of \notin fw.joined
    <3>1. PICK j \in 1..n : i + 1 < j /\ fw.said[j] = Says(fw.said[i + 1].of, "disassoc")
      BY <2>1, <2>2 DEF SaidInv, n
    <3>2. j - 1 \in 1..Len(fw'.said) /\ fw'.said[j - 1] = fw.said[j] /\ i < j - 1
      BY <1>1, <1>2, <3>1
    <3> QED
      BY <2>1, <3>1, <3>2
  <2> QED
    BY <2>1, <2>2
<1>4. ASSUME NEW s \in Stations, NEW j \in 1..n, j # 1, fw.said[j] = Says(s, "disassoc")
      PROVE  Leaving(s)'
  <2>1. j - 1 \in DOMAIN fw'.said /\ fw'.said[j - 1] = [of |-> s, says |-> "disassoc"]
    BY <1>1, <1>2, <1>4 DEF Says
  <2> QED
    BY <2>1 DEF Leaving, ToSet
<1>5. ASSUME NEW s \in Stations, Leaving(s), fw.said[1] # Says(s, "disassoc")
      PROVE  Leaving(s)'
  BY <1>4, <1>5, LeavingAt DEF n
<1>6. ASSUME NEW s \in Stations, fw.said[1] = Says(s, "assoc"), s \notin fw.joined
      PROVE  Leaving(s)'
  <2>1. 1 \in 1..n /\ fw.said[1].of = s /\ fw.said[1].says = "assoc"
    BY <1>1, <1>6 DEF Says
  <2>2. PICK j \in 1..n : 1 < j /\ fw.said[j] = Says(s, "disassoc")
    BY <1>6, <2>1 DEF SaidInv, n
  <2> QED
    BY <1>4, <2>2
<1> QED
  BY <1>3, <1>5, <1>6

\* Where nothing happens to the stations' table.
LEMMA LeavingFrame ==
  ASSUME Fields, LeavingInv, Kept, UNCHANGED sta, mishap \subseteq mishap',
         UNCHANGED user \/ (user.at # "deauth" /\ user'.at # "deauth")
  PROVE  LeavingInv'
<1>1. \A s \in Stations : sta'[s].used => s \in fw'.joined \/ Leaving(s)'
  BY DEF LeavingInv, Kept
<1>2. ASSUME "rejoined" \notin mishap', NEW s \in Stations, sta'[s].used /\ sta'[s].deauth
      PROVE  Leaving(s)' \/ Marked(s)'
  <2>1. Leaving(s) \/ Marked(s)
    BY <1>2 DEF LeavingInv
  <2> QED
    BY <2>1 DEF Kept, Marked
<1> QED
  BY <1>1, <1>2 DEF LeavingInv, Kept

LEMMA LeavingStep == Fields /\ LeavingInv /\ Next => LeavingInv'
<1> SUFFICES ASSUME Fields, LeavingInv, Next PROVE LeavingInv'
  OBVIOUS
<1>a. ApFields /\ UserFields /\ FwFields /\ SaidTypes /\ StaTypes /\ SetTypes /\ SaidInv
  BY DEF Fields, LeavingInv
<1>b. user' = Idle => user'.at = "idle"
  BY DEF Idle
<1>c. ASSUME NEW at, user' = [user EXCEPT !.at = at] PROVE user'.at = at
  BY <1>a, <1>c DEF UserFields
<1>d. ASSUME NEW at, user' = [user EXCEPT !.at = at, !.ok = FALSE] PROVE user'.at = at
  BY <1>a, <1>d DEF UserFields
<1>1. CASE StartAp \/ ChangeBeacon
  <2>1. PICK op, channel : StartBss(op, channel) /\ UNCHANGED sta
    BY <1>1 DEF StartAp, ChangeBeacon
  <2>2. fw'.said = fw.said /\ fw'.joined = fw.joined
    BY <1>a, <2>1 DEF StartBss, ApIes, FwFields
  <2>3. UNCHANGED user \/ (user.at # "deauth" /\ user'.at # "deauth")
    BY <2>1 DEF StartBss, Enter, CanEnter, Idle
  <2>4. mishap \subseteq mishap'
    BY <2>1 DEF StartBss, RefusedEarly, RefusedLate, EnterFails, Enter
  <2> QED
    BY <1>a, <2>1, <2>2, <2>3, <2>4, SameKeeps, LeavingFrame
<1>2. CASE StartWaited \/ SetStarted \/ CountStarted \/ StopWaited \/ ClearStarted \/ SaveKey
  <2>1. UNCHANGED <<fw, sta>> /\ mishap \subseteq mishap'
    BY <1>2 DEF StartWaited, SetStarted, CountStarted, StopWaited, ClearStarted, SaveKey, TakeEvent,
       GiveUp, Fails
  <2>2. user.at # "deauth" /\ user'.at # "deauth"
    BY <1>2, <1>b, <1>c, <1>d
    DEF StartWaited, SetStarted, CountStarted, StopWaited, ClearStarted, SaveKey, Go
  <2> QED
    BY <1>a, <2>1, <2>2, SameKeeps, LeavingFrame
<1>3. CASE MarkedFirst
  <2>1. PICK s \in Stations : /\ ~sta[s].deauth
                              /\ sta' = [sta EXCEPT ![s].deauth = TRUE]
                              /\ user' = [Idle EXCEPT !.at = "deauth", !.one = {s}]
    BY <1>3 DEF MarkedFirst
  <2>2. user'.at = "deauth" /\ user'.one = {s} /\ user.at = "idle"
    BY <1>3, <2>1 DEF MarkedFirst, Idle, Enter, CanEnter
  <2>3. Kept /\ fw' = fw /\ mishap' = mishap
    BY <1>3, <1>a, SameKeeps DEF MarkedFirst, Enter
  <2>4. /\ \A t \in Stations : sta'[t].used = sta[t].used
        /\ \A t \in Stations \ {s} : sta'[t] = sta[t]
    BY <1>a, <2>1, StationFacts
  <2> QED
    BY <2>1, <2>2, <2>3, <2>4 DEF LeavingInv, Kept, Marked
<1>4. CASE DelStation
  <2>1. user'.at = "idle" /\ user.at = "deauth"
    BY <1>4, <1>b DEF DelStation
  <2>2. PICK s \in Stations : user.one = {s}
    BY <2>1 DEF LeavingInv
  <2>3. CASE fw' = Deauthed(fw, s) /\ UNCHANGED <<sta, mishap>>
    <3>1. Kept /\ fw'.joined = fw.joined \ {s}
      BY <1>a, <2>3, DeauthedKeeps, DeauthedFacts
    <3>2. sta[s].used => Leaving(s)'
      BY <3>1 DEF LeavingInv, Kept
    <3> QED
      BY <2>1, <2>2, <2>3, <3>1, <3>2 DEF LeavingInv, Kept, Marked
  <2>4. CASE sta' = [sta EXCEPT ![s].deauth = FALSE] /\ UNCHANGED fw /\ Fails("deauth")
    <3>1. Kept
      BY <1>a, <2>4, SameKeeps
    <3>2. /\ ~sta'[s].deauth /\ \A t \in Stations : sta'[t].used = sta[t].used
          /\ \A t \in Stations \ {s} : sta'[t] = sta[t]
      BY <1>a, <2>4, StationFacts
    <3> QED
      BY <2>1, <2>2, <2>4, <3>1, <3>2 DEF LeavingInv, Kept, Marked, Fails
  <2> QED
    BY <1>4, <2>2, <2>3, <2>4 DEF DelStation, Unmarked
<1>5. CASE DelNext \/ Leave
  <2>1. UNCHANGED fw \/ \E s \in Stations : fw' = Deauthed(fw, s)
    BY <1>5, <1>a DEF DelNext, Leave, SetTypes, SaidTypes
  <2>2. Kept
    BY <1>a, <2>1, DeauthedKeeps, SameKeeps
  <2>3. UNCHANGED sta /\ mishap \subseteq mishap'
    BY <1>5 DEF DelNext, Leave, Fails
  <2>4. UNCHANGED user \/ (user.at # "deauth" /\ user'.at # "deauth")
    BY <1>5, <1>a DEF DelNext, Leave, UserFields
  <2> QED
    BY <2>2, <2>3, <2>4, LeavingFrame
<1>6. CASE DelMark
  <2>1. PICK s \in Stations :
          /\ sta' = [sta EXCEPT ![s].deauth = TRUE]
          /\ mishap' = mishap \union (IF sta[s].used /\ ~Leaving(s) THEN {"rejoined"} ELSE {})
    BY <1>6, <1>a DEF DelMark, SetTypes
  <2>2. user.at # "deauth" /\ user'.at # "deauth"
    BY <1>6, <1>c DEF DelMark, Go
  <2>3. Kept
    BY <1>6, <1>a, SameKeeps DEF DelMark
  <2>4. /\ \A t \in Stations : sta'[t].used = sta[t].used
        /\ \A t \in Stations \ {s} : sta'[t] = sta[t]
    BY <1>a, <2>1, StationFacts
  <2>5. \A t \in Stations : sta'[t].used => t \in fw'.joined \/ Leaving(t)'
    BY <2>3, <2>4 DEF LeavingInv, Kept
  <2>6. ASSUME "rejoined" \notin mishap', NEW t \in Stations, sta'[t].used, sta'[t].deauth
        PROVE  Leaving(t)'
    <3>1. CASE t = s
      BY <2>1, <2>3, <2>4, <2>6, <3>1 DEF Kept
    <3>2. CASE t # s
      BY <2>1, <2>2, <2>3, <2>4, <2>6, <3>2 DEF LeavingInv, Marked, Kept
    <3> QED
      BY <3>1, <3>2
  <2> QED
    BY <2>2, <2>3, <2>5, <2>6 DEF LeavingInv, Kept
<1>7. CASE DelAllStations \/ StopAp \/ StopBssIoctl \/ StopAdapter \/ DelDone
  <2>1. UNCHANGED <<fw, sta, mishap>>
    BY <1>7 DEF DelAllStations, StopAp, StopBssIoctl, StopAdapter, DelDone, Enter
  <2>2. user.at # "deauth" /\ user'.at # "deauth"
    <3>1. CASE DelAllStations \/ StopAp
      BY <3>1 DEF DelAllStations, StopAp, Enter, CanEnter, Idle
    <3>2. CASE StopBssIoctl \/ StopAdapter
      BY <3>2 DEF StopBssIoctl, StopAdapter, Enter, CanEnter, Idle
    <3>3. CASE DelDone
      BY <3>3, <1>b DEF DelDone
    <3> QED
      BY <1>7, <3>1, <3>2, <3>3
  <2> QED
    BY <1>a, <2>1, <2>2, SameKeeps, LeavingFrame
<1>8. CASE StopApQueues \/ HostapdOpen \/ GetProbeRequest
  <2>1. UNCHANGED <<fw, sta, mishap>>
    BY <1>8 DEF StopApQueues, HostapdOpen, GetProbeRequest, Enter
  <2>2. UNCHANGED user \/ (user.at # "deauth" /\ user'.at # "deauth")
    BY <1>8, <1>b, <1>c DEF StopApQueues, HostapdOpen, GetProbeRequest
  <2> QED
    BY <1>a, <2>1, <2>2, SameKeeps, LeavingFrame
<1>9. CASE StopBss \/ CountStopped
  <2>1. UNCHANGED sta /\ mishap \subseteq mishap' /\ user.at # "deauth"
    BY <1>9 DEF StopBss, CountStopped, Fails
  <2>2. fw'.said = fw.said /\ fw'.joined = fw.joined
    BY <1>9, <1>a DEF StopBss, CountStopped, IesReset, FwFields
  <2>3. \/ user' = Idle \/ user' = [user EXCEPT !.at = "stopWait"]
        \/ user' = [user EXCEPT !.at = "stopClear", !.ok = FALSE]
    BY <1>9, Zenon DEF StopBss, CountStopped, Go
  <2>4. user'.at # "deauth"
    BY <1>b, <1>c, <1>d, <2>3
  <2> QED
    BY <1>a, <2>1, <2>2, <2>4, SameKeeps, LeavingFrame
<1>10. CASE AddKey
  <2>1. UNCHANGED sta /\ mishap \subseteq mishap' /\ user.at # "deauth"
    BY <1>10 DEF AddKey, Enter, EnterFails, CanEnter
  <2>2. fw'.said = fw.said /\ fw'.joined = fw.joined
    BY <1>10, <1>a DEF AddKey, FwFields
  <2>3. UNCHANGED user \/ user'.at # "deauth"
    BY <1>10 DEF AddKey, Idle
  <2> QED
    BY <1>a, <2>1, <2>2, <2>3, SameKeeps, LeavingFrame
<1>11. CASE \/ PickChannel \/ StartEvent \/ StartDone \/ TimerFires \/ PbcProbe \/ PbcTaken
            \/ StopP2pLink \/ ChannelAvoid
  <2>1. UNCHANGED <<sta, user>> /\ mishap \subseteq mishap'
    BY <1>11 DEF PickChannel, StartEvent, StartDone, TimerFires, PbcProbe, PbcTaken, StopP2pLink,
       ChannelAvoid, Fails
  <2>2. fw'.said = fw.said /\ fw'.joined = fw.joined
    BY <1>11, <1>a DEF PickChannel, StartEvent, StartDone, TimerFires, PbcProbe, PbcTaken,
       StopP2pLink, ChannelAvoid, FwFields
  <2> QED
    BY <1>a, <2>1, <2>2, SameKeeps, LeavingFrame
<1>12. CASE StopEvent
  <2>1. fw'.said = <<>> /\ UNCHANGED user /\ \A s \in Stations : ~sta'[s].used
    BY <1>12, <1>a DEF StopEvent, NoStations, FwFields
  <2>2. Len(fw'.said) = 0
    BY <2>1
  <2> QED
    BY <2>1, <2>2 DEF LeavingInv, SaidInv
<1>13. CASE AssocEvent \/ DisassocEvent
  <2>0. PICK s \in Stations : fw.said[1] = Says(s, fw.said[1].says)
    BY <1>13, <1>a, HeadFacts DEF AssocEvent, DisassocEvent, Hears
  <2>1. fw.said # <<>> /\ Head(fw.said) = fw.said[1] /\ fw.said[1].of = s
    BY <1>13, <1>a, <2>0, HeadFacts DEF AssocEvent, DisassocEvent, Hears, Says
  <2>2. fw'.said = Tail(fw.said) /\ fw'.joined = fw.joined
    BY <1>13, <1>a DEF AssocEvent, DisassocEvent, Heard, FwFields
  <2>3. /\ SaidInv' /\ UNCHANGED user /\ mishap \subseteq mishap'
        /\ \A t \in Stations : Leaving(t) => Leaving(t)' \/ fw.said[1] = Says(t, "disassoc")
        /\ fw.said[1] = Says(s, "assoc") => s \in fw.joined \/ Leaving(s)'
    BY <1>13, <1>a, <2>1, <2>2, HeardKeeps DEF AssocEvent, DisassocEvent, Fails
  <2>4. ASSUME NEW t \in Stations \ {s}, Leaving(t) PROVE Leaving(t)'
    <3>1. fw.said[1] # Says(t, "disassoc")
      BY <2>1 DEF Says
    <3> QED
      BY <2>3, <2>4, <3>1
  <2>5. CASE AssocEvent
    <3>1. fw.said[1] = Says(s, "assoc")
      BY <2>0, <2>1, <2>5 DEF AssocEvent, Hears
    <3>2. /\ \A t \in Stations \ {s} : sta'[t] = sta[t]
          /\ sta'[s] = sta[s] \/ ~sta'[s].deauth
      BY <1>a, <2>1, <2>5, StationFacts DEF AssocEvent
    <3>3. s \in fw'.joined \/ Leaving(s)'
      BY <2>2, <2>3, <3>1
    <3>4. Leaving(s) => Leaving(s)'
      <4>1. Says(s, "assoc") # Says(s, "disassoc")
        BY DEF Says
      <4> QED
        BY <2>3, <3>1, <4>1
    <3> QED
      BY <2>2, <2>3, <2>4, <3>2, <3>3, <3>4 DEF LeavingInv, Marked
  <2>6. CASE DisassocEvent
    <3>1. ~sta'[s].used /\ \A t \in Stations \ {s} : sta'[t] = sta[t]
      <4>1. NoStations[s] = [used |-> FALSE, deauth |-> FALSE]
        BY <2>1 DEF NoStations
      <4>2. \/ sta' = [sta EXCEPT ![s] = [used |-> FALSE, deauth |-> FALSE]]
            \/ UNCHANGED sta /\ ~sta[s].used
        BY <2>1, <2>6, <4>1 DEF DisassocEvent
      <4> QED
        BY <1>a, <2>1, <4>2, StationFacts
    <3> QED
      BY <2>2, <2>3, <2>4, <3>1 DEF LeavingInv, Marked
  <2> QED
    BY <1>13, <2>5, <2>6
<1>14. CASE ClearAllSta
  BY <1>14, <1>a, ClearKeeps, LeavingFrame DEF ClearAllSta
<1>15. CASE Join
  BY <1>15, <1>a, JoinKeeps, LeavingFrame DEF Join
<1> QED
  BY <1>1, <1>2, <1>3, <1>4, <1>5, <1>6, <1>7, <1>8, <1>9, <1>10, <1>11, <1>12, <1>13,
     <1>14, <1>15
  DEF Next

-----------------------------------------------------------------------------
(* What driver, WLANSAP and cfg80211 agree on.                             *)

\* Where a request does something else.
Elsewhere == {"idle", "deauth", "delAll", "delMark", "keySave"}

LEMMA AgreeFrame ==
  ASSUME AgreeInv, mishap \subseteq mishap', UNCHANGED <<cfg, active>>,
         mc' = "started" <=> mc = "started",
         ap'.bss = ap.bss, ap'.started = ap.started, ap'.event = ap.event,
         ap'.queues = ap.queues, ap'.beacon = ap.beacon,
         fw'.bss = fw.bss, fw'.ies = fw.ies,
         Clean' => \/ UNCHANGED user
                   \/ /\ user.at \in Elsewhere /\ user'.at \in Elsewhere
                      /\ user'.op # "leave" /\ user'.ok
  PROVE  AgreeInv'
<1> SUFFICES ASSUME Clean' PROVE BssInv' /\ CountInv' /\ QueuesInv' /\ EventInv' /\ BeaconInv'
  BY DEF AgreeInv
<1>1. Clean /\ BssInv /\ CountInv /\ QueuesInv /\ EventInv /\ BeaconInv
  BY DEF AgreeInv, Clean
<1>2. CASE UNCHANGED user
  BY <1>1, <1>2 DEF BssInv, CountInv, QueuesInv, EventInv, BeaconInv, Running, Starts, Refusals
<1>3. CASE user.at \in Elsewhere /\ user'.at \in Elsewhere /\ user'.op # "leave" /\ user'.ok
  BY <1>1, <1>3
  DEF BssInv, CountInv, QueuesInv, EventInv, BeaconInv, Running, Starts, Refusals, Elsewhere
<1> QED
  BY <1>2, <1>3

\* What a stop leaves behind, by the request that made it.
LEMMA Ended ==
  ASSUME Fields, ap' = StopFinished(ap), fw' = IesReset(fw), cfg' = [cfg EXCEPT !.ap = @ /\ ~Forgotten]
  PROVE  /\ fw'.bss = fw.bss /\ cfg'.restart = cfg.restart
         /\ \/ /\ user.op = "stop" /\ user.ok /\ ~ap'.beacon /\ cfg'.ap = FALSE /\ ~fw'.ies
               /\ ap'.bss = ap.bss /\ ap'.started = ap.started /\ ap'.event = ap.event
               /\ ap'.queues = ap.queues
            \/ /\ user.op = "leave" /\ ~ap'.beacon /\ ap'.bss = "stop" /\ ~ap'.started
               /\ ap'.event = 0 /\ ~ap'.queues /\ cfg'.ap = cfg.ap /\ (fw'.ies => fw.ies)
            \/ /\ user.op # "leave" /\ ~(user.op = "stop" /\ user.ok)
               /\ ap'.beacon = ap.beacon /\ cfg'.ap = cfg.ap /\ (fw'.ies => fw.ies)
               /\ ap'.bss = ap.bss /\ ap'.started = ap.started /\ ap'.event = ap.event
               /\ ap'.queues = ap.queues
<1>a. ApFields /\ FwFields
  BY DEF Fields
<1>1. fw'.bss = fw.bss /\ (fw'.ies => fw.ies /\ ~Forgotten)
  BY <1>a DEF IesReset, FwFields
<1>2. cfg'.restart = cfg.restart /\ cfg'.ap = (cfg.ap /\ ~Forgotten)
  BY <1>a DEF ApFields
<1>3. CASE Forgotten
  <2>1. ap' = [ap EXCEPT !.beacon = FALSE]
    BY <1>3 DEF StopFinished, Forgotten
  <2>2. /\ ~ap'.beacon /\ ap'.bss = ap.bss /\ ap'.started = ap.started /\ ap'.event = ap.event
        /\ ap'.queues = ap.queues
    BY <1>a, <2>1 DEF ApFields
  <2> QED
    BY <1>1, <1>2, <1>3, <2>2 DEF Forgotten
<1>4. CASE ~Forgotten /\ user.op = "leave"
  <2>1. ap' = InitApMode
    BY <1>4 DEF StopFinished
  <2>2. cfg'.ap = cfg.ap
    BY <1>a, <1>2, <1>4 DEF ApFields
  <2> QED
    BY <1>1, <1>2, <1>4, <2>1, <2>2 DEF InitApMode
<1>5. CASE ~Forgotten /\ user.op # "leave"
  <2>1. ap' = ap
    BY <1>5 DEF StopFinished
  <2>2. cfg'.ap = cfg.ap
    BY <1>a, <1>2, <1>5 DEF ApFields
  <2> QED
    BY <1>1, <1>2, <1>5, <2>1, <2>2 DEF Forgotten
<1> QED
  BY <1>3, <1>4, <1>5

LEMMA AgreeStep == Fields /\ RunningInv /\ AgreeInv /\ Next => AgreeInv'
<1> SUFFICES ASSUME Fields, RunningInv, AgreeInv, Next PROVE AgreeInv'
  OBVIOUS
<1>a. ApFields /\ UserFields /\ FwFields /\ SaidTypes /\ StaTypes /\ SetTypes
  BY DEF Fields
<1>b. user' = Idle => user'.at = "idle" /\ user'.op = "none" /\ user'.ok
  BY DEF Idle
<1>c. ASSUME NEW at, user' = [user EXCEPT !.at = at]
      PROVE  user'.at = at /\ user'.op = user.op /\ user'.ok = user.ok
  BY <1>a, <1>c DEF UserFields
<1>d. ASSUME NEW at, user' = [user EXCEPT !.at = at, !.ok = FALSE] PROVE user'.at = at /\ ~user'.ok
  BY <1>a, <1>d DEF UserFields
<1>e. ASSUME Clean', mishap \subseteq mishap'
      PROVE  Clean /\ BssInv /\ CountInv /\ QueuesInv /\ EventInv /\ BeaconInv
  BY <1>e DEF AgreeInv, Clean
<1>g. ~ap'.beacon => ap'.beacon = FALSE
  BY FieldsStep DEF Fields, ApFields
<1>f. ASSUME mishap \subseteq mishap',
             Clean' => BssInv' /\ CountInv' /\ QueuesInv' /\ EventInv' /\ BeaconInv'
      PROVE  AgreeInv'
  BY <1>f DEF AgreeInv
<1>1. CASE StartAp \/ ChangeBeacon
  <2>1. PICK op, channel : /\ op \in {"start", "change"} /\ StartBss(op, channel)
                           /\ UNCHANGED <<active, mc>>
    BY <1>1 DEF StartAp, ChangeBeacon
  <2>2. /\ ap'.beacon /\ ap'.bss = ap.bss /\ ap'.started = ap.started /\ ap'.event = ap.event
        /\ ap'.queues = ap.queues
    BY <1>a, <2>1 DEF StartBss, ApFields
  <2>3. mishap \subseteq mishap' /\ user.at = "idle"
    BY <2>1 DEF StartBss, RefusedEarly, RefusedLate, EnterFails, Enter, CanEnter
  <2>4. CASE /\ UNCHANGED <<user, cfg>> /\ fw'.bss = fw.bss
             /\ \E kind \in Refusals : kind \in mishap'
    BY <1>e, <1>f, <2>1, <2>2, <2>3, <2>4
    DEF BssInv, CountInv, QueuesInv, EventInv, BeaconInv, Running, Starts
  <2>5. CASE UNCHANGED user /\ fw'.bss = fw.bss /\ cfg'.ap /\ cfg'.restart = cfg.restart
    BY <1>e, <1>f, <1>a, <2>1, <2>2, <2>3, <2>5
    DEF BssInv, CountInv, QueuesInv, EventInv, BeaconInv, Running, Starts, ApFields
  <2>6. CASE /\ ~ap.started /\ fw.bss = "none" /\ fw'.bss = "starting" /\ UNCHANGED cfg
             /\ user' = [Idle EXCEPT !.at = "startWait", !.op = op]
    <3>1. user'.at = "startWait" /\ user'.op # "leave" /\ user'.ok
      BY <2>1, <2>6 DEF Idle
    <3> QED
      BY <1>e, <1>f, <2>1, <2>2, <2>3, <2>6, <3>1
      DEF BssInv, CountInv, QueuesInv, EventInv, BeaconInv, Running, Starts
  <2>8. CASE RefusedEarly(channel) /\ UNCHANGED <<user, cfg, fw>>
    <3>1. \E kind \in Refusals : kind \in mishap'
      BY <2>8 DEF RefusedEarly, EnterFails, Refusals
    <3> QED
      BY <2>4, <2>8, <3>1
  <2>9. CASE ~ap.started /\ RefusedLate /\ fw' = ApIes(fw) /\ UNCHANGED <<user, cfg>>
    <3>1. \E kind \in Refusals : kind \in mishap'
      BY <2>9 DEF RefusedLate, EnterFails, Refusals
    <3>2. fw'.bss = fw.bss
      BY <1>a, <2>9 DEF ApIes, FwFields
    <3> QED
      BY <2>4, <2>9, <3>1, <3>2
  <2>10. CASE /\ ap.started /\ fw' = ApIes(fw) /\ cfg' = [cfg EXCEPT !.ap = TRUE] /\ UNCHANGED user
    BY <1>a, <2>5, <2>10 DEF ApIes, FwFields, ApFields
  <2>11. CASE /\ ~ap.started /\ CanStart /\ fw' = [ApIes(fw) EXCEPT !.bss = "starting"]
              /\ user' = [Idle EXCEPT !.at = "startWait", !.op = op] /\ UNCHANGED cfg
    BY <1>a, <2>6, <2>11 DEF ApIes, CanStart, FwFields
  <2> QED
    BY <2>1, <2>8, <2>9, <2>10, <2>11 DEF StartBss
<1>2. CASE StartWaited
  <2>1. /\ user.at = "startWait" /\ user'.at = "startSet" /\ user'.op = user.op /\ user'.ok = user.ok
        /\ UNCHANGED <<active, sta, mc, cfg, fw>> /\ mishap \subseteq mishap'
    BY <1>2, <1>c DEF StartWaited, Go, GiveUp, Fails
  <2>2. ASSUME Clean'
        PROVE  ap' = [ap EXCEPT !.event = @ - 1] /\ fw.bss \notin {"starting", "picked"}
    BY <1>2, <2>2 DEF StartWaited, TakeEvent, GiveUp, Fails, Clean
  <2>3. ASSUME Clean'
        PROVE  /\ ap'.beacon = ap.beacon /\ ap'.bss = ap.bss /\ ap'.started = ap.started
               /\ ap'.event = ap.event - 1 /\ ap'.queues = ap.queues
    BY <1>a, <2>2, <2>3 DEF ApFields
  <2> QED
    BY <1>e, <1>f, <2>1, <2>2, <2>3
    DEF BssInv, CountInv, QueuesInv, EventInv, BeaconInv, Running, Starts, Refusals
<1>3. CASE SetStarted
  <2>1. /\ user.at = "startSet" /\ user'.at = "startCount" /\ user'.op = user.op /\ user'.ok = user.ok
        /\ UNCHANGED <<active, mc, cfg, fw, mishap>>
    BY <1>3, <1>c DEF SetStarted, Go
  <2>2. /\ ap'.beacon = ap.beacon /\ ap'.bss = ap.bss /\ ap'.started
        /\ ap'.event = ap.event /\ ap'.queues = ap.queues
    BY <1>a, <1>3 DEF SetStarted, ApFields
  <2> QED
    BY <1>e, <1>f, <2>1, <2>2
    DEF BssInv, CountInv, QueuesInv, EventInv, BeaconInv, Running, Starts, Refusals
<1>4. CASE CountStarted
  <2>1. /\ user.at = "startCount" /\ user'.at = "idle" /\ user'.op = "none" /\ user'.ok
        /\ UNCHANGED <<ap, mc, fw, mishap>> /\ active' = active + 1
    BY <1>4, <1>b DEF CountStarted
  <2>2. cfg'.ap = TRUE /\ cfg'.restart = cfg.restart
    BY <1>a, <1>4 DEF CountStarted, ApFields
  <2>3. ap.beacon => ap.beacon = TRUE
    BY <1>a DEF ApFields
  <2>4. ASSUME Clean'
        PROVE  /\ Clean /\ BssInv /\ CountInv /\ QueuesInv /\ EventInv /\ BeaconInv
    BY <1>e, <2>1, <2>4
  <2>5. ASSUME Clean' PROVE BssInv' /\ QueuesInv' /\ EventInv'
    BY <2>1, <2>2, <2>4, <2>5 DEF BssInv, QueuesInv, EventInv, Running
  <2>6. ASSUME Clean' PROVE CountInv'
    BY <2>1, <2>4, <2>6 DEF CountInv
  <2>7. ASSUME Clean' PROVE BeaconInv'
    BY <2>1, <2>2, <2>3, <2>4, <2>7 DEF BeaconInv, Starts
  <2> QED
    BY <1>f, <2>1, <2>5, <2>6, <2>7
<1>5. CASE \/ MarkedFirst \/ DelStation \/ DelAllStations \/ DelNext \/ DelMark \/ DelDone
           \/ StopAp \/ AddKey
  <2>1. UNCHANGED <<ap, mc, cfg, active>> /\ mishap \subseteq mishap'
    BY <1>5 DEF MarkedFirst, DelStation, DelAllStations, DelNext, DelMark, DelDone,
       StopAp, AddKey, Enter, EnterFails, Fails
  <2>2. fw'.bss = fw.bss /\ fw'.ies = fw.ies
    <3>1. CASE \/ MarkedFirst \/ DelAllStations \/ DelMark \/ DelDone \/ StopAp
      BY <3>1 DEF MarkedFirst, DelAllStations, DelMark, DelDone, StopAp
    <3>2. CASE DelStation \/ DelNext
      BY <3>2, <1>a, DeauthedFacts DEF DelStation, DelNext, SetTypes
    <3>3. CASE AddKey
      BY <3>3, <1>a DEF AddKey, FwFields
    <3> QED
      BY <1>5, <3>1, <3>2, <3>3
  <2>3. ASSUME Clean'
        PROVE  \/ UNCHANGED user
               \/ user.at \in Elsewhere /\ user'.at \in Elsewhere /\ user'.op # "leave" /\ user'.ok
    <3>1. CASE MarkedFirst \/ DelAllStations \/ StopAp
      <4>1. user.at = "idle"
        BY <3>1 DEF MarkedFirst, DelAllStations, StopAp, Enter, CanEnter
      <4>2. \/ \E s : user' = [Idle EXCEPT !.at = "deauth", !.one = {s}]
            \/ \E op \in {"del", "stop"} :
                 user' = [Idle EXCEPT !.at = "delAll", !.op = op, !.todo = Stations]
        BY <3>1 DEF MarkedFirst, DelAllStations, StopAp
      <4>3. user'.at \in {"deauth", "delAll"} /\ user'.op # "leave" /\ user'.ok
        BY <4>2 DEF Idle
      <4> QED
        BY <4>1, <4>3 DEF Elsewhere
    <3>2. CASE DelStation \/ DelDone
      BY <3>2, <1>b DEF DelStation, DelDone, Elsewhere
    <3>3. CASE AddKey
      BY <3>3 DEF AddKey, Enter, CanEnter, Idle, Elsewhere
    <3>4. CASE DelNext \/ DelMark
      <4>1. user.ok /\ (user.at \in Elsewhere => user.op # "leave")
        BY <1>e, <2>1, <2>3 DEF BssInv, BeaconInv, Elsewhere
      <4>2. /\ user.at \in Elsewhere /\ user'.at \in Elsewhere
            /\ user'.op = user.op /\ user'.ok = user.ok
        BY <3>4, <1>a, <1>c DEF DelNext, DelMark, Go, UserFields, Elsewhere
      <4> QED
        BY <4>1, <4>2
    <3> QED
      BY <1>5, <3>1, <3>2, <3>3, <3>4
  <2> QED
    BY <2>1, <2>2, <2>3, AgreeFrame
<1>6. CASE StopApQueues
  <2>1. /\ user.at = "delAll" /\ user.op = "stop" /\ UNCHANGED <<active, mc, cfg, fw, mishap>>
        /\ IF ap.beacon THEN user' = [user EXCEPT !.at = "stop"] ELSE user' = Idle
    BY <1>6 DEF StopApQueues
  <2>2. /\ ap'.beacon = ap.beacon /\ ap'.bss = ap.bss /\ ap'.started = ap.started
        /\ ap'.event = ap.event /\ ~ap'.queues
    BY <1>a, <1>6 DEF StopApQueues, ApFields
  <2>3. CASE ap.beacon
    <3>1. user'.at = "stop" /\ user'.op = "stop" /\ user'.ok = user.ok
      BY <1>c, <2>1, <2>3
    <3> QED
      BY <1>e, <1>f, <2>1, <2>2, <3>1
      DEF BssInv, CountInv, QueuesInv, EventInv, BeaconInv, Running, Starts, Refusals
  <2>4. CASE ~ap.beacon
    <3>1. user'.at = "idle" /\ user'.op = "none" /\ user'.ok
      BY <1>b, <2>1, <2>4
    <3> QED
      BY <1>e, <1>f, <2>1, <2>2, <2>4, <3>1
      DEF BssInv, CountInv, QueuesInv, EventInv, BeaconInv, Running, Starts, Refusals, RunningInv
  <2> QED
    BY <2>3, <2>4
<1>7. CASE StopBssIoctl \/ StopAdapter
  <2>1. /\ user.at = "idle" /\ user'.at = "stop" /\ user'.op \in {"ioctl", "leave"} /\ user'.ok
        /\ user'.op = "leave" => ~cfg.ap
        /\ UNCHANGED <<ap, active, mc, cfg, fw, mishap>>
    BY <1>7 DEF StopBssIoctl, StopAdapter, Enter, CanEnter, Idle
  <2> QED
    BY <1>e, <1>f, <2>1
    DEF BssInv, CountInv, QueuesInv, EventInv, BeaconInv, Running, Starts, Refusals
<1>8. CASE StopBss
  <2>1. user.at = "stop" /\ UNCHANGED <<active, sta, mc>> /\ mishap \subseteq mishap'
    BY <1>8 DEF StopBss, Fails
  <2>2. CASE /\ ~ap.started /\ ap' = StopFinished(ap) /\ fw' = IesReset(fw)
             /\ cfg' = [cfg EXCEPT !.ap = @ /\ ~Forgotten] /\ user' = Idle
    <3>1. user'.at = "idle" /\ user'.op = "none" /\ user'.ok
      BY <1>b, <2>2
    <3>2. fw'.bss = fw.bss /\ cfg'.restart = cfg.restart
      BY <2>2, Ended
    <3>3. ASSUME Clean'
          PROVE  Clean /\ BssInv /\ CountInv /\ QueuesInv /\ EventInv /\ BeaconInv
      BY <1>e, <2>1, <3>3
    <3>4. CASE /\ user.op = "stop" /\ user.ok /\ ~ap'.beacon /\ cfg'.ap = FALSE /\ ~fw'.ies
               /\ ap'.bss = ap.bss /\ ap'.started = ap.started /\ ap'.event = ap.event
               /\ ap'.queues = ap.queues
      <4>1. ap'.beacon = FALSE
        BY <1>g, <3>4
      <4> QED
        BY <1>f, <2>1, <2>2, <3>1, <3>2, <3>3, <3>4, <4>1
        DEF BssInv, CountInv, QueuesInv, EventInv, BeaconInv, Running, Starts, Refusals, RunningInv
    <3>5. CASE /\ user.op = "leave" /\ ~ap'.beacon /\ ap'.bss = "stop" /\ ~ap'.started
               /\ ap'.event = 0 /\ ~ap'.queues /\ cfg'.ap = cfg.ap /\ (fw'.ies => fw.ies)
      <4>1. ap'.beacon = FALSE /\ (~cfg.ap => cfg.ap = FALSE) /\ (~ap.beacon => ap.beacon = FALSE)
        BY <1>a, <1>g, <3>5 DEF ApFields
      <4> QED
        BY <1>f, <2>1, <2>2, <3>1, <3>2, <3>3, <3>5, <4>1
        DEF BssInv, CountInv, QueuesInv, EventInv, BeaconInv, Running, Starts, Refusals, RunningInv
    <3>6. CASE /\ user.op # "leave" /\ ~(user.op = "stop" /\ user.ok)
               /\ ap'.beacon = ap.beacon /\ cfg'.ap = cfg.ap /\ (fw'.ies => fw.ies)
               /\ ap'.bss = ap.bss /\ ap'.started = ap.started /\ ap'.event = ap.event
               /\ ap'.queues = ap.queues
      BY <1>f, <2>1, <2>2, <3>1, <3>2, <3>3, <3>6
      DEF BssInv, CountInv, QueuesInv, EventInv, BeaconInv, Running, Starts, Refusals, RunningInv
    <3> QED
      BY <2>2, <3>4, <3>5, <3>6, Ended
  <2>3. CASE /\ ap.started /\ fw.bss = "up" /\ fw' = [fw EXCEPT !.bss = "stopping"]
             /\ Go("stopWait") /\ UNCHANGED <<ap, cfg>>
    <3>1. fw'.bss = "stopping" /\ fw'.ies = fw.ies
      BY <1>a, <2>3 DEF FwFields
    <3>2. user'.at = "stopWait" /\ user'.op = user.op /\ user'.ok = user.ok
      BY <1>c, <2>3 DEF Go
    <3> QED
      BY <1>e, <1>f, <2>1, <2>3, <3>1, <3>2
      DEF BssInv, CountInv, QueuesInv, EventInv, BeaconInv, Running, Starts, Refusals
  <2>4. CASE /\ ap.started
             /\ IF fw.bss = "up" THEN Fails("stopfails") ELSE UNCHANGED <<mishap, left>>
    <3>1. ~Clean'
      <4>1. CASE fw.bss = "up"
        BY <2>4, <4>1 DEF Fails, Clean
      <4>2. CASE fw.bss # "up"
        BY <1>e, <2>1, <2>4, <4>2 DEF BssInv
      <4> QED
        BY <4>1, <4>2
    <3> QED
      BY <1>f, <2>1, <3>1
  <2> QED
    BY <1>8, <2>2, <2>3, <2>4 DEF StopBss
<1>9. CASE StopWaited
  <2>1. user.at = "stopWait" /\ UNCHANGED <<active, mc, cfg, fw>> /\ mishap \subseteq mishap'
    BY <1>9 DEF StopWaited, GiveUp, Fails
  <2>2. CASE TakeEvent /\ Go("stopClear")
    <3>1. user'.at = "stopClear" /\ user'.op = user.op /\ user'.ok = user.ok
      BY <1>c, <2>2 DEF Go
    <3>2. /\ ap'.beacon = ap.beacon /\ ap'.bss = ap.bss /\ ap'.started = ap.started
          /\ ap'.event = ap.event - 1 /\ ap.event > 0 /\ ap'.queues = ap.queues
      BY <1>a, <2>2 DEF TakeEvent, ApFields
    <3> QED
      BY <1>a, <1>e, <1>f, <2>1, <3>1, <3>2
      DEF BssInv, CountInv, QueuesInv, EventInv, BeaconInv, Running, Starts, Refusals, FwFields
  <2>3. CASE GiveUp({"stopping"})
    BY <1>f, <2>1, <2>3 DEF GiveUp, Fails, Clean
  <2> QED
    BY <1>9, <2>2, <2>3 DEF StopWaited
<1>10. CASE ClearStarted
  <2>1. /\ user.at = "stopClear" /\ user'.at = "stopCount" /\ user'.op = user.op /\ user'.ok = user.ok
        /\ UNCHANGED <<active, mc, cfg, fw, mishap>>
    BY <1>10, <1>c DEF ClearStarted, Go
  <2>2. /\ ap'.beacon = ap.beacon /\ ap'.bss = ap.bss /\ ~ap'.started
        /\ ap'.event = ap.event /\ ap'.queues = ap.queues
    BY <1>a, <1>10 DEF ClearStarted, ApFields
  <2> QED
    BY <1>e, <1>f, <2>1, <2>2
    DEF BssInv, CountInv, QueuesInv, EventInv, BeaconInv, Running, Starts, Refusals
<1>11. CASE CountStopped
  <2>1. /\ user.at = "stopCount" /\ UNCHANGED <<sta, mc, mishap>> /\ active' = Decr(active)
        /\ ap' = StopFinished(ap) /\ fw' = IesReset(fw)
        /\ cfg' = [cfg EXCEPT !.ap = @ /\ ~Forgotten] /\ user' = Idle
    BY <1>11 DEF CountStopped
  <2>2. active = 1 => Decr(active) = 0
    BY DEF Decr
  <2> QED
    <3>1. user'.at = "idle" /\ user'.op = "none" /\ user'.ok
      BY <1>b, <2>1
    <3>2. fw'.bss = fw.bss /\ cfg'.restart = cfg.restart
      BY <2>1, Ended
    <3>3. ASSUME Clean'
          PROVE  Clean /\ BssInv /\ CountInv /\ QueuesInv /\ EventInv /\ BeaconInv
      BY <1>e, <2>1, <3>3
    <3>4. CASE /\ user.op = "stop" /\ user.ok /\ ~ap'.beacon /\ cfg'.ap = FALSE /\ ~fw'.ies
               /\ ap'.bss = ap.bss /\ ap'.started = ap.started /\ ap'.event = ap.event
               /\ ap'.queues = ap.queues
      <4>1. ap'.beacon = FALSE
        BY <1>g, <3>4
      <4> QED
        BY <1>f, <2>1, <2>2, <3>1, <3>2, <3>3, <3>4, <4>1
        DEF BssInv, CountInv, QueuesInv, EventInv, BeaconInv, Running, Starts, Refusals, RunningInv
    <3>5. CASE /\ user.op = "leave" /\ ~ap'.beacon /\ ap'.bss = "stop" /\ ~ap'.started
               /\ ap'.event = 0 /\ ~ap'.queues /\ cfg'.ap = cfg.ap /\ (fw'.ies => fw.ies)
      <4>1. ap'.beacon = FALSE /\ (~cfg.ap => cfg.ap = FALSE) /\ (~ap.beacon => ap.beacon = FALSE)
        BY <1>a, <1>g, <3>5 DEF ApFields
      <4> QED
        BY <1>f, <2>1, <2>2, <3>1, <3>2, <3>3, <3>5, <4>1
        DEF BssInv, CountInv, QueuesInv, EventInv, BeaconInv, Running, Starts, Refusals, RunningInv
    <3>6. CASE /\ user.op # "leave" /\ ~(user.op = "stop" /\ user.ok)
               /\ ap'.beacon = ap.beacon /\ cfg'.ap = cfg.ap /\ (fw'.ies => fw.ies)
               /\ ap'.bss = ap.bss /\ ap'.started = ap.started /\ ap'.event = ap.event
               /\ ap'.queues = ap.queues
      BY <1>f, <2>1, <2>2, <3>1, <3>2, <3>3, <3>6
      DEF BssInv, CountInv, QueuesInv, EventInv, BeaconInv, Running, Starts, Refusals, RunningInv
    <3> QED
      BY <2>1, <3>4, <3>5, <3>6, Ended
<1>12. CASE HostapdOpen
  <2>1. user.at = "idle" /\ UNCHANGED <<active, user, mc, cfg, fw, mishap>>
    BY <1>12 DEF HostapdOpen, Enter, CanEnter
  <2>2. /\ ap'.beacon = ap.beacon /\ ap'.bss = ap.bss /\ ap'.started = ap.started
        /\ ap'.event = ap.event /\ (ap'.queues <=> ap.queues \/ ap.started)
    BY <1>a, <1>12 DEF HostapdOpen, Open, ApFields
  <2> QED
    BY <1>e, <1>f, <2>1, <2>2
    DEF BssInv, CountInv, QueuesInv, EventInv, BeaconInv, Running, Starts, Refusals
<1>13. CASE \/ GetProbeRequest \/ SaveKey \/ DisassocEvent \/ TimerFires \/ PbcProbe \/ PbcTaken
            \/ ClearAllSta \/ Join \/ Leave
  <2>1. UNCHANGED <<cfg, active>> /\ mishap \subseteq mishap'
    BY <1>13 DEF GetProbeRequest, SaveKey, DisassocEvent, TimerFires, PbcProbe, PbcTaken,
       ClearAllSta, Join, Leave, Enter
  <2>2. mc' = "started" <=> mc = "started"
    BY <1>13 DEF GetProbeRequest, SaveKey, DisassocEvent, TimerFires, PbcProbe, PbcTaken, Unasked,
       ClearAllSta, Join, Leave
  <2>3. fw'.bss = fw.bss /\ fw'.ies = fw.ies
    <3>1. CASE ClearAllSta \/ Join
      BY <1>a, <3>1, ClearFacts, JoinFacts
    <3>2. CASE Leave
      BY <1>a, <3>2, DeauthedFacts DEF Leave, SaidTypes
    <3>3. CASE \/ GetProbeRequest \/ SaveKey \/ DisassocEvent \/ TimerFires \/ PbcProbe \/ PbcTaken
      BY <1>a, <3>3 DEF GetProbeRequest, SaveKey, DisassocEvent, Heard, TimerFires, PbcProbe,
         PbcTaken, FwFields
    <3> QED
      BY <1>13, <3>1, <3>2, <3>3
  <2>4. /\ ap'.bss = ap.bss /\ ap'.started = ap.started /\ ap'.event = ap.event
        /\ ap'.queues = ap.queues /\ ap'.beacon = ap.beacon
    BY <1>13, <1>a DEF GetProbeRequest, SaveKey, DisassocEvent, TimerFires, PbcProbe, PbcTaken,
       ClearAllSta, Join, Leave, ApFields
  <2>5. \/ UNCHANGED user
        \/ user.at \in Elsewhere /\ user'.at \in Elsewhere /\ user'.op # "leave" /\ user'.ok
    BY <1>13, <1>b DEF GetProbeRequest, SaveKey, DisassocEvent, TimerFires, PbcProbe, PbcTaken,
       ClearAllSta, Join, Leave, Elsewhere
  <2> QED
    BY <2>1, <2>2, <2>3, <2>4, <2>5, AgreeFrame
<1>14. CASE PickChannel
  <2>1. /\ fw.bss = "starting" /\ fw'.bss = "picked" /\ fw'.ies = fw.ies
        /\ UNCHANGED <<ap, active, user, mc, cfg, mishap>>
    BY <1>a, <1>14 DEF PickChannel, FwFields
  <2> QED
    BY <1>e, <1>f, <2>1
    DEF BssInv, CountInv, QueuesInv, EventInv, BeaconInv, Running, Starts, Refusals
<1>15. CASE StartEvent
  <2>1. CASE Fails("startfails")
    BY <1>f, <2>1 DEF Fails, Clean
  <2>2. CASE /\ fw' = [fw EXCEPT !.bss = "up"] /\ ap' = [ap EXCEPT !.event = @ + 1]
             /\ mc' = "started" /\ UNCHANGED mishap
    <3>1. fw.bss = "picked" /\ UNCHANGED <<active, user, cfg>>
      BY <1>15 DEF StartEvent
    <3>2. /\ fw'.bss = "up" /\ fw'.ies = fw.ies /\ ap'.beacon = ap.beacon /\ ap'.bss = ap.bss
          /\ ap'.started = ap.started /\ ap'.event = ap.event + 1 /\ ap'.queues = ap.queues
      BY <1>a, <2>2 DEF ApFields, FwFields
    <3> QED
      BY <1>e, <1>f, <2>2, <3>1, <3>2
      DEF BssInv, CountInv, QueuesInv, EventInv, BeaconInv, Running, Starts, Refusals, RunningInv
  <2> QED
    BY <1>15, <2>1, <2>2 DEF StartEvent
<1>16. CASE StartDone
  <2>1. /\ mc = "started" /\ mc' = "idle" /\ UNCHANGED <<active, user>> /\ mishap \subseteq mishap'
        /\ fw'.bss = fw.bss /\ fw'.ies = fw.ies /\ cfg'.ap = cfg.ap
        /\ ap'.beacon = ap.beacon /\ ap'.bss = "start" /\ ap'.started = ap.started
        /\ ap'.event = ap.event /\ ap'.queues
    BY <1>a, <1>16 DEF StartDone, ApFields, FwFields
  <2> QED
    BY <1>e, <1>f, <2>1
    DEF BssInv, CountInv, QueuesInv, EventInv, BeaconInv, Running, Starts, Refusals, RunningInv
<1>17. CASE StopEvent
  <2>1. /\ mc = "idle" /\ fw.bss = "stopping" /\ UNCHANGED <<active, user, mc, cfg, mishap>>
        /\ fw'.bss = "none" /\ fw'.ies = fw.ies
        /\ ap'.beacon = ap.beacon /\ ap'.bss = "stop" /\ ap'.started = ap.started
        /\ ap'.event = ap.event + 1 /\ ~ap'.queues
    BY <1>a, <1>17 DEF StopEvent, Stopped, ApFields, FwFields
  <2> QED
    BY <1>e, <1>f, <2>1
    DEF BssInv, CountInv, QueuesInv, EventInv, BeaconInv, Running, Starts, Refusals
<1>18. CASE AssocEvent
  <2>1. /\ fw.said # <<>> /\ UNCHANGED <<active, user, mc, cfg>> /\ mishap \subseteq mishap'
        /\ fw'.bss = fw.bss /\ fw'.ies = fw.ies
        /\ ap'.beacon = ap.beacon /\ ap'.bss = ap.bss /\ ap'.started = ap.started
        /\ ap'.event = ap.event /\ (ap'.queues = ap.queues \/ ap'.queues = TRUE)
    BY <1>a, <1>18 DEF AssocEvent, Hears, Heard, Fails, ApFields, FwFields
  <2> QED
    BY <1>e, <1>f, <2>1
    DEF BssInv, CountInv, QueuesInv, EventInv, BeaconInv, Running, Starts, Refusals, RunningInv
<1>19. CASE StopP2pLink
  <2>1. CASE ~ap.started
    <3>1. UNCHANGED <<ap, active, fw, mishap, user, mc, cfg>>
      BY <1>a, <1>19, <2>1 DEF StopP2pLink, ApFields
    <3> QED
      BY <3>1, AgreeFrame
  <2>2. CASE ap.started
    <3>1. /\ fw.bss = "up" /\ UNCHANGED <<user, mc, cfg>> /\ active' = Decr(active)
          /\ "trig" \in mishap' /\ mishap \subseteq mishap'
          /\ user.at = "startCount" => "between" \in mishap'
          /\ (fw'.bss = "stopping" \/ (fw'.bss = "up" /\ "stopfails" \in mishap'))
          /\ fw'.ies = fw.ies
          /\ ap'.beacon = ap.beacon /\ ap'.bss = ap.bss /\ ~ap'.started
          /\ ap'.queues = ap.queues
      BY <1>a, <1>19, <2>2 DEF StopP2pLink, ApFields, FwFields
    <3>2. active = 1 => Decr(active) = 0
      BY DEF Decr
    <3>3. CASE "stopfails" \in mishap'
      BY <3>3 DEF AgreeInv, Clean
    <3>4. CASE fw'.bss = "stopping"
      BY <1>e, <1>f, <2>2, <3>1, <3>2, <3>4
      DEF BssInv, CountInv, QueuesInv, EventInv, BeaconInv, Running, Starts, Refusals
    <3> QED
      BY <3>1, <3>3, <3>4
  <2> QED
    BY <2>1, <2>2
<1>20. CASE ChannelAvoid
  <2>1. /\ UNCHANGED <<active, user, mc, mishap>> /\ fw'.bss = fw.bss /\ fw'.ies = fw.ies
        /\ ap'.beacon = ap.beacon /\ ap'.bss = ap.bss /\ ap'.started = ap.started
        /\ ap'.event = ap.event /\ cfg'.ap = cfg.ap
        /\ \/ ap'.queues = ap.queues /\ cfg'.restart = cfg.restart
           \/ ~ap'.queues /\ cfg'.restart = TRUE
    BY <1>a, <1>20 DEF ChannelAvoid, Avoid, ApFields, FwFields
  <2> QED
    BY <1>e, <1>f, <2>1
    DEF BssInv, CountInv, QueuesInv, EventInv, BeaconInv, Running, Starts, Refusals
<1> QED
  BY <1>1, <1>2, <1>3, <1>4, <1>5, <1>6, <1>7, <1>8, <1>9, <1>10, <1>11, <1>12, <1>13,
     <1>14, <1>15, <1>16, <1>17, <1>18, <1>19, <1>20
  DEF Next

-----------------------------------------------------------------------------
LEMMA SapInitial == Init => SapInv
<1> SUFFICES ASSUME Init PROVE SapInv
  OBVIOUS
<1>1. Fields
  <2>1. ApFields /\ UserFields /\ SetTypes
    BY DEF Init, InitApMode, Idle, ApFields, UserFields, SetTypes
  <2>2. FwFields /\ SaidTypes
    <3>1. fw = [bss |-> "none", joined |-> {}, said |-> <<>>, unsafe |-> {},
                picked |-> AutoChannel, ies |-> FALSE, key |-> FALSE, group |-> fw.group,
                auto |-> fw.auto]
      BY DEF Init
    <3>2. fw.bss = "none" /\ fw.joined = {} /\ fw.said = <<>>
      BY DEF Init
    <3>3. <<>> \in Seq(Indications)
      OBVIOUS
    <3>4. FwFields
      BY <3>1 DEF FwFields
    <3> QED
      BY <3>2, <3>3, <3>4 DEF SaidTypes
  <2>3. StaTypes
    BY DEF Init, NoStations, StaTypes
  <2> QED
    BY <2>1, <2>2, <2>3 DEF Fields
<1>2. /\ fw.bss = "none" /\ fw.joined = {} /\ fw.said = <<>> /\ fw.ies = FALSE /\ mishap = {}
      /\ \A s \in Stations : ~sta[s].used
  BY DEF Init, NoStations
<1>3. /\ ap.bss = "stop" /\ ~ap.started /\ ap.event = 0 /\ ~ap.queues /\ ~ap.beacon /\ mc = "idle"
      /\ user.at = "idle" /\ user.op = "none" /\ user.ok /\ active = 0
      /\ cfg.ap = FALSE /\ ap.beacon = FALSE
  BY DEF Init, InitApMode, Idle
<1>4. RunningInv /\ TimerInv /\ KeyInv
  BY <1>2, <1>3 DEF RunningInv, SomeUsed, TimerInv, KeyInv
<1>5. LeavingInv
  <2>1. Len(fw.said) = 0
    BY <1>2
  <2> QED
    BY <1>2, <1>3, <2>1 DEF LeavingInv, SaidInv
<1>6. AgreeInv
  BY <1>2, <1>3
  DEF AgreeInv, BssInv, CountInv, QueuesInv, EventInv, BeaconInv, Starts
<1> QED
  BY <1>1, <1>4, <1>5, <1>6 DEF SapInv

LEMMA SapStep == SapInv /\ [Next]_vars => SapInv'
<1>1. CASE Next
  BY <1>1, FieldsStep, RunningStep, TimerStep, KeyStep, LeavingStep, AgreeStep DEF SapInv
<1>2. CASE UNCHANGED vars
  <2> USE <1>2 DEF vars
  <2>1. Fields => Fields'
    BY DEF Fields, ApFields, UserFields, FwFields, SaidTypes, StaTypes, SetTypes
  <2>2. RunningInv /\ TimerInv /\ KeyInv => RunningInv' /\ TimerInv' /\ KeyInv'
    BY DEF RunningInv, TimerInv, KeyInv, Running, SomeUsed
  <2>3. LeavingInv => LeavingInv'
    BY DEF LeavingInv, SaidInv, Leaving, Marked
  <2>4. AgreeInv => AgreeInv'
    BY AgreeFrame
  <2> QED
    BY <2>1, <2>2, <2>3, <2>4 DEF SapInv
<1> QED
  BY <1>1, <1>2

LEMMA SapInvariance == Spec => []SapInv
<1> QED
  BY SapInitial, SapStep, PTL DEF Spec

\* hdd_hostapd_SAPEventCB keeps the inactivity timer of a BSS that has started running
\* exactly while no station is registered, until it has fired.
THEOREM Timed == Spec => []IdleTimer
<1>1. SapInv => IdleTimer
  BY DEF SapInv, TimerInv, IdleTimer, SomeUsed
<1> QED
  BY <1>1, SapInvariance, PTL

\* A station that del_station and hdd_del_all_sta pass over, because it is marked, is on its
\* way out.
THEOREM Removable == Spec => []StationsCanGo
<1>1. SapInv => StationsCanGo
  BY DEF SapInv, LeavingInv, Marked, StationsCanGo
<1> QED
  BY <1>1, SapInvariance, PTL

\* add_key saves a key, and the start event gives it to the BSS: it is left on the adapter only
\* when the event came between add_key's test and its save, or, a WEP key, behind a group key.
THEOREM KeyGiven == Spec => []KeyWaitsForStart
<1>1. SapInv => KeyWaitsForStart
  BY DEF SapInv, KeyInv, KeyWaitsForStart, SavedKeysIssued
<1> QED
  BY <1>1, SapInvariance, PTL

\* When no request, callback or indication is under way, the adapter, the BSS, WLANSAP, the
\* session counter, the queues and cfg80211 agree on whether there is an access point.
THEOREM BssAgreed == Spec => []BssAgreement
<1>1. SapInv => BssAgreement
  <2> SUFFICES ASSUME SapInv, Quiet,
                      mishap \intersect {"late", "startfails", "stopfails", "early"} = {}
               PROVE  BssAgreement
    BY DEF BssAgreement
  <2>1. /\ ApFields /\ BssInv /\ CountInv /\ QueuesInv /\ EventInv /\ BeaconInv /\ RunningInv
        /\ user.at = "idle" /\ mc = "idle" /\ fw.bss \in {"none", "up"}
    BY DEF SapInv, Fields, AgreeInv, Clean, Quiet
  <2>2. mishap \intersect Refusals = {} => \A kind \in Refusals : kind \notin mishap
    OBVIOUS
  <2>3. ap.started \in BOOLEAN /\ cfg.ap \in BOOLEAN /\ ap.beacon \in BOOLEAN
    BY <2>1 DEF ApFields
  <2>4. (ap.started <=> fw.bss = "up") /\ (ap.bss = "start" <=> fw.bss = "up")
    BY <2>1 DEF BssInv, RunningInv, Running
  <2>5. "between" \notin mishap => active = IF ap.started THEN 1 ELSE 0
    BY <2>1 DEF CountInv
  <2>6. /\ ap.bss = "stop" => ~ap.queues
        /\ ap.bss = "start" /\ ~cfg.restart => ap.queues
    BY <2>1, <2>4 DEF QueuesInv, Running
  <2>7. "trig" \notin mishap => ap.event = 0
    BY <2>1 DEF EventInv
  <2>8. mishap \intersect Refusals = {} => cfg.ap = ap.beacon /\ (fw.ies => ap.beacon)
    BY <2>1, <2>2 DEF BeaconInv, Starts
  <2>9. ap.started = (fw.bss = "up") /\ ap.started = (ap.bss = "start")
    BY <2>3, <2>4
  <2> QED
    BY <2>5, <2>6, <2>7, <2>8, <2>9, Zenon DEF BssAgreement
<1> QED
  BY <1>1, SapInvariance, PTL
=============================================================================
