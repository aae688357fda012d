---------------------------- MODULE WlanLoad_proofs ----------------------------
(***************************************************************************)
(* For any number of loads, unloads, requests and faults: the mode that    *)
(* user space asked for is the mode the driver comes up in; whatever step  *)
(* of a load fails, everything is given back, in an order its users        *)
(* survive; and a request that was let in finds the core running.          *)
(***************************************************************************)
EXTENDS WlanLoad, TLAPS

Places == {"idle", "init", "start", "unwind", "failed",
           "exit", "waiting", "flag", "leave", "left"}
Leaving == {"exit", "waiting", "flag", "leave", "left"}

LoaderTypeOK ==
    /\ loader = [at |-> loader.at, n |-> loader.n, again |-> loader.again]
    /\ loader.at \in Places /\ loader.again \in BOOLEAN
    /\ built \in {"module", "builtin"} /\ inside \in BOOLEAN
ModeTypeOK ==
    mode \in [param : Modes, curr : Modes, asked : Modes, loaded : Modes \union {"none"}]

(* Until con_mode is read it holds what was asked for, on the way through  *)
(* an unload too if a load is to follow; from then on the loaded mode is.  *)
HeededInv ==
    "reset" \notin mishap =>
      /\ loader.at = "init" \/ (loader.at \in Leaving /\ loader.again) =>
           mode.param = mode.asked
      /\ loader.at = "start" \/ (loader.at = "idle" /\ inside) =>
           mode.loaded = mode.asked

Inv == LoaderTypeOK /\ ModeTypeOK /\ HeededInv

-----------------------------------------------------------------------------
(* Where the loader goes leaves its other fields alone.                    *)
LEMMA GoFacts ==
    ASSUME LoaderTypeOK, NEW s, NEW i, Go(s, i)
    PROVE  /\ loader' = [at |-> loader'.at, n |-> loader'.n, again |-> loader'.again]
           /\ loader'.at = s /\ loader'.again = loader.again
  BY DEF LoaderTypeOK, Go

(* con_mode and curr_con_mode are set; what was asked and what is loaded   *)
(* stay.                                                                   *)
LEMMA SetConparamFacts ==
    ASSUME ModeTypeOK, NEW p \in Modes
    PROVE  LET m == SetConparam(mode, p)
           IN /\ m \in [param : Modes, curr : Modes, asked : Modes,
                         loaded : Modes \union {"none"}]
              /\ m.param = p /\ m.asked = mode.asked /\ m.loaded = mode.loaded
              /\ built = "builtin" => m.curr = p
  BY DEF ModeTypeOK, SetConparam

LEMMA KickStep ==
    ASSUME Inv, Insmod \/ Rmmod \/ WriteModule \/ ConModeHandler \/ FwpathHandler
    PROVE  Inv'
<1> USE DEF Inv, LoaderTypeOK, ModeTypeOK, HeededInv, Leaving, Places
<1>1. CASE Insmod
  <2>1. PICK m \in Modes :
          /\ mode' = [mode EXCEPT !.param = m, !.asked = m]
          /\ loader' = [at |-> "init", n |-> 0, again |-> FALSE]
          /\ UNCHANGED <<built, inside>>
    BY <1>1 DEF Insmod
  <2> QED
    BY <2>1
<1>2. CASE Rmmod
  BY <1>2 DEF Rmmod, Kick, Rest
<1>3. CASE WriteModule
  BY <1>3 DEF WriteModule, Fails, Rest
<1>4. ASSUME NEW m \in Modes, KickstartDriver(m), Kick,
             UNCHANGED <<built, inside, net>>
      PROVE  Inv'
  BY <1>4 DEF KickstartDriver, Kick, Rest
<1>5. CASE ConModeHandler
  BY <1>4, <1>5 DEF ConModeHandler
<1>6. CASE FwpathHandler
  <2>1. mode.param \in Modes
    OBVIOUS
  <2> QED
    BY <1>4, <1>6, <2>1 DEF FwpathHandler
<1> QED
  BY <1>1, <1>2, <1>3, <1>5, <1>6

(* con_mode is read: the only place where the mode asked for decides.      *)
LEMMA DriverInitStep == Inv /\ DriverInit => Inv'
<1> SUFFICES ASSUME Inv, DriverInit PROVE Inv'
  OBVIOUS
<1> USE DEF Inv
<1>1. CASE NotLoaded /\ UNCHANGED <<mode, net, built>> /\ mishap \subseteq mishap'
  BY <1>1 DEF NotLoaded, LoaderTypeOK, ModeTypeOK, HeededInv, Leaving, Places
<1>2. CASE /\ mode' = [Conparams EXCEPT !.loaded = IF built = "module" THEN Conparams.param
                                                                      ELSE Conparams.curr]
           /\ net' = [ap |-> FALSE, up |-> FALSE] /\ Go("start", 1) /\ loader.at = "init"
           /\ UNCHANGED <<inside, mishap, built>>
  <2>1. /\ loader' = [at |-> loader'.at, n |-> loader'.n, again |-> loader'.again]
        /\ loader'.at = "start" /\ loader'.again = loader.again
    BY <1>2, GoFacts
  <2>2. LoaderTypeOK'
    BY <1>2, <2>1 DEF LoaderTypeOK, Places
  <2>3. mode.param \in Modes
    BY DEF ModeTypeOK
  <2>4. /\ Conparams \in [param : Modes, curr : Modes, asked : Modes,
                            loaded : Modes \union {"none"}]
        /\ Conparams.param = mode.param /\ Conparams.asked = mode.asked
        /\ built = "builtin" => Conparams.curr = mode.param
    BY <2>3, SetConparamFacts DEF Conparams, ModeTypeOK
  <2>5. /\ mode' \in [param : Modes, curr : Modes, asked : Modes,
                        loaded : Modes \union {"none"}]
        /\ mode'.asked = mode.asked /\ mode'.loaded = mode.param
    BY <1>2, <2>3, <2>4 DEF LoaderTypeOK
  <2>6. ModeTypeOK'
    BY <1>2, <2>5 DEF ModeTypeOK
  <2> QED
    BY <1>2, <2>1, <2>2, <2>5, <2>6 DEF HeededInv, Leaving
<1> QED
  BY <1>1, <1>2 DEF DriverInit, Fails

LEMMA LoaderStep ==
    ASSUME Inv, StartStep \/ StartFails \/ DebugfsFails \/ Unwind \/ InitFailed
                \/ ExitTest \/ ExitWait \/ SetUnload \/ DriverExited
    PROVE  Inv'
<1> USE DEF Inv
<1>1. CASE StartStep
  BY <1>1 DEF StartStep, Go, LoaderTypeOK, ModeTypeOK, HeededInv, Leaving, Places
<1>2. CASE StartFails \/ DebugfsFails
  BY <1>2 DEF StartFails, DebugfsFails, Fails, Go,
     LoaderTypeOK, ModeTypeOK, HeededInv, Leaving, Places
<1>4. CASE Unwind
  BY <1>4 DEF Unwind, Go, LoaderTypeOK, ModeTypeOK, HeededInv, Leaving, Places
<1>5. CASE InitFailed
  <2>1. loader' = [at |-> "idle", n |-> 0, again |-> FALSE] /\ inside' = FALSE
    BY <1>5 DEF InitFailed, NotLoaded
  <2> QED
    BY <1>5, <2>1 DEF InitFailed, LoaderTypeOK, ModeTypeOK, HeededInv, Leaving, Places
<1>3. CASE ExitTest \/ ExitWait \/ SetUnload \/ DriverExited
  BY <1>3 DEF ExitTest, ExitWait, SetUnload, DriverExited, Fails, Go,
     LoaderTypeOK, ModeTypeOK, HeededInv, Leaving, Places
<1> QED
  BY <1>1, <1>2, <1>3, <1>4, <1>5

(* An unload writes con_mode back for an access point: the request is lost *)
(* and the state says so.                                                  *)
LEMMA ExitStepStep == Inv /\ ExitStep => Inv'
<1> SUFFICES ASSUME Inv, ExitStep PROVE Inv'
  OBVIOUS
<1> USE DEF Inv
<1>1. LoaderTypeOK' /\ loader'.again = loader.again /\ loader'.at \in {"leave", "left"}
  BY DEF ExitStep, Go, LoaderTypeOK, Places
<1>2. CASE mode' = SetConparam(mode, "sta") /\ mishap' = mishap \union {"reset"}
  <2>1. ModeTypeOK'
    BY <1>2, SetConparamFacts DEF ExitStep, ModeTypeOK, Modes
  <2> QED
    BY <1>1, <1>2, <2>1 DEF HeededInv
<1>3. CASE UNCHANGED <<mode, mishap>>
  BY <1>1, <1>3 DEF ExitStep, ModeTypeOK, HeededInv, Leaving
<1> QED
  BY <1>2, <1>3 DEF ExitStep, Deinit

LEMMA UserStep ==
    ASSUME Inv, Request \/ HddOpen \/ Opens \/ RequestEnds \/ Stops \/ ChangeIface
                \/ RestartBegins \/ RestartTears \/ RestartEnds
    PROVE  Inv'
<1> USE DEF Inv
<1>1. CASE Request \/ HddOpen \/ RequestEnds \/ RestartBegins \/ RestartTears \/ RestartEnds
  BY <1>1 DEF Request, HddOpen, RequestEnds, RestartBegins, RestartTears, RestartEnds, Asked,
     LoaderTypeOK, ModeTypeOK, HeededInv
<1>2. CASE Opens \/ Stops
  BY <1>2 DEF Opens, Stops, LoaderTypeOK, ModeTypeOK, HeededInv
<1>3. CASE ChangeIface
  <2>1. PICK p \in Modes : mode' = SetConparam(mode, p)
    BY <1>3 DEF ChangeIface, Modes
  <2>2. ModeTypeOK'
    BY <1>3, <2>1, SetConparamFacts DEF ChangeIface, ModeTypeOK
  <2>3. mode'.asked = mode.asked /\ mode'.loaded = mode.loaded
    BY <2>1, SetConparamFacts
  <2>4. loader.at = "idle" \/ "reset" \in mishap'
    BY <1>3 DEF ChangeIface, Rest
  <2> QED
    BY <1>3, <2>2, <2>3, <2>4 DEF ChangeIface, LoaderTypeOK, HeededInv, Leaving, Rest
<1> QED
  BY <1>1, <1>2, <1>3

LEMMA InvInit == Init => Inv
<1> SUFFICES ASSUME Init PROVE Inv
  OBVIOUS
<1>1. LoaderTypeOK
  BY DEF Init, LoaderTypeOK, Places
<1>2. ModeTypeOK
  BY DEF Init, ModeTypeOK, Modes
<1>3. HeededInv
  BY DEF Init, HeededInv, Leaving
<1> QED
  BY <1>1, <1>2, <1>3 DEF Inv

LEMMA InvStep ==
    ASSUME Inv, [Next]_vars
    PROVE  Inv'
<1>1. CASE UNCHANGED vars
  BY <1>1 DEF vars, Inv, LoaderTypeOK, ModeTypeOK, HeededInv
<1> QED
  BY <1>1, KickStep, DriverInitStep, LoaderStep, ExitStepStep, UserStep DEF Next

(* The driver comes up in the mode asked for, unless the mode was written  *)
(* once more on the way (hdd_driver_init, hdd_driver_exit, hdd_set_conparam*)
(* and hdd_get_conparam; con_mode_handler).                                *)
THEOREM Heeded == Spec => []ModeHeeded
<1>1. Init => Inv
  BY InvInit
<1>2. Inv /\ [Next]_vars => Inv'
  BY InvStep
<1>3. Inv => ModeHeeded
  BY DEF Inv, HeededInv, ModeHeeded, Rest
<1> QED
  BY <1>1, <1>2, <1>3, PTL DEF Spec

-----------------------------------------------------------------------------
(* What is held, and in what order it goes.  Three ranks of the resources: *)
(* the entry of Unwinding that gives one back (cfg, which a load may find  *)
(* held, and what outlasts the unwinding above all), and its step in an    *)
(* exit from a mission mode and from the factory test.                     *)
Base == {"logsvc", "wakelock", "preopen"}
Resources == Base \union
    {"wiphy", "cfg", "ftm", "watchdog", "nv", "vos", "started", "wiphyreg", "wlan0", "p2p0",
     "bapopen", "bap", "pmops", "debugfs", "devtm", "power", "netdev", "nl", "logging",
     "filter", "locks", "restart", "traffic", "inet"}
HeldInFtm == Base \union {"wiphy", "cfg", "ftm"}

Rank(r) ==
    CASE r = "nl" -> 1 [] r = "netdev" -> 2 [] r = "power" -> 3 [] r \in {"devtm", "pmops"} -> 4
      [] r = "debugfs" -> 5 [] r = "bap" -> 6 [] r = "bapopen" -> 7 [] r \in {"wlan0", "p2p0"} -> 8
      [] r = "wiphyreg" -> 9 [] r = "started" -> 10 [] r = "vos" -> 11 [] r = "nv" -> 12
      [] r = "watchdog" -> 13 [] r = "wiphy" -> 15 [] r \in Base \union {"cfg"} -> 16
      [] OTHER -> 0
ExitRank(r) ==
    CASE r = "inet" -> 1 [] r = "restart" -> 2 [] r = "pmops" -> 4 [] r = "devtm" -> 5
      [] r = "traffic" -> 6 [] r = "debugfs" -> 7 [] r = "netdev" -> 8 [] r = "bap" -> 10
      [] r = "started" -> 11 [] r = "filter" -> 12 [] r = "locks" -> 13 [] r = "nv" -> 14
      [] r \in {"vos", "bapopen"} -> 15 [] r = "watchdog" -> 16 [] r = "logging" -> 17
      [] r = "nl" -> 18 [] r \in {"wlan0", "p2p0"} -> 19 [] r = "power" -> 20 [] r = "cfg" -> 21
      [] r = "wiphyreg" -> 22 [] r = "wiphy" -> 23 [] OTHER -> 24
FtmRank(r) ==
    CASE r = "ftm" -> 2 [] r = "cfg" -> 3 [] r = "wiphy" -> 5 [] r \in Base -> 6 [] OTHER -> 0

(* The least rank that is held before each step of a load, and after it.   *)
Bounds(m) ==
    IF m = "ftm" THEN <<15, 15, 15, 15, 0>>
    ELSE IF m = "ap" THEN <<15, 15, 14, 13, 13, 12, 12, 11, 11, 11, 10, 10, 9, 8, 8, 7, 7, 6,
                            4, 4, 4, 3, 2, 1, 1, 0, 0, 0>>
    ELSE <<15, 15, 14, 13, 13, 12, 12, 11, 11, 11, 10, 10, 9, 8, 8, 8, 7, 7, 6,
           4, 4, 4, 3, 2, 1, 1, 0, 0, 0>>
Bound == Bounds(mode.loaded)[loader.n]

Unwritten == "written" \notin mishap
Out == loader.at = "idle" /\ ~inside

HoldInv ==
    /\ held \subseteq Resources
    /\ built = "builtin" => Unwritten
    /\ loader.again => built = "builtin"
    /\ mode.loaded = "ftm" => held \subseteq HeldInFtm
    /\ "ftm" \in held => mode.loaded = "ftm"
OutInv ==
    /\ loader.at = "init" => held \subseteq {"cfg"}
    /\ Unwritten =>
         /\ Out => held \subseteq {"cfg"}
         /\ loader.at = "left" => held \subseteq Base
         /\ \/ Out
            \/ loader.at \in {"init", "failed"}
            \/ loader.at = "start" /\ loader.n <= 2
            \/ loader.at = "unwind" /\ loader.n = 15
            => ("cfg" \in held => "ftmopen" \in mishap)
    /\ loader.at = "failed" => held \subseteq Base \union {"cfg"}
StartInv ==
    loader.at = "start" =>
      /\ mode.loaded \in Modes /\ loader.n \in 1..Len(Startup)
      /\ \A r \in held : Rank(r) >= Bound
      /\ mode.loaded # "ftm" /\ Bound <= 10 => "started" \in held
UnwindInv ==
    loader.at = "unwind" => loader.n \in 1..15 /\ \A r \in held : Rank(r) >= loader.n
LeaveInv ==
    loader.at = "leave" =>
      /\ load = "unload"
      /\ IF ExitMode = "ftm"
         THEN loader.n \in 1..5 /\ (Unwritten => \A r \in held : FtmRank(r) >= loader.n)
         ELSE loader.n \in 1..23 /\ \A r \in held : ExitRank(r) >= loader.n
(* Until it is written, con_mode says whether this is a factory test.      *)
MatchInv ==
    Unwritten /\ (loader.at \in {"start", "exit", "waiting", "flag", "leave"} \/ (loader.at = "idle" /\ inside))
        => (Conparam = "ftm" <=> mode.loaded = "ftm")
CoreInv ==
    loader.at # "leave" \/ ExitMode = "ftm" => ("wlan0" \in held => "started" \in held)
RequestInv ==
    /\ ssr = [on |-> ssr.on, torn |-> ssr.torn, done |-> ssr.done] /\ (ssr.torn => ssr.on)
    /\ request # "idle" => "wlan0" \in held
    /\ request = "valid" => ~ssr.torn /\ load = "none"
AwakeInv ==
    awake => \/ mode.loaded = "ftm"
             \/ loader.at = "unwind"
             \/ loader.at = "start" /\ loader.n < Len(Startup)

HeldInv ==
    /\ HoldInv /\ OutInv /\ StartInv /\ UnwindInv /\ LeaveInv
    /\ MatchInv /\ CoreInv /\ RequestInv /\ AwakeInv
LoadInv == Inv /\ HeldInv

-----------------------------------------------------------------------------
(* The tables: where each label is, what each step of a load takes and     *)
(* where it goes when it fails, what each step of the ways out gives.      *)
LEMMA Labels ==
    /\ At("nl_srv") = 1 /\ At("reg_netdev") = 2 /\ At("free_power_on_lock") = 3
    /\ At("unregister_pmops") = 4 /\ At("bap_stop") = 6 /\ At("bap_close") = 7
    /\ At("close_adapter") = 8 /\ At("unregister_wiphy") = 9 /\ At("vosstop") = 10
    /\ At("vosclose") = 11 /\ At("vos_nv_close") = 12 /\ At("wdclose") = 13
    /\ At("config") = 14 /\ At("free_hdd_context") = 15
<1> USE DEF At, Unwinding, Gives
<1>1. At("nl_srv") = 1 /\ At("reg_netdev") = 2 /\ At("free_power_on_lock") = 3
  OBVIOUS
<1>2. At("unregister_pmops") = 4 /\ At("bap_stop") = 6 /\ At("bap_close") = 7
  OBVIOUS
<1>3. At("close_adapter") = 8 /\ At("unregister_wiphy") = 9 /\ At("vosstop") = 10
  OBVIOUS
<1>4. At("vosclose") = 11 /\ At("vos_nv_close") = 12 /\ At("wdclose") = 13
  OBVIOUS
<1>5. At("config") = 14 /\ At("free_hdd_context") = 15
  OBVIOUS
<1> HIDE DEF At, Unwinding, Gives
<1> QED
  BY <1>1, <1>2, <1>3, <1>4, <1>5

StepFact(n, len) ==
    LET step == Startup[n]
        b == Bounds(mode.loaded)
    IN /\ step.takes \subseteq Resources
       /\ b[n] \in 0..15 /\ b[n + 1] \in 0..15 /\ b[n + 1] <= b[n]
       /\ \A r \in step.takes : Rank(r) >= b[n + 1]
       /\ step.label # "none" =>
            /\ At(step.label) \in 1..15 /\ At(step.label) <= b[n]
            /\ At(step.label) = 15 => n <= 2 \/ "ftm" \in step.takes
            /\ n < len \/ mode.loaded = "ftm"
       /\ mode.loaded = "ftm" => step.takes \subseteq HeldInFtm
       /\ mode.loaded # "ftm" =>
            /\ "ftm" \notin step.takes
            /\ b[n + 1] <= 10 => b[n] <= 10 \/ "started" \in step.takes
       /\ "wlan0" \in step.takes => b[n] <= 10
       /\ "cfg" \in step.takes => n = 2
       /\ "locks" \in step.takes <=> mode.loaded # "ftm" /\ n = len - 1
       /\ step.takes = {"debugfs"} => n < len - 1

LEMMA StationSteps ==
    ASSUME mode.loaded = "sta"
    PROVE  Len(Startup) = 28 /\ \A n \in 1..28 : StepFact(n, 28)
<1> USE Labels DEF Startup, Context, FactoryTest, OpenCore, StartCore, Register, Adapters, Amp,
    Services, Afterwards, StepFact, Bounds, Calls, Takes, Resources, HeldInFtm, Base, Rank
<1>1. StepFact(1, 28) /\ StepFact(2, 28) /\ StepFact(3, 28) /\ StepFact(4, 28)
  OBVIOUS
<1>2. StepFact(5, 28) /\ StepFact(6, 28) /\ StepFact(7, 28) /\ StepFact(8, 28)
  OBVIOUS
<1>3. StepFact(9, 28) /\ StepFact(10, 28) /\ StepFact(11, 28) /\ StepFact(12, 28)
  OBVIOUS
<1>4. StepFact(13, 28) /\ StepFact(14, 28) /\ StepFact(15, 28) /\ StepFact(16, 28)
  OBVIOUS
<1>5. StepFact(17, 28) /\ StepFact(18, 28) /\ StepFact(19, 28) /\ StepFact(20, 28)
  OBVIOUS
<1>6. StepFact(21, 28) /\ StepFact(22, 28) /\ StepFact(23, 28) /\ StepFact(24, 28)
  OBVIOUS
<1>7. StepFact(25, 28) /\ StepFact(26, 28) /\ StepFact(27, 28) /\ StepFact(28, 28)
  OBVIOUS
<1>8. Len(Startup) = 28
  OBVIOUS
<1> HIDE DEF Startup, StepFact
<1> QED
  BY ONLY <1>1, <1>2, <1>3, <1>4, <1>5, <1>6, <1>7, <1>8

LEMMA AccessPointSteps ==
    ASSUME mode.loaded = "ap"
    PROVE  Len(Startup) = 27 /\ \A n \in 1..27 : StepFact(n, 27)
<1> USE Labels DEF Startup, Context, FactoryTest, OpenCore, StartCore, Register, Adapters, Amp,
    Services, Afterwards, StepFact, Bounds, Calls, Takes, Resources, HeldInFtm, Base, Rank
<1>1. StepFact(1, 27) /\ StepFact(2, 27) /\ StepFact(3, 27) /\ StepFact(4, 27)
  OBVIOUS
<1>2. StepFact(5, 27) /\ StepFact(6, 27) /\ StepFact(7, 27) /\ StepFact(8, 27)
  OBVIOUS
<1>3. StepFact(9, 27) /\ StepFact(10, 27) /\ StepFact(11, 27) /\ StepFact(12, 27)
  OBVIOUS
<1>4. StepFact(13, 27) /\ StepFact(14, 27) /\ StepFact(15, 27) /\ StepFact(16, 27)
  OBVIOUS
<1>5. StepFact(17, 27) /\ StepFact(18, 27) /\ StepFact(19, 27) /\ StepFact(20, 27)
  OBVIOUS
<1>6. StepFact(21, 27) /\ StepFact(22, 27) /\ StepFact(23, 27) /\ StepFact(24, 27)
  OBVIOUS
<1>7. StepFact(25, 27) /\ StepFact(26, 27) /\ StepFact(27, 27)
  OBVIOUS
<1>8. Len(Startup) = 27
  OBVIOUS
<1> HIDE DEF Startup, StepFact
<1> QED
  BY ONLY <1>1, <1>2, <1>3, <1>4, <1>5, <1>6, <1>7, <1>8

LEMMA FactoryTestSteps ==
    ASSUME mode.loaded = "ftm"
    PROVE  Len(Startup) = 4 /\ \A n \in 1..4 : StepFact(n, 4)
<1> USE Labels DEF Startup, Context, FactoryTest, OpenCore, StartCore, Register, Adapters, Amp,
    Services, Afterwards, StepFact, Bounds, Calls, Takes, Resources, HeldInFtm, Base, Rank
<1>1. StepFact(1, 4) /\ StepFact(2, 4) /\ StepFact(3, 4) /\ StepFact(4, 4)
  OBVIOUS
<1>2. Len(Startup) = 4
  OBVIOUS
<1> HIDE DEF Startup, StepFact
<1> QED
  BY ONLY <1>1, <1>2

LEMMA StartSteps ==
    ASSUME mode.loaded \in Modes
    PROVE  /\ Len(Startup) \in Nat /\ Len(Startup) > 3
           /\ \A n \in 1..Len(Startup) : StepFact(n, Len(Startup))
<1> DEFINE len == Len(Startup)
<1>1. mode.loaded \in {"sta", "ap", "ftm"}
  BY DEF Modes
<1>2. mode.loaded = "sta" => len = 28 /\ \A n \in 1..28 : StepFact(n, 28)
  BY StationSteps
<1>3. mode.loaded = "ap" => len = 27 /\ \A n \in 1..27 : StepFact(n, 27)
  BY AccessPointSteps
<1>4. mode.loaded = "ftm" => len = 4 /\ \A n \in 1..4 : StepFact(n, 4)
  BY FactoryTestSteps
<1> HIDE DEF len
<1>5. len \in Nat /\ len > 3 /\ \A n \in 1..len : StepFact(n, len)
  BY <1>1, <1>2, <1>3, <1>4
<1> QED
  BY <1>5 DEF len

(* An entry of Unwinding gives back what has its rank, and everything that *)
(* depends on it has that rank or a lower one.                             *)
UnwindFact(n) ==
    LET gives == Unwinding[n].gives
    IN /\ \A r \in Resources : Rank(r) = n => r \in gives
       /\ \A r \in gives \intersect DOMAIN Dependants : \A x \in Dependants[r] : Rank(x) <= n
       /\ gives \intersect Base = {}
       /\ n < 10 \/ gives \intersect {"wlan0", "p2p0"} = {}
       /\ "started" \in gives => n = 10
       /\ "cfg" \in gives <=> n = 14

LEMMA UnwindSteps ==
    ASSUME loader.at = "unwind"
    PROVE  Len(Unwinding) = 15 /\ \A n \in 1..15 : UnwindFact(n)
<1> USE DEF Unwinding, Gives, UnwindFact, Dependants, Resources, Base, Rank
<1>1. UnwindFact(1) /\ UnwindFact(2) /\ UnwindFact(3) /\ UnwindFact(4)
  OBVIOUS
<1>2. UnwindFact(5) /\ UnwindFact(6) /\ UnwindFact(7) /\ UnwindFact(8)
  OBVIOUS
<1>3. UnwindFact(9) /\ UnwindFact(10) /\ UnwindFact(11) /\ UnwindFact(12)
  OBVIOUS
<1>4. UnwindFact(13) /\ UnwindFact(14) /\ UnwindFact(15)
  OBVIOUS
<1>5. Len(Unwinding) = 15
  OBVIOUS
<1> HIDE DEF Unwinding, UnwindFact
<1> QED
  BY ONLY <1>1, <1>2, <1>3, <1>4, <1>5

(* The same of an exit.                                                    *)
ExitFact(n) ==
    LET gives == Exit("sta")[n]
    IN /\ \A r \in Resources : ExitRank(r) = n => r \in gives
       /\ \A r \in gives \intersect DOMAIN Dependants : \A x \in Dependants[r] : ExitRank(x) <= n
       /\ gives \intersect Base = {}

LEMMA ExitSteps ==
    ASSUME loader.at = "leave"
    PROVE  Len(Exit("sta")) = 23 /\ \A n \in 1..23 : ExitFact(n)
<1> USE DEF Exit, ExitQuiet, ExitStop, ExitClose, ExitContext, ExitFact, Dependants, Resources,
    Base, ExitRank
<1>1. ExitFact(1) /\ ExitFact(2) /\ ExitFact(3) /\ ExitFact(4)
  OBVIOUS
<1>2. ExitFact(5) /\ ExitFact(6) /\ ExitFact(7) /\ ExitFact(8)
  OBVIOUS
<1>3. ExitFact(9) /\ ExitFact(10) /\ ExitFact(11) /\ ExitFact(12)
  OBVIOUS
<1>4. ExitFact(13) /\ ExitFact(14) /\ ExitFact(15) /\ ExitFact(16)
  OBVIOUS
<1>5. ExitFact(17) /\ ExitFact(18) /\ ExitFact(19) /\ ExitFact(20)
  OBVIOUS
<1>6. ExitFact(21) /\ ExitFact(22) /\ ExitFact(23)
  OBVIOUS
<1>7. Len(Exit("sta")) = 23
  OBVIOUS
<1> HIDE DEF Exit, ExitFact
<1> QED
  BY ONLY <1>1, <1>2, <1>3, <1>4, <1>5, <1>6, <1>7

FtmFact(n) ==
    LET gives == Exit("ftm")[n]
    IN /\ \A r \in Resources : FtmRank(r) = n => r \in gives
       /\ gives \subseteq {"inet", "ftm", "cfg", "wiphy"}

LEMMA FtmExitSteps == Len(Exit("ftm")) = 5 /\ \A n \in 1..5 : FtmFact(n)
<1> USE DEF Exit, ExitFtm, ExitContext, FtmFact, Resources, Base, FtmRank
<1>1. FtmFact(1) /\ FtmFact(2) /\ FtmFact(3) /\ FtmFact(4) /\ FtmFact(5)
  OBVIOUS
<1>2. Len(Exit("ftm")) = 5
  OBVIOUS
<1> HIDE DEF Exit, FtmFact
<1> QED
  BY ONLY <1>1, <1>2

-----------------------------------------------------------------------------
(* What is loaded decides the steps of a load.                             *)
LEMMA LoadedSame ==
    ASSUME mode'.loaded = mode.loaded
    PROVE  Startup' = Startup /\ (loader'.n = loader.n => Bound' = Bound)
  BY DEF Startup, Bound

LEMMA ModeSame ==
    ASSUME UNCHANGED <<built, mode>>
    PROVE  Conparam' = Conparam /\ ExitMode' = ExitMode
  BY DEF Conparam, ExitMode

(* Loads and unloads begin when the loader rests.                          *)
LEMMA KickHeld ==
    ASSUME LoadInv, Insmod \/ Rmmod \/ WriteModule \/ ConModeHandler \/ FwpathHandler
    PROVE  HeldInv'
<1> USE DEF LoadInv, HeldInv, Rest
<1>1. CASE Insmod
  <2>1. /\ loader' = [at |-> "init", n |-> 0, again |-> FALSE]
        /\ ~inside /\ held \subseteq {"cfg"} /\ loader.at = "idle"
        /\ built = "module" /\ mode'.loaded = mode.loaded
        /\ UNCHANGED <<built, inside, held, load, awake, net, request, ssr, mishap>>
    BY <1>1 DEF Insmod, Kick, ModeTypeOK, Inv
  <2> QED
    BY <2>1 DEF HeldInv, HoldInv, OutInv, StartInv, UnwindInv, LeaveInv, MatchInv, CoreInv,
       RequestInv, AwakeInv, Out, Unwritten
<1>2. CASE Rmmod
  <2>1. /\ loader' = [at |-> "exit", n |-> 0, again |-> FALSE]
        /\ inside /\ loader.at = "idle"
        /\ UNCHANGED <<built, inside, held, load, awake, mode, net, request, ssr, mishap>>
    BY <1>2 DEF Rmmod, Kick
  <2> QED
    BY <2>1, ModeSame DEF HeldInv, HoldInv, OutInv, StartInv, UnwindInv, LeaveInv, MatchInv,
       CoreInv, RequestInv, AwakeInv, Out, Unwritten
<1>3. CASE WriteModule
  <2>1. PICK m \in Modes :
        /\ mode'.loaded = mode.loaded /\ mode'.param = m
        /\ loader.at = "idle" /\ inside /\ built = "module"
        /\ mishap' = mishap \union {IF (m = "ftm") # (mode.loaded = "ftm") THEN "written" ELSE "moved"}
        /\ UNCHANGED <<built, loader, inside, held, load, awake, net, request, ssr>>
    BY <1>3 DEF WriteModule, Fails, ModeTypeOK, Inv
  <2> QED
    BY <2>1 DEF HeldInv, HoldInv, OutInv, StartInv, UnwindInv, LeaveInv, MatchInv,
       CoreInv, RequestInv, AwakeInv, Out, Unwritten, Conparam
<1>4. ASSUME NEW m \in Modes, KickstartDriver(m), Kick, built = "builtin",
             UNCHANGED <<built, inside, held, load, awake, net, request, ssr>>
      PROVE  HeldInv'
  <2>1. /\ loader' = [at |-> IF inside THEN "exit" ELSE "init", n |-> 0, again |-> inside]
        /\ loader.at = "idle"
        /\ mode'.loaded = mode.loaded /\ mode'.curr = mode.curr
        /\ mishap' = mishap \ {"reset"}
    BY <1>4 DEF KickstartDriver, Kick, ModeTypeOK, Inv
  <2>2. Conparam' = Conparam
    BY <1>4, <2>1 DEF Conparam
  <2> QED
    BY <1>4, <2>1, <2>2 DEF HeldInv, HoldInv, OutInv, StartInv, UnwindInv, LeaveInv, MatchInv,
       CoreInv, RequestInv, AwakeInv, Out, Unwritten
<1>5. CASE ConModeHandler
  BY <1>4, <1>5 DEF ConModeHandler
<1>6. CASE FwpathHandler
  <2>1. mode.param \in Modes
    BY DEF ModeTypeOK, Inv
  <2> QED
    BY <1>4, <1>6, <2>1 DEF FwpathHandler
<1> QED
  BY <1>1, <1>2, <1>3, <1>5, <1>6

(* A load has steps whatever mode it begins in.                            *)
LEMMA NextLength ==
    ASSUME mode'.loaded \in Modes
    PROVE  Len(Startup') \in Nat /\ Len(Startup') > 3
<1>1. mode'.loaded \in {"sta", "ap", "ftm"}
  BY DEF Modes
<1> QED
  BY <1>1 DEF Startup, Context, FactoryTest, OpenCore, StartCore, Register, Adapters, Amp,
     Services, Afterwards

(* A load begins with nothing but what a failed factory test left behind.  *)
LEMMA InitHeld ==
    ASSUME LoadInv, DriverInit
    PROVE  HeldInv'
<1> USE DEF LoadInv, HeldInv
<1>1. loader.at = "init" /\ held \subseteq {"cfg"} /\ request = "idle"
  BY DEF DriverInit, OutInv, RequestInv
<1>2. CASE NotLoaded /\ UNCHANGED <<built, load, awake, mode, request, ssr>> /\ mishap \subseteq mishap'
             /\ ("written" \in mishap' <=> "written" \in mishap)
  <2>1. /\ inside' = FALSE /\ held' = held
        /\ loader' = [at |-> "idle", n |-> 0, again |-> FALSE]
    BY <1>1, <1>2 DEF NotLoaded
  <2> QED
    BY <1>1, <1>2, <2>1, ModeSame DEF HoldInv, OutInv, StartInv, UnwindInv, LeaveInv, MatchInv,
       CoreInv, RequestInv, AwakeInv, Out, Unwritten
<1>3. CASE /\ held' = held \union {"logsvc", "wakelock", "preopen", "wiphy"}
           /\ mode' = [Conparams EXCEPT !.loaded = IF built = "module" THEN Conparams.param
                                                                      ELSE Conparams.curr]
           /\ Go("start", 1)
           /\ UNCHANGED <<inside, mishap, built, request, ssr>>
  <2>1. /\ loader' = [at |-> loader'.at, n |-> loader'.n, again |-> loader'.again]
        /\ loader'.at = "start" /\ loader'.again = loader.again /\ loader'.n = 1
    BY <1>3, GoFacts DEF Inv, Go, LoaderTypeOK
  <2>2. mode'.loaded \in Modes /\ Conparam' = mode'.loaded
    <3>1. mode.param \in Modes
      BY DEF ModeTypeOK, Inv
    <3>2. /\ Conparams \in [param : Modes, curr : Modes, asked : Modes,
                              loaded : Modes \union {"none"}]
          /\ built = "builtin" => Conparams.curr = mode.param
      BY <3>1, SetConparamFacts DEF Conparams, ModeTypeOK, Inv
    <3> QED
      BY <1>3, <3>2 DEF Conparam, Inv, LoaderTypeOK
  <2>3. Bound' = 15 /\ 1 \in 1..Len(Startup')
    <3>1. Bound' = Bounds(mode'.loaded)[1]
      BY <2>1 DEF Bound
    <3>2. Bounds(mode'.loaded)[1] = 15
      BY DEF Bounds
    <3>3. Len(Startup') \in Nat /\ Len(Startup') > 3
      BY <2>2, NextLength
    <3> QED
      BY <3>1, <3>2, <3>3
  <2>4. held' \subseteq HeldInFtm /\ held' \subseteq Resources /\ "ftm" \notin held' /\ "wlan0" \notin held'
    BY <1>1, <1>3 DEF HeldInFtm, Resources, Base
  <2>5. \A r \in held' : Rank(r) >= 15
    BY <1>1, <1>3 DEF Rank, Base
  <2>6. HoldInv' /\ OutInv'
    BY <1>1, <1>3, <2>1, <2>4 DEF HoldInv, OutInv, Out, Unwritten
  <2>7. StartInv' /\ UnwindInv' /\ LeaveInv' /\ MatchInv'
    BY <2>1, <2>2, <2>3, <2>5 DEF StartInv, UnwindInv, LeaveInv, MatchInv
  <2>8. CoreInv' /\ RequestInv' /\ AwakeInv'
    <3>1. 1 < Len(Startup')
      BY <2>2, NextLength
    <3> QED
      BY <1>1, <1>3, <2>1, <2>4, <3>1 DEF CoreInv, RequestInv, AwakeInv
  <2> QED
    BY <2>6, <2>7, <2>8
<1> QED
  BY <1>2, <1>3 DEF DriverInit, Fails, Unwritten

(* A step takes what ranks no lower than what the next one expects.        *)
LEMMA StartHeld ==
    ASSUME LoadInv, StartStep
    PROVE  HeldInv'
<1> DEFINE len == Len(Startup)
           takes == Startup[loader.n].takes
           b == Bounds(mode.loaded)
<1> USE DEF LoadInv, HeldInv
<1>1. loader.at = "start" /\ mode.loaded \in Modes /\ loader.n \in 1..len
  BY DEF StartStep, StartInv
<1>2. len \in Nat /\ len > 3 /\ StepFact(loader.n, len)
  BY <1>1, StartSteps
<1>3. /\ held' = held \union takes
      /\ IF "locks" \in takes THEN load' = "none" /\ awake' = FALSE ELSE UNCHANGED <<load, awake>>
      /\ IF loader.n < len THEN Go("start", loader.n + 1) /\ UNCHANGED inside
                           ELSE Go("idle", 0) /\ inside' = TRUE
      /\ UNCHANGED <<built, mode, request, ssr, mishap, left>>
  BY DEF StartStep
<1>4. Startup' = Startup
  BY <1>3, LoadedSame
<1>5. /\ loader' = [at |-> loader'.at, n |-> loader'.n, again |-> loader'.again]
      /\ loader'.again = loader.again
      /\ IF loader.n < len THEN loader'.at = "start" /\ loader'.n = loader.n + 1 /\ inside' = inside
                           ELSE loader'.at = "idle" /\ inside' = TRUE
  BY <1>3 DEF Inv, Go, LoaderTypeOK
<1>6. /\ takes \subseteq Resources
      /\ mode.loaded = "ftm" => takes \subseteq HeldInFtm
      /\ mode.loaded # "ftm" => "ftm" \notin takes
      /\ "wlan0" \in takes => b[loader.n] <= 10
      /\ "cfg" \in takes => loader.n = 2
      /\ "locks" \in takes <=> mode.loaded # "ftm" /\ loader.n = len - 1
      /\ \A r \in takes : Rank(r) >= b[loader.n + 1]
      /\ b[loader.n] \in 0..15 /\ b[loader.n + 1] \in 0..15 /\ b[loader.n + 1] <= b[loader.n]
      /\ mode.loaded # "ftm" => (b[loader.n + 1] <= 10 => b[loader.n] <= 10 \/ "started" \in takes)
  BY <1>2 DEF StepFact
<1>7. /\ \A r \in held : Rank(r) >= b[loader.n]
      /\ mode.loaded # "ftm" /\ b[loader.n] <= 10 => "started" \in held
  BY <1>1 DEF StartInv, Bound
<1> HIDE DEF len, takes, b
<1>8. HoldInv' /\ OutInv'
  BY <1>1, <1>2, <1>3, <1>5, <1>6 DEF HoldInv, OutInv, Out, Unwritten
<1>9. StartInv'
  <2> SUFFICES ASSUME loader.n < len PROVE StartInv'
    BY <1>5 DEF StartInv
  <2>1. loader'.n \in 1..len /\ Bound' = b[loader.n + 1]
    BY <1>1, <1>2, <1>3, <1>5 DEF Bound, b
  <2>2. \A r \in held' : Rank(r) >= b[loader.n + 1]
    <3> SUFFICES ASSUME NEW r \in held PROVE Rank(r) >= b[loader.n + 1]
      BY <1>3, <1>6
    <3>1. Rank(r) \in Nat
      BY DEF Rank
    <3> QED
      BY <1>6, <1>7, <3>1
  <2> QED
    BY <1>1, <1>3, <1>4, <1>6, <1>7, <2>1, <2>2 DEF StartInv, len
<1>10. UnwindInv' /\ LeaveInv' /\ MatchInv'
  BY <1>1, <1>3, <1>5, ModeSame DEF UnwindInv, LeaveInv, MatchInv, Unwritten
<1>11. CoreInv' /\ RequestInv'
  <2>1. "wlan0" \in takes => "started" \in held
    BY <1>6, <1>7, <1>2 DEF HeldInFtm, Base
  <2> QED
    BY <1>1, <1>3, <1>5, <2>1 DEF CoreInv, RequestInv
<1>12. AwakeInv'
  <2>1. Len(Startup') = len
    BY <1>4 DEF len
  <2>2. awake => mode.loaded = "ftm" \/ loader.n < len
    BY <1>1 DEF AwakeInv, len
  <2>3. awake' => mode.loaded = "ftm" \/ (loader.n < len /\ loader.n + 1 < len)
    <3>1. awake' => awake /\ "locks" \notin takes
      BY <1>3
    <3>2. "locks" \notin takes /\ loader.n < len => mode.loaded = "ftm" \/ loader.n + 1 < len
      BY <1>1, <1>2, <1>6
    <3> QED
      BY <2>2, <3>1, <3>2
  <2> QED
    BY <1>3, <1>5, <2>1, <2>3 DEF AwakeInv
<1> QED
  BY <1>8, <1>9, <1>10, <1>11, <1>12

(* A step that fails goes to a label below all that is held.               *)
LEMMA FailHeld ==
    ASSUME LoadInv, StartFails \/ DebugfsFails
    PROVE  HeldInv'
<1> DEFINE len == Len(Startup)
           step == Startup[loader.n]
           b == Bounds(mode.loaded)
<1> USE DEF LoadInv, HeldInv
<1>1. loader.at = "start" /\ mode.loaded \in Modes /\ loader.n \in 1..len
  BY DEF StartFails, DebugfsFails, StartInv
<1>2. len \in Nat /\ len > 3 /\ StepFact(loader.n, len)
  BY <1>1, StartSteps
<1>3. /\ UNCHANGED <<built, inside, held, load, awake, mode, net, request, ssr>>
      /\ "written" \in mishap' <=> "written" \in mishap
      /\ mishap \subseteq mishap'
  BY DEF StartFails, DebugfsFails, Fails
<1>4. Startup' = Startup
  BY <1>3, LoadedSame
<1>5. /\ \A r \in held : Rank(r) >= b[loader.n]
      /\ mode.loaded # "ftm" /\ b[loader.n] <= 10 => "started" \in held
  BY <1>1 DEF StartInv, Bound
<1>6. \A r : Rank(r) \in Nat
  BY DEF Rank
<1>7. CASE StartFails
  <2>1. step.label # "none" /\ Go("unwind", At(step.label)) /\ ("ftm" \in step.takes => "ftmopen" \in mishap')
    BY <1>7 DEF StartFails, Fails
  <2>2. /\ At(step.label) \in 1..15 /\ At(step.label) <= b[loader.n] /\ b[loader.n] \in 0..15
        /\ At(step.label) = 15 => loader.n <= 2 \/ "ftm" \in step.takes
    BY <1>2, <2>1 DEF StepFact
  <2> HIDE DEF len, step, b
  <2>3. loader'.at = "unwind" /\ loader'.n = At(step.label) /\ loader'.again = loader.again
    BY <2>1 DEF Inv, Go, LoaderTypeOK
  <2>4. \A r \in held : Rank(r) >= At(step.label)
    <3> SUFFICES ASSUME NEW r \in held PROVE Rank(r) >= At(step.label)
      OBVIOUS
    <3>1. Rank(r) \in Nat /\ Rank(r) >= b[loader.n]
      BY <1>5, <1>6
    <3> QED
      BY <2>2, <3>1
  <2>5. HoldInv' /\ OutInv'
    BY <1>1, <1>3, <2>1, <2>2, <2>3 DEF HoldInv, OutInv, Out, Unwritten
  <2>6. StartInv' /\ UnwindInv' /\ LeaveInv' /\ MatchInv' /\ AwakeInv'
    BY <1>3, <2>2, <2>3, <2>4 DEF StartInv, UnwindInv, LeaveInv, MatchInv, AwakeInv
  <2>7. CoreInv' /\ RequestInv'
    BY <1>1, <1>3, <2>3 DEF CoreInv, RequestInv
  <2> QED
    BY <2>5, <2>6, <2>7
<1>8. CASE DebugfsFails
  <2>1. step.takes = {"debugfs"} /\ Go("start", loader.n + 1)
    BY <1>8 DEF DebugfsFails
  <2>2. /\ b[loader.n] \in 0..15 /\ b[loader.n + 1] \in 0..15 /\ b[loader.n + 1] <= b[loader.n]
        /\ loader.n < len - 1
        /\ mode.loaded # "ftm" => (b[loader.n + 1] <= 10 => b[loader.n] <= 10)
    BY <1>2, <2>1 DEF StepFact
  <2>3. loader'.at = "start" /\ loader'.n = loader.n + 1 /\ loader'.again = loader.again
    BY <2>1 DEF Inv, Go, LoaderTypeOK
  <2>4. Bound' = b[loader.n + 1]
    BY <1>3, <2>3 DEF Bound
  <2>5. Len(Startup') = len
    BY <1>4
  <2> HIDE DEF len, step, b
  <2>6. \A r \in held : Rank(r) >= b[loader.n + 1]
    <3> SUFFICES ASSUME NEW r \in held PROVE Rank(r) >= b[loader.n + 1]
      OBVIOUS
    <3>1. Rank(r) \in Nat /\ Rank(r) >= b[loader.n]
      BY <1>5, <1>6
    <3> QED
      BY <2>2, <3>1
  <2>7. HoldInv' /\ OutInv'
    BY <1>1, <1>2, <1>3, <2>3 DEF HoldInv, OutInv, Out, Unwritten
  <2>8. StartInv' /\ UnwindInv' /\ LeaveInv' /\ AwakeInv'
    BY <1>1, <1>2, <1>3, <1>5, <2>2, <2>3, <2>4, <2>5, <2>6
    DEF StartInv, UnwindInv, LeaveInv, AwakeInv
  <2>9. CoreInv' /\ RequestInv' /\ MatchInv'
    BY <1>1, <1>3, <2>3, ModeSame DEF CoreInv, RequestInv, MatchInv, Unwritten
  <2> QED
    BY <2>7, <2>8, <2>9
<1> QED
  BY <1>7, <1>8

(* An entry of Unwinding gives back all that has its rank: the next one    *)
(* finds what ranks higher.                                                *)
LEMMA UnwindHeld ==
    ASSUME LoadInv, Unwind \/ InitFailed
    PROVE  HeldInv'
<1> USE DEF LoadInv, HeldInv
<1>1. CASE Unwind
  <2> DEFINE gives == Unwinding[loader.n].gives
  <2>1. loader.at = "unwind" /\ loader.n \in 1..15 /\ \A r \in held : Rank(r) >= loader.n
    BY <1>1 DEF Unwind, UnwindInv
  <2>2. Len(Unwinding) = 15 /\ UnwindFact(loader.n)
    BY <2>1, UnwindSteps
  <2>3. /\ held' = held \ gives /\ (gives \intersect {"wlan0", "p2p0"} # {} => request = "idle")
        /\ IF loader.n < 15 THEN Go("unwind", loader.n + 1) /\ UNCHANGED <<load, awake>>
                            ELSE Go("failed", 0) /\ awake' = FALSE /\ load' = "none"
        /\ UNCHANGED <<built, inside, mode, net, request, ssr, mishap, left>>
    BY <1>1, <2>2 DEF Unwind, NeedsRtnl
  <2>4. /\ loader'.again = loader.again
        /\ IF loader.n < 15 THEN loader'.at = "unwind" /\ loader'.n = loader.n + 1
                            ELSE loader'.at = "failed"
    BY <2>3 DEF Inv, Go, LoaderTypeOK
  <2>5. /\ \A r \in Resources : Rank(r) = loader.n => r \in gives
        /\ "started" \in gives => loader.n = 10
        /\ "cfg" \in gives <=> loader.n = 14
    BY <2>2 DEF UnwindFact
  <2> HIDE DEF gives
  <2>6. \A r \in held' : Rank(r) >= loader.n + 1
    <3> SUFFICES ASSUME NEW r \in held' PROVE Rank(r) >= loader.n + 1
      OBVIOUS
    <3>1. Rank(r) \in Nat
      BY DEF Rank
    <3>2. Rank(r) >= loader.n /\ Rank(r) # loader.n
      BY <2>1, <2>3, <2>5 DEF HoldInv
    <3> QED
      BY <2>1, <3>1, <3>2
  <2>7. HoldInv'
    BY <2>3, <2>4 DEF HoldInv, Unwritten
  <2>8. OutInv'
    <3>1. loader.n = 15 => held' \subseteq Base \union {"cfg"}
      <4> SUFFICES ASSUME loader.n = 15, NEW r \in held' PROVE r \in Base \union {"cfg"}
        OBVIOUS
      <4>1. Rank(r) >= 16
        BY <2>6
      <4> QED
        BY <4>1 DEF Rank
    <3> QED
      BY <2>1, <2>3, <2>4, <2>5, <3>1 DEF OutInv, Out, Unwritten
  <2>9. StartInv' /\ UnwindInv' /\ LeaveInv' /\ MatchInv'
    BY <2>1, <2>4, <2>6 DEF StartInv, UnwindInv, LeaveInv, MatchInv
  <2>10. CoreInv' /\ RequestInv' /\ AwakeInv'
    <3>1. "started" \in gives => "wlan0" \notin held'
      <4> SUFFICES ASSUME loader.n = 10, "wlan0" \in held' PROVE FALSE
        BY <2>5
      <4>1. Rank("wlan0") = 8
        BY DEF Rank, Base
      <4>2. Rank("wlan0") >= loader.n + 1
        BY <2>6
      <4> QED
        BY <4>1, <4>2
    <3> QED
      BY <2>1, <2>3, <2>4, <3>1 DEF CoreInv, RequestInv, AwakeInv
  <2> QED
    BY <2>7, <2>8, <2>9, <2>10
<1>2. CASE InitFailed
  <2>1. /\ loader.at = "failed" /\ inside' = FALSE /\ held' = held \ Base
        /\ loader' = [at |-> "idle", n |-> 0, again |-> FALSE]
        /\ UNCHANGED <<built, load, awake, mode, net, request, ssr, mishap, left>>
    BY <1>2 DEF InitFailed, NotLoaded, Base
  <2>2. "wlan0" \notin Base /\ "started" \notin Base /\ "cfg" \notin Base
    BY DEF Base
  <2>3. HoldInv' /\ OutInv' /\ CoreInv' /\ RequestInv' /\ AwakeInv'
    BY <2>1, <2>2 DEF HoldInv, OutInv, CoreInv, RequestInv, AwakeInv, Out, Unwritten
  <2>4. StartInv' /\ UnwindInv' /\ LeaveInv' /\ MatchInv'
    BY <2>1 DEF StartInv, UnwindInv, LeaveInv, MatchInv
  <2> QED
    BY <2>3, <2>4
<1> QED
  BY <1>1, <1>2

-----------------------------------------------------------------------------
(* The way out.  Waiting changes nothing that is held; the flag is set     *)
(* when no request is under way.                                           *)
LEMMA WaitHeld ==
    ASSUME LoadInv, ExitTest \/ ExitWait \/ SetUnload
    PROVE  HeldInv'
<1> USE DEF LoadInv, HeldInv
<1>1. CASE ExitTest \/ ExitWait
  <2>1. /\ loader.at \in {"exit", "waiting"} /\ loader'.at \in {"waiting", "flag"}
        /\ loader'.again = loader.again
        /\ "written" \in mishap' <=> "written" \in mishap
        /\ UNCHANGED <<built, inside, held, load, awake, mode, net, request>>
    <3>1. CASE ExitTest
      <4>1. \E s \in {"waiting", "flag"} : Go(s, 0)
        BY <3>1 DEF ExitTest
      <4> QED
        BY <3>1, <4>1 DEF ExitTest, Go, Inv, LoaderTypeOK
    <3>2. CASE ExitWait
      <4>1. "written" \in mishap' <=> "written" \in mishap
        BY <3>2 DEF ExitWait, Fails
      <4> QED
        BY <3>2, <4>1 DEF ExitWait, Go, Inv, LoaderTypeOK
    <3> QED
      BY <1>1, <3>1, <3>2
  <2>2. /\ ssr' = [on |-> ssr'.on, torn |-> ssr'.torn, done |-> ssr'.done]
        /\ ssr'.on = ssr.on /\ ssr'.torn = ssr.torn
    BY <1>1 DEF ExitTest, ExitWait, RequestInv
  <2> QED
    BY <2>1, <2>2, ModeSame DEF HoldInv, OutInv, StartInv, UnwindInv, LeaveInv, MatchInv,
       CoreInv, RequestInv, AwakeInv, Out, Unwritten
<1>2. CASE SetUnload
  <2>1. /\ loader.at = "flag" /\ request = "idle" /\ load' = "unload"
        /\ loader'.at = "leave" /\ loader'.n = 1 /\ loader'.again = loader.again
        /\ UNCHANGED <<built, inside, held, awake, mode, net, request, ssr, mishap, left>>
    BY <1>2 DEF SetUnload, FlagLock, Go, Inv, LoaderTypeOK
  <2>2. \A r : ExitRank(r) >= 1
    BY DEF ExitRank
  <2>3. Unwritten /\ ExitMode = "ftm" => \A r \in held : FtmRank(r) >= 1
    <3>1. Unwritten /\ ExitMode = "ftm" => held \subseteq HeldInFtm
      BY <2>1 DEF MatchInv, HoldInv, ExitMode
    <3>2. \A r \in HeldInFtm : FtmRank(r) >= 1
      BY DEF HeldInFtm, Base, FtmRank
    <3> QED
      BY <3>1, <3>2
  <2>4. LeaveInv'
    BY <2>1, <2>2, <2>3, ModeSame DEF LeaveInv, Unwritten
  <2>5. HoldInv' /\ OutInv' /\ StartInv' /\ UnwindInv'
    BY <2>1 DEF HoldInv, OutInv, StartInv, UnwindInv, Out, Unwritten
  <2>6. MatchInv' /\ CoreInv' /\ RequestInv' /\ AwakeInv'
    BY <2>1, ModeSame DEF MatchInv, CoreInv, RequestInv, AwakeInv, Unwritten
  <2> QED
    BY <2>4, <2>5, <2>6
<1> QED
  BY <1>1, <1>2

(* The mode of an exit is settled when it begins: taking down an access    *)
(* point changes con_mode from one mission mode to the other.              *)
LEMMA ExitModeKept ==
    ASSUME LoadInv, ExitStep
    PROVE  /\ ExitMode' = ExitMode /\ (Conparam' = "ftm" <=> Conparam = "ftm")
           /\ mode'.loaded = mode.loaded
           /\ "written" \in mishap' <=> "written" \in mishap
<1>1. CASE /\ ExitMode # "ftm" /\ mode' = SetConparam(mode, "sta")
           /\ mishap' = mishap \union {"reset"} /\ built' = built
  <2>1. mode'.loaded = mode.loaded /\ mode'.param = "sta" /\ (built = "builtin" => mode'.curr = "sta")
    BY <1>1, SetConparamFacts DEF LoadInv, Inv, Modes
  <2>2. Conparam' = "sta" /\ ExitMode = "sta" /\ Conparam # "ftm"
    BY <1>1, <2>1 DEF Conparam, ExitMode, LoadInv, Inv, LoaderTypeOK
  <2> QED
    BY <1>1, <2>1, <2>2 DEF ExitMode
<1>2. CASE UNCHANGED <<built, mode, mishap>>
  BY <1>2, ModeSame
<1> QED
  BY <1>1, <1>2 DEF ExitStep, Deinit

LEMMA LeaveHeld ==
    ASSUME LoadInv, ExitStep
    PROVE  HeldInv'
<1> USE DEF LoadInv, HeldInv
<1> DEFINE steps == Exit(ExitMode)
           gives == steps[loader.n]
           len == Len(steps)
<1>1. /\ loader.at = "leave" /\ held' = held \ gives
      /\ gives \intersect {"wlan0", "p2p0"} # {} => request = "idle"
      /\ IF loader.n < len THEN Go("leave", loader.n + 1) /\ UNCHANGED <<load, ssr>>
                           ELSE Go("left", 0) /\ load' = "none" /\ ssr' = NoRestart
      /\ UNCHANGED <<built, inside, awake, net, request, left>>
  BY DEF ExitStep, NeedsRtnl
<1>2. /\ loader'.again = loader.again
      /\ IF loader.n < len THEN loader'.at = "leave" /\ loader'.n = loader.n + 1
                           ELSE loader'.at = "left"
  BY <1>1 DEF Inv, Go, LoaderTypeOK
<1>3. /\ ExitMode' = ExitMode /\ (Conparam' = "ftm" <=> Conparam = "ftm")
      /\ mode'.loaded = mode.loaded
      /\ "written" \in mishap' <=> "written" \in mishap
  BY ExitModeKept
<1>4. load = "unload" /\ ExitMode \in {"ftm", "sta"}
  BY <1>1 DEF LeaveInv, ExitMode
<1>5. HoldInv'
  BY <1>1, <1>2, <1>3 DEF HoldInv, Unwritten
<1>6. StartInv' /\ UnwindInv' /\ MatchInv'
  BY <1>1, <1>2, <1>3 DEF StartInv, UnwindInv, MatchInv, Unwritten
<1>7. RequestInv' /\ AwakeInv'
  BY <1>1, <1>2, <1>3, <1>4 DEF RequestInv, AwakeInv, NoRestart
<1>8. CASE ExitMode = "ftm"
  <2>1. len = 5 /\ loader.n \in 1..5 /\ FtmFact(loader.n)
    BY <1>1, <1>8, FtmExitSteps DEF LeaveInv
  <2>2. gives \subseteq {"inet", "ftm", "cfg", "wiphy"} /\ (\A r \in Resources : FtmRank(r) = loader.n => r \in gives)
    BY <1>8, <2>1 DEF FtmFact
  <2>3. Unwritten => \A r \in held : FtmRank(r) >= loader.n
    BY <1>1, <1>8 DEF LeaveInv
  <2> HIDE DEF steps, gives, len
  <2>4. Unwritten => \A r \in held' : FtmRank(r) >= loader.n + 1
    <3> SUFFICES ASSUME Unwritten, NEW r \in held' PROVE FtmRank(r) >= loader.n + 1
      OBVIOUS
    <3>1. FtmRank(r) \in Nat
      BY DEF FtmRank
    <3>2. FtmRank(r) >= loader.n /\ FtmRank(r) # loader.n
      BY <1>1, <2>2, <2>3 DEF HoldInv
    <3> QED
      BY <2>1, <3>1, <3>2
  <2>5. OutInv'
    <3>1. Unwritten /\ loader.n = 5 => held' \subseteq Base
      <4> SUFFICES ASSUME Unwritten, loader.n = 5, NEW r \in held' PROVE r \in Base
        OBVIOUS
      <4>1. FtmRank(r) >= 6
        BY <2>4
      <4> QED
        BY <4>1 DEF FtmRank
    <3> QED
      BY <1>1, <1>2, <1>3, <2>1, <3>1 DEF OutInv, Out, Unwritten
  <2>6. LeaveInv'
    BY <1>1, <1>2, <1>3, <1>4, <1>8, <2>1, <2>4 DEF LeaveInv, Unwritten
  <2>7. CoreInv'
    BY <1>1, <1>8, <2>2 DEF CoreInv
  <2> QED
    BY <1>5, <1>6, <1>7, <2>5, <2>6, <2>7
<1>9. CASE ExitMode = "sta"
  <2>1. len = 23 /\ loader.n \in 1..23 /\ ExitFact(loader.n)
    BY <1>1, <1>9, ExitSteps DEF LeaveInv
  <2>2. \A r \in Resources : ExitRank(r) = loader.n => r \in gives
    BY <1>9, <2>1 DEF ExitFact
  <2>3. \A r \in held : ExitRank(r) >= loader.n
    BY <1>1, <1>9 DEF LeaveInv
  <2> HIDE DEF steps, gives, len
  <2>4. \A r \in held' : ExitRank(r) >= loader.n + 1
    <3> SUFFICES ASSUME NEW r \in held' PROVE ExitRank(r) >= loader.n + 1
      OBVIOUS
    <3>1. ExitRank(r) \in Nat
      BY DEF ExitRank
    <3>2. ExitRank(r) >= loader.n /\ ExitRank(r) # loader.n
      BY <1>1, <2>2, <2>3 DEF HoldInv
    <3> QED
      BY <2>1, <3>1, <3>2
  <2>5. loader.n = 23 => held' \subseteq Base \union {"ftm"}
    <3> SUFFICES ASSUME loader.n = 23, NEW r \in held' PROVE r \in Base \union {"ftm"}
      OBVIOUS
    <3>1. ExitRank(r) >= 24 /\ r \in Resources
      BY <1>1, <2>4 DEF HoldInv
    <3> QED
      BY <3>1 DEF ExitRank, Resources
  <2>6. OutInv'
    <3>1. Unwritten => "ftm" \notin held
      BY <1>1, <1>9 DEF MatchInv, HoldInv, ExitMode
    <3> QED
      BY <1>1, <1>2, <1>3, <2>1, <2>5, <3>1 DEF OutInv, Out, Unwritten
  <2>7. LeaveInv'
    BY <1>1, <1>2, <1>3, <1>4, <1>9, <2>1, <2>4 DEF LeaveInv
  <2>8. CoreInv'
    BY <1>1, <1>2, <1>3, <1>9, <2>1, <2>5 DEF CoreInv, Base
  <2> QED
    BY <1>5, <1>6, <1>7, <2>6, <2>7, <2>8
<1> QED
  BY <1>4, <1>8, <1>9

LEMMA LeftHeld ==
    ASSUME LoadInv, DriverExited
    PROVE  HeldInv'
<1> USE DEF LoadInv, HeldInv
<1>1. /\ loader.at = "left" /\ inside' = FALSE /\ held' = held \ Base
      /\ loader'.at = (IF loader.again THEN "init" ELSE "idle") /\ loader'.again = loader.again
      /\ UNCHANGED <<built, load, awake, mode, net, request, ssr, mishap, left>>
  BY DEF DriverExited, Base, Inv, LoaderTypeOK
<1>2. "wlan0" \notin Base /\ "started" \notin Base
  BY DEF Base
<1>3. loader.again => Unwritten
  BY DEF HoldInv
<1>4. HoldInv' /\ CoreInv' /\ RequestInv' /\ AwakeInv'
  BY <1>1, <1>2 DEF HoldInv, CoreInv, RequestInv, AwakeInv, Unwritten
<1>5. OutInv'
  BY <1>1, <1>3 DEF OutInv, Out, Unwritten
<1>6. StartInv' /\ UnwindInv' /\ LeaveInv' /\ MatchInv'
  BY <1>1 DEF StartInv, UnwindInv, LeaveInv, MatchInv
<1> QED
  BY <1>4, <1>5, <1>6

-----------------------------------------------------------------------------
(* User space asks for an interface that is there, and leaves the loader   *)
(* and what it holds alone; only a change of type writes con_mode, from    *)
(* one mission mode to the other.                                          *)
LEMMA UserHeld ==
    ASSUME LoadInv, Request \/ HddOpen \/ Opens \/ RequestEnds \/ Stops \/ ChangeIface
                    \/ RestartBegins \/ RestartTears \/ RestartEnds
    PROVE  HeldInv'
<1> USE DEF LoadInv, HeldInv
<1>1. /\ UNCHANGED <<built, loader, inside, held, load, awake>>
      /\ mode'.loaded = mode.loaded
      /\ "written" \in mishap' <=> "written" \in mishap
      /\ mishap \subseteq mishap'
  <2>1. CASE ChangeIface
    <3>1. PICK p \in Modes : mode' = SetConparam(mode, p)
      BY <2>1 DEF ChangeIface, Modes
    <3>2. mode'.loaded = mode.loaded
      BY <3>1, SetConparamFacts DEF Inv
    <3> QED
      BY <2>1, <3>2 DEF ChangeIface
  <2>2. CASE RestartBegins
    BY <2>2 DEF RestartBegins
  <2>3. CASE \/ Request \/ HddOpen \/ Opens \/ RequestEnds \/ Stops
             \/ RestartTears \/ RestartEnds
    BY <2>3 DEF Request, HddOpen, Opens, RequestEnds, Stops, RestartTears, RestartEnds
  <2> QED
    BY <2>1, <2>2, <2>3
<1>2. RequestInv'
  <2>1. CASE Request \/ HddOpen
    BY <2>1 DEF Request, HddOpen, Asked, ValidateContext, RequestInv
  <2>2. CASE Opens \/ RequestEnds \/ Stops \/ ChangeIface
    BY <2>2 DEF Opens, RequestEnds, Stops, ChangeIface, RequestInv
  <2>3. CASE RestartBegins
    BY <2>3 DEF RestartBegins, RequestInv
  <2>4. CASE RestartTears \/ RestartEnds
    BY <2>4 DEF RestartTears, RestartEnds, RequestInv
  <2> QED
    BY <2>1, <2>2, <2>3, <2>4
<1>3. (Conparam' = "ftm" <=> Conparam = "ftm") \/ (ChangeIface /\ Conparam' # "ftm")
  <2>1. CASE ChangeIface
    <3>1. PICK p \in {"sta", "ap"} : mode' = SetConparam(mode, p)
      BY <2>1 DEF ChangeIface
    <3>2. mode'.param = p /\ (built = "builtin" => mode'.curr = p)
      BY <3>1, SetConparamFacts DEF Inv, Modes
    <3> QED
      BY <1>1, <2>1, <3>2 DEF Conparam, Inv, LoaderTypeOK
  <2>2. CASE UNCHANGED <<built, mode>>
    BY <2>2, ModeSame
  <2> QED
    BY <2>1, <2>2 DEF Request, HddOpen, Opens, RequestEnds, Stops, RestartBegins, RestartTears,
       RestartEnds
<1>4. ChangeIface => request = "valid" /\ load = "none" /\ mode.loaded # "ftm"
  BY DEF ChangeIface, RequestInv, HoldInv, HeldInFtm, Base
<1>5. loader.at = "leave" => ExitMode' = ExitMode
  <2>1. loader.at = "leave" => ~ChangeIface
    BY <1>4 DEF LeaveInv
  <2> QED
    BY <1>3, <2>1 DEF ExitMode
<1>6. HoldInv' /\ OutInv' /\ UnwindInv'
  BY <1>1 DEF HoldInv, OutInv, UnwindInv, Out, Unwritten
<1>7. StartInv' /\ AwakeInv'
  BY <1>1, LoadedSame DEF StartInv, AwakeInv
<1>8. LeaveInv' /\ MatchInv' /\ CoreInv'
  BY <1>1, <1>3, <1>4, <1>5 DEF LeaveInv, MatchInv, CoreInv, Unwritten
<1> QED
  BY <1>2, <1>6, <1>7, <1>8

LEMMA LoadInit == Init => LoadInv
<1> SUFFICES ASSUME Init PROVE LoadInv
  OBVIOUS
<1>1. Inv
  BY InvInit
<1>2. HoldInv /\ OutInv /\ StartInv /\ UnwindInv /\ LeaveInv
  BY DEF Init, HoldInv, OutInv, StartInv, UnwindInv, LeaveInv, Out, Unwritten
<1>3. MatchInv /\ CoreInv /\ RequestInv /\ AwakeInv
  BY DEF Init, MatchInv, CoreInv, RequestInv, AwakeInv, NoRestart
<1> QED
  BY <1>1, <1>2, <1>3 DEF LoadInv, HeldInv

LEMMA LoadStep ==
    ASSUME LoadInv, [Next]_vars
    PROVE  LoadInv'
<1>1. Inv'
  BY InvStep DEF LoadInv
<1>2. CASE UNCHANGED vars
  <2>1. HoldInv' /\ OutInv' /\ UnwindInv' /\ RequestInv'
    BY <1>2 DEF vars, LoadInv, HeldInv, HoldInv, OutInv, UnwindInv, RequestInv, Out, Unwritten
  <2>2. StartInv' /\ AwakeInv'
    BY <1>2, LoadedSame DEF vars, LoadInv, HeldInv, StartInv, AwakeInv
  <2>3. LeaveInv' /\ MatchInv' /\ CoreInv'
    BY <1>2, ModeSame DEF vars, LoadInv, HeldInv, LeaveInv, MatchInv, CoreInv, Unwritten
  <2> QED
    BY <1>1, <2>1, <2>2, <2>3 DEF LoadInv, HeldInv
<1>3. CASE Next
  BY <1>1, <1>3, KickHeld, InitHeld, StartHeld, FailHeld, UnwindHeld, WaitHeld, LeaveHeld,
     LeftHeld, UserHeld DEF Next, LoadInv
<1> QED
  BY <1>2, <1>3

LEMMA LoadKept == Spec => []LoadInv
<1>1. LoadInv /\ [Next]_vars => LoadInv'
  BY LoadStep
<1> QED
  BY <1>1, LoadInit, PTL DEF Spec

(* Whatever fails, in whatever mode: nothing is left of a driver that is   *)
(* out, but for the two exceptions that the property names                 *)
(* (hdd_wlan_startup and its labels, hdd_wlan_exit, hdd_driver_init).      *)
THEOREM AllGivenBack == Spec => []GivesBack
<1>1. LoadInv => GivesBack
  BY DEF LoadInv, HeldInv, OutInv, AwakeInv, GivesBack, Rest, Out, Unwritten
<1> QED
  BY <1>1, LoadKept, PTL

(* Under a restart nothing is waited for or taken down, unless the restart *)
(* began behind the test, or the wait gave up.                             *)
Known == mishap \intersect {"gap", "late"} # {}
RestartInv ==
    /\ loader.at \in {"flag", "leave"} /\ ssr.on => Known
    /\ loader.at = "waiting" /\ ssr.on /\ ssr.done => Known

LEMMA RestartStep ==
    ASSUME LoadInv, RestartInv, [Next]_vars
    PROVE  RestartInv'
<1>0. LoaderTypeOK /\ RequestInv
  BY DEF LoadInv, Inv, HeldInv
<1>1. CASE ExitTest
  <2>1. /\ ssr'.done = FALSE /\ ssr'.on = ssr.on
        /\ loader'.at = IF ssr.on THEN "waiting" ELSE "flag"
    BY <1>0, <1>1 DEF ExitTest, Go, LoaderTypeOK, RequestInv
  <2> QED
    BY <2>1 DEF RestartInv
<1>2. CASE ExitWait
  <2>1. loader.at = "waiting" /\ loader'.at = "flag" /\ ssr'.on = ssr.on
    BY <1>0, <1>2 DEF ExitWait, Go, LoaderTypeOK, RequestInv
  <2>2. ssr.done \/ Known'
    BY <1>2 DEF ExitWait, Fails, Known
  <2>3. ssr.done => mishap' = mishap
    BY <1>2 DEF ExitWait
  <2> QED
    BY <2>1, <2>2, <2>3 DEF RestartInv, Known
<1>3. CASE SetUnload
  BY <1>0, <1>3 DEF SetUnload, Go, LoaderTypeOK, RestartInv, Known
<1>4. CASE ExitStep
  <2>1. /\ loader.at = "leave" /\ loader'.at \in {"leave", "left"}
        /\ loader'.at = "leave" => ssr' = ssr
    BY <1>0, <1>4 DEF ExitStep, Go, LoaderTypeOK
  <2>2. mishap \subseteq mishap'
    BY <1>4 DEF ExitStep, Deinit
  <2> QED
    BY <2>1, <2>2 DEF RestartInv, Known
<1>5. CASE RestartBegins
  <2>1. loader' = loader /\ mishap \subseteq mishap'
    BY <1>5 DEF RestartBegins
  <2>2. loader.at \in {"waiting", "flag"} => Known'
    BY <1>5 DEF RestartBegins, Known
  <2>3. loader.at # "leave"
    BY <1>5 DEF RestartBegins, LoadInv, HeldInv, LeaveInv
  <2> QED
    BY <2>1, <2>2, <2>3 DEF RestartInv
<1>6. CASE RestartTears \/ RestartEnds
  BY <1>0, <1>6 DEF RestartTears, RestartEnds, RequestInv, RestartInv, Known
<1>7. CASE UNCHANGED <<loader, ssr>> /\ mishap \subseteq mishap'
  BY <1>7 DEF RestartInv, Known
<1>8. CASE loader'.at \notin {"waiting", "flag", "leave"}
  BY <1>8 DEF RestartInv
<1>9. CASE WriteModule
  BY <1>7, <1>9 DEF WriteModule, Fails
<1>10. CASE Request \/ HddOpen \/ Opens \/ RequestEnds \/ Stops \/ ChangeIface
  BY <1>7, <1>10 DEF Request, HddOpen, Opens, RequestEnds, Stops, ChangeIface, Asked
<1>11. CASE Insmod \/ Rmmod \/ ConModeHandler \/ FwpathHandler
  <2>1. \E at \in {"init", "exit"}, again \in BOOLEAN : loader' = [at |-> at, n |-> 0, again |-> again]
    <3>1. inside \in BOOLEAN
      BY <1>0 DEF LoaderTypeOK
    <3> QED
      BY <1>11, <3>1 DEF Insmod, Rmmod, ConModeHandler, FwpathHandler, KickstartDriver
  <2> QED
    BY <1>8, <2>1
<1>12. CASE DriverInit \/ InitFailed
  <2>1. ASSUME Go("start", 1) PROVE loader'.at = "start"
    BY <1>0, <2>1, GoFacts
  <2>2. loader'.at \in {"idle", "start"}
    BY <1>12, <2>1 DEF DriverInit, InitFailed, NotLoaded
  <2> QED
    BY <1>8, <2>2
<1>13. CASE StartStep \/ StartFails \/ DebugfsFails \/ Unwind \/ DriverExited
  <2>1. ASSUME NEW s, NEW i, Go(s, i) PROVE loader'.at = s
    BY <1>0, <2>1, GoFacts
  <2>2. CASE StartStep
    BY <1>8, <2>1, <2>2 DEF StartStep
  <2>3. CASE StartFails \/ DebugfsFails
    BY <1>8, <2>1, <2>3 DEF StartFails, DebugfsFails
  <2>4. CASE Unwind
    BY <1>8, <2>1, <2>4 DEF Unwind
  <2>5. CASE DriverExited
    <3>1. loader'.at \in {"init", "idle"}
      BY <1>0, <2>5 DEF DriverExited, LoaderTypeOK
    <3> QED
      BY <1>8, <3>1
  <2> QED
    BY <1>13, <2>2, <2>3, <2>4, <2>5
<1>14. CASE UNCHANGED vars
  BY <1>7, <1>14 DEF vars
<1> QED
  BY <1>1, <1>2, <1>3, <1>4, <1>5, <1>6, <1>9, <1>10, <1>11, <1>12, <1>13, <1>14 DEF Next

(* A request that was let in finds the core running; an interface that is  *)
(* opened may find it gone during an unload or a restart only; an unload   *)
(* waits for the restart that it sees (hdd_driver_exit takes rtnl to set   *)
(* the flag, wlan_hdd_validate_context, hdd_open).                         *)
THEOREM CoreFound == Spec => []RequestsFindTheCore
<1>1. LoadInv /\ RestartInv => RequestsFindTheCore
  BY DEF LoadInv, HeldInv, LeaveInv, CoreInv, RequestInv, RequestsFindTheCore, CoreRuns,
     RestartInv, Known
<1>2. Init => RestartInv
  BY DEF Init, RestartInv
<1>3. LoadInv /\ RestartInv /\ [Next]_vars => RestartInv'
  BY RestartStep
<1> QED
  BY <1>1, <1>2, <1>3, LoadKept, PTL DEF Spec

-----------------------------------------------------------------------------
(* What a step gives back, nothing that stays depends on.                  *)
Released ==
    \A r \in (held \ held') \intersect DOMAIN Dependants : Dependants[r] \intersect held' = {}

LEMMA UnwindReleased ==
    ASSUME LoadInv, Unwind
    PROVE  Released
<1> DEFINE gives == Unwinding[loader.n].gives
<1>1. loader.at = "unwind" /\ loader.n \in 1..15 /\ \A r \in held : Rank(r) >= loader.n
  BY DEF Unwind, UnwindInv, LoadInv, HeldInv
<1>2. UnwindFact(loader.n) /\ held' = held \ gives /\ held \subseteq Resources
  BY <1>1, UnwindSteps DEF Unwind, LoadInv, HeldInv, HoldInv
<1>3. /\ \A r \in Resources : Rank(r) = loader.n => r \in gives
      /\ \A r \in gives \intersect DOMAIN Dependants : \A x \in Dependants[r] : Rank(x) <= loader.n
  BY <1>2 DEF UnwindFact
<1> HIDE DEF gives
<1> SUFFICES ASSUME NEW r \in gives \intersect DOMAIN Dependants, NEW x \in Dependants[r], x \in held'
             PROVE  FALSE
  BY <1>2 DEF Released
<1>4. Rank(x) <= loader.n /\ Rank(x) >= loader.n /\ Rank(x) # loader.n
  BY <1>1, <1>2, <1>3
<1>5. Rank(x) \in Nat
  BY DEF Rank
<1> QED
  BY <1>1, <1>4, <1>5

LEMMA ExitReleased ==
    ASSUME LoadInv, ExitStep, Unwritten
    PROVE  Released
<1> DEFINE gives == Exit(ExitMode)[loader.n]
<1>1. loader.at = "leave" /\ held' = held \ gives /\ held \subseteq Resources
  BY DEF ExitStep, LoadInv, HeldInv, HoldInv
<1>2. CASE ExitMode = "ftm"
  <2>1. held \subseteq HeldInFtm
    BY <1>1, <1>2 DEF LoadInv, HeldInv, HoldInv, MatchInv, ExitMode
  <2>2. loader.n \in 1..5 /\ FtmFact(loader.n)
    BY <1>1, <1>2, FtmExitSteps DEF LeaveInv, LoadInv, HeldInv
  <2>3. gives \subseteq {"inet", "ftm", "cfg", "wiphy"}
    BY <1>2, <2>2 DEF FtmFact
  <2>4. \A r \in {"ftm", "cfg", "wiphy"} \intersect DOMAIN Dependants : Dependants[r] \intersect HeldInFtm = {}
    BY DEF Dependants, HeldInFtm, Base
  <2>5. "inet" \notin held
    BY <2>1 DEF HeldInFtm, Base
  <2> HIDE DEF gives
  <2> QED
    BY <1>1, <2>1, <2>3, <2>4, <2>5 DEF Released
<1>3. CASE ExitMode = "sta"
  <2>1. loader.n \in 1..23 /\ \A r \in held : ExitRank(r) >= loader.n
    BY <1>1, <1>3 DEF LeaveInv, LoadInv, HeldInv
  <2>2. /\ \A r \in Resources : ExitRank(r) = loader.n => r \in gives
        /\ \A r \in gives \intersect DOMAIN Dependants :
              \A x \in Dependants[r] : ExitRank(x) <= loader.n
    BY <1>1, <1>3, <2>1, ExitSteps DEF ExitFact
  <2> HIDE DEF gives
  <2> SUFFICES ASSUME NEW r \in gives \intersect DOMAIN Dependants, NEW x \in Dependants[r], x \in held'
               PROVE  FALSE
    BY <1>1 DEF Released
  <2>3. ExitRank(x) <= loader.n /\ ExitRank(x) >= loader.n /\ ExitRank(x) # loader.n
    BY <1>1, <2>1, <2>2
  <2>4. ExitRank(x) \in Nat
    BY DEF ExitRank
  <2> QED
    BY <2>1, <2>3, <2>4
<1> QED
  BY <1>2, <1>3 DEF ExitMode

(* The last of it goes when the context and the core are gone.             *)
LEMMA BaseReleased ==
    ASSUME LoadInv, DriverInit \/ InitFailed \/ DriverExited, Unwritten
    PROVE  Released
<1>1. held \ held' \subseteq Base
  BY DEF DriverInit, InitFailed, DriverExited, NotLoaded, Base
<1>2. held' \subseteq held
      => held' \subseteq {"cfg"} \/ held' \subseteq Base \union {"cfg"}
  BY DEF LoadInv, HeldInv, OutInv, DriverInit, InitFailed, DriverExited
<1>3. CASE ~(held' \subseteq held)
  <2>1. held \subseteq held'
    BY <1>3 DEF DriverInit, InitFailed, DriverExited, NotLoaded
  <2> QED
    BY <2>1 DEF Released
<1>4. CASE held' \subseteq held
  <2>1. \A r \in Base \intersect DOMAIN Dependants : Dependants[r] = {"vos", "wiphy"}
    BY DEF Dependants, Base
  <2>2. "vos" \notin held' /\ "wiphy" \notin held'
    BY <1>2, <1>4 DEF Base
  <2> QED
    BY <1>1, <2>1, <2>2 DEF Released
<1> QED
  BY <1>3, <1>4

(* No step of an unload or of a failed load takes something from under     *)
(* what still uses it (the labels of hdd_wlan_startup, hdd_wlan_exit).     *)
THEOREM InOrder == Spec => OrderedRelease
<1>1. LoadInv /\ [Next]_vars => [Unwritten => Released]_vars
  <2> SUFFICES ASSUME LoadInv, Next, Unwritten PROVE Released
    BY DEF vars
  <2>1. CASE Unwind \/ ExitStep \/ DriverInit \/ InitFailed \/ DriverExited
    BY <2>1, UnwindReleased, ExitReleased, BaseReleased
  <2>2. CASE held \subseteq held'
    BY <2>2 DEF Released
  <2>3. Insmod \/ Rmmod \/ WriteModule \/ ConModeHandler \/ FwpathHandler => held \subseteq held'
    BY DEF Insmod, Rmmod, WriteModule, ConModeHandler, FwpathHandler
  <2>4. StartStep \/ StartFails \/ DebugfsFails \/ ExitTest \/ ExitWait \/ SetUnload => held \subseteq held'
    BY DEF StartStep, StartFails, DebugfsFails, ExitTest, ExitWait, SetUnload
  <2>5. Request \/ HddOpen \/ Opens \/ RequestEnds \/ Stops \/ ChangeIface
        \/ RestartBegins \/ RestartTears \/ RestartEnds
        => held \subseteq held'
    BY DEF Request, HddOpen, Opens, RequestEnds, Stops, ChangeIface, RestartBegins,
       RestartTears, RestartEnds
  <2> QED
    BY <2>1, <2>2, <2>3, <2>4, <2>5 DEF Next
<1>2. OrderedRelease <=> [][Unwritten => Released]_vars
  BY PTL DEF OrderedRelease, Unwritten, Released
<1> QED
  BY <1>1, <1>2, LoadKept, PTL DEF Spec
=============================================================================
