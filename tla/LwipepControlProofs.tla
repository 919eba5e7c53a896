-------------------------- MODULE LwipepControlProofs --------------------------
(***************************************************************************)
(* Proofs about LwipepControl, for every value of its constants.           *)
(*                                                                         *)
(* UpdateHasDecision rests on the discipline of the mutex (MutexHeld: the  *)
(* threads that change what it speaks of exclude each other) and on what   *)
(* handle_args leaves behind (FiguresHeld).                                *)
(*                                                                         *)
(* HdlMutexFree and DecisionFresh speak of the time before the user closes *)
(* the automatic control.  The invariant says in which phase the handshake *)
(* is until then (Phase): idle, being accepted, waiting for the timer,     *)
(* handled, fetched.                                                       *)
(*                                                                         *)
(* TypeOK is inductive by itself.                                          *)
(***************************************************************************)
EXTENDS LwipepControl, TLAPS

\* TypeOK in the parts the actions leave alone.
PlaceTypes ==
    /\ mutex \in {"free", "pdcp", "gw"}
    /\ pdcp \in {"idle", "forward", "accept", "handle args", "start"}
    /\ gw \in {"idle", "lock", "fetch", "apply", "route", "send"}
    /\ mac \in {"idle", "handle", "config"}
    /\ console \in {"idle", "clear update", "clear auto"}
FlagTypes ==
    /\ hdl_mutex \in {"free", "mac"}
    /\ auto_control \in BOOLEAN /\ get_args \in BOOLEAN /\ update_route \in BOOLEAN
    /\ handle \in BOOLEAN /\ hdl_get_args \in BOOLEAN /\ hdl_running \in BOOLEAN
    /\ closed \in BOOLEAN
ConfigTypes ==
    /\ enable_config \in BOOLEAN /\ config_running \in BOOLEAN
    /\ aggregate \in [pdu : BOOLEAN, sdu : BOOLEAN]
    /\ switch_config \in {0, 20}
SduTypes ==
    route \in {"LTE", "WLAN"} /\ last_sdu \in [path : {"LTE", "WLAN"}, freed : BOOLEAN]
NumberTypes ==
    /\ accepted \in 0 .. Reports - 1 /\ given \in 0 .. Reports - 1
    /\ decided \in 0 .. Reports - 1 /\ fetched \in 0 .. Reports - 1

LEMMA TypeParts == TypeOK <=> /\ PlaceTypes /\ FlagTypes /\ ConfigTypes /\ SduTypes
                              /\ NumberTypes
<1>1. {auto_control, get_args, update_route, handle, hdl_get_args, hdl_running,
       enable_config, config_running, closed} \subseteq BOOLEAN
      <=> /\ auto_control \in BOOLEAN /\ get_args \in BOOLEAN /\ update_route \in BOOLEAN
          /\ handle \in BOOLEAN /\ hdl_get_args \in BOOLEAN /\ hdl_running \in BOOLEAN
          /\ closed \in BOOLEAN /\ enable_config \in BOOLEAN /\ config_running \in BOOLEAN
  BY Zenon
<1>2. {accepted, given, decided, fetched} \subseteq 0 .. Reports - 1
      <=> /\ accepted \in 0 .. Reports - 1 /\ given \in 0 .. Reports - 1
          /\ decided \in 0 .. Reports - 1 /\ fetched \in 0 .. Reports - 1
  BY Zenon
<1> QED
  BY <1>1, <1>2, Zenon DEF TypeOK, PlaceTypes, FlagTypes, ConfigTypes, SduTypes, NumberTypes

\* The statements the four threads are at, and the mutex.
LEMMA PlaceStep == PlaceTypes /\ [Next]_vars => PlaceTypes'
BY DEF PlaceTypes, Next, Pdcp, Gw, Mac, Console, PdcpReceive, PdcpForward, PdcpAccept,
       PdcpHandleArgs, PdcpStartTimer, GwPacket, GwLock, GwFetch, GwApply, GwRoute, GwSend,
       MacExpire, MacHandle, MacExpireConfig, MacConfig, ConsoleOpen, ConsoleClose,
       ConsoleClearUpdate, ConsoleClearAuto, ConsoleSetWlan, vars, threads

\* The flags of lwipep and of lwipep_hdl_rpt.
LEMMA FlagStep == FlagTypes /\ [Next]_vars => FlagTypes'
<1> SUFFICES ASSUME FlagTypes, [Next]_vars PROVE FlagTypes'
  OBVIOUS
<1> USE DEF FlagTypes
<1>1. CASE PdcpAccept \/ PdcpHandleArgs \/ PdcpStartTimer
  BY <1>1 DEF PdcpAccept, PdcpHandleArgs, PdcpStartTimer, flags, hdl, history
<1>2. CASE GwFetch \/ GwApply
  BY <1>2 DEF GwFetch, GwApply, hdl, history
<1>3. CASE MacHandle
  <2>1. CASE ~handle /\ hdl_get_args
    BY <1>3, <2>1 DEF MacHandle, flags
  <2>2. CASE ~(~handle /\ hdl_get_args)
    <3>1. hdl_mutex' = "mac" /\ UNCHANGED <<handle, decided>>
      BY <1>3, <2>2, Zenon DEF MacHandle
    <3> QED
      BY <1>3, <3>1 DEF MacHandle, flags
  <2> QED
    BY <2>1, <2>2
<1>4. CASE MacExpire \/ MacExpireConfig \/ MacConfig
  BY <1>4 DEF MacExpire, MacExpireConfig, MacConfig, flags, hdl, history
<1>5. CASE ConsoleOpen \/ ConsoleClose \/ Console
  BY <1>5 DEF ConsoleOpen, ConsoleClose, Console, ConsoleClearUpdate, ConsoleClearAuto,
              hdl, history
<1>6. CASE UNCHANGED <<flags, hdl, history>>
  BY <1>6 DEF flags, hdl, history
<1> QED
  BY <1>1, <1>2, <1>3, <1>4, <1>5, <1>6
     DEF Next, Pdcp, Gw, Mac, PdcpReceive, PdcpForward, GwPacket, GwLock, GwRoute, GwSend,
         ConsoleSetWlan, vars

\* The configuration, which set_lwipep_wlan and the configuration timer change.
LEMMA ConfigStep == ConfigTypes /\ [Next]_vars => ConfigTypes'
<1> SUFFICES ASSUME ConfigTypes, [Next]_vars PROVE ConfigTypes'
  OBVIOUS
<1> USE DEF ConfigTypes
<1>1. ASSUME NEW setting \in WlanSettings, ConsoleSetWlan(setting[1], setting[2])
      PROVE  ConfigTypes'
  <2>1. setting[1] \in BOOLEAN /\ setting[2] \in BOOLEAN
    BY WlanAssumption
  <2>2. aggregate' \in [pdu : BOOLEAN, sdu : BOOLEAN]
    BY <1>1, <2>1 DEF ConsoleSetWlan
  <2> QED
    BY <1>1, <2>2 DEF ConsoleSetWlan
<1>2. ASSUME NEW large \in BOOLEAN, GwPacket(large) PROVE ConfigTypes'
  BY <1>2 DEF GwPacket
<1>3. CASE MacExpireConfig \/ MacConfig
  BY <1>3 DEF MacExpireConfig, MacConfig
<1>4. ASSUME Pdcp \/ \E is_report \in BOOLEAN : PdcpReceive(is_report) PROVE ConfigTypes'
  BY <1>4 DEF Pdcp, PdcpReceive, PdcpForward, PdcpAccept, PdcpHandleArgs, PdcpStartTimer, config
<1>5. CASE Gw \/ MacExpire \/ MacHandle
  BY <1>5 DEF Gw, GwLock, GwFetch, GwApply, GwRoute, GwSend, MacExpire, MacHandle, config
<1>6. CASE ConsoleOpen \/ ConsoleClose \/ Console
  BY <1>6 DEF ConsoleOpen, ConsoleClose, Console, ConsoleClearUpdate, ConsoleClearAuto, config
<1>7. CASE UNCHANGED vars
  BY <1>7 DEF vars, config
<1> QED
  BY <1>1, <1>2, <1>3, <1>4, <1>5, <1>6, <1>7 DEF Next, Mac

\* The path of the last packet, which get_route and write_sdu set.
LEMMA SduStep == SduTypes /\ [Next]_vars => SduTypes'
<1> SUFFICES ASSUME SduTypes, [Next]_vars PROVE SduTypes'
  OBVIOUS
<1> USE DEF SduTypes
<1>1. CASE GwSend
  <2>1. last_sdu' \in [path : {"LTE", "WLAN"}, freed : BOOLEAN]
    BY <1>1 DEF GwSend
  <2> QED
    BY <1>1, <2>1 DEF GwSend
<1>2. CASE \E path \in {"LTE", "WLAN"} : GwRoute(path)
  BY <1>2 DEF GwRoute
<1>3. CASE UNCHANGED sdu
  BY <1>3 DEF sdu
<1> QED
  BY <1>1, <1>2, <1>3
     DEF Next, Pdcp, Gw, Mac, Console, PdcpReceive, PdcpForward, PdcpAccept,
         PdcpHandleArgs, PdcpStartTimer, GwPacket, GwLock, GwFetch, GwApply, MacExpire,
         MacHandle, MacExpireConfig, MacConfig, ConsoleOpen, ConsoleClose,
         ConsoleClearUpdate, ConsoleClearAuto, ConsoleSetWlan, vars

\* The numbers of the reports are counted modulo Reports.
LEMMA NumberStep == NumberTypes /\ [Next]_vars => NumberTypes'
<1> SUFFICES ASSUME NumberTypes, [Next]_vars PROVE NumberTypes'
  OBVIOUS
<1> USE DEF NumberTypes
<1>1. CASE PdcpAccept
  <2>1. accepted' = (accepted + 1) % Reports
    BY <1>1 DEF PdcpAccept
  <2>2. accepted + 1 \in Nat /\ Reports \in Nat /\ Reports > 0
    <3>1. accepted \in 0 .. Reports - 1 /\ Reports \in Nat /\ Reports > 1
      BY ReportsAssumption
    <3> HIDE DEF NumberTypes
    <3> QED
      BY <3>1
  <2>3. \A n \in Nat : n % Reports \in 0 .. Reports - 1
    BY <2>2
  <2>4. accepted' \in 0 .. Reports - 1
    BY <2>1, <2>2, <2>3, Zenon
  <2> QED
    BY <1>1, <2>4 DEF PdcpAccept
<1>2. CASE PdcpHandleArgs \/ GwFetch \/ MacHandle \/ ConsoleClose
  BY <1>2 DEF PdcpHandleArgs, GwFetch, MacHandle, ConsoleClose
<1>3. CASE UNCHANGED history
  BY <1>3 DEF history
<1> QED
  BY <1>1, <1>2, <1>3
     DEF Next, Pdcp, Gw, Mac, Console, PdcpReceive, PdcpForward, PdcpStartTimer, GwPacket,
         GwLock, GwApply, GwRoute, GwSend, MacExpire, MacExpireConfig, MacConfig,
         ConsoleOpen, ConsoleClearUpdate, ConsoleClearAuto, ConsoleSetWlan, vars

\* The variables of the control keep their types under every interleaving of the
\* four threads.
THEOREM ControlTypeCorrect == Spec => []TypeOK
<1>1. Init => TypeOK
  <2>1. Init => PlaceTypes /\ NumberTypes
    BY ReportsAssumption DEF Init, PlaceTypes, NumberTypes
  <2>2. Init => FlagTypes
    BY Zenon DEF Init, FlagTypes
  <2>3. Init => ConfigTypes
    <3>1. Init => enable_config \in BOOLEAN /\ config_running \in BOOLEAN
      BY Zenon DEF Init
    <3>2. Init => aggregate \in [pdu : BOOLEAN, sdu : BOOLEAN] /\ switch_config \in {0, 20}
      BY DEF Init
    <3> QED
      BY <3>1, <3>2, Zenon DEF ConfigTypes
  <2>4. Init => SduTypes
    BY DEF Init, SduTypes
  <2> QED
    BY <2>1, <2>2, <2>3, <2>4, TypeParts
<1> QED
  BY <1>1, TypeParts, PlaceStep, FlagStep, ConfigStep, SduStep, NumberStep, PTL DEF Spec

-----------------------------------------------------------------------------
\* The mutex is held by the thread that is inside its critical section.
MutexHeld ==
    /\ (mutex = "pdcp") <=> (pdcp \in {"handle args", "start"})
    /\ (mutex = "gw") <=> (gw \in {"fetch", "apply", "route"})

FiguresHeld == pdcp = "start" => hdl_get_args

UpdateInv == MutexHeld /\ FiguresHeld /\ UpdateHasDecision

LEMMA UpdateInit == Init => UpdateInv
BY DEF Init, UpdateInv, MutexHeld, FiguresHeld, UpdateHasDecision

\* Every step keeps the mutex discipline and loses no accepted report.
LEMMA UpdateStep == UpdateInv /\ [Next]_vars => UpdateInv'
<1> SUFFICES ASSUME UpdateInv, [Next]_vars PROVE UpdateInv'
  OBVIOUS
<1> USE DEF UpdateInv, MutexHeld, FiguresHeld, UpdateHasDecision
<1>1. ASSUME NEW is_report \in BOOLEAN, PdcpReceive(is_report) PROVE UpdateInv'
  BY <1>1 DEF PdcpReceive, flags, hdl
<1>2. CASE PdcpForward
  BY <1>2 DEF PdcpForward, flags, hdl
<1>3. CASE PdcpAccept
  BY <1>3 DEF PdcpAccept, hdl
<1>4. CASE PdcpHandleArgs
  BY <1>4 DEF PdcpHandleArgs, flags
<1>5. CASE PdcpStartTimer
  BY <1>5 DEF PdcpStartTimer, flags
<1>6. ASSUME NEW large \in BOOLEAN, GwPacket(large) PROVE UpdateInv'
  BY <1>6 DEF GwPacket, flags, hdl
<1>7. CASE GwLock
  BY <1>7 DEF GwLock, flags, hdl
<1>8. CASE GwFetch
  BY <1>8 DEF GwFetch
<1>9. CASE GwApply
  BY <1>9 DEF GwApply, hdl
<1>10. ASSUME NEW path \in {"LTE", "WLAN"}, GwRoute(path) PROVE UpdateInv'
  BY <1>10 DEF GwRoute, flags, hdl
<1>11. CASE GwSend
  BY <1>11 DEF GwSend, flags, hdl
<1>12. CASE MacExpire
  BY <1>12 DEF MacExpire, flags
<1>13. CASE MacHandle
  <2>1. CASE ~handle /\ hdl_get_args
    BY <1>13, <2>1 DEF MacHandle, flags
  <2>2. CASE ~(~handle /\ hdl_get_args)
    BY <1>13, <2>2, Zenon DEF MacHandle, flags
  <2> QED
    BY <2>1, <2>2
<1>14. CASE MacExpireConfig
  BY <1>14 DEF MacExpireConfig, flags, hdl
<1>15. CASE MacConfig
  BY <1>15 DEF MacConfig, flags, hdl
<1>16. CASE ConsoleOpen
  BY <1>16 DEF ConsoleOpen, threads, hdl
<1>17. CASE ConsoleClose
  BY <1>17 DEF ConsoleClose, hdl
<1>18. CASE ConsoleClearUpdate
  BY <1>18 DEF ConsoleClearUpdate, hdl
<1>19. CASE ConsoleClearAuto
  BY <1>19 DEF ConsoleClearAuto, hdl
<1>20. ASSUME NEW setting \in WlanSettings, ConsoleSetWlan(setting[1], setting[2])
       PROVE  UpdateInv'
  BY <1>20 DEF ConsoleSetWlan, threads, flags, hdl
<1>21. CASE UNCHANGED vars
  BY <1>21 DEF vars, threads, flags, hdl
<1> QED
  BY <1>1, <1>2, <1>3, <1>4, <1>5, <1>6, <1>7, <1>8, <1>9, <1>10, <1>11, <1>12, <1>13,
     <1>14, <1>15, <1>16, <1>17, <1>18, <1>19, <1>20, <1>21
     DEF Next, Pdcp, Gw, Mac, Console

\* An accepted report keeps its decision in reach, whatever the user does to the
\* automatic control meanwhile and however the threads interleave.
THEOREM NoReportForgotten == Spec => []UpdateHasDecision
<1>1. UpdateInv => UpdateHasDecision
  BY DEF UpdateInv
<1> QED
  BY <1>1, UpdateInit, UpdateStep, PTL DEF Spec

-----------------------------------------------------------------------------
\* The timer of lwipep_hdl_rpt has still to be served.
TimerDue == hdl_running \/ mac = "handle"

\* The phases of the handshake until the automatic control is closed.
Phase ==
    /\ console = "idle"
    /\ TimerDue => ~handle /\ hdl_get_args
    /\ ~(hdl_running /\ mac = "handle")
    /\ hdl_get_args => update_route
    /\ get_args => update_route /\ ~hdl_get_args /\ gw = "apply"
    /\ pdcp = "accept" => ~update_route
    /\ pdcp = "handle args" => update_route /\ ~TimerDue /\ ~hdl_get_args /\ ~get_args
    /\ pdcp = "start" => ~handle /\ hdl_get_args /\ ~TimerDue

\* What lwipep_hdl_rpt holds, has computed, and has given to get_route belongs to
\* the last report accepted.
Fresh ==
    /\ hdl_get_args => given = accepted
    /\ hdl_get_args /\ handle => decided = accepted
    /\ get_args => fetched = accepted

PhaseInv == MutexHeld /\ (~closed => Phase /\ Fresh) /\ HdlMutexFree

LEMMA PhaseInit == Init => PhaseInv
BY DEF Init, PhaseInv, MutexHeld, Phase, TimerDue, Fresh, HdlMutexFree

\* Until ConsoleClose every step keeps the handshake in one of its phases, in
\* which the timer only ever calls back with figures to handle.
LEMMA PhaseStep == PhaseInv /\ [Next]_vars => PhaseInv'
<1> SUFFICES ASSUME PhaseInv, [Next]_vars PROVE PhaseInv'
  OBVIOUS
<1> USE DEF PhaseInv, MutexHeld, Phase, TimerDue, Fresh, HdlMutexFree
<1>1. ASSUME NEW is_report \in BOOLEAN, PdcpReceive(is_report) PROVE PhaseInv'
  BY <1>1 DEF PdcpReceive, flags, hdl, history
<1>2. CASE PdcpForward
  BY <1>2 DEF PdcpForward, flags, hdl, history
<1>3. CASE PdcpAccept
  BY <1>3 DEF PdcpAccept, hdl
<1>4. CASE PdcpHandleArgs
  BY <1>4 DEF PdcpHandleArgs, flags
<1>5. CASE PdcpStartTimer
  BY <1>5 DEF PdcpStartTimer, flags, history
<1>6. ASSUME NEW large \in BOOLEAN, GwPacket(large) PROVE PhaseInv'
  BY <1>6 DEF GwPacket, flags, hdl, history
<1>7. CASE GwLock
  BY <1>7 DEF GwLock, flags, hdl, history
<1>8. CASE GwFetch
  BY <1>8 DEF GwFetch
<1>9. CASE GwApply
  BY <1>9 DEF GwApply, hdl, history
<1>10. ASSUME NEW path \in {"LTE", "WLAN"}, GwRoute(path) PROVE PhaseInv'
  BY <1>10 DEF GwRoute, flags, hdl, history
<1>11. CASE GwSend
  BY <1>11 DEF GwSend, flags, hdl, history
<1>12. CASE MacExpire
  BY <1>12 DEF MacExpire, flags, history
<1>13. CASE MacHandle
  <2>1. CASE closed
    BY <1>13, <2>1, Zenon DEF MacHandle
  <2>2. CASE ~closed
    <3>1. ~handle /\ hdl_get_args
      BY <1>13, <2>2 DEF MacHandle
    <3>2. handle' = TRUE /\ decided' = given /\ hdl_mutex' = hdl_mutex
      BY <1>13, <3>1, Zenon DEF MacHandle
    <3> QED
      BY <1>13, <2>2, <3>1, <3>2 DEF MacHandle, flags
  <2> QED
    BY <2>1, <2>2
<1>14. CASE MacExpireConfig
  BY <1>14 DEF MacExpireConfig, flags, hdl, history
<1>15. CASE MacConfig
  BY <1>15 DEF MacConfig, flags, hdl, history
<1>16. CASE ConsoleOpen
  BY <1>16 DEF ConsoleOpen, threads, hdl, history
<1>17. CASE ConsoleClose \/ Console
  <2>1. CASE ConsoleClose
    BY <2>1 DEF ConsoleClose, hdl
  <2>2. CASE ConsoleClearUpdate
    BY <2>2 DEF ConsoleClearUpdate, hdl, history
  <2>3. CASE ConsoleClearAuto
    BY <2>3 DEF ConsoleClearAuto, hdl, history
  <2> QED
    BY <1>17, <2>1, <2>2, <2>3 DEF Console
<1>18. ASSUME NEW setting \in WlanSettings, ConsoleSetWlan(setting[1], setting[2])
       PROVE  PhaseInv'
  BY <1>18 DEF ConsoleSetWlan, threads, flags, hdl, history
<1>19. CASE UNCHANGED vars
  BY <1>19 DEF vars, threads, flags, hdl, history
<1> QED
  BY <1>1, <1>2, <1>3, <1>4, <1>5, <1>6, <1>7, <1>8, <1>9, <1>10, <1>11, <1>12, <1>13,
     <1>14, <1>15, <1>16, <1>17, <1>18, <1>19
     DEF Next, Pdcp, Gw, Mac

\* As long as the user does not close the automatic control no handler of
\* lwipep_hdl_rpt returns with its mutex locked.
THEOREM HdlMutexReleased == Spec => []HdlMutexFree
<1>1. PhaseInv => HdlMutexFree
  BY DEF PhaseInv
<1> QED
  BY <1>1, PhaseInit, PhaseStep, PTL DEF Spec

\* As long as the user does not close the automatic control the ratio is changed
\* by the decision computed from the last report accepted.
THEOREM DecisionIsFresh == Spec => DecisionFresh
<1>1. PhaseInv => [GwApply /\ get_args /\ update_route /\ ~closed => fetched = accepted]_vars
  BY DEF PhaseInv, Fresh
<1> QED
  BY <1>1, PhaseInit, PhaseStep, PTL DEF Spec, DecisionFresh
=============================================================================
