----------------------------- MODULE LwipepControl -----------------------------
(***************************************************************************)
(* The automatic control of the uplink ratio in the UE.  A measurement     *)
(* report of the eNB (write_pdu, PDCP thread) hands its figures to         *)
(* lwipep_hdl_rpt and starts a timer; the timer (MAC thread) computes a    *)
(* decision; the next packet (get_route, gateway thread) fetches it and    *)
(* changes the ratio; only then is the next report accepted.  The console  *)
(* opens and closes the automatic control without a lock.                  *)
(*                                                                         *)
(* Two mutexes: that of lwipep, and that of lwipep_hdl_rpt taken inside    *)
(* it.  Each action is what a thread does between two points where another *)
(* may get in.  What the decision is, is left open: only from which report *)
(* it was computed matters here.  A timer that runs may expire at any time.*)
(***************************************************************************)
EXTENDS Integers

CONSTANTS
    WlanSettings,   \* pairs <<dl, ul>> the user may give to set_lwipep_wlan
    Reports         \* bound: reports are numbered modulo this

ASSUME WlanAssumption == WlanSettings \subseteq BOOLEAN \X BOOLEAN
ASSUME ReportsAssumption == Reports \in Nat /\ Reports > 1

VARIABLES
    mutex,              \* of lwipep: the thread that holds it, or "free"
    pdcp, gw, mac, console,    \* what each thread is about to do
    auto_control,       \* enable_auto_control_ratio
    get_args,           \* args.get_args: get_route has fetched a decision
    update_route,       \* enable_update_route: a report was accepted
    hdl_mutex,          \* of lwipep_hdl_rpt
    handle,             \* lwipep_hdl_rpt: the figures it holds are handled
    hdl_get_args,       \* lwipep_hdl_rpt: it holds figures not fetched yet
    hdl_running,        \* its timer
    aggregate,          \* enable_lwipep_write_pdu_aggregate, ..._sdu_...
    enable_config, config_running, switch_config,
    route,              \* the path get_route returned
    last_sdu,           \* where write_sdu sent the last packet, and whether
                        \* it had given the buffer back to the pool before
    closed,             \* history: the user has closed the automatic control
    accepted, given, decided, fetched  \* history: the last report accepted, the
                        \* one lwipep_hdl_rpt holds, computed, gave to get_route

flags   == <<auto_control, get_args, update_route>>
hdl     == <<hdl_mutex, handle, hdl_get_args, hdl_running>>
config  == <<aggregate, enable_config, config_running, switch_config>>
sdu     == <<route, last_sdu>>
history == <<closed, accepted, given, decided, fetched>>
threads == <<pdcp, gw, mac, console>>
vars    == <<mutex, threads, flags, hdl, config, sdu, history>>

Init ==
    /\ mutex = "free" /\ hdl_mutex = "free"
    /\ pdcp = "idle" /\ gw = "idle" /\ mac = "idle" /\ console = "idle"
    /\ auto_control = FALSE /\ get_args = FALSE /\ update_route = FALSE
    /\ handle = TRUE /\ hdl_get_args = FALSE /\ hdl_running = FALSE
    /\ aggregate = [pdu |-> TRUE, sdu |-> TRUE]
    /\ enable_config = TRUE /\ config_running = FALSE /\ switch_config = 0
    /\ route = "LTE" /\ last_sdu = [path |-> "LTE", freed |-> FALSE]
    /\ closed = FALSE
    /\ accepted = 0 /\ given = 0 /\ decided = 0 /\ fetched = 0

-----------------------------------------------------------------------------
(* write_pdu                                                               *)

\* Mutation: a report is accepted although another is being handled.
PdcpReceiveUnchecked(is_report) ==
    /\ pdcp = "idle"
    /\ pdcp' = IF is_report /\ aggregate.pdu /\ auto_control /\ ~get_args
                 THEN "accept" ELSE "forward"
    /\ UNCHANGED <<mutex, gw, mac, console, flags, hdl, config, sdu, history>>

\* The conditions are tested before the mutex is taken.  A report that comes
\* while another is being handled takes the way of the data.
PdcpReceive(is_report) ==
    /\ pdcp = "idle"
    /\ pdcp' = IF is_report /\ aggregate.pdu /\ auto_control /\ ~get_args /\ ~update_route
                 THEN "accept" ELSE "forward"
    /\ UNCHANGED <<mutex, gw, mac, console, flags, hdl, config, sdu, history>>

\* To the gateway.
PdcpForward ==
    /\ pdcp = "forward" /\ pdcp' = "idle"
    /\ mutex = "free"
    /\ UNCHANGED <<mutex, gw, mac, console, flags, hdl, config, sdu, history>>

\* The reports of the eNB are never shorter than the 8 bytes tested for here, and
\* skip_hdl_rpt is never set.
PdcpAccept ==
    /\ pdcp = "accept" /\ pdcp' = "handle args"
    /\ mutex = "free" /\ mutex' = "pdcp"
    /\ update_route' = TRUE
    /\ accepted' = (accepted + 1) % Reports
    /\ UNCHANGED <<gw, mac, console, auto_control, get_args, hdl, config, sdu,
                   closed, given, decided, fetched>>

PdcpHandleArgs ==
    /\ pdcp = "handle args" /\ pdcp' = "start"
    /\ hdl_mutex = "free"
    /\ handle' = FALSE /\ hdl_get_args' = TRUE
    /\ given' = accepted
    /\ UNCHANGED <<mutex, gw, mac, console, flags, hdl_mutex, hdl_running, config, sdu,
                   closed, accepted, decided, fetched>>

\* handle_args starts the timer after it has released its mutex.
PdcpStartTimer ==
    /\ pdcp = "start" /\ pdcp' = "idle"
    /\ hdl_running' = TRUE
    /\ mutex' = "free"
    /\ UNCHANGED <<gw, mac, console, flags, hdl_mutex, handle, hdl_get_args, config, sdu, history>>

Pdcp == PdcpForward \/ PdcpAccept \/ PdcpHandleArgs \/ PdcpStartTimer

-----------------------------------------------------------------------------
(* write_sdu and get_route                                                 *)

\* The first packet of more than 1000 bytes starts the configuration timer.
GwPacket(large) ==
    /\ gw = "idle" /\ gw' = "lock"
    /\ IF enable_config /\ large
         THEN config_running' = TRUE /\ enable_config' = FALSE
         ELSE UNCHANGED <<config_running, enable_config>>
    /\ UNCHANGED <<mutex, pdcp, mac, console, flags, hdl, aggregate, switch_config,
                   sdu, history>>

GwLock ==
    /\ gw = "lock" /\ gw' = IF auto_control THEN "fetch" ELSE "route"
    /\ mutex = "free" /\ mutex' = "gw"
    /\ UNCHANGED <<pdcp, mac, console, flags, hdl, config, sdu, history>>

\* Mutation: figures not handled yet are fetched.
GwFetchUnhandled ==
    /\ gw = "fetch" /\ gw' = "apply"
    /\ hdl_mutex = "free"
    /\ IF hdl_get_args
         THEN get_args' = TRUE /\ hdl_get_args' = FALSE /\ fetched' = decided
         ELSE UNCHANGED <<get_args, hdl_get_args, fetched>>
    /\ UNCHANGED <<mutex, pdcp, mac, console, auto_control, update_route, hdl_mutex, handle,
                   hdl_running, config, sdu, closed, accepted, given, decided>>

\* lwipep_hdl_rpt::update_route
GwFetch ==
    /\ gw = "fetch" /\ gw' = "apply"
    /\ hdl_mutex = "free"
    /\ IF handle /\ hdl_get_args
         THEN get_args' = TRUE /\ hdl_get_args' = FALSE /\ fetched' = decided
         ELSE UNCHANGED <<get_args, hdl_get_args, fetched>>
    /\ UNCHANGED <<mutex, pdcp, mac, console, auto_control, update_route, hdl_mutex, handle,
                   hdl_running, config, sdu, closed, accepted, given, decided>>

\* Mutation: the decision applied stays marked as fetched.
GwApplyKeeps ==
    /\ gw = "apply" /\ gw' = "route"
    /\ update_route' = (update_route /\ ~get_args)
    /\ UNCHANGED <<mutex, pdcp, mac, console, auto_control, get_args, hdl, config, sdu, history>>

\* The decision becomes the ratio (SetTxRatio of LwipepTx).
GwApply ==
    /\ gw = "apply" /\ gw' = "route"
    /\ IF get_args /\ update_route
         THEN get_args' = FALSE /\ update_route' = FALSE
         ELSE UNCHANGED <<get_args, update_route>>
    /\ UNCHANGED <<mutex, pdcp, mac, console, auto_control, hdl, config, sdu, history>>

GwRoute(path) ==
    /\ gw = "route" /\ gw' = "send"
    /\ mutex' = "free"
    /\ route' = path
    /\ UNCHANGED <<pdcp, mac, console, flags, hdl, config, last_sdu, history>>

\* Once switch_config is 20 the buffer of every packet routed over LTE is
\* deallocated, and given to PDCP all the same.
GwSend ==
    /\ gw = "send" /\ gw' = "idle"
    /\ last_sdu' = [path  |-> IF aggregate.sdu THEN route ELSE "LTE",
                    freed |-> aggregate.sdu /\ route = "LTE" /\ switch_config = 20]
    /\ UNCHANGED <<mutex, pdcp, mac, console, flags, hdl, config, route, history>>

Gw == GwLock \/ GwFetch \/ GwApply \/ GwSend \/ \E path \in {"LTE", "WLAN"} : GwRoute(path)

-----------------------------------------------------------------------------
(* The MAC thread: timers::step clears running and calls timer_expired.     *)

MacExpire ==
    /\ mac = "idle" /\ hdl_running
    /\ hdl_running' = FALSE /\ mac' = "handle"
    /\ UNCHANGED <<mutex, pdcp, gw, console, flags, hdl_mutex, handle, hdl_get_args, config, sdu,
                   history>>

\* Mutation: both flags change when the figures are handled.
MacHandleResets ==
    /\ mac = "handle" /\ mac' = "idle"
    /\ hdl_mutex = "free"
    /\ IF ~handle /\ hdl_get_args
         THEN handle' = TRUE /\ hdl_get_args' = FALSE /\ decided' = given /\ UNCHANGED hdl_mutex
         ELSE hdl_mutex' = "mac" /\ UNCHANGED <<handle, hdl_get_args, decided>>
    /\ UNCHANGED <<mutex, pdcp, gw, console, flags, hdl_running, config, sdu,
                   closed, accepted, given, fetched>>

\* Called back with nothing to handle, it returns with its mutex locked.
MacHandle ==
    /\ mac = "handle" /\ mac' = "idle"
    /\ hdl_mutex = "free"
    /\ IF ~handle /\ hdl_get_args
         THEN handle' = TRUE /\ decided' = given /\ UNCHANGED hdl_mutex
         ELSE hdl_mutex' = "mac" /\ UNCHANGED <<handle, decided>>
    /\ UNCHANGED <<mutex, pdcp, gw, console, flags, hdl_get_args, hdl_running, config, sdu,
                   closed, accepted, given, fetched>>

MacExpireConfig ==
    /\ mac = "idle" /\ config_running
    /\ config_running' = FALSE /\ mac' = "config"
    /\ UNCHANGED <<mutex, pdcp, gw, console, flags, hdl, aggregate, enable_config,
                   switch_config, sdu, history>>

\* Mutation: on to the next configuration.
MacConfigNext ==
    /\ mac = "config" /\ mac' = "idle"
    /\ mutex = "free"
    /\ switch_config' = switch_config + 1
    /\ UNCHANGED <<mutex, pdcp, gw, console, flags, hdl, aggregate, enable_config,
                   config_running, sdu, history>>

MacConfig ==
    /\ mac = "config" /\ mac' = "idle"
    /\ mutex = "free"
    /\ switch_config' = 20
    /\ UNCHANGED <<mutex, pdcp, gw, console, flags, hdl, aggregate, enable_config,
                   config_running, sdu, history>>

Mac == MacExpire \/ MacHandle \/ MacExpireConfig \/ MacConfig

-----------------------------------------------------------------------------
(* The console: set_lwipep_auto_control_ratio, statement by statement, and  *)
(* set_lwipep_wlan.                                                         *)

ConsoleOpen ==
    /\ console = "idle" /\ ~auto_control
    /\ auto_control' = TRUE
    /\ UNCHANGED <<mutex, threads, get_args, update_route, hdl, config, sdu, history>>

ConsoleClose ==
    /\ console = "idle" /\ console' = "clear update"
    /\ auto_control
    /\ get_args' = FALSE
    /\ closed' = TRUE
    /\ UNCHANGED <<mutex, pdcp, gw, mac, auto_control, update_route, hdl, config, sdu,
                   accepted, given, decided, fetched>>

ConsoleClearUpdate ==
    /\ console = "clear update" /\ console' = "clear auto"
    /\ update_route' = FALSE
    /\ UNCHANGED <<mutex, pdcp, gw, mac, auto_control, get_args, hdl, config, sdu, history>>

ConsoleClearAuto ==
    /\ console = "clear auto" /\ console' = "idle"
    /\ auto_control' = FALSE
    /\ UNCHANGED <<mutex, pdcp, gw, mac, get_args, update_route, hdl, config, sdu, history>>

\* ue::set_lwipep_wlan passes its two arguments in the opposite order.
ConsoleSetWlan(dl, ul) ==
    /\ console = "idle"
    /\ aggregate' = [pdu |-> ul, sdu |-> dl]
    /\ UNCHANGED <<mutex, threads, flags, hdl, enable_config, config_running, switch_config,
                   sdu, history>>

Console == ConsoleClearUpdate \/ ConsoleClearAuto

Next ==
    \/ \E is_report \in BOOLEAN : PdcpReceive(is_report)
    \/ Pdcp
    \/ \E large \in BOOLEAN : GwPacket(large)
    \/ Gw
    \/ Mac
    \/ ConsoleOpen \/ ConsoleClose \/ Console
    \/ \E setting \in WlanSettings : ConsoleSetWlan(setting[1], setting[2])

\* The threads run; the mutex of lwipep starves none of the three that contend
\* for it; the timer of the eNB keeps sending reports and the UE keeps sending
\* packets.
Fairness ==
    /\ WF_vars(Pdcp) /\ WF_vars(Gw) /\ WF_vars(Mac) /\ WF_vars(Console)
    /\ SF_vars(PdcpForward) /\ SF_vars(PdcpAccept) /\ SF_vars(GwLock) /\ SF_vars(MacConfig)
    /\ SF_vars(PdcpReceive(TRUE)) /\ WF_vars(\E large \in BOOLEAN : GwPacket(large))

Spec == Init /\ [][Next]_vars /\ Fairness

-----------------------------------------------------------------------------
TypeOK ==
    /\ mutex \in {"free", "pdcp", "gw"} /\ hdl_mutex \in {"free", "mac"}
    /\ pdcp \in {"idle", "forward", "accept", "handle args", "start"}
    /\ gw \in {"idle", "lock", "fetch", "apply", "route", "send"}
    /\ mac \in {"idle", "handle", "config"}
    /\ console \in {"idle", "clear update", "clear auto"}
    /\ {auto_control, get_args, update_route, handle, hdl_get_args, hdl_running,
        enable_config, config_running, closed} \subseteq BOOLEAN
    /\ aggregate \in [pdu : BOOLEAN, sdu : BOOLEAN]
    /\ switch_config \in {0, 20}
    /\ route \in {"LTE", "WLAN"} /\ last_sdu \in [path : {"LTE", "WLAN"}, freed : BOOLEAN]
    /\ {accepted, given, decided, fetched} \subseteq 0 .. Reports - 1

\* A report that was accepted is never forgotten, even if the automatic control
\* is closed and opened meanwhile: until the ratio is changed a decision has been
\* fetched, or lwipep_hdl_rpt holds figures that are handled or that its timer
\* will call back for.  Otherwise no later report would be accepted.
UpdateHasDecision ==
    (update_route /\ pdcp \notin {"handle args", "start"} /\ console # "clear update") =>
        get_args \/ (hdl_get_args /\ (handle \/ hdl_running \/ mac = "handle"))

\* The ratio is changed by the decision computed from the last report accepted,
\* not from an earlier one, as long as the user leaves the control open.
DecisionFresh == [][GwApply /\ get_args /\ update_route /\ ~closed => fetched = accepted]_vars

\* Once opened and left open the automatic control goes on accepting reports.
AutoControlAlive ==
    <>[](auto_control /\ ~closed /\ aggregate.pdu) => []<>(pdcp = "accept")

\* As long as the user leaves the control open every handler of lwipep_hdl_rpt
\* releases its mutex.
HdlMutexFree == ~closed => hdl_mutex = "free"
=============================================================================
