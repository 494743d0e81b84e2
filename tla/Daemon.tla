------------------------------- MODULE Daemon -------------------------------
(***************************************************************************)
(* The wsupp main loop (wsupp.c), its control socket (wsupp_cntrl.c), the *)
(* DHCP child control (wsupp_ifmon.c), and the wifi client tool (wifi.c,  *)
(* wifi_wire.c) that talks to it.                                          *)
(*                                                                         *)
(* One loop iteration is split where the code can be interrupted or where *)
(* another process can act in between: ppoll, check_conn for each slot,   *)
(* check_netlink, check_control with its accept loop, the sigterm test,   *)
(* and save_config with the rebuild of the poll set.  No signal is ever   *)
(* blocked (the code never calls sigprocmask), so a handler runs before   *)
(* the next step of the loop, whichever step that is.                      *)
(*                                                                         *)
(* The connection manager behind the netlink socket (scans, connect,      *)
(* disconnect, reassess_wifi_situation) is not among the sources; it is   *)
(* modelled from spec 4.2 as the requests it sends and the events the     *)
(* kernel answers with.  The EAPOL exchange between CONNECT and CONNECTED *)
(* is the Eapol module's business and is one step here.  Rfkill and the   *)
(* rawsock are left out of this module.                                    *)
(***************************************************************************)
EXTENDS Integers, Sequences, FiniteSets

CONSTANTS
  Clients,      \* wifi client processes, each running one command
  NCONNS,       \* size of the conns table
  ClientCmds,   \* the commands a client may run
  Pids,         \* process ids the kernel may give a DHCP child
  MaxSigterms,  \* SIGTERMs sent to the daemon
  MaxScans,     \* scans the timer may start (routine_fg_scan, routine_bg_scan)
  NoConn        \* the fd of an empty conns slot

ASSUME NCONNS \in Nat \ {0} /\ MaxSigterms \in Nat /\ MaxScans \in Nat
ASSUME ClientCmds \subseteq {"STATUS", "SCAN", "NEUTRAL", "CONNECT", "FORGET"}

VARIABLES
  opermode, authstate, scanstate,  \* daemon state variables (spec 3)
  aps,          \* the scan table holds a PASS and GOOD entry
  tried,        \* that entry has been tried in this round
  timerset,     \* the single-shot timer is armed
  sigterm,      \* set by sighandler on SIGTERM
  pc,           \* where the loop is
  ci,           \* the slot check_polled_fds is at
  revents,      \* revents of the conns slots from the last ppoll
  nlrev, ctlrev,  \* netlink and control-listen revents
  pollset,      \* pfds is current (wsupp.c pollset)
  pfd,          \* the client fd in each conns entry of pfds, as last built
  conns, nconns,  \* the conns table
  scans,        \* scans the timer has started
  kq,           \* answers the kernel has yet to send
  nlq,          \* netlink events queued on our socket
  dhcpid, running, zombies, chld, forked,  \* DHCP children and SIGCHLD
  phase, ccmd, sendq, inbox, sock, backlog,  \* clients and their sockets
  sigterms      \* SIGTERMs sent so far

cmVars == <<opermode, authstate, scanstate, aps, tried, timerset, scans, kq, nlq>>
loopVars == <<sigterm, pc, ci, revents, nlrev, ctlrev, pollset, pfd, conns,
              nconns>>
daemonVars == <<cmVars, loopVars>>
dhcpVars == <<dhcpid, running, zombies, chld, forked>>
clientVars == <<phase, ccmd, sendq, inbox, sock, backlog>>
vars == <<daemonVars, dhcpVars, clientVars, sigterms>>

Slots == 0..NCONNS - 1
EmptyConn == [fd |-> NoConn, rep |-> FALSE]

-----------------------------------------------------------------------------
(* Messages to clients: replies and reports (control.h).  cause is a ghost *)
(* field: the client whose command was being handled when the daemon wrote *)
(* the message, or "kernel" for a netlink event.                            *)

Reply(err, c) == [kind |-> "reply", rep |-> err, cause |-> c]
Report(k, cause) == [kind |-> "report", rep |-> k, cause |-> cause]

\* The clients whose conns slot has rep set.
Subscribers(cs) == {cs[s].fd : s \in {s \in 0..nconns - 1 : cs[s].rep}} \ {NoConn}

\* send_report: one write per subscribed connection.  A write to a client
\* that has closed its end fails, and the slot is shut down, which changes
\* nothing for a socket whose peer is gone.
send_report(ib, subs, ms) ==
  [c \in Clients |-> IF c \in subs /\ sock[c] = "conn" THEN ib[c] \o ms ELSE ib[c]]

\* reply: start_reply and send_reply write the header to cn->fd.
reply(ib, c, err) ==
  IF sock[c] = "conn" THEN [ib EXCEPT ![c] = Append(@, Reply(err, c))] ELSE ib

-----------------------------------------------------------------------------
(* The connection manager (spec 4.2), as seen by the code under src/.      *)

\* start_void_scan, routine_fg_scan, routine_bg_scan: TRIGGER_SCAN, which
\* the kernel answers with TRIGGER and then the results or an abort.
ScanEvents == {<<"TRIGGER", "SCAN_DONE">>, <<"TRIGGER", "SCAN_FAIL">>}

\* start_connect: the kernel completes the association (CONNECT), refuses
\* it (DISCONNECT), or says nothing until the connect timer expires.
ConnectEvents == {<<"CONNECT">>, <<"DISCONNECT">>, <<>>}

\* start_disconnect succeeds, and the kernel will report DISCONNECT, while
\* a link is up or coming up; otherwise it returns -EALREADY.
CanDisconnect == authstate \in {"AS_CONNECTING", "AS_CONNECTED"}

\* reassess_wifi_situation, applied to the state st a handler leaves:
\* with the link and the scanner idle, a ONESHOT request connects to the
\* known AP unless it was tried in this round; with nothing left to try it
\* reports NO_CONNECT and reverts to NEUTRAL.
ReassessConnects(st) ==
  /\ st.as = "AS_IDLE" /\ st.sc = "SS_IDLE" /\ st.om = "OP_ONESHOT"
  /\ st.ap /\ ~st.tr

ReassessGivesUp(st) ==
  /\ st.as = "AS_IDLE" /\ st.sc = "SS_IDLE" /\ st.om = "OP_ONESHOT"
  /\ ~(st.ap /\ ~st.tr)

\* The reports reassess_wifi_situation writes.
reassess_reports(st, cause) ==
  IF ReassessGivesUp(st) THEN <<Report("NO_CONNECT", cause)>> ELSE <<>>

\* Its effect on the state variables, the requests q to the kernel and
\* the timer.
reassess_wifi_situation(st, q) ==
  /\ authstate' = IF ReassessConnects(st) THEN "AS_CONNECTING" ELSE st.as
  /\ opermode' = IF ReassessGivesUp(st) THEN "OP_NEUTRAL" ELSE st.om
  /\ tried' = (st.tr \/ ReassessConnects(st))
  /\ timerset' = (st.tm \/ ReassessConnects(st))
  /\ \E r \in ConnectEvents : kq' = IF ReassessConnects(st) THEN q \o r ELSE q

\* The state a handler leaves, for reassess_wifi_situation.
St(as, om, sc, tr, ap, tm) == [as |-> as, om |-> om, sc |-> sc, tr |-> tr,
                               ap |-> ap, tm |-> tm]

\* start_disconnect: the kernel answers DISCONNECT, once.
StartDisconnect(q) ==
  IF "DISCONNECT" \in {kq[i] : i \in DOMAIN kq} \cup {nlq[i] : i \in DOMAIN nlq}
    THEN q ELSE Append(q, "DISCONNECT")

\* routine_fg_scan and routine_bg_scan start a scan when the scanner is idle.
routine_scan ==
  IF scanstate = "SS_IDLE" /\ scans < MaxScans
    THEN /\ scanstate' = "SS_SCANNING" /\ scans' = scans + 1
         /\ \E ev \in ScanEvents : kq' = kq \o ev
    ELSE UNCHANGED <<scanstate, scans, kq>>

-----------------------------------------------------------------------------
(* The main loop (wsupp.c main).                                           *)

\* The conns entries update_pollfds puts into pfds: slots 0..nconns-1.
PollFds == [s \in Slots |-> IF s < nconns THEN conns[s].fd ELSE NoConn]

\* revents of a client fd: POLLIN for a queued command, POLLHUP once the
\* client has closed its end.
RevOf(c) == (IF sendq[c] # <<>> THEN {"in"} ELSE {})
            \cup (IF sock[c] = "closed" THEN {"hup"} ELSE {})

PollRevents == [s \in Slots |-> IF pfd[s] = NoConn THEN {} ELSE RevOf(pfd[s])]

SomethingReady ==
  nlq # <<>> \/ backlog # <<>> \/ \E s \in Slots : PollRevents[s] # {}

\* The end of one iteration and the start of the next: save_config (which
\* changes no state modelled here), the while(opermode) test, then
\* update_pollfds if pollset was cleared.  Leaving the loop runs
\* save_state and unlink_control.
SaveAndLoop ==
  /\ pc = "save" /\ ~chld
  /\ IF opermode = "OP_EXIT"
       THEN pc' = "exited" /\ UNCHANGED <<pollset, pfd>>
       ELSE /\ pc' = "poll"
            /\ IF pollset THEN UNCHANGED <<pollset, pfd>>
                          ELSE pollset' = TRUE /\ pfd' = PollFds
  /\ UNCHANGED <<cmVars, sigterm, ci, revents, nlrev, ctlrev, conns, nconns,
                 dhcpVars, clientVars, sigterms>>

\* ppoll returns > 0: some fd is ready.
PollReady ==
  /\ pc = "poll" /\ ~chld
  /\ SomethingReady
  /\ revents' = PollRevents /\ nlrev' = (nlq # <<>>) /\ ctlrev' = (backlog # <<>>)
  /\ ci' = 0 /\ pc' = "conns"
  /\ UNCHANGED <<cmVars, sigterm, pollset, pfd, conns, nconns, dhcpVars,
                 clientVars, sigterms>>

\* ppoll returns 0 and timer_expired runs: clr_timer, then a background
\* scan when connected, abort_connection while connecting, a foreground
\* scan when idle.  abort_connection (spec 4.2: CONNECTING --timeout-->
\* IDLE) reports DISCONNECT and reassesses.
TimerExpired ==
  /\ pc = "poll" /\ ~chld
  /\ ~SomethingReady /\ timerset
  /\ IF authstate = "AS_CONNECTING"
       THEN LET st == St("AS_IDLE", opermode, scanstate, tried, aps, FALSE)
            IN /\ reassess_wifi_situation(st, kq)
               /\ inbox' = send_report(inbox, Subscribers(conns),
                             <<Report("DISCONNECT", "loop")>> \o reassess_reports(st, "loop"))
               /\ UNCHANGED <<scanstate, aps, scans>>
       ELSE /\ timerset' = FALSE /\ routine_scan
            /\ UNCHANGED <<opermode, authstate, aps, tried, inbox>>
  /\ pc' = "post"
  /\ UNCHANGED <<nlq, sigterm, ci, revents, nlrev, ctlrev, pollset, pfd, conns, nconns,
                 dhcpVars, phase, ccmd, sendq, sock, backlog, sigterms>>

\* check_conn on a slot with nothing to do, or past the last slot.
ConnSkip ==
  /\ pc = "conns" /\ ~chld /\ ci < nconns
  /\ "hup" \notin revents[ci]
  /\ ~("in" \in revents[ci] /\ conns[ci].fd # NoConn /\ sendq[conns[ci].fd] # <<>>)
  /\ ci' = ci + 1
  /\ UNCHANGED <<cmVars, sigterm, pc, revents, nlrev, ctlrev, pollset, pfd, conns,
                 nconns, dhcpVars, clientVars, sigterms>>

\* check_conn with POLLHUP: close_conn.
ConnClose ==
  /\ pc = "conns" /\ ~chld /\ ci < nconns
  /\ "hup" \in revents[ci]
  /\ conns' = [conns EXCEPT ![ci] = EmptyConn]
  /\ pollset' = FALSE
  /\ ci' = ci + 1
  /\ UNCHANGED <<cmVars, sigterm, pc, revents, nlrev, ctlrev, pfd, nconns,
                 dhcpVars, clientVars, sigterms>>

\* Then check_netlink, check_rawsock (not modelled), check_control.
ConnsDone ==
  /\ pc = "conns" /\ ~chld /\ ci >= nconns
  /\ pc' = IF nlrev THEN "netlink" ELSE "control"
  /\ UNCHANGED <<cmVars, sigterm, ci, revents, nlrev, ctlrev, pollset, pfd, conns,
                 nconns, dhcpVars, clientVars, sigterms>>

-----------------------------------------------------------------------------
(* check_conn with POLLIN: handle_conn reads the client's command and      *)
(* dispatch_cmd runs its handler, which replies (or dispatch_cmd replies   *)
(* with its return value).  The client writes one command and waits for  *)
(* the reply, so one command is read per call.                             *)

\* The part common to every handler: the slot, its client and the command.
HandleConn(c, cmd) ==
  /\ pc = "conns" /\ ~chld /\ ci < nconns
  /\ "in" \in revents[ci] /\ "hup" \notin revents[ci]
  /\ conns[ci].fd = c /\ sendq[c] # <<>> /\ Head(sendq[c]) = cmd
  /\ sendq' = [sendq EXCEPT ![c] = Tail(@)]
  /\ ci' = ci + 1

SetRep(v) == conns' = [conns EXCEPT ![ci].rep = v]

HandleUnchanged ==
  UNCHANGED <<sigterm, pc, revents, nlrev, ctlrev, pollset, pfd, nconns,
              dhcpVars, phase, ccmd, sock, backlog, sigterms>>

\* cmd_status: the status reply, and the connection stops receiving reports.
cmd_status(c) ==
  /\ HandleConn(c, "STATUS")
  /\ inbox' = reply(inbox, c, "OK")
  /\ SetRep(FALSE)
  /\ UNCHANGED cmVars
  /\ HandleUnchanged

\* cmd_scan: start_void_scan fails with the scanner busy; otherwise the
\* connection is subscribed and dispatch_cmd replies 0.
cmd_scan(c) ==
  /\ HandleConn(c, "SCAN")
  /\ \/ /\ scanstate = "SS_IDLE"
        /\ scanstate' = "SS_SCANNING"
        /\ \E ev \in ScanEvents : kq' = kq \o ev
        /\ SetRep(TRUE)
        /\ inbox' = reply(inbox, c, "OK")
     \/ /\ scanstate # "SS_IDLE"
        /\ inbox' = reply(inbox, c, "EBUSY")
        /\ UNCHANGED <<scanstate, kq, conns>>
  /\ UNCHANGED <<opermode, authstate, aps, tried, timerset, scans, nlq>>
  /\ HandleUnchanged

\* cmd_neutral: opermode becomes NEUTRAL first, whatever it was; then
\* start_disconnect, which fails with EALREADY on an idle link.
cmd_neutral(c) ==
  /\ HandleConn(c, "NEUTRAL")
  /\ opermode' = "OP_NEUTRAL"
  /\ \/ /\ CanDisconnect
        /\ kq' = StartDisconnect(kq)
        /\ SetRep(TRUE)
        /\ timerset' = FALSE
        /\ inbox' = reply(inbox, c, "OK")
     \/ /\ ~CanDisconnect
        /\ inbox' = reply(inbox, c, "EALREADY")
        /\ UNCHANGED <<kq, conns, timerset>>
  /\ UNCHANGED <<authstate, scanstate, aps, tried, scans, nlq>>
  /\ HandleUnchanged

\* Mutant: reassess_wifi_situation before reply(cn, 0).
connect_messages_reportfirst(st, c, subs) ==
  reply(send_report(inbox, subs, reassess_reports(st, c)), c, "OK")

\* What cmd_connect writes: reply(cn, 0), then whatever reassess reports
\* to the subscribers, c among them.
connect_messages(st, c, subs) ==
  send_report(reply(inbox, c, "OK"), subs, reassess_reports(st, c))

\* cmd_connect: EBUSY unless link and scanner are idle; configure_station
\* (reset_station starts a new round); ONESHOT; subscribe; reply early;
\* clr_timer; reassess_wifi_situation.
cmd_connect(c) ==
  /\ HandleConn(c, "CONNECT")
  /\ \/ /\ authstate = "AS_IDLE" /\ scanstate = "SS_IDLE"
        /\ SetRep(TRUE)
        /\ LET st == St(authstate, "OP_ONESHOT", scanstate, FALSE, aps, FALSE)
           IN /\ reassess_wifi_situation(st, kq)
              /\ inbox' = connect_messages(st, c, Subscribers(conns'))
     \/ /\ ~(authstate = "AS_IDLE" /\ scanstate = "SS_IDLE")
        /\ inbox' = reply(inbox, c, "EBUSY")
        /\ UNCHANGED <<opermode, authstate, tried, timerset, kq, conns>>
  /\ UNCHANGED <<scanstate, aps, scans, nlq>>
  /\ HandleUnchanged

\* cmd_forget: drop_psk fails (no such entry) or succeeds; on success the
\* scan entries of that SSID lose SF_PASS, which may be the usable AP.
cmd_forget(c) ==
  /\ HandleConn(c, "FORGET")
  /\ \/ /\ inbox' = reply(inbox, c, "ENOENT") /\ UNCHANGED aps
     \/ /\ inbox' = reply(inbox, c, "OK") /\ aps' \in {aps, FALSE}
  /\ UNCHANGED <<opermode, authstate, scanstate, tried, timerset, scans, kq, nlq, conns>>
  /\ HandleUnchanged

dispatch_cmd == \E c \in Clients :
  cmd_status(c) \/ cmd_scan(c) \/ cmd_neutral(c) \/ cmd_connect(c) \/ cmd_forget(c)

-----------------------------------------------------------------------------
(* check_netlink: handle_netlink reads the events the kernel has queued,   *)
(* one per step, until the socket is empty.  The handlers are those of the *)
(* connection manager (spec 4.2, 4.8), whose code is not among the sources. *)

NlStep(ev) == pc = "netlink" /\ ~chld /\ nlq # <<>> /\ Head(nlq) = ev

NlUnchanged ==
  UNCHANGED <<sigterm, ci, revents, nlrev, ctlrev, pollset, pfd, conns, nconns,
              phase, ccmd, sendq, sock, backlog, sigterms>>

Reports(ms) == inbox' = send_report(inbox, Subscribers(conns), ms)

\* TRIGGER_SCAN acknowledged: the SCANNING report.
NlTrigger ==
  /\ NlStep("TRIGGER")
  /\ nlq' = Tail(nlq)
  /\ Reports(<<Report("SCANNING", "loop")>>)
  /\ UNCHANGED <<opermode, authstate, scanstate, aps, tried, timerset, scans, kq,
                 pc, dhcpVars>>
  /\ NlUnchanged

\* The scan ends: results (which may or may not hold a usable AP) or an
\* abort; the report, then reassess_wifi_situation.
NlScanEnd(ev) ==
  /\ NlStep(ev)
  /\ ev \in {"SCAN_DONE", "SCAN_FAIL"}
  /\ scanstate' = "SS_IDLE"
  /\ aps' \in IF ev = "SCAN_DONE" THEN BOOLEAN ELSE {aps}
  /\ LET st == St(authstate, opermode, "SS_IDLE", tried, aps', timerset)
     IN /\ reassess_wifi_situation(st, kq)
        /\ Reports(<<Report(ev, "loop")>> \o reassess_reports(st, "loop"))
  /\ nlq' = Tail(nlq)
  /\ UNCHANGED <<scans, pc, dhcpVars>>
  /\ NlUnchanged

\* The association is up (and the EAPOL exchange done): CONNECTED, the
\* background scan timer, and trigger_dhcp: kill_dhcp, then fork.  The
\* pid is stored by the next step; fork failing is fatal.
NlConnect ==
  /\ NlStep("CONNECT")
  /\ authstate = "AS_CONNECTING"
  /\ nlq' = Tail(nlq)
  /\ authstate' = "AS_CONNECTED" /\ timerset' = TRUE
  /\ Reports(<<Report("CONNECTED", "loop")>>)
  /\ LET free == Pids \ (running \cup zombies)
     IN IF free = {}
          THEN pc' = "exited" /\ UNCHANGED <<running, forked>>
          ELSE \E p \in free : running' = running \cup {p} /\ forked' = p /\ pc' = "fork"
  /\ UNCHANGED <<opermode, scanstate, aps, tried, scans, kq, dhcpid, zombies, chld>>
  /\ NlUnchanged

\* trigger_dhcp, after fork returns in the parent: dhcpid = pid.
DhcpAssign ==
  /\ pc = "fork" /\ ~chld
  /\ dhcpid' = forked /\ forked' = 0 /\ pc' = "netlink"
  /\ UNCHANGED <<cmVars, running, zombies, chld, inbox>>
  /\ NlUnchanged

\* The link is gone: kill_dhcp, DISCONNECT, and either the exit that
\* xshutdown asked for or reassess_wifi_situation.
NlDisconnect ==
  /\ NlStep("DISCONNECT")
  /\ authstate # "AS_IDLE"
  /\ nlq' = Tail(nlq)
  /\ IF opermode = "OP_EXITREQ"
       THEN /\ opermode' = "OP_EXIT" /\ authstate' = "AS_IDLE"
            /\ Reports(<<Report("DISCONNECT", "loop")>>)
            /\ UNCHANGED <<tried, timerset, kq>>
       ELSE LET st == St("AS_IDLE", opermode, scanstate, tried, aps, timerset)
            IN /\ reassess_wifi_situation(st, kq)
               /\ Reports(<<Report("DISCONNECT", "loop")>> \o reassess_reports(st, "loop"))
  /\ UNCHANGED <<scanstate, aps, scans, pc, dhcpVars>>
  /\ NlUnchanged

\* An event about a link that is no longer being set up (a CONNECT or
\* DISCONNECT after abort_connection) changes nothing, except that a
\* pending exit request is completed.
NlStale ==
  /\ pc = "netlink" /\ ~chld /\ nlq # <<>>
  /\ \/ Head(nlq) = "CONNECT" /\ authstate # "AS_CONNECTING"
     \/ Head(nlq) = "DISCONNECT" /\ authstate = "AS_IDLE"
  /\ nlq' = Tail(nlq)
  /\ opermode' = IF opermode = "OP_EXITREQ" /\ Head(nlq) = "DISCONNECT"
                   THEN "OP_EXIT" ELSE opermode
  /\ UNCHANGED <<authstate, scanstate, aps, tried, timerset, scans, kq, pc, dhcpVars,
                 inbox>>
  /\ NlUnchanged

NetlinkDone ==
  /\ pc = "netlink" /\ ~chld /\ nlq = <<>>
  /\ pc' = "control"
  /\ UNCHANGED <<cmVars, sigterm, ci, revents, nlrev, ctlrev, pollset, pfd, conns,
                 nconns, dhcpVars, clientVars, sigterms>>

-----------------------------------------------------------------------------
(* check_control: handle_control accepts while accept succeeds, and then   *)
(* pollset = 0.                                                            *)

\* grab_conn_slot: the first free entry, growing nconns to cover it.
FreeSlots == {s \in Slots : conns[s].fd = NoConn}

\* Mutant: nconns counts accepted connections instead of covering the
\* highest slot in use.
AcceptConn_countaccepts ==
  /\ pc = "control" /\ ~chld /\ ctlrev /\ backlog # <<>>
  /\ LET c == Head(backlog) IN
     IF FreeSlots = {}
       THEN /\ sock' = [sock EXCEPT ![c] = "dropped"]
            /\ UNCHANGED <<conns, nconns>>
       ELSE LET s == CHOOSE s \in FreeSlots : \A t \in FreeSlots : s <= t
            IN /\ conns' = [conns EXCEPT ![s] = [fd |-> c, rep |-> FALSE]]
               /\ nconns' = nconns + 1
               /\ sock' = [sock EXCEPT ![c] = "conn"]
  /\ backlog' = Tail(backlog)
  /\ UNCHANGED <<cmVars, sigterm, pc, ci, revents, nlrev, ctlrev, pollset, pfd,
                 dhcpVars, phase, ccmd, sendq, inbox, sigterms>>

AcceptConn ==
  /\ pc = "control" /\ ~chld /\ ctlrev /\ backlog # <<>>
  /\ LET c == Head(backlog) IN
     IF FreeSlots = {}
       THEN /\ sock' = [sock EXCEPT ![c] = "dropped"]
            /\ UNCHANGED <<conns, nconns>>
       ELSE LET s == CHOOSE s \in FreeSlots : \A t \in FreeSlots : s <= t
            IN /\ conns' = [conns EXCEPT ![s] = [fd |-> c, rep |-> FALSE]]
               /\ nconns' = IF s >= nconns THEN s + 1 ELSE nconns
               /\ sock' = [sock EXCEPT ![c] = "conn"]
  /\ backlog' = Tail(backlog)
  /\ UNCHANGED <<cmVars, sigterm, pc, ci, revents, nlrev, ctlrev, pollset, pfd,
                 dhcpVars, phase, ccmd, sendq, inbox, sigterms>>

\* Mutant: check_control leaves pollset alone.
ControlDone_keeppollset ==
  /\ pc = "control" /\ ~chld /\ (~ctlrev \/ backlog = <<>>)
  /\ pc' = "post"
  /\ ci' = 0 /\ revents' = [s \in Slots |-> {}] /\ nlrev' = FALSE /\ ctlrev' = FALSE
  /\ UNCHANGED <<cmVars, sigterm, pollset, pfd, conns, nconns, dhcpVars, clientVars,
                 sigterms>>

\* The end of check_polled_fds; the revents of this round are not read
\* again and are cleared here.
ControlDone ==
  /\ pc = "control" /\ ~chld /\ (~ctlrev \/ backlog = <<>>)
  /\ pollset' = FALSE
  /\ pc' = "post"
  /\ ci' = 0 /\ revents' = [s \in Slots |-> {}] /\ nlrev' = FALSE /\ ctlrev' = FALSE
  /\ UNCHANGED <<cmVars, sigterm, pfd, conns, nconns, dhcpVars, clientVars,
                 sigterms>>

\* if(sigterm) xshutdown(): a second request quits at once; an idle link
\* exits; otherwise start_disconnect and wait for it in EXITREQ.
Post ==
  /\ pc = "post" /\ ~chld
  /\ sigterm' = FALSE
  /\ IF ~sigterm
       THEN pc' = "save" /\ UNCHANGED <<opermode, kq>>
     ELSE IF opermode \in {"OP_EXIT", "OP_EXITREQ"}
       THEN pc' = "exited" /\ UNCHANGED <<opermode, kq>>
     ELSE /\ pc' = "save"
          /\ IF CanDisconnect
               THEN opermode' = "OP_EXITREQ" /\ kq' = StartDisconnect(kq)
               ELSE opermode' = "OP_EXIT" /\ UNCHANGED kq
  /\ UNCHANGED <<authstate, scanstate, aps, tried, timerset, scans, nlq, ci, revents,
                 nlrev, ctlrev, pollset, pfd, conns, nconns, dhcpVars, clientVars,
                 sigterms>>

\* The kernel sends its next answer to the netlink socket.  An answer that
\* comes while the loop is busy elsewhere is seen by the next ppoll, just
\* as one that comes during ppoll, so answers are delivered during ppoll.
KernelSends ==
  /\ kq # <<>> /\ pc = "poll"
  /\ nlq' = Append(nlq, Head(kq)) /\ kq' = Tail(kq)
  /\ UNCHANGED <<opermode, authstate, scanstate, aps, tried, timerset, scans,
                 loopVars, dhcpVars, clientVars, sigterms>>

-----------------------------------------------------------------------------
(* Signals and the DHCP child.  No signal is blocked, so a handler runs as *)
(* soon as the signal arrives; a signal that arrives in ppoll makes it     *)
(* return EINTR, and the loop goes on to the sigterm test.                 *)

Interrupted == IF pc = "poll" THEN "post" ELSE pc

\* sighandler on SIGINT or SIGTERM: sigterm = 1.  Only the test before
\* save_config reads sigterm, so a SIGTERM anywhere from ppoll to that test
\* acts as one at the test; the signal comes in ppoll, at the test, or
\* between the test and the next ppoll.
SigTerm ==
  /\ pc \in {"poll", "post", "save"} /\ sigterms < MaxSigterms
  /\ sigterms' = sigterms + 1
  /\ sigterm' = TRUE /\ pc' = Interrupted
  /\ UNCHANGED <<cmVars, ci, revents, nlrev, ctlrev, pollset, pfd, conns, nconns,
                 dhcpVars, clientVars>>

\* A DHCP child exits (exec of the relative path "dhcp" failing, a
\* SIGTERM from kill_dhcp, or any other end): a zombie and a SIGCHLD.
\* Pending SIGCHLDs are not queued: a second one merges with the first.
\* The handler reads dhcpid, which only the fork window changes, so a child
\* exits in ppoll or in that window.
ChildExit(p) ==
  /\ p \in running /\ pc \in {"poll", "fork"}
  /\ running' = running \ {p} /\ zombies' = zombies \cup {p}
  /\ chld' = TRUE
  /\ UNCHANGED <<daemonVars, dhcpid, forked, clientVars, sigterms>>

\* sighandler on SIGCHLD: reap_dhcp, one waitpid(-1, WNOHANG), which reaps
\* any one zombie; only the pid in dhcpid clears it.  A SIGCHLD is only
\* raised by a child's exit, so waitpid never returns 0 here.
reap_dhcp ==
  /\ chld
  /\ chld' = FALSE
  /\ \E z \in zombies :
       /\ zombies' = zombies \ {z}
       /\ dhcpid' = IF z = dhcpid THEN 0 ELSE dhcpid
  /\ pc' = Interrupted
  /\ UNCHANGED <<cmVars, sigterm, ci, revents, nlrev, ctlrev, pollset, pfd, conns,
                 nconns, running, forked, clientVars, sigterms>>

-----------------------------------------------------------------------------
(* The wifi client (wifi.c, wifi_wire.c): connect, write one command, read *)
(* replies with send_recv_msg, which skips reports until the reply, then   *)
(* wait for the reports the command is about.  A client that finishes     *)
(* exits, closing its socket.  The loop sees what a client does only      *)
(* through ppoll's revents and the reads of its handlers, so a client step *)
(* taken while the loop is busy acts as one taken at the next ppoll:      *)
(* clients act while the loop waits in ppoll, or after it has exited.     *)

Waiting == pc \in {"poll", "exited"}

Finish(c) ==
  /\ phase' = [phase EXCEPT ![c] = "done"]
  /\ sock' = [sock EXCEPT ![c] = IF @ \in {"pending", "conn"} THEN "closed" ELSE @]

\* connect_wictl and the write of the command.
ClientStart(c) ==
  /\ phase[c] = "idle" /\ pc = "poll"
  /\ \E cmd \in ClientCmds :
       /\ ccmd' = [ccmd EXCEPT ![c] = cmd]
       /\ sendq' = [sendq EXCEPT ![c] = <<cmd>>]
  /\ backlog' = Append(backlog, c)
  /\ sock' = [sock EXCEPT ![c] = "pending"]
  /\ phase' = [phase EXCEPT ![c] = "sent"]
  /\ UNCHANGED <<daemonVars, dhcpVars, inbox, sigterms>>

\* What a client does with the reply to its command.
AfterReply(c, err) ==
  IF err # "OK" \/ ccmd[c] \in {"STATUS", "FORGET"}
    THEN Finish(c)
    ELSE phase' = [phase EXCEPT ![c] = "wait"] /\ UNCHANGED sock

\* The reports that end the wait: cmd_scan, cmd_neutral, wait_for_connect.
Ends == [SCAN |-> {"SCAN_FAIL"}, NEUTRAL |-> {"DISCONNECT"},
         CONNECT |-> {"CONNECTED", "NO_CONNECT"}]

ClientRecv(c) ==
  /\ Waiting /\ inbox[c] # <<>> /\ phase[c] \in {"sent", "wait"}
  /\ LET m == Head(inbox[c]) IN
     \/ /\ phase[c] = "sent" /\ m.kind = "reply"
        /\ AfterReply(c, m.rep) /\ UNCHANGED <<ccmd, sendq>>
     \/ /\ phase[c] = "wait" /\ m.kind = "report" /\ m.rep \in Ends[ccmd[c]]
        /\ Finish(c) /\ UNCHANGED <<ccmd, sendq>>
     \/ /\ phase[c] = "wait" /\ ccmd[c] = "SCAN" /\ m.rep = "SCAN_DONE"
        /\ ccmd' = [ccmd EXCEPT ![c] = "STATUS"]
        /\ sendq' = [sendq EXCEPT ![c] = Append(@, "STATUS")]
        /\ phase' = [phase EXCEPT ![c] = "sent"]
        /\ UNCHANGED sock
     \/ /\ \/ phase[c] = "sent" /\ m.kind = "report"
           \/ phase[c] = "wait" /\ m.kind = "report"
              /\ m.rep \notin Ends[ccmd[c]] \cup {"SCAN_DONE"}
        /\ UNCHANGED <<phase, ccmd, sendq, sock>>
  /\ inbox' = [inbox EXCEPT ![c] = IF phase'[c] = "done" THEN <<>> ELSE Tail(@)]
  /\ UNCHANGED <<daemonVars, dhcpVars, backlog, sigterms>>

\* recv returns end of file: the daemon closed the connection (no free
\* slot) or exited.  The client fails with "connection lost".
ClientEOF(c) ==
  /\ Waiting /\ phase[c] \in {"sent", "wait"} /\ inbox[c] = <<>>
  /\ \/ sock[c] = "dropped"
     \/ pc = "exited" /\ sock[c] \in {"pending", "conn"}
  /\ Finish(c)
  /\ UNCHANGED <<daemonVars, dhcpVars, ccmd, sendq, inbox, backlog, sigterms>>

-----------------------------------------------------------------------------
Init ==
  /\ opermode = "OP_NEUTRAL" /\ authstate = "AS_IDLE"
  /\ scanstate = "SS_SCANNING" /\ scans = 1 /\ kq \in ScanEvents /\ nlq = <<>>
  /\ aps = FALSE /\ tried = FALSE /\ timerset = FALSE /\ sigterm = FALSE
  /\ pc = "save" /\ ci = 0 /\ revents = [s \in Slots |-> {}]
  /\ nlrev = FALSE /\ ctlrev = FALSE
  /\ pollset = FALSE /\ pfd = [s \in Slots |-> NoConn]
  /\ conns = [s \in Slots |-> EmptyConn] /\ nconns = 0
  /\ dhcpid = 0 /\ running = {} /\ zombies = {} /\ chld = FALSE /\ forked = 0
  /\ phase = [c \in Clients |-> "idle"] /\ ccmd = [c \in Clients |-> "none"]
  /\ sendq = [c \in Clients |-> <<>>] /\ inbox = [c \in Clients |-> <<>>]
  /\ sock = [c \in Clients |-> "none"] /\ backlog = <<>>
  /\ sigterms = 0

\* The steps of the main loop.
Loop ==
  \/ SaveAndLoop \/ PollReady \/ TimerExpired
  \/ ConnSkip \/ ConnClose \/ dispatch_cmd \/ ConnsDone
  \/ NlTrigger \/ NlScanEnd("SCAN_DONE") \/ NlScanEnd("SCAN_FAIL")
  \/ NlConnect \/ DhcpAssign \/ NlDisconnect \/ NlStale \/ NetlinkDone
  \/ AcceptConn \/ ControlDone \/ Post

Environment ==
  \/ KernelSends \/ SigTerm \/ reap_dhcp \/ \E p \in Pids : ChildExit(p)
  \/ \E c \in Clients : ClientStart(c) \/ ClientRecv(c) \/ ClientEOF(c)

Next == Loop \/ Environment

\* The loop runs whenever it can (its only wait is ppoll, and the timer
\* expires once time passes); a pending signal is delivered; a client
\* reads what it has been sent.  Signals, child exits and new clients are
\* the environment's choice.
Fairness ==
  /\ WF_vars(Loop) /\ WF_vars(reap_dhcp) /\ WF_vars(KernelSends)
  /\ \A c \in Clients : WF_vars(ClientRecv(c) \/ ClientEOF(c))

Spec == Init /\ [][Next]_vars /\ Fairness

-----------------------------------------------------------------------------
(* Properties.                                                             *)

Cause == Clients \cup {"loop"}
NlEvents == {"TRIGGER", "SCAN_DONE", "SCAN_FAIL", "CONNECT", "DISCONNECT"}
Msgs == [kind : {"reply"}, rep : {"OK", "EBUSY", "EALREADY", "ENOENT"}, cause : Cause]
        \cup [kind : {"report"}, rep : {"SCANNING", "SCAN_DONE", "SCAN_FAIL",
              "CONNECTED", "DISCONNECT", "NO_CONNECT"}, cause : Cause]

TypeOK ==
  /\ opermode \in {"OP_NEUTRAL", "OP_ONESHOT", "OP_EXITREQ", "OP_EXIT"}
  /\ authstate \in {"AS_IDLE", "AS_CONNECTING", "AS_CONNECTED"}
  /\ scanstate \in {"SS_IDLE", "SS_SCANNING"}
  /\ aps \in BOOLEAN /\ tried \in BOOLEAN /\ timerset \in BOOLEAN
  /\ sigterm \in BOOLEAN /\ scans \in 0..MaxScans
  /\ pc \in {"save", "poll", "conns", "netlink", "fork", "control", "post", "exited"}
  /\ ci \in 0..NCONNS /\ nconns \in 0..NCONNS
  /\ revents \in [Slots -> SUBSET {"in", "hup"}]
  /\ pollset \in BOOLEAN /\ pfd \in [Slots -> Clients \cup {NoConn}]
  /\ conns \in [Slots -> [fd : Clients \cup {NoConn}, rep : BOOLEAN]]
  /\ kq \in Seq(NlEvents) /\ nlq \in Seq(NlEvents)
  /\ dhcpid \in Pids \cup {0} /\ forked \in Pids \cup {0}
  /\ running \subseteq Pids /\ zombies \subseteq Pids /\ running \cap zombies = {}
  /\ phase \in [Clients -> {"idle", "sent", "wait", "done"}]
  /\ sock \in [Clients -> {"none", "pending", "conn", "closed", "dropped"}]
  /\ \A c \in Clients : inbox[c] \in Seq(Msgs) /\ Len(sendq[c]) <= 1
  /\ sigterms \in 0..MaxSigterms

\* The comment above cmd_connect: the reply to a command precedes every
\* report the command causes.  send_recv_msg in the client skips reports
\* until the reply, so a NO_CONNECT written before the reply would be
\* lost and wait_for_connect would wait for ever.
ReplyFirst ==
  \A c \in Clients : phase[c] = "sent" =>
    \A i \in DOMAIN inbox[c] :
      inbox[c][i].kind = "report" /\ inbox[c][i].cause = c =>
        \E j \in 1..i - 1 : inbox[c][j].kind = "reply"

\* Every command a client writes is answered, or the client learns that
\* the daemon dropped it: the accept loop in handle_control, the conns
\* slots in update_pollfds and pollset, and check_conn must between them
\* get every written command to dispatch_cmd.
ReplyArrives ==
  \A c \in Clients : phase[c] = "sent" ~> phase[c] # "sent"

\* Spec 5: on SIGTERM the daemon initiates a disconnect and exits.  Once
\* sighandler has set sigterm the loop reaches xshutdown and, after the
\* disconnect, leaves the main loop.
ShutdownCompletes ==
  sigterms > 0 ~> pc = "exited"

\* Spec 5: a SIGTERM with the link up moves opermode to EXITREQ, and the
\* daemon exits once the link is down.  No step takes opermode from
\* EXITREQ anywhere but EXIT.
ExitRequestKept ==
  [][opermode = "OP_EXITREQ" => opermode' \in {"OP_EXITREQ", "OP_EXIT"}]_vars

\* Spec 4.8: the daemon remembers the pid of its DHCP child; kill_dhcp
\* sends SIGTERM to dhcpid.  A non-zero dhcpid names a child of ours, live
\* or not yet reaped, never a pid the kernel may have handed to another
\* process.
DhcpPidLive ==
  dhcpid # 0 => dhcpid \in running \cup zombies
====
